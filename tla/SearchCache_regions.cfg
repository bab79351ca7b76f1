CONSTANTS
  Listings = {"near", "far"}
  SiteOf <- MCSiteOf
  PlaceOf <- MCPlaceOf
  Sites = {"karrot", "bungae"}
  Regions = {"jeju", "seoul"}
  Unknown = {"moon"}
  Keywords <- MCKeywords
  Searches = {"s1", "s2"}
  Size = 2
SPECIFICATION Spec
PROPERTY CacheIsNationwide
CHECK_DEADLOCK FALSE
