CONSTANTS
  Keywords = {k1, k2}
  Handlers = {h1}
  Resenders = {}
  Outcomes = {"ok"}
  MaxFaults = 0
  MaxRuns = 1
  Searches = {s1, s2}
  Sites = 2
  Urls = {u1}
  SiteOf <- MCSiteOf
  MaxIds = 2
  MaxAgain = 1
SPECIFICATION SearchingSpec
SYMMETRY Symmetry
CONSTRAINT UntilOverlap
INVARIANT VerdictSound
INVARIANT EndedByVerdict
INVARIANT CallbackAtMostOnce
 
INVARIANT NoOrphans
PROPERTY OneRepresentative
CHECK_DEADLOCK FALSE
