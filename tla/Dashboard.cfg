CONSTANTS
 Searches = {a, b}
 None = none
 Slots = 2
 MaxClicks = 2
 MaxFaults = 1
 MaxWire = 1
 MaxTimers = 1
 Texts = {"one", "two", " "}
 Blank = " "
 Saves = {1, 2}
 MaxTyped = 5
 MaxUnsaved = 2
 MaxActs = 2
SPECIFICATION FairSpec
INVARIANTS Watched SavedIsStored ShowsSelected
PROPERTIES ScreensSettle
CHECK_DEADLOCK FALSE
