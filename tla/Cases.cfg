SPECIFICATION CasesSpec
CONSTANTS
  Listings = {l1, l2}
  Ids = {i1, i2}
  Runs = {r1}
  Calls = {c1}
  Decisions = {d1}
  Histories = {"first", "second"}
  Representative = "first"
  Crawled = {"second"}
  Similarities = {75}
  AiScores = {30, 90}
  ExcludeBelow = 40
  WatchFrom = 70
  Batch = 2
  MaxFaults = 1
  Shown = {"one", "two"}
  None = "none"
  Slots = 2
  MaxClicks = 3
  MaxFailures = 1
  Starts = {"none", "Completed"}
SYMMETRY Symmetry
INVARIANTS StagesInOrder NumbersWithoutGap RunCovers ReportedInFull DrawerTells
PROPERTIES RefusedOnlyLate
CHECK_DEADLOCK FALSE
