CONSTANTS
  Keywords = {k1}
  Handlers = {h1}
  Resenders = {}
  Outcomes = {"ok"}
  MaxFaults = 0
  MaxRuns = 1
SPECIFICATION Spec
PROPERTY EndedStaysEnded
CHECK_DEADLOCK FALSE
