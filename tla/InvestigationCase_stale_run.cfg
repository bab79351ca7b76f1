SPECIFICATION Spec
CONSTANTS
  Listings = {l1}
  Ids = {i1, i2}
  Runs = {r1, r2}
  Calls = {c1}
  Decisions = {d1}
PROPERTY HumanStatusKept
