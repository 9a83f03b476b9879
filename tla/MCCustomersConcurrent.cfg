SPECIFICATION Spec
CONSTANTS
  e1 = e1
  e2 = e2
  Calls = {1, 3, 5}
  Emails = {e1, e2}
  Seeds <- MCSeeds
  PageSize = 1
  Faults = TRUE
  Aborts = TRUE
INVARIANTS
  EmailsDistinct
  EditsKept
  WalkExact
