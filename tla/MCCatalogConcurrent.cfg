SPECIFICATION Spec
CONSTANTS
  Calls = {1, 3, 5}
  Seeds = {8}
  SeedPlans <- MCSeedPlans
  ListLimit = 1
  PageSize = 1
  Aborts = TRUE
INVARIANTS
  ArchivedIsSealed
  ReopenedOnlyByOverlap
  EditsSurvive
  WalkExact
