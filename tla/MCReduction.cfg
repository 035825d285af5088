CONSTANTS
  Letters <- MCLetters
  Requests <- MCRequests
  StopKinds = {"DEADLINE"}
  WordMax = 63
SPECIFICATION PlaySpec
INVARIANTS FailsClean
PROPERTIES ObjectivePreserved
CHECK_DEADLOCK FALSE
