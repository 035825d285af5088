CONSTANTS
  State <- MCState
  NumU = 1
  NumC = 1
  Games <- MCGames
  StopKinds = {"DEADLINE"}
  Requests <- MCRequests
SPECIFICATION FairSpec
INVARIANTS VerdictSound FailClosed
PROPERTIES Terminates
CHECK_DEADLOCK FALSE
