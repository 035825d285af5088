CONSTANTS
  Latches <- MCLatches
  Uncontrollable <- MCInputs
  NumC = 2
  Games <- MCGames
  StopKinds = {"DEADLINE"}
SPECIFICATION FairLoopSpec
INVARIANTS VerdictSound SubstitutionCovers FailureReport
PROPERTIES Promise Terminates
CHECK_DEADLOCK FALSE
