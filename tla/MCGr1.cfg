CONSTANTS
  State <- MCState
  NumU = 1
  NumC = 1
  Games <- MCGames
  StopKinds = {"DEADLINE"}
  Options <- MCOptions
SPECIFICATION LoopSpec
INVARIANTS DualIsComplement HonestReport Certified StrategySafe
PROPERTIES WinnerWins Terminates
CHECK_DEADLOCK FALSE
