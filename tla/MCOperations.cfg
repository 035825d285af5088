CONSTANTS
  StopKinds = {"DEADLINE", "CANCELLED"}
  PressureGc = TRUE
  NodeCap = 200
  Threshold = 80
  ShortWait = 2
  LongWait = 3
  Needs <- MCNeeds
  Phases = {"construction", "fixpoint"}
  MaxOps = 6
  MaxGc = 3
  NumLeaves = 2
  Circuits <- MCCircuits
  BuildStops = {"CANCELLED"}
SPECIFICATION LevelSpec
INVARIANTS OperandsHeld HandlesCorrect
PROPERTIES GenuineExhaustion PressureSpacing Promise
CHECK_DEADLOCK FALSE
