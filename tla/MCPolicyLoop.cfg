CONSTANTS
  State <- MCState
  NumU = 1
  NumC = 1
  Games <- MCGames
  Candidates <- MCCandidates
SPECIFICATION FairSpec
INVARIANTS RegionKept
PROPERTIES RanksDescend AcceptedWins
CHECK_DEADLOCK FALSE
