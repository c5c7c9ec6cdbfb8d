SPECIFICATION FairSpec
CONSTANTS
  MaxPlanningSteps = 2
  RecursionLimit = 5
  Placements = 2
  MaxTransfers = 1
  Actions = {act1}
  Finish = Finish
  NoParent = NoParent
  NoResult = NoResult
PROPERTIES RunEnds
CHECK_DEADLOCK FALSE
