SPECIFICATION Spec
CONSTANTS
  MaxPlanningSteps = 2
  RecursionLimit = 10
  Placements = 1
  MaxTransfers = 1
  Actions = {act1, act2}
  Finish = Finish
  NoParent = NoParent
  NoResult = NoResult
INVARIANTS TypeOK ObservationsMatchDecisions BudgetIsExact SnapshotIsFresh
  EngineLimitIsHarmless ResultMatchesTrace
PROPERTIES ImplementsRunRecord
SYMMETRY Symmetry
CHECK_DEADLOCK FALSE
