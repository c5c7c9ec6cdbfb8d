SPECIFICATION FairJointSpec
CONSTANTS
  Workers = {1, 2}
  Ids = {"doc", "out", "clip"}
  Nested = {}
  Contents = {"old", "new"}
  Actions = {"filter", "clip"}
  Awaits <- MCAwaits
  InputsOf <- MCInputsOf
  WritesOf <- SingleWritesOf
  Slots = {s1, s2}
  Missing = Missing
  Split = Split
  Free = Free
  Tasks <- SingleTasks
  MaxRuns = 2
  MaxActions = 2
  Unprobed = Unprobed
  Unreachable = Unreachable
  NoRequest = NoRequest
  NoJob = NoJob
INVARIANTS RepeatsAreHarmless
PROPERTIES RunsEnd
CHECK_DEADLOCK FALSE
