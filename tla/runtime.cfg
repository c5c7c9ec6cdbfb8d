SPECIFICATION JointSpec
CONSTANTS
  Workers = {1, 2}
  Ids = {"doc", "out"}
  Nested = {}
  Contents = {"old", "new"}
  Actions = {"filter", "clip"}
  Awaits <- MCAwaits
  InputsOf <- MCInputsOf
  WritesOf <- ReusedWritesOf
  Slots = {s1, s2, s3}
  Missing = Missing
  Split = Split
  Free = Free
  Tasks <- ReusedTasks
  MaxRuns = 2
  MaxActions = 2
  Unprobed = Unprobed
  Unreachable = Unreachable
  NoRequest = NoRequest
  NoJob = NoJob
INVARIANTS TypeOK InputsAreFaithful SnapshotHolds ToldIsObserved EvidenceIsConsistent
SYMMETRY Symmetry
CHECK_DEADLOCK FALSE
