SPECIFICATION JointSpec
CONSTANTS
  Workers = {1, 2}
  Ids = {"video", "frames/1", "sheet"}
  Nested = {"frames/1"}
  Contents = {"old", "new"}
  Actions = {"sample", "sheet"}
  Awaits <- FrameAwaits
  InputsOf <- FrameInputsOf
  WritesOf <- FrameWritesOf
  Slots = {s1, s2}
  Missing = Missing
  Split = Split
  Free = Free
  Tasks <- FrameTasks
  MaxRuns = 1
  MaxActions = 2
  Unprobed = Unprobed
  Unreachable = Unreachable
  NoRequest = NoRequest
  NoJob = NoJob
INVARIANTS ListedCanBePulled
SYMMETRY Symmetry
CHECK_DEADLOCK FALSE
