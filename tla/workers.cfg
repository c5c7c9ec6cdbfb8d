SPECIFICATION Spec
CONSTANTS
  Workers = {w1, w2}
  Ids = {"doc", "frames/1"}
  Nested = {"frames/1"}
  Contents = {"old", "new"}
  Actions = {"filter", "sample"}
  Awaits <- MCAwaits
  InputsOf <- MCInputsOf
  WritesOf <- MCWritesOf
  Slots = {s1, s2}
  Missing = Missing
  Split = Split
  Free = Free
INVARIANTS InFlightIsExact AnswersAreTrue
PROPERTIES StoresAreWriteOnce
SYMMETRY Symmetry
CHECK_DEADLOCK FALSE
