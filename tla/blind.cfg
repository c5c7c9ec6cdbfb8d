SPECIFICATION Spec
CONSTANTS
  Tasks <- MCTasks
  Worlds <- MCWorlds
  Bindings = {"here", "there"}
  Catalog = {"read_artifact", "invoke_model"}
  Outputs = {"x", "y"}
  Texts = {"A", "A."}
  Steps = 2
  None = None
INVARIANTS
  RunsAreBlind
CHECK_DEADLOCK FALSE
