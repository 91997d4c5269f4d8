SPECIFICATION Spec
CONSTANTS
  None = None
  mine = mine
  Example = example
  Config = {example, mine}
  Operator = {"one", "other"}
  Artifact <- Artifacts
  Scenarios <- RollbackScenario
CHECK_DEADLOCK FALSE
INVARIANTS
  CompleteIsWhole
