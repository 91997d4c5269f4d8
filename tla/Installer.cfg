SPECIFICATION Spec
CONSTANTS
  None = None
  mine = mine
  Example = example
  Config = {example, mine}
  Operator = {"one", "other"}
  Artifact <- Artifacts
  Scenarios <- InstallerScenarios
CHECK_DEADLOCK FALSE
INVARIANTS
  DiskSound
  CompleteUnlessUndone
  InterruptedCanResume
PROPERTIES
  ConfigKept
  RegistrationStaysClosed
  StoppedBeforeRemoval
