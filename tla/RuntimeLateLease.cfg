SPECIFICATION MCSpec
CONSTANTS
  None = None
  Bitrate = {64, 96}
  Folder = {"home", "card"}
  StorageFault = {"unsafe"}
  MaxCommands = 4
  MaxBranch = 3
  Scenarios <- LateLeaseScenario
  EngineScenarios <- NoScenarios
VIEW View
CHECK_DEADLOCK FALSE
INVARIANTS
  StopHasAnEnd
