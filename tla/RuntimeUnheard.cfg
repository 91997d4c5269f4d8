SPECIFICATION MCSpec
CONSTANTS
  None = None
  Bitrate = {64, 96}
  Folder = {"home", "card"}
  StorageFault = {"unsafe"}
  MaxCommands = 4
  MaxBranch = 3
  Scenarios <- LeaseScenario
  EngineScenarios <- NoScenarios
VIEW View
CHECK_DEADLOCK FALSE
INVARIANTS
  SpectrumLeased
