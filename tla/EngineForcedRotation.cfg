SPECIFICATION MCSpec
CONSTANTS
  None = None
  Bitrate = {64, 96}
  Folder = {"home", "card"}
  StorageFault = {"unsafe"}
  MaxCommands = 4
  MaxBranch = 3
  Scenarios <- NoScenarios
  EngineScenarios <- OneRotation
VIEW View
CHECK_DEADLOCK FALSE
PROPERTIES
  ForcedRotationsSaySo
