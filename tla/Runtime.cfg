SPECIFICATION MCSpec
CONSTANTS
  None = None
  Bitrate = {64, 96}
  Folder = {"home", "card"}
  StorageFault = {"unsafe"}
  MaxCommands = 4
  MaxBranch = 3
  Scenarios <- ServiceScenarios
  EngineScenarios <- Drills
VIEW View
CHECK_DEADLOCK FALSE
INVARIANTS
  StreamAgrees
  ServiceAgrees
  WritersListed
  ShutdownInTurn
  EngineConsistent
PROPERTIES
  ReducerSpec
  StoppedAfterLastFragment
  RemovedOnce
  StopAnsweredOnce
  CleanFragmentsSawEos
