SPECIFICATION ScenarioSpec
CONSTANTS
  Revision = {1}
  File = {1, 2}
  None = None
  Bitrate = {64, 128}
  StorageFault = {"unsafe", "unavailable"}
  MaxCapture = 2
  MaxStream = 2
  MaxRecording = 2
  MaxReconnect = 6
  Scenarios <- StateScenarios
INVARIANTS
  StateCoherent
  BranchesHoldTheirSource
  DuplicatesHarmless
PROPERTIES
  StopsAreRequested
  ShutdownInOrder
  GenerationsNameOneBranch
  RetryTimerFollowsWait
  ShutdownCompletes
