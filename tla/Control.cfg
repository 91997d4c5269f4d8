SPECIFICATION Spec
CONSTANTS
  Fragments = 2
  None = None
  Client = {c1, c2}
  Bitrate = {1, 2}
  FilesMax = 2
  ChecksMax = 1
  Directory <- MCDirectory
  Base <- MCBase
  Secret <- MCSecret
  Scenarios <- MCScenarios
CHECK_DEADLOCK FALSE
INVARIANTS PlaneConsistent SourceStands PowerAfterClean FoundRecordingKept
PROPERTIES
  RegisterSpec
  SettingsLeftAlone
  WritingKept
