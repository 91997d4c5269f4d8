SPECIFICATION FairSpec
CONSTANTS
  Control = {c1, c2}
  Owner = owner
  None = None
  MaxWork = 3
  MaxCalls = 2
INVARIANTS
  SettingsAgree
PROPERTIES
  FinishedInOrder
  EveryCommandAnswered
