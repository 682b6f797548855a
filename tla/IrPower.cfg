SPECIFICATION FairSpec
CONSTANTS
  Commands <- MCCommands
INVARIANTS SettingsReachAc StateTracked
PROPERTIES EventTakesEffect TransmissionsEnd
CHECK_DEADLOCK FALSE
