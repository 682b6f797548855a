SPECIFICATION ClientsSpec
CONSTANTS
  DirectWords = {"POWER"}
  CountedWords = {"TEMP_UP", "TEMP_DOWN"}
  Servers <- MCServers
  MaxTaps = 3
  MaxResends = 1
  Package <- MCPackage
  Sizes <- MCSizes
  PageLimit = 5
  ServerLimit = 3
  MaxTries = 3
  Broken = {"closed", "reset", "silent"}
INVARIANTS
  AppliedAtMostOnce
  SuccessMeansReceived
  NoHalfReceived
PROPERTIES
  EventuallyAgrees
  UploadEnds
CHECK_DEADLOCK FALSE
