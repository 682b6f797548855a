SPECIFICATION Spec
CONSTANTS
  Package <- MCPackage
  Sizes <- MCSizes
  PageLimit = 5
  ServerLimit = 3
  MaxTries = 3
  Broken = {"closed", "reset", "silent"}
PROPERTY RetriedOnTimeout
CHECK_DEADLOCK FALSE
