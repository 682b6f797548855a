SPECIFICATION FairSpec
CONSTANTS
  ESP_MAXIMUM_RETRY = 5
  MaxOutage = 7
INVARIANTS NeverStranded
PROPERTIES Reconnects
CHECK_DEADLOCK FALSE
