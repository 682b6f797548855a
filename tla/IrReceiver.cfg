SPECIFICATION FairSpec
CONSTANTS
  ESP_MAXIMUM_RETRY = 0
  MaxOutage = 0
  Commands <- MCCommands
  Settings <- MCSettings
  OtherRemote <- MCOtherRemote
  StackBits = {1}
  HEAP = 3
INVARIANTS NoCrashUnprovoked DecodedIsComplement
PROPERTIES FreshDecode CommandsConsumed
CHECK_DEADLOCK FALSE
