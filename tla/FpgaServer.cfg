SPECIFICATION FairSpec
CONSTANTS
  REGISTERS = 43
  Clients = {"c1"}
  DHCP_TRIES = 2
  DHCP_COARSE = 2
  RESET_RX_CNTR_LIMIT = 4
  LED_COUNT = 2
  TCP_WND = 2
  TCP_SND_BUF = 2
  HEAP = 3
  Burst = 2
INVARIANTS AddressSettled HangsOnlyAfterLeaks
PROPERTIES BringUpEnds EchoArrives
CHECK_DEADLOCK FALSE
