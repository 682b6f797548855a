SPECIFICATION Spec
CONSTANTS
  DAYS = 1
  HOURS = 2
  MINS = 2
  SECS = 1
  MAX_SCHEDULE_ENTRIES = 2
  Requests <- MCAllRequests
  RecvMayFail = TRUE
INVARIANTS
  RequestIntact
PROPERTIES
  TableStable
  RejectedEditHidden
  StaysListed
  ServiceSpec
