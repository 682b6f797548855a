SPECIFICATION FairSpec
CONSTANTS
  DAYS = 2
  HOURS = 2
  MINS = 2
  SECS = 2
  MAX_SCHEDULE_ENTRIES = 2
  Requests <- MCRequests
  RecvMayFail = FALSE
INVARIANTS
  SemaphoreReleased
  ArmedForTheEvent
  StartArmed
PROPERTIES
  PostAnswered
  WakeupHappens
