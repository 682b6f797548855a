SPECIFICATION ScheduleSpec
CONSTANTS
  DAYS = 3
  HOURS = 2
  MINS = 2
  SECS = 3
  MAX_SCHEDULE_ENTRIES = 4
  SampleEntries <- MCEntries
  MaxDrift = 2
  DeleteEntries <- MCDeleteEntries
  Hours = {1}
  DaySets <- MCDaySets
  MaxEdits = 5
  MaxHasty = 3
INVARIANTS
  ComputesDeleted
  ComputesNearest
  NeverEarly
  OffWithinADay
  ListAgrees
  EntriesListed
  DaysAsPicked
CHECK_DEADLOCK FALSE
