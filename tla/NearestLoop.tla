---------------------------- MODULE NearestLoop ----------------------------
(***************************************************************************)
(* delay_to_nearest_schedule_ms with no schedule active, one probe of an   *)
(* entry on a day per step, while the clock goes on.                       *)
(*                                                                         *)
(* The function keeps a pointer to the struct tm that localtime() fills.    *)
(* calc_delay_to_event_ms calls localtime() again for the seconds, and the  *)
(* library has one struct tm per task, so every probe refreshes the weekday *)
(* and the minute the NEXT probe will use: a probe takes its minutes from   *)
(* the previous clock reading and its seconds from a new one.               *)
(***************************************************************************)
EXTENDS ScheduleTable

CONSTANTS SampleEntries,    \* the entries a table is filled with
          MaxDrift          \* bound: how far the clock goes during the search

ASSUME SampleAssumption ==
  SampleEntries \subseteq Entry /\ MaxDrift \in Nat

NoDelay == WEEK + 1         \* INT32_MAX: larger than any delay

VARIABLES table, start,     \* entries, and the clock at the call (history)
          drift,            \* how far the clock has gone since
          now_tm,           \* the instant the shared struct tm shows
          slot, days_checked, wday,
          time_delay, nearest_sched_index, nearest_sched_wday,
          off_day,          \* turn_off_day, where the search leaves its result
          search_pc

search_vars == <<table, start, drift, now_tm, slot, days_checked, wday,
                 time_delay, nearest_sched_index, nearest_sched_wday,
                 off_day, search_pc>>

Clock == (start + drift) % WEEK

SearchInit ==
  /\ table \in [Slots -> SampleEntries]
  /\ start \in Instants
  /\ drift = 0
  /\ now_tm = start
  /\ slot = 0 /\ days_checked = 0 /\ wday = Wday(start)
  /\ time_delay = NoDelay
  /\ nearest_sched_index = -1 /\ nearest_sched_wday = -1
  /\ off_day = 0
  /\ search_pc = "entry"

ClockTick ==
  /\ drift < MaxDrift
  /\ search_pc # "done"
  /\ drift' = drift + 1
  /\ UNCHANGED <<table, start, now_tm, slot, days_checked, wday, time_delay,
                 nearest_sched_index, nearest_sched_wday, off_day, search_pc>>

EnterEntry ==
  /\ search_pc = "entry" /\ slot < MAX_SCHEDULE_ENTRIES
  /\ IF table[slot].is_valid
     THEN /\ search_pc' = "day" /\ wday' = Wday(now_tm) /\ days_checked' = 0
          /\ UNCHANGED slot
     ELSE slot' = slot + 1 /\ UNCHANGED <<search_pc, wday, days_checked>>
  /\ UNCHANGED <<table, start, drift, now_tm, time_delay,
                 nearest_sched_index, nearest_sched_wday, off_day>>

NextDay ==
  /\ wday' = (wday + 1) % DAYS
  /\ days_checked' = days_checked + 1
  /\ UNCHANGED <<slot, search_pc>>

LeaveEntry == search_pc' = "entry" /\ slot' = slot + 1 /\ UNCHANGED <<wday, days_checked>>

SkipDay ==
  /\ search_pc = "day" /\ days_checked < DAYS
  /\ wday \notin table[slot].days_of_week
  /\ NextDay
  /\ UNCHANGED <<table, start, drift, now_tm, time_delay,
                 nearest_sched_index, nearest_sched_wday, off_day>>

NoMoreDays ==
  /\ search_pc = "day" /\ days_checked = DAYS
  /\ LeaveEntry
  /\ UNCHANGED <<table, start, drift, now_tm, time_delay,
                 nearest_sched_index, nearest_sched_wday, off_day>>

(* calc_delay_to_event_ms with the minute of one reading, the second of     *)
(* another.                                                                 *)
ProbeDelay(seconds_from) ==
  CalcDelay(wday, table[slot].hour_on, table[slot].minute_on, now_tm)
    + Second(now_tm) - Second(seconds_from)

(* A plausible slip: the first day of the mask ends the search. *)
ProbeFirstOnly ==
  /\ search_pc = "day" /\ days_checked < DAYS
  /\ wday \in table[slot].days_of_week
  /\ LET delay == ProbeDelay(Clock)
     IN  /\ IF time_delay > delay
            THEN /\ time_delay' = delay
                 /\ nearest_sched_index' = slot
                 /\ nearest_sched_wday' = wday
            ELSE UNCHANGED <<time_delay, nearest_sched_index, nearest_sched_wday>>
         /\ LeaveEntry
  /\ now_tm' = Clock
  /\ UNCHANGED <<table, start, drift, off_day>>

ProbeDay ==
  /\ search_pc = "day" /\ days_checked < DAYS
  /\ wday \in table[slot].days_of_week
  /\ LET delay == ProbeDelay(Clock)
     IN  /\ IF time_delay > delay
            THEN /\ time_delay' = delay
                 /\ nearest_sched_index' = slot
                 /\ nearest_sched_wday' = wday
            ELSE UNCHANGED <<time_delay, nearest_sched_index, nearest_sched_wday>>
         /\ IF days_checked = 0 /\ delay > DAY THEN NextDay ELSE LeaveEntry
  /\ now_tm' = Clock
  /\ UNCHANGED <<table, start, drift, off_day>>

ReturnNearest ==
  /\ search_pc = "entry" /\ slot = MAX_SCHEDULE_ENTRIES
  /\ search_pc' = "done"
  /\ off_day' = IF nearest_sched_index = -1 THEN off_day
                ELSE OffDay(table[nearest_sched_index], nearest_sched_wday)
  /\ UNCHANGED <<table, start, drift, now_tm, slot, days_checked, wday,
                 time_delay, nearest_sched_index, nearest_sched_wday>>

SearchStep == EnterEntry \/ SkipDay \/ NoMoreDays \/ ProbeDay \/ ReturnNearest

SearchNext == ClockTick \/ SearchStep

SearchSpec == SearchInit /\ [][SearchNext]_search_vars

-----------------------------------------------------------------------------
SearchTypeOK ==
  /\ table \in Tables
  /\ start \in Instants /\ drift \in 0..MaxDrift /\ now_tm \in Instants
  /\ slot \in 0..MAX_SCHEDULE_ENTRIES
  /\ days_checked \in 0..DAYS /\ wday \in Weekdays
  /\ time_delay \in (-SECS + 1)..NoDelay
  /\ nearest_sched_index \in Slots \cup {-1}
  /\ nearest_sched_wday \in Weekdays \cup {-1}
  /\ off_day \in Weekdays
  /\ search_pc \in {"entry", "day", "done"}

Found == search_pc = "done" /\ nearest_sched_index # -1

(* The search returns the candidate Nearest picks, the operator the         *)
(* scheduler module uses, whenever the clock stands still during it.        *)
ComputesNearest ==
  search_pc = "done" /\ drift = 0
    => IF HasCandidate(table, start)
       THEN LET c == Nearest(table, start)
            IN  /\ nearest_sched_index = c[1]
                /\ nearest_sched_wday = DayAhead(c[2], start)
                /\ time_delay = CandidateDelay(table, c, start)
       ELSE nearest_sched_index = -1

(* A wake-up computed while the clock moves may come late, by up to a minute *)
(* when the minute and the second were read on two sides of a full minute,   *)
(* but never before the event's minute begins.                               *)
Lateness ==
  LET e == table[nearest_sched_index]
  IN  (Clock + time_delay - At(nearest_sched_wday, e.hour_on, e.minute_on)) % WEEK

NeverEarly == Found /\ time_delay > 0 => Lateness <= SECS + drift

(* "schedule spans midnight. turn_off_day must hold the actual day for       *)
(* correct delay calculation" (server_schedule.c:109): the switch-off the    *)
(* scheduler will wait for is the first one after the switch-on, less than   *)
(* a day later. The code compares hours alone, so an entry that ends at an   *)
(* earlier minute of the hour it starts in is left out.                      *)
SpanSeen(e) == e.hour_on # e.hour_off \/ e.minute_on <= e.minute_off

OffWithinADay ==
  Found =>
    LET e == table[nearest_sched_index]
    IN  SpanSeen(e) =>
          (At(off_day, e.hour_off, e.minute_off)
             - At(nearest_sched_wday, e.hour_on, e.minute_on)) % WEEK < DAY
=============================================================================
