------------------------------ MODULE MCSchedule ------------------------------
(* What is done with the schedule's table, one thing or another: the search   *)
(* for the nearest event over two entries in a week of three days of two       *)
(* hours of two minutes of three seconds (elapsed, current and later events   *)
(* on today's and other days all occur); the compaction of a deletion on      *)
(* every table over four entries and a free one; and the page of the app that  *)
(* lists and edits it, with two sets of days, neither the mirror image of the  *)
(* other.                                                                   *)
EXTENDS NearestLoop, DeleteLoop, ScheduleApp

MCDaySets == {{0}, {0, 1}}

Valid(hour_on, minute_on, hour_off, minute_off, days) ==
  [ZeroEntry EXCEPT !.hour_on = hour_on, !.minute_on = minute_on,
                    !.hour_off = hour_off, !.minute_off = minute_off,
                    !.days_of_week = days, !.is_valid = TRUE]

(* A later hour, a span over midnight, a later minute of the same hour, an   *)
(* earlier minute of the same hour.                                          *)
MCEntries ==
  {Valid(0, 1, 1, 0, {0}), Valid(1, 0, 0, 1, {0, 1}), Valid(1, 1, 0, 0, {0, 1, 2}),
   Valid(0, 0, 0, 1, {2}), Valid(0, 0, 1, 0, {}), Valid(1, 1, 1, 0, {1}), ZeroEntry}

(* Four entries that can be told apart. *)
MCDeleteEntries ==
  {Valid(hour, minute, 1, 1, {0}) : hour, minute \in 0..1} \cup {ZeroEntry}

NoSearch ==
  /\ table = [j \in Slots |-> ZeroEntry]
  /\ start = 0 /\ drift = 0 /\ now_tm = 0
  /\ slot = 0 /\ days_checked = 0 /\ wday = 0
  /\ time_delay = NoDelay /\ nearest_sched_index = -1
  /\ nearest_sched_wday = -1 /\ off_day = 0 /\ search_pc = "none"

NoDelete ==
  /\ initial = [j \in Slots |-> ZeroEntry] /\ compacted = initial
  /\ deleted = 0 /\ sched_index = 0 /\ next_index = 0 /\ delete_pc = "none"

(* Nothing is under way on the page, and the user has made all his edits. *)
NoPage ==
  /\ schedules = <<>> /\ dialog = {} /\ server_table = EmptyTable
  /\ posts = EmptyBag /\ answered = EmptyBag
  /\ gets = 0 /\ answers = EmptyBag /\ loading = EmptyBag
  /\ edits = MaxEdits /\ hasty = FALSE

OnlySearch ==
  /\ SearchInit /\ NoDelete /\ NoPage
  /\ \A j \in Slots : j >= 2 => table[j] = ZeroEntry

OnlyDelete == DeleteInit /\ NoSearch /\ NoPage

OnlyPage == PageInit /\ NoSearch /\ NoDelete

SearchLoop == search_pc # "none" /\ SearchNext /\ UNCHANGED <<delete_vars, page_vars>>

DeletionLoop == DeleteNext /\ UNCHANGED <<search_vars, page_vars>>

SchedulePage == PageNext /\ UNCHANGED <<search_vars, delete_vars>>

ScheduleSpec ==
  /\ OnlySearch \/ OnlyDelete \/ OnlyPage
  /\ [][SearchLoop \/ DeletionLoop \/ SchedulePage]_<<search_vars, delete_vars, page_vars>>
=============================================================================
