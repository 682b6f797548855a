----------------------------- MODULE ScheduleApp -----------------------------
(***************************************************************************)
(* The schedule page of the Android app (ScheduleViewModel.kt,              *)
(* SchedulePage.kt, ScheduleEditDialog.kt) and the server whose table it     *)
(* lists and edits.                                                         *)
(*                                                                         *)
(* The list on the screen is a guess between an edit and the refresh that    *)
(* follows it: a saved schedule is added at its end, also when it replaces   *)
(* another one.  Every request runs in a coroutine of its own; a refresh      *)
(* clears the list and fills it again in two steps.  The server serves one   *)
(* request at a time; ScheduleTable says what an edit does to its table.     *)
(***************************************************************************)
EXTENDS ScheduleTable, Sequences, Bags

CONSTANTS Hours,            \* bound: hours the user picks
          DaySets,          \* bound: day sets the user picks for a new schedule
          MaxEdits,         \* bound: edits of a user who waits for each refresh,
          MaxHasty          \* and of one who does not

ASSUME ScheduleAppAssumption ==
  /\ Hours \subseteq 0..(HOURS - 1)
  /\ DaySets \subseteq (SUBSET Weekdays) \ {{}}
  /\ MaxEdits \in Nat /\ MaxHasty \in Nat
  /\ 1 < MINS              \* PayloadOf has minutes 0 and 1 stand for all

VARIABLES
  schedules,                \* the list on the screen
  dialog,                   \* a set: the schedule being edited, or none
  posts,                    \* bag of the requests on their way to the server
  answered,                 \* bag of the requests answered with success
  gets,                     \* GETs on their way to the server
  answers,                  \* bag of the lists on their way to the app
  loading,                  \* bag of the lists whose coroutine has cleared the screen
  server_table,             \* the server's schedule table
  edits,                    \* history: edits of the user
  hasty                     \* history: one was made before the refresh of another

history_vars == <<edits, hasty>>
app_vars == <<schedules, dialog, history_vars>>
net_vars == <<posts, answered, gets, answers, loading>>
page_vars == <<schedules, dialog, posts, answered, gets, answers, loading, server_table,
               edits, hasty>>

(* data class Schedule, the hours and minutes but one left alone. *)
Schedule == [index : Nat, hourOn : Hours,
             dayBitmask : (SUBSET Weekdays) \ {{}}, isOn : BOOLEAN]

Seqs == INSTANCE SequencesExt

One(x) == SetToBag({x})

PageInit ==
  /\ schedules = <<>> /\ dialog = {}
  /\ posts = EmptyBag /\ answered = EmptyBag
  /\ gets = 1 /\ answers = EmptyBag /\ loading = EmptyBag
  /\ server_table = EmptyTable
  /\ edits = 0 /\ hasty = FALSE

(* What schedule_get_handler lists: the entries before the first that is not *)
(* valid.                                                                  *)
Listed(tbl) ==
  LET n == CHOOSE k \in 0..MAX_SCHEDULE_ENTRIES :
             /\ \A i \in 0..(k - 1) : tbl[i].is_valid
             /\ k \in Slots => ~tbl[k].is_valid
  IN  [i \in 1..n |-> [index |-> i - 1, hourOn |-> tbl[i - 1].hour_on,
                       dayBitmask |-> tbl[i - 1].days_of_week,
                       isOn |-> tbl[i - 1].is_on]]

Mirrored(days) == {DAYS - 1 - d : d \in days}

(* A plausible slip: the first day becomes the lowest bit. *)
FoldLowFirst(days) == days

(* The dialog folds the days, the first one into the highest bit. *)
Fold(days) == Mirrored(days)

(* The digits of a mask, the highest bit first; the server makes the j-th    *)
(* digit bit j.                                                            *)
Digits(mask) == Mirrored(mask)

PayloadOf(s) ==
  [hour_on |-> s.hourOn, minute_on |-> 0, hour_off |-> s.hourOn, minute_off |-> 1,
   days_of_week |-> Digits(s.dayBitmask)]

Post(action, index, payload) ==
  posts' = posts (+) One([action |-> action, body |-> [index |-> index, payload |-> payload]])

Quiet == posts = EmptyBag /\ answered = EmptyBag /\ gets = 0
         /\ answers = EmptyBag /\ loading = EmptyBag

(* Whether the user may turn to the page, waiting for a refresh or not. *)
MayEdit ==
  /\ hasty' = (hasty \/ ~Quiet)
  /\ edits < IF hasty' THEN MaxHasty ELSE MaxEdits

UserEdits == MayEdit /\ edits' = edits + 1
-----------------------------------------------------------------------------
(* The user.                                                               *)

(* The button for a new schedule: its index is the length of the list. *)
OpenNew ==
  /\ MayEdit /\ dialog = {}
  /\ \E days \in DaySets, h \in Hours :
       dialog' = {[index |-> Len(schedules), hourOn |-> h, days |-> days, isOn |-> FALSE]}
  /\ UNCHANGED <<schedules, net_vars, server_table, edits>>

(* A tap on a schedule: the dialog shows the days of its mask, bit by bit. *)
OpenEdit(i) ==
  /\ MayEdit /\ dialog = {}
  /\ dialog' = {[index |-> i - 1, hourOn |-> schedules[i].hourOn,
                 days |-> schedules[i].dayBitmask, isOn |-> schedules[i].isOn]}
  /\ UNCHANGED <<schedules, net_vars, server_table, edits>>

(* saveSchedule with the days as they are shown and any hour. *)
Save ==
  /\ UserEdits
  /\ \E d \in dialog, h \in Hours :
       LET saved == [index |-> d.index, hourOn |-> h, dayBitmask |-> Fold(d.days),
                     isOn |-> d.isOn]
       IN  /\ schedules' = Append(schedules, saved)
           /\ Post(UPDATE, d.index, PayloadOf(saved))
  /\ dialog' = {}
  /\ UNCHANGED <<answered, gets, answers, loading, server_table>>

(* toggleSchedule *)
Toggle(i) ==
  /\ UserEdits /\ dialog = {}
  /\ schedules' = [schedules EXCEPT ![i].isOn = ~@]
  /\ Post(TOGGLE, i - 1, NoBody.payload)
  /\ UNCHANGED <<dialog, answered, gets, answers, loading, server_table>>

(* deleteSchedule, with the index the entry itself carries. *)
Delete(i) ==
  /\ UserEdits /\ dialog = {}
  /\ Post(DEL, schedules[i].index, NoBody.payload)
  /\ UNCHANGED <<schedules, dialog, answered, gets, answers, loading, server_table>>
-----------------------------------------------------------------------------
(* The server.  An answer other than success raises an exception in the      *)
(* coroutine, and nothing follows.                                          *)

Succeeds(request) ==
  Answer(server_table, request.action, request.body) \notin {ERR_SCHED_FULL, ERR_WRONG_FORMAT}

Serve(request) ==
  /\ posts' = posts (-) One(request)
  /\ server_table' = Edited(server_table, request.action, request.body)
  /\ answered' = IF Succeeds(request) THEN answered (+) One(request) ELSE answered

ServePost ==
  \E request \in BagToSet(posts) :
    /\ Serve(request)
    /\ UNCHANGED <<app_vars, gets, answers, loading>>

ServeGet ==
  /\ gets > 0
  /\ gets' = gets - 1
  /\ answers' = answers (+) One(Listed(server_table))
  /\ UNCHANGED <<app_vars, posts, answered, loading, server_table>>
-----------------------------------------------------------------------------
(* The coroutines.                                                         *)

(* After a save or a toggle: fetchSchedules. *)
Refresh ==
  \E request \in BagToSet(answered) :
    /\ request.action # DEL
    /\ answered' = answered (-) One(request)
    /\ gets' = gets + 1
    /\ UNCHANGED <<app_vars, posts, answers, loading, server_table>>

(* A plausible slip: the entry is removed by its place, not by its index. *)
RemoveListedNext(index) ==
  \/ /\ index + 1 < Len(schedules)
     /\ schedules' = Seqs!RemoveAt(schedules, index + 2)
     /\ gets' = gets + 1
  \/ /\ index + 1 >= Len(schedules)
     /\ UNCHANGED <<schedules, gets>>

(* schedules.removeAt(index) raises an exception beyond the end of the list. *)
RemoveListed(index) ==
  \/ /\ index < Len(schedules)
     /\ schedules' = Seqs!RemoveAt(schedules, index + 1)
     /\ gets' = gets + 1
  \/ /\ index >= Len(schedules)
     /\ UNCHANGED <<schedules, gets>>

FinishDelete ==
  \E request \in BagToSet(answered) :
    /\ request.action = DEL
    /\ answered' = answered (-) One(request)
    /\ RemoveListed(request.body.index)
    /\ UNCHANGED <<dialog, history_vars, posts, answers, loading, server_table>>

(* schedules.clear() *)
Clear ==
  \E list \in BagToSet(answers) :
    /\ schedules' = <<>>
    /\ answers' = answers (-) One(list)
    /\ loading' = loading (+) One(list)
    /\ UNCHANGED <<dialog, history_vars, posts, answered, gets, server_table>>

(* schedules.addAll(fetchedSchedules) *)
AddAll ==
  \E list \in BagToSet(loading) :
    /\ schedules' = schedules \o list
    /\ loading' = loading (-) One(list)
    /\ UNCHANGED <<dialog, history_vars, posts, answered, gets, answers, server_table>>

User == \/ OpenNew \/ Save
        \/ \E i \in 1..Len(schedules) : OpenEdit(i) \/ Toggle(i) \/ Delete(i)

Progress == ServePost \/ ServeGet \/ Refresh \/ FinishDelete \/ Clear \/ AddAll

PageNext == User \/ Progress

PageSpec == PageInit /\ [][PageNext]_page_vars
-----------------------------------------------------------------------------
(* Properties.                                                             *)

(* A schedule on the screen has an index and at least one day, with refreshes *)
(* filling the list under each other (ScheduleViewModel.kt:111-112) and        *)
(* deletions that no longer find their entry (line 132).                      *)
PageTypeOK ==
  /\ schedules \in Seq(Schedule)
  /\ Cardinality(dialog) <= 1
  /\ \A d \in dialog : d.hourOn \in Hours /\ d.days # {}
  /\ server_table \in Tables
  /\ gets \in 0..(MaxEdits + 1) /\ hasty \in BOOLEAN

(* ScheduleViewModel.kt:62: "Refresh schedules after saving".  When nothing   *)
(* is under way any more the screen shows what the server would list, if the  *)
(* user has waited for each refresh.                                         *)
ListAgrees == Quiet /\ ~hasty => schedules = Listed(server_table)

(* ... and that is every schedule in the server's table: the index the app   *)
(* makes up for a new one (SchedulePage.kt:40) leaves no gap, behind which    *)
(* schedule_get_handler (uri_handlers.c:121) sees nothing.                   *)
EntriesListed == Quiet /\ ~hasty => Compact(server_table)

(* The days of a schedule are days the user picked for one, after the dialog, *)
(* the text of the request and the server have each turned the mask around   *)
(* (ScheduleEditDialog.kt:128, ScheduleViewModel.kt:47, server_schedule.c:206). *)
DaysAsPicked ==
  ~hasty => \A i \in ValidSlots(server_table) : server_table[i].days_of_week \in DaySets
=============================================================================
