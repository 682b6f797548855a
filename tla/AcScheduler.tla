----------------------------- MODULE AcScheduler -----------------------------
(***************************************************************************)
(* The AC scheduler of the IR remote ("ESP32 - IR remote"): three FreeRTOS  *)
(* tasks that share the schedule.                                          *)
(*                                                                         *)
(*   httpd      the one task of esp_http_server; it runs every URI handler, *)
(*              here schedule_post_handler and the POWER command of         *)
(*              update_post_handler (uri_handlers.c);                       *)
(*   scheduler  ac_scheduler_task (server_schedule.c), which owns the table *)
(*              and sleeps in xTaskNotifyWait;                              *)
(*   timer      the FreeRTOS timer task, which runs timer_callback.         *)
(*                                                                         *)
(* They meet in a binary semaphore, a data buffer and two task              *)
(* notifications.  A notification is one pending value per task: a second   *)
(* sender overwrites it or gives up (eSetValueWithOverwrite,                *)
(* eSetValueWithoutOverwrite).                                              *)
(***************************************************************************)
EXTENDS ScheduleTable

CONSTANTS Requests,         \* the POSTs to /schedule/... that clients send
          RecvMayFail       \* whether a client may vanish before its body is read

(* Scheduler states and notification values (server_schedule.h). *)
NOP    == "NOP"
AC_OFF == "AC_OFF"
AC_ON  == "AC_ON"
TIMER  == "TIMER"

None == "None"              \* no notification is pending
Dormant == -1               \* the timer is not running, no command is queued

(* An update may name an index past the table; toggle and delete index the  *)
(* table unchecked (lines 340 and 359), so theirs are in range here.        *)
ASSUME RequestsAssumption ==
  /\ Requests \subseteq Request
  /\ \A r \in Requests :
       r.action \in {TOGGLE, DEL} => r.body.index # MAX_SCHEDULE_ENTRIES
  /\ RecvMayFail \in BOOLEAN

VARIABLES
  hpc, request,             \* httpd: where it is, the request it serves
  hnote,                    \* httpd's pending notification
  sem,                      \* schedule_uri_bSemaphore: available?
  active_uri_handler,       \* is the handle of a waiting handler known?
  schedule_data,            \* the shared buffer
  spc, scheduler_state,     \* scheduler: where it is, the state on wake-up
  uri_err_notification,     \* scheduler: the answer to the request
  snote,                    \* scheduler's pending notification
  entries,                  \* schedule_table
  schedule_active, next_event_index, turn_off_day,   \* schedule_manager
  timer,                    \* seconds until schedule_timer expires, or Dormant
  timer_command,            \* period sent to the timer task, or Dormant
  now,                      \* the clock
  power_state               \* ir_settings->power_state

httpd_vars   == <<hpc, request>>
manager_vars == <<schedule_active, next_event_index, turn_off_day>>

scheduler_vars == <<spc, scheduler_state, uri_err_notification>>

shared_vars  == <<sem, active_uri_handler, schedule_data>>
notes        == <<hnote, snote>>
timers       == <<timer, timer_command>>
ac_vars      == <<entries, manager_vars, timers, now, power_state>>

vars == <<hpc, request, hnote, sem, active_uri_handler, schedule_data,
          spc, scheduler_state, uri_err_notification, snote, entries,
          schedule_active, next_event_index, turn_off_day,
          timer, timer_command, now, power_state>>

(* The state in which ir_http_server_task leaves the system when both tasks *)
(* run and the scheduler sleeps for the first time.                         *)
Init ==
  /\ hpc = "idle"
  /\ request = NoRequest
  /\ hnote = None
  /\ sem = TRUE
  /\ active_uri_handler = FALSE
  /\ schedule_data = NoBody
  /\ spc = "wait"
  /\ scheduler_state = NOP
  /\ uri_err_notification = ESP_OK
  /\ snote = None
  /\ entries = EmptyTable
  /\ schedule_active = FALSE
  /\ next_event_index = -1
  /\ turn_off_day = 0
  /\ timer = Dormant
  /\ timer_command = Dormant
  /\ now \in Instants
  /\ power_state = FALSE

-----------------------------------------------------------------------------
(* The httpd task: schedule_post_handler.                                  *)

PostArrives ==
  /\ hpc = "idle"
  /\ request' \in Requests
  /\ hpc' = "take"
  /\ UNCHANGED <<shared_vars, notes, scheduler_vars, ac_vars>>

(* A plausible slip: the semaphore is not taken. *)
TakeNothing ==
  /\ hpc = "take"
  /\ hpc' = "recv"
  /\ UNCHANGED <<request, shared_vars, notes, scheduler_vars,
                 ac_vars>>

TakeSemaphore ==
  /\ hpc = "take"
  /\ sem
  /\ sem' = FALSE
  /\ active_uri_handler' = TRUE
  /\ hpc' = "recv"
  /\ UNCHANGED <<request, schedule_data, notes, scheduler_vars,
                 ac_vars>>

(* The handler returns; its request is gone. *)
Return == hpc' = "idle" /\ request' = NoRequest

(* httpd_req_recv fails: the handler returns with the semaphore taken. *)
RecvFails ==
  /\ hpc = "recv"
  /\ RecvMayFail
  /\ Return
  /\ UNCHANGED <<shared_vars, notes, scheduler_vars,
                 ac_vars>>

Recv ==
  /\ hpc = "recv"
  /\ request.action # UNKNOWN
  /\ schedule_data' = request.body
  /\ hpc' = "notify"
  /\ UNCHANGED <<request, sem, active_uri_handler, notes,
                 scheduler_vars, ac_vars>>

(* 404: the handler returns with the semaphore taken. *)
RecvOther ==
  /\ hpc = "recv"
  /\ request.action = UNKNOWN
  /\ schedule_data' = request.body
  /\ Return
  /\ UNCHANGED <<sem, active_uri_handler, notes,
                 scheduler_vars, ac_vars>>

(* A plausible slip: the notification does not overwrite a pending one. *)
NotifySchedulerWithoutOverwrite ==
  /\ hpc = "notify"
  /\ snote' = IF snote = None THEN request.action ELSE snote
  /\ hpc' = "reply"
  /\ UNCHANGED <<request, shared_vars, hnote, scheduler_vars,
                 ac_vars>>

(* A plausible slip: the handler does not wait for the scheduler. *)
NotifySchedulerAndReturn ==
  /\ hpc = "notify"
  /\ snote' = request.action
  /\ Return
  /\ UNCHANGED <<shared_vars, hnote, scheduler_vars,
                 ac_vars>>

NotifyScheduler ==
  /\ hpc = "notify"
  /\ snote' = request.action
  /\ hpc' = "reply"
  /\ UNCHANGED <<request, shared_vars, hnote, scheduler_vars,
                 ac_vars>>

(* xTaskNotifyWait returns and the answer is sent to the client; the        *)
(* handle is forgotten on the last of the three ways out only.              *)
Respond ==
  /\ hpc = "reply"
  /\ hnote # None
  /\ hnote' = None
  /\ active_uri_handler' =
       (active_uri_handler /\ hnote \in {ERR_SCHED_FULL, ERR_WRONG_FORMAT})
  /\ Return
  /\ UNCHANGED <<sem, schedule_data, snote, scheduler_vars, ac_vars>>

(* update_post_handler with the power bit set, by POWER or by the AC_OFF     *)
(* before it: the AC is toggled, and its state.  A transmission is one step  *)
(* here; module IrPower takes it apart.                                      *)
PostPower ==
  /\ hpc = "idle"
  /\ power_state' = ~power_state
  /\ UNCHANGED <<httpd_vars, shared_vars, notes, scheduler_vars, entries,
                 manager_vars, timers, now>>

HttpdStep == TakeSemaphore \/ RecvFails \/ Recv \/ RecvOther \/ NotifyScheduler \/ Respond

-----------------------------------------------------------------------------
(* The scheduler task.                                                     *)

(* A positive delay is sent to the timer task, and the state upon wake-up is *)
(* set; otherwise a timer that runs is not stopped.                          *)
SetWakeup(delay, state) ==
  /\ IF delay > 0
     THEN timer_command' = delay /\ scheduler_state' = state
     ELSE scheduler_state' = NOP /\ UNCHANGED timer_command
  /\ UNCHANGED timer

(* config_wakeup: with a schedule active the next event is its end, otherwise *)
(* the nearest start, if there is one.                                       *)
ConfigWakeup(active) ==
  \/ /\ active
     /\ SetWakeup(OffDelay(entries[next_event_index], turn_off_day, now), AC_OFF)
     /\ UNCHANGED <<next_event_index, turn_off_day>>
  \/ /\ ~active /\ HasCandidate(entries, now)
     /\ \E c \in {Nearest(entries, now)} :
          /\ SetWakeup(CandidateDelay(entries, c, now), AC_ON)
          /\ next_event_index' = c[1]
          /\ turn_off_day' = OffDay(entries[c[1]], DayAhead(c[2], now))
  \/ /\ ~active /\ ~HasCandidate(entries, now)
     /\ SetWakeup(-1, AC_ON)
     /\ UNCHANGED <<next_event_index, turn_off_day>>

(* xTaskNotifyWait returns: a timer event keeps the state that was set with  *)
(* the wake-up, any other value becomes the state.                           *)
WakeUp ==
  /\ spc = "wait"
  /\ snote # None
  /\ scheduler_state' = IF snote = TIMER THEN scheduler_state ELSE snote
  /\ snote' = None
  /\ spc' = "run"
  /\ UNCHANGED <<httpd_vars, shared_vars, hnote, uri_err_notification,
                 ac_vars>>

(* A plausible slip: the start of a schedule is not recorded. *)
TurnOnUnrecorded ==
  /\ spc = "run" /\ scheduler_state = AC_ON
  /\ power_state' = TRUE
  /\ UNCHANGED schedule_active
  /\ ConfigWakeup(TRUE)
  /\ spc' = "wait"
  /\ UNCHANGED <<httpd_vars, shared_vars, notes, uri_err_notification,
                 entries, now>>

(* AC_ON: toggle the AC if it is off, then wait for the end of the schedule. *)
TurnOn ==
  /\ spc = "run" /\ scheduler_state = AC_ON
  /\ power_state' = TRUE
  /\ schedule_active' = TRUE
  /\ ConfigWakeup(TRUE)
  /\ spc' = "wait"
  /\ UNCHANGED <<httpd_vars, shared_vars, notes, uri_err_notification,
                 entries, now>>

(* AC_OFF with the AC on. *)
TurnOff ==
  /\ spc = "run" /\ scheduler_state = AC_OFF
  /\ power_state
  /\ power_state' = FALSE
  /\ schedule_active' = FALSE
  /\ ConfigWakeup(FALSE)
  /\ spc' = "wait"
  /\ UNCHANGED <<httpd_vars, shared_vars, notes, uri_err_notification,
                 entries, now>>

(* AC_OFF with the AC already off: the state is left as it is, and no        *)
(* wake-up is set.                                                           *)
TurnOffSkipped ==
  /\ spc = "run" /\ scheduler_state = AC_OFF
  /\ ~power_state
  /\ spc' = "wait"
  /\ UNCHANGED <<httpd_vars, shared_vars, notes, scheduler_state,
                 uri_err_notification, ac_vars>>

(* The default branch. *)
InvalidState ==
  /\ spc = "run" /\ scheduler_state = NOP
  /\ spc' = "wait"
  /\ UNCHANGED <<httpd_vars, shared_vars, notes, scheduler_state,
                 uri_err_notification, ac_vars>>

(* EVENT_SCHED_UPDATE, _TOGGLE, _DEL up to the notification. *)
Edit ==
  /\ spc = "run" /\ scheduler_state \in Edits
  /\ entries' = Edited(entries, scheduler_state, schedule_data)
  /\ uri_err_notification' = Answer(entries, scheduler_state, schedule_data)
  /\ spc' = "answer"
  /\ UNCHANGED <<httpd_vars, shared_vars, notes, scheduler_state,
                 manager_vars, timers, now, power_state>>

(* xTaskNotify(active_uri_handler, ...); uri_err_notification, a variable of *)
(* the loop's body, is not used again.                                       *)
NotifyHandler ==
  /\ spc = "answer"
  /\ hnote' = uri_err_notification
  /\ uri_err_notification' = ESP_OK
  /\ spc' = "give"
  /\ UNCHANGED <<httpd_vars, shared_vars, snote, scheduler_state, ac_vars>>

(* A plausible slip: the semaphore is not given back after a refused edit. *)
GiveAfterSuccess ==
  /\ spc = "give"
  /\ sem' = (sem \/ hnote \in {None, ESP_OK})
  /\ spc' = "config"
  /\ UNCHANGED <<httpd_vars, active_uri_handler, schedule_data, notes,
                 scheduler_state, uri_err_notification, ac_vars>>

GiveSemaphore ==
  /\ spc = "give"
  /\ sem' = TRUE
  /\ spc' = "config"
  /\ UNCHANGED <<httpd_vars, active_uri_handler, schedule_data, notes,
                 scheduler_state, uri_err_notification, ac_vars>>

(* A plausible slip: the wake-up is not computed again after an edit. *)
ConfigSkipped ==
  /\ spc = "config"
  /\ scheduler_state' = IF schedule_active THEN AC_OFF ELSE AC_ON
  /\ spc' = "wait"
  /\ UNCHANGED <<httpd_vars, shared_vars, notes, uri_err_notification,
                 ac_vars>>

Config ==
  /\ spc = "config"
  /\ ConfigWakeup(schedule_active)
  /\ spc' = "wait"
  /\ UNCHANGED <<httpd_vars, shared_vars, notes, uri_err_notification,
                 entries, schedule_active, now, power_state>>

SchedulerStep ==
  \/ WakeUp \/ TurnOn \/ TurnOff \/ TurnOffSkipped \/ InvalidState
  \/ Edit \/ NotifyHandler \/ GiveSemaphore \/ Config

-----------------------------------------------------------------------------
(* The timer task and the clock.                                           *)

(* A plausible slip: the callback does not notify the scheduler. *)
TimerCallbackSilent ==
  /\ timer = 0
  /\ timer' = Dormant
  /\ UNCHANGED <<httpd_vars, shared_vars, notes, scheduler_vars, entries,
                 manager_vars, timer_command, now, power_state>>

(* schedule_timer is one-shot; its event is lost when another is pending. *)
TimerCallback ==
  /\ timer = 0
  /\ timer' = Dormant
  /\ snote' = IF snote = None THEN TIMER ELSE snote
  /\ UNCHANGED <<httpd_vars, shared_vars, hnote, scheduler_vars, entries,
                 manager_vars, timer_command, now, power_state>>

(* The timer task serves a timer that has expired before its command queue.  *)
TimerCommand ==
  /\ timer # 0
  /\ timer_command # Dormant
  /\ timer' = timer_command
  /\ timer_command' = Dormant
  /\ UNCHANGED <<httpd_vars, shared_vars, notes, scheduler_vars, entries,
                 manager_vars, now, power_state>>

TimerStep == TimerCallback \/ TimerCommand

(* A second takes far longer than a step of the scheduler or the timer task. *)
Urgent ==
  spc # "wait" \/ snote # None \/ timer = 0 \/ timer_command # Dormant

Tick ==
  /\ ~Urgent
  /\ now' = (now + 1) % WEEK
  /\ timer' = IF timer > 0 THEN timer - 1 ELSE timer
  /\ UNCHANGED <<httpd_vars, shared_vars, notes, scheduler_vars, entries,
                 manager_vars, timer_command, power_state>>

-----------------------------------------------------------------------------
Next ==
  \/ PostArrives \/ PostPower \/ HttpdStep
  \/ SchedulerStep
  \/ TimerStep \/ Tick

Spec == Init /\ [][Next]_vars

(* The tasks run whenever they can and the clock goes on; clients may stop. *)
Fairness ==
  /\ WF_vars(HttpdStep)
  /\ WF_vars(SchedulerStep)
  /\ WF_vars(TimerStep)
  /\ WF_vars(Tick)

FairSpec == Spec /\ Fairness

-----------------------------------------------------------------------------
(* Properties.                                                             *)

TypeOK ==
  /\ hpc \in {"idle", "take", "recv", "notify", "reply"}
  /\ request \in Request
  /\ hnote \in Answers \cup {None}
  /\ sem \in BOOLEAN
  /\ active_uri_handler \in BOOLEAN
  /\ schedule_data \in Body
  /\ spc \in {"wait", "run", "answer", "give", "config"}
  /\ scheduler_state \in {NOP, AC_OFF, AC_ON} \cup Edits
  /\ uri_err_notification \in Answers
  /\ snote \in {None, TIMER} \cup Edits
  /\ entries \in Tables
  /\ schedule_active \in BOOLEAN
  /\ next_event_index \in Slots \cup {-1}
  /\ turn_off_day \in Weekdays
  /\ timer \in Nat \cup {Dormant}
  /\ timer_command \in Nat \cup {Dormant}
  /\ now \in Instants
  /\ power_state \in BOOLEAN

(* An edit is on its way to the scheduler, or the scheduler is at it. *)
EditPending ==
  snote \in Edits \/ (spc = "run" /\ scheduler_state \in Edits)

(* "protects both data buffer and active uri handler access"                *)
(* (uri_handlers.c:247): from the moment a request is handed over until its *)
(* answer is sent, its handler waits, its handle is known, no other handler *)
(* can enter, and the buffer holds its body.                                *)
RequestIntact ==
  EditPending \/ spc = "answer" =>
    /\ hpc = "reply" /\ hnote = None
    /\ ~sem /\ active_uri_handler
    /\ schedule_data = request.body
    /\ snote \in Edits => snote = request.action
    /\ spc \in {"run", "answer"} /\ scheduler_state \in Edits
         => scheduler_state = request.action

(* "released in scheduler task" (uri_handlers.c:247): when nobody is         *)
(* handling a request, the semaphore is free.                               *)
SemaphoreReleased ==
  hpc \in {"idle", "take"} /\ spc \notin {"give"} => sem

(* schedule_get_handler reads the table without a lock, in the httpd task:   *)
(* the table changes only while that task waits for an answer.              *)
TableStable ==
  [][hpc = "reply" /\ hnote = None /\ hpc' = "reply"]_entries

(* The scheduler indexes the table with next_event_index, which starts as    *)
(* -1, whenever a schedule is active or about to start.                      *)
IndexInTable ==
  schedule_active \/ scheduler_state = AC_ON => next_event_index \in Slots

Asleep == spc = "wait" /\ snote = None

(* When a running timer will expire. *)
WakeTime == (now + timer) % WEEK

(* While the scheduler waits to switch on, the timer expires exactly when    *)
(* the entry it will use starts, on a day of its mask, and no valid entry    *)
(* starts before; while it waits to switch off, it expires at the end of the *)
(* entry in use.                                                            *)
ArmedForTheEvent ==
  Asleep /\ timer > 0 /\ timer_command = Dormant =>
    LET e == entries[next_event_index]
    IN  /\ scheduler_state = AC_ON =>
             /\ e.is_valid /\ ~schedule_active
             /\ \E day \in e.days_of_week :
                  WakeTime = At(day, e.hour_on, e.minute_on)
             /\ \A i \in ValidSlots(entries) : \A day \in entries[i].days_of_week :
                  (At(day, entries[i].hour_on, entries[i].minute_on) - now) % WEEK
                    >= timer
        /\ scheduler_state = AC_OFF =>
             /\ schedule_active
             /\ WakeTime = At(turn_off_day, e.hour_off, e.minute_off)

(* A request that is answered with an error makes no entry appear or vanish. *)
RejectedEditHidden ==
  [][spc = "run" /\ spc' = "answer" /\ uri_err_notification' # ESP_OK
       => ValidSlots(entries') = ValidSlots(entries)]_vars

(* schedule_get_handler lists the table up to the first entry that is not    *)
(* valid: an edit at an index a client was shown, or the next one, leaves    *)
(* every valid entry in that prefix.                                         *)
StaysListed ==
  [][Compact(entries) /\ schedule_data.index <= Cardinality(ValidSlots(entries))
       => Compact(entries')]_entries

(* Every POST is answered, if clients do not vanish and ask for no unknown   *)
(* page.                                                                     *)
PostAnswered == hpc # "idle" ~> hpc = "idle"

(* A wake-up that was set is acted on or set anew. *)
WakeupHappens ==
  spc = "wait" /\ scheduler_state \in {AC_ON, AC_OFF}
    /\ (timer # Dormant \/ timer_command # Dormant \/ snote # None) ~> spc = "run"

(* "The task both sets a wake up timer and the state upon wake up"           *)
(* (server_schedule.c:225): a scheduler that sleeps with AC_ON set has no     *)
(* schedule active, and a timer that will wake it, whatever expired, was      *)
(* edited or was overwritten before.                                        *)
StartArmed ==
  Asleep /\ scheduler_state = AC_ON =>
    ~schedule_active /\ (timer # Dormant \/ timer_command # Dormant)

-----------------------------------------------------------------------------
(* The scheduler, seen by its clients, is a ScheduleService: a request waits *)
(* until the scheduler edits the table for it, once, and then until the      *)
(* answer of that very edit is sent.                                         *)
Answered == spc = "answer" \/ (hpc = "reply" /\ hnote # None)

Service == INSTANCE ScheduleService WITH
  phase  <- IF hpc = "idle" THEN "idle" ELSE IF Answered THEN "edited" ELSE "asked",
  asked  <- request,
  answer <- IF spc = "answer" THEN uri_err_notification ELSE hnote,
  table  <- entries

ServiceSpec == Service!Spec
=============================================================================
