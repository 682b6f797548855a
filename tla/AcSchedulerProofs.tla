-------------------------- MODULE AcSchedulerProofs --------------------------
(***************************************************************************)
(* What the AC scheduler keeps true for every calendar, every table size   *)
(* and every set of requests.                                              *)
(***************************************************************************)
EXTENDS AcScheduler, ScheduleProofs, FiniteSetTheorems

(* The inductive invariant of typing: a variable that holds an event's slot  *)
(* does hold a slot when the scheduler uses it, and only an edit is sent on.  *)
TypedIndex ==
  /\ TypeOK
  /\ IndexInTable
  /\ hpc \in {"notify", "reply"} => request.action \in Edits

(* Where the two tasks can be when the semaphore is taken, the buffer full    *)
(* or an answer due: RequestIntact and what makes it inductive.              *)
Handshake ==
  /\ RequestIntact
  /\ spc = "give" =>
       ~sem /\ hpc \notin {"recv", "notify"} /\ (hpc = "reply" => hnote # None)
  /\ hpc \in {"recv", "notify"} =>
       /\ ~sem /\ active_uri_handler /\ hnote = None
       /\ ~EditPending /\ spc \notin {"answer", "give"}
  /\ hpc = "notify" => schedule_data = request.body /\ request.action \in Edits
  /\ hnote # None => hpc = "reply"
  /\ hpc = "reply" /\ hnote = None => EditPending \/ spc = "answer"
  /\ hpc = "reply" => request.action \in Edits
  /\ snote \in Edits =>
       spc \notin {"answer", "give"} /\ ~(spc = "run" /\ scheduler_state \in Edits)
  /\ spc = "wait" => scheduler_state \notin Edits

(* ... and the semaphore is free when nobody uses it, unless it leaked. *)
Released ==
  /\ SemaphoreReleased
  /\ hpc = "reply" /\ hnote # None => sem \/ spc = "give"

-----------------------------------------------------------------------------
(* Typing.                                                                 *)

LEMMA NoRequestType == NoRequest \in Request /\ NoBody \in Body
BY CalendarAssumption, TableAssumption
   DEF NoRequest, NoBody, Request, Body, Payload, BadIndex, UNKNOWN

LEMMA EmptyTableType == EmptyTable \in Tables
<1>1. ZeroEntry \in Entry
  BY CalendarAssumption DEF ZeroEntry, Entry
<1> QED BY <1>1 DEF EmptyTable, Tables

LEMMA InitTyped == Init => TypedIndex
<1> SUFFICES ASSUME Init PROVE TypedIndex
  OBVIOUS
<1> USE DEF Init
<1>1. request \in Request /\ schedule_data \in Body
  BY NoRequestType
<1>2. entries \in Tables
  BY EmptyTableType
<1>3. turn_off_day \in Weekdays
  BY CalendarAssumption DEF Weekdays
<1>4. TypeOK
  BY <1>1, <1>2, <1>3 DEF TypeOK, Answers
<1>5. IndexInTable
  BY DEF IndexInTable, NOP, AC_ON
<1> QED BY <1>4, <1>5 DEF TypedIndex

(* config_wakeup leaves the manager and the wake-up well formed, and only     *)
(* announces a start whose slot it has stored.                              *)
LEMMA ConfigWakeupTyped ==
  ASSUME TypeOK, NEW active \in BOOLEAN, active => next_event_index \in Slots,
         ConfigWakeup(active)
  PROVE  /\ scheduler_state' \in {NOP, AC_OFF, AC_ON}
         /\ next_event_index' \in Slots \cup {-1}
         /\ turn_off_day' \in Weekdays
         /\ timer' \in Nat \cup {Dormant} /\ timer_command' \in Nat \cup {Dormant}
         /\ active => next_event_index' \in Slots /\ scheduler_state' # AC_ON
         /\ scheduler_state' = AC_ON => next_event_index' \in Slots
<1> DEFINE c == Nearest(entries, now)
<1>1. entries \in Tables /\ now \in Instants /\ turn_off_day \in Weekdays
  BY DEF TypeOK
<1>2. ASSUME NEW delay \in Int, NEW state, SetWakeup(delay, state)
      PROVE  /\ scheduler_state' \in {NOP, state}
             /\ timer' \in Nat \cup {Dormant} /\ timer_command' \in Nat \cup {Dormant}
  BY <1>2 DEF SetWakeup, TypeOK
<1>3. CASE active
  <2>1. entries[next_event_index] \in Entry
    BY <1>1, <1>3 DEF Tables
  <2>2. OffDelay(entries[next_event_index], turn_off_day, now) \in Int
    BY <1>1, <2>1, OffDelayType
  <2>3. /\ SetWakeup(OffDelay(entries[next_event_index], turn_off_day, now), AC_OFF)
        /\ UNCHANGED <<next_event_index, turn_off_day>>
    BY <1>3 DEF ConfigWakeup
  <2> QED BY <1>1, <1>2, <1>3, <2>2, <2>3 DEF TypeOK, NOP, AC_OFF, AC_ON
<1>4. CASE ~active /\ HasCandidate(entries, now)
  <2>1. c \in Candidates(entries, now)
    BY <1>1, <1>4, NearestExists
  <2>2. /\ SetWakeup(CandidateDelay(entries, c, now), AC_ON)
        /\ next_event_index' = c[1]
        /\ turn_off_day' = OffDay(entries[c[1]], DayAhead(c[2], now))
    BY <1>4 DEF ConfigWakeup
  <2> HIDE DEF c
  <2>3. /\ c[1] \in Slots /\ c[2] \in Weekdays
        /\ CandidateDelay(entries, c, now) \in Int
    BY <1>1, <2>1, CandidateDelayType
  <2>4. entries[c[1]] \in Entry /\ DayAhead(c[2], now) \in Weekdays
    BY <1>1, <2>3, DayAheadType DEF Tables
  <2>5. turn_off_day' \in Weekdays
    BY <2>2, <2>4, OffDayType
  <2> QED BY <1>2, <1>4, <2>2, <2>3, <2>5 DEF NOP, AC_OFF, AC_ON
<1>5. CASE ~active /\ ~HasCandidate(entries, now)
  <2>1. SetWakeup(-1, AC_ON) /\ UNCHANGED <<next_event_index, turn_off_day>>
    BY <1>5 DEF ConfigWakeup
  <2>2. scheduler_state' = NOP /\ UNCHANGED <<timer, timer_command>>
    BY <2>1 DEF SetWakeup
  <2> QED BY <1>5, <2>1, <2>2 DEF TypeOK, NOP, AC_OFF, AC_ON
<1> QED BY <1>3, <1>4, <1>5

LEMMA NextTyped == TypedIndex /\ [Next]_vars => TypedIndex'
<1> SUFFICES ASSUME TypedIndex, [Next]_vars PROVE TypedIndex'
  OBVIOUS
<1>0. TypeOK /\ IndexInTable
  BY DEF TypedIndex
<1> USE <1>0 DEF TypedIndex, TypeOK, IndexInTable
<1>1. CASE PostArrives
  BY <1>1, RequestsAssumption
     DEF PostArrives, shared_vars, notes, scheduler_vars, ac_vars, manager_vars, timers
<1>2. CASE PostPower
  BY <1>2 DEF PostPower, httpd_vars, shared_vars, notes, scheduler_vars, manager_vars, timers
<1>3. CASE TakeSemaphore
  BY <1>3 DEF TakeSemaphore, notes, scheduler_vars, ac_vars, manager_vars, timers
<1>4. CASE RecvFails
  BY <1>4, NoRequestType
     DEF RecvFails, Return, shared_vars, notes, scheduler_vars, ac_vars, manager_vars, timers
<1>5. CASE Recv
  BY <1>5 DEF Recv, Request, notes, scheduler_vars, ac_vars, manager_vars, timers
<1>6. CASE RecvOther
  BY <1>6, NoRequestType
     DEF RecvOther, Return, Request, notes, scheduler_vars, ac_vars, manager_vars, timers
<1>7. CASE NotifyScheduler
  BY <1>7 DEF NotifyScheduler, shared_vars, scheduler_vars, ac_vars, manager_vars, timers
<1>8. CASE Respond
  BY <1>8, NoRequestType
     DEF Respond, Return, scheduler_vars, ac_vars, manager_vars, timers
<1>9. CASE WakeUp
  BY <1>9 DEF WakeUp, httpd_vars, shared_vars, ac_vars, manager_vars, timers,
     Edits, UPDATE, TOGGLE, DEL, TIMER, None, AC_ON, AC_OFF, NOP
<1>10. CASE TurnOn
  <2>1. ConfigWakeup(TRUE) /\ next_event_index \in Slots
    BY <1>10 DEF TurnOn
  <2> QED BY <1>10, <2>1, ConfigWakeupTyped
          DEF TurnOn, httpd_vars, shared_vars, notes, NOP, AC_OFF, AC_ON
<1>11. CASE TurnOff
  <2>1. ConfigWakeup(FALSE)
    BY <1>11 DEF TurnOff
  <2> QED BY <1>11, <2>1, ConfigWakeupTyped
          DEF TurnOff, httpd_vars, shared_vars, notes, NOP, AC_OFF, AC_ON
<1>12. CASE TurnOffSkipped
  BY <1>12 DEF TurnOffSkipped, httpd_vars, shared_vars, notes, ac_vars, manager_vars, timers
<1>13. CASE InvalidState
  BY <1>13 DEF InvalidState, httpd_vars, shared_vars, notes, ac_vars, manager_vars, timers
<1>14. CASE Edit
  <2>1. entries' \in Tables /\ uri_err_notification' \in Answers
    BY <1>14, EditedType, AnswerType DEF Edit
  <2> QED BY <1>14, <2>1 DEF Edit, httpd_vars, shared_vars, notes, manager_vars, timers
<1>15. CASE NotifyHandler
  BY <1>15 DEF NotifyHandler, Answers, httpd_vars, shared_vars, ac_vars, manager_vars, timers
<1>16. CASE GiveSemaphore
  BY <1>16 DEF GiveSemaphore, httpd_vars, notes, ac_vars, manager_vars, timers
<1>17. CASE Config
  <2>1. ConfigWakeup(schedule_active) /\ (schedule_active => next_event_index \in Slots)
    BY <1>17 DEF Config
  <2> QED BY <1>17, <2>1, ConfigWakeupTyped
          DEF Config, httpd_vars, shared_vars, notes, NOP, AC_OFF, AC_ON
<1>18. CASE TimerCallback
  BY <1>18 DEF TimerCallback, httpd_vars, shared_vars, scheduler_vars, manager_vars
<1>19. CASE TimerCommand
  BY <1>19 DEF TimerCommand, httpd_vars, shared_vars, notes, scheduler_vars, manager_vars
<1>20. CASE Tick
  <2>1. now' \in Instants
    <3>1. now + 1 \in Int
      BY CalendarTypes DEF Instants
    <3> QED BY <1>20, <3>1, CalendarTypes, RemainderType DEF Tick, Instants
  <2>2. timer' \in Nat \cup {Dormant}
    BY <1>20 DEF Tick, Dormant
  <2> QED BY <1>20, <2>1, <2>2
          DEF Tick, httpd_vars, shared_vars, notes, scheduler_vars, manager_vars
<1>21. CASE UNCHANGED vars
  BY <1>21 DEF vars
<1> QED BY <1>1, <1>2, <1>3, <1>4, <1>5, <1>6, <1>7, <1>8, <1>9, <1>10, <1>11, <1>12,
           <1>13, <1>14, <1>15, <1>16, <1>17, <1>18, <1>19, <1>20, <1>21
        DEF Next, HttpdStep, SchedulerStep, TimerStep

LEMMA TypedAlways == Spec => []TypedIndex
BY InitTyped, NextTyped, PTL DEF Spec

(* Every variable of the scheduler always has its type; in particular no     *)
(* edit, deletion or toggle leaves a malformed entry in schedule_table.      *)
THEOREM TypeCorrect == Spec => []TypeOK
<1>1. TypedIndex => TypeOK
  BY DEF TypedIndex
<1> QED BY <1>1, TypedAlways, PTL

(* The scheduler never indexes schedule_table with the -1 that               *)
(* next_event_index starts with (server_schedule.c:63, 238).                 *)
THEOREM IndexAlwaysInTable == Spec => []IndexInTable
<1>1. TypedIndex => IndexInTable
  BY DEF TypedIndex
<1> QED BY <1>1, TypedAlways, PTL

-----------------------------------------------------------------------------
(* The handshake.                                                          *)

LEMMA InitHandshake == Init => Handshake
BY DEF Init, Handshake, RequestIntact, EditPending, Edits, UPDATE, TOGGLE, DEL, NOP, None

LEMMA NextHandshake == TypedIndex /\ Handshake /\ [Next]_vars => Handshake'
<1> SUFFICES ASSUME TypedIndex, Handshake, [Next]_vars PROVE Handshake'
  OBVIOUS
<1>0. TypeOK
  BY DEF TypedIndex
<1> USE <1>0 DEF Handshake, RequestIntact, EditPending
<1>n. /\ None \notin Answers /\ None \notin Edits /\ TIMER \notin Edits /\ None # TIMER
      /\ NOP \notin Edits /\ AC_ON \notin Edits /\ AC_OFF \notin Edits
      /\ UNKNOWN \notin Edits
  BY DEF None, Answers, ESP_OK, ERR_WRONG_FORMAT, ERR_INVALID_ENTRY, ERR_SCHED_FULL,
         Edits, UPDATE, TOGGLE, DEL, TIMER, NOP, AC_ON, AC_OFF, UNKNOWN
<1>1. CASE PostArrives
  BY <1>1 DEF PostArrives, shared_vars, notes, scheduler_vars, ac_vars
<1>2. CASE PostPower
  BY <1>2 DEF PostPower, httpd_vars, shared_vars, notes, scheduler_vars
<1>3. CASE TakeSemaphore
  BY <1>3 DEF TakeSemaphore, notes, scheduler_vars, ac_vars
<1>4. CASE RecvFails
  BY <1>4 DEF RecvFails, Return, shared_vars, notes, scheduler_vars, ac_vars
<1>5. CASE Recv
  <2>1. request.action \in Edits
    BY <1>5 DEF Recv, TypeOK, Request
  <2> QED BY <1>5, <2>1 DEF Recv, notes, scheduler_vars, ac_vars
<1>6. CASE RecvOther
  BY <1>6 DEF RecvOther, Return, notes, scheduler_vars, ac_vars
<1>7. CASE NotifyScheduler
  BY <1>7, <1>n DEF NotifyScheduler, shared_vars, scheduler_vars, ac_vars
<1>8. CASE Respond
  BY <1>8, <1>n DEF Respond, Return, scheduler_vars, ac_vars
<1>9. CASE WakeUp
  BY <1>9, <1>n DEF WakeUp, TypeOK, httpd_vars, shared_vars, ac_vars
<1>10. CASE TurnOn \/ TurnOff \/ TurnOffSkipped \/ InvalidState
  <2>1. /\ UNCHANGED <<httpd_vars, shared_vars, notes>>
        /\ spc = "run" /\ scheduler_state \notin Edits
        /\ spc' = "wait" /\ scheduler_state' \notin Edits
    <3>1. ASSUME NEW active \in BOOLEAN, ConfigWakeup(active) PROVE scheduler_state' \notin Edits
      BY <1>n, <3>1 DEF ConfigWakeup, SetWakeup
    <3> QED BY <1>10, <1>n, <3>1 DEF TurnOn, TurnOff, TurnOffSkipped, InvalidState
  <2> QED BY <2>1 DEF httpd_vars, shared_vars, notes
<1>14. CASE Edit
  BY <1>14 DEF Edit, httpd_vars, shared_vars, notes
<1>15. CASE NotifyHandler
  BY <1>15, <1>n DEF NotifyHandler, TypeOK, httpd_vars, shared_vars, ac_vars
<1>16. CASE GiveSemaphore
  BY <1>16 DEF GiveSemaphore, httpd_vars, notes, ac_vars
<1>17. CASE Config
  <2>1. scheduler_state' \notin Edits
    BY <1>17, <1>n DEF Config, ConfigWakeup, SetWakeup
  <2> QED BY <1>17, <2>1 DEF Config, httpd_vars, shared_vars, notes
<1>18. CASE TimerCallback
  BY <1>18, <1>n DEF TimerCallback, httpd_vars, shared_vars, scheduler_vars
<1>19. CASE TimerCommand
  BY <1>19 DEF TimerCommand, httpd_vars, shared_vars, notes, scheduler_vars
<1>20. CASE Tick
  BY <1>20 DEF Tick, httpd_vars, shared_vars, notes, scheduler_vars
<1>21. CASE UNCHANGED vars
  BY <1>21 DEF vars
<1> QED BY <1>1, <1>2, <1>3, <1>4, <1>5, <1>6, <1>7, <1>8, <1>9, <1>10,
           <1>14, <1>15, <1>16, <1>17, <1>18, <1>19, <1>20, <1>21
        DEF Next, HttpdStep, SchedulerStep, TimerStep

LEMMA HandshakeAlways == Spec => [](TypedIndex /\ Handshake)
BY InitTyped, NextTyped, InitHandshake, NextHandshake, PTL DEF Spec

(* The buffer, the semaphore and the handle stay the waiting handler's own   *)
(* until its answer is sent: httpd and the scheduler never both touch them.  *)
THEOREM RequestAlwaysIntact == Spec => []RequestIntact
<1>1. Handshake => RequestIntact
  BY DEF Handshake
<1> QED BY <1>1, HandshakeAlways, PTL

(* The table only changes while the httpd task, its one other reader, is     *)
(* blocked: schedule_get_handler needs no lock.                             *)
THEOREM TableOnlyChangesForAWaitingHandler == Spec => TableStable
<1>1. TypedIndex /\ Handshake /\ [Next]_vars
        => [hpc = "reply" /\ hnote = None /\ hpc' = "reply"]_entries
  <2> SUFFICES ASSUME Handshake, [Next]_vars, entries' # entries
               PROVE  hpc = "reply" /\ hnote = None /\ hpc' = "reply"
    OBVIOUS
  <2>1. Edit
    BY DEF Next, HttpdStep, SchedulerStep, TimerStep, PostArrives, PostPower, TakeSemaphore,
           RecvFails, Recv, RecvOther, NotifyScheduler, Respond, WakeUp, TurnOn, TurnOff,
           TurnOffSkipped, InvalidState, NotifyHandler, GiveSemaphore, Config,
           TimerCallback, TimerCommand, Tick, ac_vars, vars
  <2> QED BY <2>1 DEF Edit, Handshake, RequestIntact, EditPending, httpd_vars
<1> QED BY <1>1, HandshakeAlways, PTL DEF Spec, TableStable

-----------------------------------------------------------------------------
(* The semaphore.                                                          *)

(* When no client vanishes before its body is read and none asks for an      *)
(* unknown page, the semaphore the handler takes is always given back.       *)
THEOREM SemaphoreAlwaysReleased ==
  ASSUME ~RecvMayFail, \A r \in Requests : r.action # UNKNOWN
  PROVE  Spec => []SemaphoreReleased
<1> DEFINE Known == hpc \in {"take", "recv", "notify", "reply"} => request \in Requests
           IInv == TypedIndex /\ Handshake /\ Released /\ Known
<1>1. Init => Released /\ Known
  BY DEF Init, Released, SemaphoreReleased
<1>2. IInv /\ [Next]_vars => (Released /\ Known)'
  <2> SUFFICES ASSUME IInv, [Next]_vars PROVE (Released /\ Known)'
    OBVIOUS
  <2>0. TypeOK
    BY DEF TypedIndex
  <2> USE DEF Released, SemaphoreReleased
  <2>1. CASE PostArrives
    BY <2>1 DEF PostArrives, shared_vars, notes, scheduler_vars, ac_vars
  <2>2. CASE PostPower
    BY <2>2 DEF PostPower, httpd_vars, shared_vars, notes, scheduler_vars
  <2>3. CASE TakeSemaphore \/ Recv
    BY <2>3 DEF TakeSemaphore, Recv, notes, scheduler_vars, ac_vars
  <2>4. CASE RecvFails \/ RecvOther
    BY <2>4 DEF RecvFails, RecvOther
  <2>5. CASE NotifyScheduler
    BY <2>5 DEF NotifyScheduler, Handshake, shared_vars, scheduler_vars, ac_vars
  <2>6. CASE Respond
    BY <2>6 DEF Respond, Return, scheduler_vars, ac_vars
  <2>7. CASE WakeUp
    BY <2>7 DEF WakeUp, httpd_vars, shared_vars, ac_vars
  <2>8. CASE TurnOn \/ TurnOff \/ TurnOffSkipped \/ InvalidState \/ Config
    BY <2>8 DEF TurnOn, TurnOff, TurnOffSkipped, InvalidState, Config, httpd_vars,
                shared_vars, notes
  <2>9. CASE Edit
    BY <2>9 DEF Edit, httpd_vars, shared_vars, notes
  <2>10. CASE NotifyHandler
    BY <2>10 DEF NotifyHandler, httpd_vars, shared_vars
  <2>11. CASE GiveSemaphore
    BY <2>11 DEF GiveSemaphore, httpd_vars, notes
  <2>12. CASE TimerCallback \/ TimerCommand \/ Tick
    BY <2>12 DEF TimerCallback, TimerCommand, Tick, httpd_vars, shared_vars, notes,
                 scheduler_vars
  <2>13. CASE UNCHANGED vars
    BY <2>13 DEF vars
  <2> QED BY <2>1, <2>2, <2>3, <2>4, <2>5, <2>6, <2>7, <2>8, <2>9, <2>10, <2>11, <2>12, <2>13
          DEF Next, HttpdStep, SchedulerStep, TimerStep
<1>3. IInv => SemaphoreReleased
  BY DEF Released
<1> HIDE DEF Known
<1> QED BY <1>1, <1>2, <1>3, InitTyped, NextTyped, InitHandshake, NextHandshake, PTL DEF Spec
-----------------------------------------------------------------------------
(* The scheduler implements the service its clients see, and no client loses   *)
(* sight of an entry by editing what it was shown.                          *)

(* The service's copies of the table's notions are those of the table.       *)
LEMMA SameNotions ==
  /\ Service!Slots = Slots /\ Service!Answers = Answers /\ Service!Tables = Tables
  /\ Service!NoRequest = NoRequest /\ Service!EmptyTable = EmptyTable
  /\ \A t : Service!ValidSlots(t) = ValidSlots(t) /\ (Service!Compact(t) <=> Compact(t))
  /\ \A t, i : /\ Service!HasRoom(t, i) <=> HasRoom(t, i)
               /\ Service!Removed(t, i) = Removed(t, i)
  /\ \A s, t : Service!SameValid(s, t) <=> SameValid(s, t)
<1> USE DEF Service!Slots, Slots
<1>1. Service!Answers = Answers
  BY DEF Service!Answers, Answers, Service!ESP_OK, ESP_OK,
         Service!ERR_WRONG_FORMAT, ERR_WRONG_FORMAT, Service!ERR_INVALID_ENTRY,
         ERR_INVALID_ENTRY, Service!ERR_SCHED_FULL, ERR_SCHED_FULL
<1>2. Service!Tables = Tables
  BY DEF Service!Tables, Tables, Service!Entry, Entry, Service!Weekdays, Weekdays
<1>3. Service!NoRequest = NoRequest
  BY DEF Service!NoRequest, NoRequest, Service!NoBody, NoBody, Service!BadIndex, BadIndex,
         Service!UNKNOWN, UNKNOWN
<1>4. Service!EmptyTable = EmptyTable
  BY DEF Service!EmptyTable, EmptyTable, Service!ZeroEntry, ZeroEntry
<1>5. \A t : Service!ValidSlots(t) = ValidSlots(t) /\ (Service!Compact(t) <=> Compact(t))
  BY DEF Service!ValidSlots, ValidSlots, Service!Compact, Compact
<1>6. \A t, i : Service!HasRoom(t, i) <=> HasRoom(t, i)
  BY DEF Service!HasRoom, HasRoom, Service!FreeSlots, FreeSlots, Service!ValidSlots, ValidSlots
<1>7. \A t, i : Service!Removed(t, i) = Removed(t, i)
  BY DEF Service!Removed, Removed
<1>8. \A s, t : Service!SameValid(s, t) <=> SameValid(s, t)
  BY DEF Service!SameValid, SameValid
<1> QED BY <1>1, <1>2, <1>3, <1>4, <1>5, <1>6, <1>7, <1>8

-----------------------------------------------------------------------------
(* Each kind of edit keeps the promise its answer makes.                    *)

LEMMA UpdatePromised ==
  ASSUME NEW tbl \in Tables, NEW body \in Body,
         Answer(tbl, UPDATE, body) = ESP_OK
  PROVE  Service!UpdatePromise(tbl, UpdatedBy(tbl, body), body)
<1> DEFINE i == UpdateSlot(tbl, body.index)
           after == UpdatedBy(tbl, body)
<1>0. body.index \in Int /\ body.payload \in Payload
  BY TableAssumption DEF Body, NewIndex, BadIndex
<1>1. CASE Updates(tbl, body.index)
  <2>1. i \in Slots
    BY <1>0, <1>1, UpdateSlotType
  <2>2. Accepted(body.payload)
    BY <1>1 DEF Answer, UPDATE, TOGGLE, DEL, ESP_OK, ERR_WRONG_FORMAT, ERR_SCHED_FULL
  <2>3. IF body.index = NewIndex THEN ~tbl[i].is_valid ELSE i = body.index
    BY <1>1, FirstFreeType DEF Updates, UpdateSlot, FreeSlots, ValidSlots
  <2>4. after = [tbl EXCEPT ![i] = TransferData(tbl[i], body.payload)]
    BY <1>1 DEF UpdatedBy
  <2> HIDE DEF i, after
  <2>5. tbl[i] \in Entry
    BY <2>1 DEF Tables
  <2>6. after[i] = TransferData(tbl[i], body.payload)
    BY <2>1, <2>4 DEF Tables
  <2>7. Service!Holds(after, i, body.payload)
    <3>1. /\ after[i].hour_on = body.payload.hour_on
          /\ after[i].minute_on = body.payload.minute_on
          /\ after[i].hour_off = body.payload.hour_off
          /\ after[i].minute_off = body.payload.minute_off
          /\ after[i].days_of_week = body.payload.days_of_week
          /\ after[i].is_valid /\ after[i].is_on
      BY <1>0, <2>2, <2>5, <2>6, TransferDataStores
    <3> QED BY <3>1 DEF Service!Holds, Service!TimeFields
  <2>8. Service!OthersKept(tbl, after, i)
    BY <2>4, SameNotions DEF Service!OthersKept, Tables
  <2> QED BY <2>1, <2>3, <2>7, <2>8, SameNotions
          DEF Service!UpdatePromise, Service!NewIndex, NewIndex, after
<1>2. CASE ~Updates(tbl, body.index)
  <2>1. body.index \notin Slots \cup {NewIndex}
    BY <1>2 DEF Answer, Updates, UPDATE, TOGGLE, DEL, ESP_OK, ERR_WRONG_FORMAT, ERR_SCHED_FULL,
                NewIndex, BadIndex, Slots
  <2> QED BY <1>2, <2>1, SameNotions
          DEF Service!UpdatePromise, Service!NewIndex, NewIndex, UpdatedBy
<1> QED BY <1>1, <1>2

LEMMA TogglePromised ==
  ASSUME NEW tbl \in Tables, NEW body \in Body,
         Answer(tbl, TOGGLE, body) = ESP_OK
  PROVE  Service!TogglePromise(tbl, ToggledBy(tbl, body), body)
<1>1. body.index \in Slots /\ tbl[body.index].is_valid
  BY DEF Answer, UPDATE, TOGGLE, DEL, ESP_OK, ERR_WRONG_FORMAT, ERR_INVALID_ENTRY
<1>2. body.index \in ValidSlots(tbl)
  BY <1>1 DEF ValidSlots
<1>3. tbl[body.index] \in Entry
  BY <1>1 DEF Tables
<1>4. ToggledBy(tbl, body) =
        [tbl EXCEPT ![body.index] = [tbl[body.index] EXCEPT !.is_on = ~tbl[body.index].is_on]]
  BY <1>2 DEF ToggledBy, Toggled
<1>5. ToggledBy(tbl, body)[body.index].is_on = ~tbl[body.index].is_on
  BY <1>1, <1>3, <1>4 DEF Tables, Entry
<1>6. Service!OthersKept(tbl, ToggledBy(tbl, body), body.index)
  BY <1>4, SameNotions DEF Service!OthersKept, Tables
<1> QED BY <1>2, <1>5, <1>6, SameNotions DEF Service!TogglePromise

LEMMA DeletePromised ==
  ASSUME NEW tbl \in Tables, NEW body \in Body,
         Answer(tbl, DEL, body) = ESP_OK
  PROVE  Service!DeletePromise(tbl, DeletedBy(tbl, body), body)
<1> DEFINE i == body.index
<1>1. i \in Slots
  BY DEF Answer, UPDATE, TOGGLE, DEL, ESP_OK, ERR_WRONG_FORMAT
<1>2. DeletedBy(tbl, body) = Deleted(tbl, i)
  BY <1>1 DEF DeletedBy
<1>3. \A j \in 0..(i - 1) : Deleted(tbl, i)[j] = tbl[j]
  <2> TAKE j \in 0..(i - 1)
  <2>1. j \in Slots /\ j < i
    BY <1>1, TableAssumption DEF Slots
  <2> HIDE DEF i
  <2> QED BY <1>1, <2>1, DeletedSlots
<1>4. Compact(tbl) /\ tbl[i].is_valid /\ HasRoom(tbl, i)
        => SameValid(Deleted(tbl, i), Removed(tbl, i))
  BY <1>1, DeletionKeepsOthers
<1> QED BY <1>1, <1>2, <1>3, <1>4, SameNotions DEF Service!DeletePromise

(* A refused request makes no entry appear or vanish.                        *)
LEMMA RefusalHidden ==
  ASSUME NEW tbl \in Tables, NEW action \in Edits, NEW body \in Body,
         Answer(tbl, action, body) # ESP_OK
  PROVE  ValidSlots(Edited(tbl, action, body)) = ValidSlots(tbl)
<1>0. body.index \in Int /\ body.payload \in Payload
  BY TableAssumption DEF Body, NewIndex, BadIndex
<1>1. CASE action = UPDATE
  <2> DEFINE i == UpdateSlot(tbl, body.index)
  <2>1. Edited(tbl, action, body) = UpdatedBy(tbl, body)
    BY <1>1 DEF Edited, UPDATE, TOGGLE, DEL
  <2>2. CASE Updates(tbl, body.index)
    <3>1. ~Accepted(body.payload)
      BY <1>1, <2>2, TableAssumption
         DEF Answer, Updates, BadIndex, NewIndex, Slots, UPDATE, TOGGLE, DEL
    <3>2. i \in Slots
      BY <1>0, <2>2, UpdateSlotType
    <3>3. UpdatedBy(tbl, body) = [tbl EXCEPT ![i] = TransferData(tbl[i], body.payload)]
      BY <2>2 DEF UpdatedBy
    <3> HIDE DEF i
    <3>4. tbl[i] \in Entry
      BY <3>2 DEF Tables
    <3>5. TransferData(tbl[i], body.payload).is_valid = tbl[i].is_valid
      BY <1>0, <3>1, <3>4, TransferDataStores
    <3>6. \A j \in Slots : UpdatedBy(tbl, body)[j].is_valid = tbl[j].is_valid
      BY <3>2, <3>3, <3>5 DEF Tables
    <3> QED BY <2>1, <3>6 DEF ValidSlots
  <2>3. CASE ~Updates(tbl, body.index)
    BY <2>1, <2>3 DEF UpdatedBy
  <2> QED BY <2>2, <2>3
<1>2. CASE action = TOGGLE
  <2>1. body.index \notin ValidSlots(tbl)
    BY <1>2 DEF Answer, ValidSlots, UPDATE, TOGGLE, DEL
  <2> QED BY <1>2, <2>1 DEF Edited, ToggledBy, UPDATE, TOGGLE, DEL
<1>3. CASE action = DEL
  <2>1. body.index \notin Slots
    BY <1>3 DEF Answer, UPDATE, TOGGLE, DEL
  <2> QED BY <1>3, <2>1 DEF Edited, DeletedBy, UPDATE, TOGGLE, DEL
<1> QED BY <1>1, <1>2, <1>3 DEF Edits

LEMMA EditPromised ==
  ASSUME NEW tbl \in Tables, NEW req \in Request, req.action \in Edits
  PROVE  Service!Promise(tbl, Edited(tbl, req.action, req.body), req,
                         Answer(tbl, req.action, req.body))
<1>0. req.body \in Body
  BY DEF Request
<1>1. CASE Answer(tbl, req.action, req.body) # ESP_OK
  BY <1>0, <1>1, RefusalHidden, SameNotions DEF Service!Promise, Service!ESP_OK, ESP_OK
<1>2. CASE Answer(tbl, req.action, req.body) = ESP_OK
  <2> USE DEF Service!Promise, Service!ESP_OK, ESP_OK, Service!UPDATE, UPDATE,
              Service!TOGGLE, TOGGLE, Service!DEL, DEL, Edited, Edits
  <2>1. CASE req.action = UPDATE
    BY <1>0, <1>2, <2>1, UpdatePromised
  <2>2. CASE req.action = TOGGLE
    BY <1>0, <1>2, <2>2, TogglePromised
  <2>3. CASE req.action = DEL
    BY <1>0, <1>2, <2>3, DeletePromised
  <2> QED BY <2>1, <2>2, <2>3
<1> QED BY <1>1, <1>2

-----------------------------------------------------------------------------
(* The refinement.                                                         *)

LEMMA InitRefines == Init => Service!Init
BY SameNotions DEF Init, Service!Init, Answered, None

LEMMA StepRefines ==
  TypedIndex /\ Handshake /\ [Next]_vars => [Service!Next]_(Service!vars)
<1> SUFFICES ASSUME TypedIndex, Handshake, [Next]_vars
             PROVE  Service!Next \/ UNCHANGED Service!vars
  OBVIOUS
<1>0. TypeOK
  BY DEF TypedIndex
<1>t. TypeOK'
  BY NextTyped DEF TypedIndex
<1>n. None \notin Answers /\ None = "None"
  BY DEF None, Answers, ESP_OK, ERR_WRONG_FORMAT, ERR_INVALID_ENTRY, ERR_SCHED_FULL
<1> USE <1>0 DEF Service!vars, Answered, Handshake, RequestIntact, EditPending
<1>1. CASE PostArrives
  <2>1. Service!Ask
    BY <1>1, <1>n DEF PostArrives, Service!Ask, shared_vars, notes, scheduler_vars, ac_vars
  <2> QED BY <2>1 DEF Service!Next
<1>2. CASE PostPower
  BY <1>2 DEF PostPower, httpd_vars, shared_vars, notes, scheduler_vars
<1>3. CASE TakeSemaphore \/ Recv
  BY <1>3 DEF TakeSemaphore, Recv, notes, scheduler_vars, ac_vars
<1>4. CASE RecvFails \/ RecvOther
  <2>1. Service!Abandon
    BY <1>4, <1>n, SameNotions
       DEF RecvFails, RecvOther, Return, Service!Abandon, shared_vars, notes, scheduler_vars, ac_vars
  <2> QED BY <2>1 DEF Service!Next
<1>5. CASE NotifyScheduler
  BY <1>5 DEF NotifyScheduler, shared_vars, scheduler_vars, ac_vars
<1>6. CASE Respond
  <2>1. Service!Reply
    BY <1>6, <1>n, SameNotions
       DEF Respond, Return, Service!Reply, scheduler_vars, ac_vars
  <2> QED BY <2>1 DEF Service!Next
<1>7. CASE WakeUp
  BY <1>7 DEF WakeUp, httpd_vars, shared_vars, ac_vars
<1>8. CASE TurnOn \/ TurnOff \/ TurnOffSkipped \/ InvalidState
  BY <1>8 DEF TurnOn, TurnOff, TurnOffSkipped, InvalidState, ac_vars, httpd_vars, shared_vars, notes
<1>9. CASE Edit
  <2>1. /\ hpc = "reply" /\ hnote = None /\ request.action \in Edits
        /\ scheduler_state = request.action /\ schedule_data = request.body
    BY <1>9 DEF Edit
  <2>2. Service!Promise(entries, entries', request, uri_err_notification')
    BY <1>9, <2>1, EditPromised DEF Edit, TypeOK
  <2>3. entries' \in Service!Tables /\ uri_err_notification' \in Service!Answers
    BY <1>t, SameNotions DEF TypeOK
  <2>4. hpc' = "reply" /\ request' = request /\ hnote' = None /\ spc' = "answer" /\ spc = "run"
    BY <1>9, <2>1 DEF Edit, httpd_vars, notes
  <2>5. Service!Edit
    BY <2>1, <2>2, <2>3, <2>4 DEF Service!Edit
  <2> QED BY <2>5 DEF Service!Next
<1>10. CASE NotifyHandler
  BY <1>10, <1>n DEF NotifyHandler, TypeOK, httpd_vars, shared_vars, ac_vars
<1>11. CASE GiveSemaphore
  BY <1>11 DEF GiveSemaphore, httpd_vars, notes, ac_vars
<1>12. CASE Config
  BY <1>12 DEF Config, httpd_vars, shared_vars, notes
<1>13. CASE TimerCallback \/ TimerCommand \/ Tick
  BY <1>13 DEF TimerCallback, TimerCommand, Tick, httpd_vars, shared_vars, notes, scheduler_vars
<1>14. CASE UNCHANGED vars
  BY <1>14 DEF vars
<1> QED BY <1>1, <1>2, <1>3, <1>4, <1>5, <1>6, <1>7, <1>8, <1>9, <1>10, <1>11, <1>12, <1>13, <1>14
        DEF Next, HttpdStep, SchedulerStep, TimerStep

(* Seen by its clients, the pair of tasks is a service that edits the table   *)
(* once for every request it answers, as the answer says, and never          *)
(* otherwise.                                                               *)
THEOREM SchedulerImplementsService == Spec => ServiceSpec
BY InitRefines, StepRefines, HandshakeAlways, PTL DEF Spec, ServiceSpec, Service!Spec

-----------------------------------------------------------------------------
(* What schedule_get_handler lists.                                        *)

LEMMA BelowCount ==
  ASSUME NEW n \in Nat
  PROVE  IsFiniteSet(0..(n - 1)) /\ Cardinality(0..(n - 1)) = n
<1>1. 0 \in Int /\ n - 1 \in Int
  OBVIOUS
<1>2. /\ IsFiniteSet(0..(n - 1))
      /\ Cardinality(0..(n - 1)) = IF 0 > n - 1 THEN 0 ELSE (n - 1) - 0 + 1
  BY <1>1, FS_Interval
<1> QED BY <1>2

(* In a table without gaps, the entries before the index after the last      *)
(* valid one are valid.                                                     *)
LEMMA ValidBelow ==
  ASSUME NEW tbl \in Tables, Compact(tbl), NEW i \in Int,
         i <= Cardinality(ValidSlots(tbl)), NEW j \in Slots, j < i
  PROVE  tbl[j].is_valid
<1>1. SUFFICES ASSUME ~tbl[j].is_valid PROVE FALSE
  OBVIOUS
<1>2. ValidSlots(tbl) \subseteq 0..(j - 1)
  BY <1>1, TableAssumption DEF ValidSlots, Slots, Compact
<1>3. j \in Nat /\ j - 1 \in Int
  BY TableAssumption DEF Slots
<1>4. IsFiniteSet(0..(j - 1)) /\ Cardinality(0..(j - 1)) = j
  BY <1>3, BelowCount
<1>5. Cardinality(ValidSlots(tbl)) <= j /\ Cardinality(ValidSlots(tbl)) \in Nat
  BY <1>2, <1>4, FS_Subset, FS_CardinalityType
<1> QED BY <1>3, <1>5

LEMMA UpdateStaysCompact ==
  ASSUME NEW tbl \in Tables, NEW body \in Body, Compact(tbl),
         body.index <= Cardinality(ValidSlots(tbl))
  PROVE  Compact(UpdatedBy(tbl, body))
<1> DEFINE i == UpdateSlot(tbl, body.index)
           after == UpdatedBy(tbl, body)
<1>0. body.index \in Int /\ body.payload \in Payload
  BY TableAssumption DEF Body, NewIndex, BadIndex
<1>1. CASE Updates(tbl, body.index)
  <2>1. i \in Slots
    BY <1>0, <1>1, UpdateSlotType
  <2>2. \A j \in Slots : j < i => tbl[j].is_valid
    <3>1. CASE body.index = NewIndex
      <4>1. i = FirstFree(tbl) /\ FreeSlots(tbl) # {}
        BY <1>1, <3>1 DEF Updates, UpdateSlot
      <4>2. \A j \in FreeSlots(tbl) : i <= j
        <5>1. FreeSlots(tbl) \subseteq Nat
          BY TableAssumption DEF FreeSlots, Slots
        <5>2. \E k \in FreeSlots(tbl) : \A j \in FreeSlots(tbl) : k <= j
          BY <4>1, <5>1, LeastNatural
        <5> QED BY <4>1, <5>2 DEF FirstFree
      <4> HIDE DEF i
      <4> QED BY <2>1, <4>2 DEF FreeSlots, ValidSlots, Slots
    <3>2. CASE body.index # NewIndex
      <4>1. i = body.index
        BY <3>2 DEF UpdateSlot
      <4> QED BY <1>0, <4>1, ValidBelow
    <3> QED BY <3>1, <3>2
  <2>3. after = [tbl EXCEPT ![i] = TransferData(tbl[i], body.payload)]
    BY <1>1 DEF UpdatedBy
  <2> HIDE DEF i, after
  <2>4. tbl[i] \in Entry
    BY <2>1 DEF Tables
  <2>5. tbl[i].is_valid => TransferData(tbl[i], body.payload).is_valid
    BY <1>0, <2>4, TransferDataStores
  <2>6. \A j \in Slots : after[j] = IF j = i THEN TransferData(tbl[i], body.payload) ELSE tbl[j]
    BY <2>1, <2>3 DEF Tables
  <2>7. \A j \in Slots : tbl[j].is_valid => after[j].is_valid
    BY <2>5, <2>6
  <2>8. ASSUME NEW a \in Slots, NEW b \in Slots, a < b, after[b].is_valid
        PROVE  after[a].is_valid
    <3>1. CASE b = i
      BY <2>2, <2>7, <2>8, <3>1
    <3>2. CASE b # i
      BY <2>6, <2>7, <2>8, <3>2 DEF Compact
    <3> QED BY <3>1, <3>2
  <2> QED BY <2>8 DEF Compact, after
<1>2. CASE ~Updates(tbl, body.index)
  BY <1>2 DEF UpdatedBy
<1> QED BY <1>1, <1>2

LEMMA ToggleStaysCompact ==
  ASSUME NEW tbl \in Tables, NEW body \in Body, Compact(tbl)
  PROVE  Compact(ToggledBy(tbl, body))
<1>1. \A i, j \in Slots : Toggled(tbl, i)[j].is_valid = tbl[j].is_valid
  BY DEF Toggled, Tables, Entry
<1>2. \A j \in Slots : ToggledBy(tbl, body)[j].is_valid = tbl[j].is_valid
  BY <1>1 DEF ToggledBy, ValidSlots
<1> QED BY <1>2 DEF Compact

(* An edit at an index that a client was shown, or at the next one, leaves    *)
(* no valid entry behind one that is not: none drops out of the listing of   *)
(* schedule_get_handler, which stops there (uri_handlers.c:121).             *)
THEOREM EveryEntryStaysListed == Spec => StaysListed
<1>1. ASSUME TypedIndex, [Next]_vars, entries' # entries,
             Compact(entries), schedule_data.index <= Cardinality(ValidSlots(entries))
      PROVE  Compact(entries')
  <2>1. Edit
    BY <1>1 DEF Next, HttpdStep, SchedulerStep, TimerStep, PostArrives, PostPower, TakeSemaphore,
           RecvFails, Recv, RecvOther, NotifyScheduler, Respond, WakeUp, TurnOn, TurnOff,
           TurnOffSkipped, InvalidState, NotifyHandler, GiveSemaphore, Config,
           TimerCallback, TimerCommand, Tick, ac_vars, vars
  <2>2. /\ entries \in Tables /\ schedule_data \in Body /\ scheduler_state \in Edits
        /\ entries' = Edited(entries, scheduler_state, schedule_data)
    BY <1>1, <2>1 DEF Edit, TypedIndex, TypeOK
  <2> USE DEF Edited, Edits, UPDATE, TOGGLE, DEL
  <2>3. CASE scheduler_state = UPDATE
    BY <1>1, <2>2, <2>3, UpdateStaysCompact
  <2>4. CASE scheduler_state = TOGGLE
    BY <1>1, <2>2, <2>4, ToggleStaysCompact
  <2>5. CASE scheduler_state = DEL
    BY <1>1, <2>2, <2>5, DeletionStaysCompact DEF DeletedBy
  <2> QED BY <2>2, <2>3, <2>4, <2>5
<1>2. TypedIndex /\ [Next]_vars
        => [Compact(entries) /\ schedule_data.index <= Cardinality(ValidSlots(entries))
              => Compact(entries')]_entries
  BY <1>1
<1> QED BY <1>2, TypedAlways, PTL DEF Spec, StaysListed

(* A request that is refused makes no entry appear or vanish.                *)
THEOREM RejectionAlwaysHidden == Spec => RejectedEditHidden
<1>1. ASSUME TypedIndex, [Next]_vars, spc = "run", spc' = "answer",
             uri_err_notification' # ESP_OK
      PROVE  ValidSlots(entries') = ValidSlots(entries)
  <2>1. Edit
    BY <1>1 DEF Next, HttpdStep, SchedulerStep, TimerStep, PostArrives, PostPower, TakeSemaphore,
           RecvFails, Recv, RecvOther, NotifyScheduler, Respond, WakeUp, TurnOn, TurnOff,
           TurnOffSkipped, InvalidState, NotifyHandler, GiveSemaphore, Config,
           TimerCallback, TimerCommand, Tick, scheduler_vars, vars
  <2> QED BY <1>1, <2>1, RefusalHidden DEF Edit, TypedIndex, TypeOK
<1>2. TypedIndex /\ [Next]_vars
        => [spc = "run" /\ spc' = "answer" /\ uri_err_notification' # ESP_OK
              => ValidSlots(entries') = ValidSlots(entries)]_vars
  BY <1>1
<1> QED BY <1>2, TypedAlways, PTL DEF Spec, RejectedEditHidden

-----------------------------------------------------------------------------
(* The wake-up.                                                            *)

(* When the timer will expire: the period on its way to the timer task is    *)
(* about to replace the one that runs.                                      *)
Pending == IF timer_command # Dormant THEN timer_command ELSE timer

StartDue(delay) ==
  LET e == entries[next_event_index]
  IN  /\ e.is_valid
      /\ \E day \in e.days_of_week :
           (now + delay) % WEEK = At(day, e.hour_on, e.minute_on)
      /\ \A i \in ValidSlots(entries) : \A day \in entries[i].days_of_week :
           (At(day, entries[i].hour_on, entries[i].minute_on) - now) % WEEK >= delay

EndDue(delay) ==
  LET e == entries[next_event_index]
  IN  (now + delay) % WEEK = At(turn_off_day, e.hour_off, e.minute_off)

(* The inductive invariant of the wake-up: what ArmedForTheEvent says of a    *)
(* running timer holds of the period in the command queue, too, and while a   *)
(* notification waits that may be stale, until the scheduler handles it.     *)
Armed ==
  /\ timer_command # Dormant => timer_command > 0
  /\ spc \in {"wait", "run"} /\ scheduler_state = AC_ON =>
       ~schedule_active /\ (Pending > 0 => StartDue(Pending))
  /\ spc \in {"wait", "run"} /\ scheduler_state = AC_OFF =>
       schedule_active /\ (Pending > 0 => EndDue(Pending))
  /\ spc = "wait" /\ scheduler_state = AC_ON =>
       timer # Dormant \/ timer_command # Dormant \/ snote # None

LEMMA ArmedSuffices == TypedIndex /\ Armed => StartArmed /\ ArmedForTheEvent
BY DEF Armed, StartArmed, ArmedForTheEvent, Asleep, Pending, StartDue, EndDue, WakeTime

LEMMA InitArmed == Init => Armed
BY DEF Init, Armed, NOP, AC_ON, AC_OFF

(* config_wakeup arms the timer for the event whose state it sets.           *)
LEMMA ConfigWakeupArms ==
  ASSUME TypedIndex, NEW active \in BOOLEAN, active => next_event_index \in Slots,
         ConfigWakeup(active), entries' = entries, now' = now,
         timer_command # Dormant => timer_command > 0
  PROVE  /\ timer_command' # Dormant => timer_command' > 0
         /\ scheduler_state' = AC_ON =>
              ~active /\ timer_command' # Dormant /\ StartDue(timer_command)'
         /\ scheduler_state' = AC_OFF =>
              active /\ timer_command' # Dormant /\ EndDue(timer_command)'
<1>0. /\ entries \in Tables /\ now \in Instants /\ turn_off_day \in Weekdays
      /\ AC_ON # AC_OFF /\ NOP # AC_ON /\ NOP # AC_OFF
  BY DEF TypedIndex, TypeOK, AC_ON, AC_OFF, NOP
<1>1. CASE active
  <2> DEFINE e == entries[next_event_index]
             delay == OffDelay(e, turn_off_day, now)
  <2>1. SetWakeup(delay, AC_OFF) /\ UNCHANGED <<next_event_index, turn_off_day>>
    BY <1>1 DEF ConfigWakeup
  <2>2. e.hour_off \in 0..(HOURS - 1) /\ e.minute_off \in 0..(MINS - 1)
    BY <1>0, <1>1 DEF Tables, Entry
  <2>3. delay > 0 => (now + delay) % WEEK = At(turn_off_day, e.hour_off, e.minute_off)
    <3>1. delay = CalcDelay(turn_off_day, e.hour_off, e.minute_off, now)
      BY DEF OffDelay
    <3> HIDE DEF e, delay
    <3> QED BY <1>0, <2>2, <3>1, DelayIsDistance
  <2>4. delay \in Int
    BY <1>0, <1>1, OffDelayType DEF Tables
  <2>5. CASE delay > 0
    <3>1. scheduler_state' = AC_OFF /\ timer_command' = delay /\ timer_command' # Dormant
      BY <2>1, <2>4, <2>5 DEF SetWakeup, Dormant
    <3>2. (now' + timer_command') % WEEK
             = At(turn_off_day', entries'[next_event_index'].hour_off,
                  entries'[next_event_index'].minute_off)
      BY <2>1, <2>3, <2>5, <3>1
    <3> QED BY <1>0, <1>1, <2>5, <3>1, <3>2 DEF EndDue
  <2>6. CASE ~(delay > 0)
    BY <1>0, <2>1, <2>6 DEF SetWakeup
  <2> QED BY <2>5, <2>6
<1>2. CASE ~active /\ HasCandidate(entries, now)
  <2> DEFINE c == Nearest(entries, now)
             e == entries[c[1]]
             delay == CandidateDelay(entries, c, now)
             day == DayAhead(c[2], now)
  <2>1. SetWakeup(delay, AC_ON) /\ next_event_index' = c[1]
    BY <1>2 DEF ConfigWakeup
  <2>2. /\ e.is_valid /\ day \in e.days_of_week /\ delay \in Int
        /\ delay > 0 => (now + delay) % WEEK = At(day, e.hour_on, e.minute_on)
    BY <1>0, <1>2, NearestStarts
  <2>3. delay > 0 =>
          \A i \in ValidSlots(entries) : \A d \in entries[i].days_of_week :
            (At(d, entries[i].hour_on, entries[i].minute_on) - now) % WEEK >= delay
    BY <1>0, <1>2, NearestIsFirst
  <2> HIDE DEF c, delay, day
  <2>4. CASE delay > 0
    <3>1. scheduler_state' = AC_ON /\ timer_command' = delay /\ timer_command' # Dormant
      BY <2>1, <2>2, <2>4 DEF SetWakeup, Dormant
    <3>2. StartDue(timer_command)'
      BY <2>1, <2>2, <2>3, <2>4, <3>1 DEF StartDue
    <3> QED BY <1>0, <1>2, <2>4, <3>1, <3>2
  <2>5. CASE ~(delay > 0)
    BY <1>0, <2>1, <2>5 DEF SetWakeup
  <2> QED BY <2>4, <2>5
<1>3. CASE ~active /\ ~HasCandidate(entries, now)
  BY <1>0, <1>3 DEF ConfigWakeup, SetWakeup
<1> QED BY <1>1, <1>2, <1>3

(* A second brings the clock nearer to what is due, and moves nothing else.  *)
LEMMA TickKeepsDue ==
  ASSUME NEW t \in Instants, NEW x \in Int, NEW delay \in Nat, delay > 0
  PROVE  /\ (((t + 1) % WEEK) + (delay - 1)) % WEEK = (t + delay) % WEEK
         /\ (x - t) % WEEK >= delay
              => (x - ((t + 1) % WEEK)) % WEEK >= delay - 1
<1>0. WEEK \in Nat /\ WEEK > 0 /\ t \in Int
  BY CalendarTypes DEF Instants
<1>1. (((t + 1) % WEEK) + (delay - 1)) % WEEK = (t + delay) % WEEK
  <2>1. (((t + 1) % WEEK) + (delay - 1)) % WEEK = ((t + 1) + (delay - 1)) % WEEK
    <3>1. t + 1 \in Int /\ delay - 1 \in Int
      BY <1>0
    <3> QED BY <1>0, <3>1, RemainderOfSum
  <2>2. (t + 1) + (delay - 1) = t + delay
    BY <1>0
  <2> QED BY <2>1, <2>2
<1>2. ASSUME (x - t) % WEEK >= delay
      PROVE  (x - ((t + 1) % WEEK)) % WEEK >= delay - 1
  <2> DEFINE r == (x - t) % WEEK
  <2>1. r \in 0..(WEEK - 1) /\ x - t \in Int
    BY <1>0, RemainderType
  <2>2. (x - ((t + 1) % WEEK)) % WEEK = (x - (t + 1)) % WEEK
    <3>1. t + 1 \in Int
      BY <1>0
    <3> QED BY <1>0, <3>1, RemainderOfDifference
  <2>3. x - (t + 1) = (x - t) + (-1)
    BY <1>0
  <2>4. (x - (t + 1)) % WEEK = (r + (-1)) % WEEK
    <3>1. -1 \in Int
      OBVIOUS
    <3>2. (((x - t) % WEEK) + (-1)) % WEEK = ((x - t) + (-1)) % WEEK
      BY <1>0, <2>1, <3>1, RemainderOfSum
    <3> QED BY <2>3, <3>2
  <2>5. r >= delay
    BY <1>2
  <2> HIDE DEF r
  <2>6. r + (-1) \in 0..(WEEK - 1)
    BY <1>0, <2>1, <2>5
  <2>7. (r + (-1)) % WEEK = r + (-1)
    BY <1>0, <2>6, SmallRemainder
  <2>8. r + (-1) >= delay - 1
    BY <2>1, <2>5
  <2> QED BY <2>2, <2>4, <2>7, <2>8
<1> QED BY <1>1, <1>2

LEMMA NextArmed == TypedIndex /\ Armed /\ [Next]_vars => Armed'
<1> SUFFICES ASSUME TypedIndex, Armed, [Next]_vars PROVE Armed'
  OBVIOUS
<1>0. TypeOK /\ IndexInTable
  BY DEF TypedIndex
<1>n. /\ None # TIMER /\ None \notin Edits
      /\ AC_ON # AC_OFF /\ NOP # AC_ON /\ NOP # AC_OFF
      /\ AC_ON \notin Edits /\ AC_OFF \notin Edits
  BY DEF None, TIMER, Edits, UPDATE, TOGGLE, DEL, AC_ON, AC_OFF, NOP
<1>1. CASE UNCHANGED <<entries, schedule_active, next_event_index, turn_off_day, timer,
                       timer_command, now, spc, scheduler_state>>
           /\ (snote # None => snote' # None)
  BY <1>1 DEF Armed, Pending, StartDue, EndDue
<1>2. CASE PostArrives \/ PostPower \/ HttpdStep \/ UNCHANGED vars
  <2>1. /\ UNCHANGED <<entries, schedule_active, next_event_index, turn_off_day, timer,
                       timer_command, now, spc, scheduler_state>>
        /\ (snote # None => snote' # None)
    <3>1. CASE NotifyScheduler
      <4>1. snote' # None
        BY <1>n, <3>1 DEF NotifyScheduler, TypedIndex
      <4> QED BY <3>1, <4>1 DEF NotifyScheduler, scheduler_vars, ac_vars, manager_vars, timers
    <3> QED BY <1>2, <3>1
            DEF HttpdStep, PostArrives, PostPower, TakeSemaphore, RecvFails, Recv, RecvOther,
                Respond, notes, scheduler_vars, ac_vars, manager_vars, timers, vars
  <2> QED BY <1>1, <2>1
<1>3. CASE WakeUp
  <2>1. /\ UNCHANGED <<entries, schedule_active, next_event_index, turn_off_day, timer,
                       timer_command, now>>
        /\ spc = "wait" /\ spc' = "run"
        /\ scheduler_state' = scheduler_state \/ scheduler_state' \in Edits
    BY <1>0, <1>3 DEF WakeUp, TypeOK, ac_vars, manager_vars, timers
  <2> QED BY <1>n, <2>1 DEF Armed, Pending, StartDue, EndDue
<1>4. ASSUME NEW active \in BOOLEAN, active => next_event_index \in Slots,
             ConfigWakeup(active), entries' = entries, now' = now,
             schedule_active' = active
      PROVE  Armed'
  <2>1. /\ timer_command' # Dormant => timer_command' > 0
        /\ scheduler_state' = AC_ON =>
             ~active /\ timer_command' # Dormant /\ StartDue(timer_command)'
        /\ scheduler_state' = AC_OFF =>
             active /\ timer_command' # Dormant /\ EndDue(timer_command)'
    BY <1>4, ConfigWakeupArms DEF Armed
  <2> QED BY <1>4, <2>1 DEF Armed, Pending, StartDue, EndDue
<1>5. CASE TurnOn
  BY <1>0, <1>4, <1>5 DEF TurnOn, IndexInTable
<1>6. CASE TurnOff
  BY <1>4, <1>6 DEF TurnOff
<1>7. CASE Config
  BY <1>0, <1>4, <1>7 DEF Config, IndexInTable, TypeOK
<1>8. CASE TurnOffSkipped \/ InvalidState
  <2>1. /\ UNCHANGED <<entries, schedule_active, next_event_index, turn_off_day, timer,
                       timer_command, now, scheduler_state>>
        /\ spc = "run" /\ spc' = "wait" /\ scheduler_state # AC_ON
    BY <1>8, <1>n DEF TurnOffSkipped, InvalidState, ac_vars, manager_vars, timers
  <2> QED BY <2>1 DEF Armed, Pending, StartDue, EndDue
<1>9. CASE Edit \/ NotifyHandler \/ GiveSemaphore
  <2>1. UNCHANGED <<timer, timer_command>> /\ spc' \notin {"wait", "run"}
    BY <1>9 DEF Edit, NotifyHandler, GiveSemaphore, ac_vars, timers
  <2> QED BY <2>1 DEF Armed
<1>10. CASE TimerCallback
  <2>1. /\ UNCHANGED <<entries, schedule_active, next_event_index, turn_off_day,
                       timer_command, now, spc, scheduler_state>>
        /\ timer' = Dormant /\ snote' # None
    BY <1>10, <1>n DEF TimerCallback, scheduler_vars, manager_vars
  <2>2. Pending' > 0 => Pending' = Pending
    BY <2>1 DEF Pending, Dormant
  <2>3. Pending' > 0 => (StartDue(Pending)' <=> StartDue(Pending))
    BY <2>1, <2>2 DEF StartDue
  <2>4. Pending' > 0 => (EndDue(Pending)' <=> EndDue(Pending))
    BY <2>1, <2>2 DEF EndDue
  <2> HIDE DEF Pending
  <2> QED BY <2>1, <2>2, <2>3, <2>4 DEF Armed
<1>11. CASE TimerCommand
  <2>1. /\ UNCHANGED <<entries, schedule_active, next_event_index, turn_off_day,
                       now, spc, scheduler_state>>
        /\ timer_command # Dormant /\ timer' = timer_command /\ timer_command' = Dormant
    BY <1>11 DEF TimerCommand, scheduler_vars, manager_vars
  <2>2. Pending' = Pending
    BY <2>1 DEF Pending
  <2>3. (StartDue(Pending)' <=> StartDue(Pending)) /\ (EndDue(Pending)' <=> EndDue(Pending))
    BY <2>1, <2>2 DEF StartDue, EndDue
  <2> HIDE DEF Pending
  <2> QED BY <2>1, <2>2, <2>3 DEF Armed
<1>12. CASE Tick
  <2>1. /\ UNCHANGED <<entries, schedule_active, next_event_index, turn_off_day,
                       timer_command, snote, spc, scheduler_state>>
        /\ now' = (now + 1) % WEEK
        /\ timer # 0 /\ timer_command = Dormant /\ timer \in Nat \cup {Dormant}
        /\ spc = "wait" /\ snote = None
        /\ timer' = IF timer > 0 THEN timer - 1 ELSE timer
    BY <1>0, <1>12 DEF Tick, Urgent, notes, scheduler_vars, manager_vars, TypeOK
  <2>2. Pending = timer /\ Pending' = timer'
    BY <2>1 DEF Pending
  <2>3. CASE timer > 0
    <3>1. timer \in Nat /\ timer' = timer - 1 /\ now \in Instants
      BY <1>0, <2>1, <2>3 DEF Dormant, TypeOK
    <3>2. \A x \in Int : (x - now) % WEEK >= timer => (x - now') % WEEK >= timer'
      BY <2>1, <2>3, <3>1, TickKeepsDue
    <3>3. (now' + timer') % WEEK = (now + timer) % WEEK
      <4>1. (((now + 1) % WEEK) + (timer - 1)) % WEEK = (now + timer) % WEEK
        BY <2>3, <3>1, TickKeepsDue
      <4> QED BY <2>1, <3>1, <4>1
    <3>4. StartDue(timer) => StartDue(timer)'
      <4> SUFFICES ASSUME StartDue(timer) PROVE StartDue(timer)'
        OBVIOUS
      <4>1. \A i \in ValidSlots(entries) : \A day \in entries[i].days_of_week :
              At(day, entries[i].hour_on, entries[i].minute_on) \in Int
        <5> TAKE i \in ValidSlots(entries)
        <5> TAKE day \in entries[i].days_of_week
        <5>1. /\ entries[i].hour_on \in Int /\ entries[i].minute_on \in Int
              /\ day \in Int
          BY <1>0, CalendarAssumption DEF TypeOK, ValidSlots, Tables, Entry, Weekdays
        <5> QED BY <5>1, AtSum
      <4>2. \A i \in ValidSlots(entries) : \A day \in entries[i].days_of_week :
              (At(day, entries[i].hour_on, entries[i].minute_on) - now') % WEEK >= timer'
        BY <3>2, <4>1 DEF StartDue
      <4>3. \E day \in entries[next_event_index].days_of_week :
              (now' + timer') % WEEK
                = At(day, entries[next_event_index].hour_on, entries[next_event_index].minute_on)
        BY <3>3 DEF StartDue
      <4> QED BY <2>1, <4>2, <4>3 DEF StartDue
    <3>5. EndDue(timer) => EndDue(timer)'
      BY <2>1, <3>3 DEF EndDue
    <3>6. timer' # Dormant
      BY <2>3, <3>1 DEF Dormant
    <3> QED BY <2>1, <2>2, <2>3, <3>4, <3>5, <3>6 DEF Armed
  <2>4. CASE ~(timer > 0)
    <3>1. timer = Dormant /\ timer' = Dormant
      BY <2>1, <2>4
    <3> QED BY <2>1, <2>2, <3>1 DEF Armed, Dormant
  <2> QED BY <2>3, <2>4
<1> QED BY <1>2, <1>3, <1>5, <1>6, <1>7, <1>8, <1>9, <1>10, <1>11, <1>12
        DEF Next, SchedulerStep, TimerStep

LEMMA ArmedAlways == Spec => [](TypedIndex /\ Armed)
BY InitTyped, NextTyped, InitArmed, NextArmed, PTL DEF Spec

(* A scheduler that sleeps before a start has a timer that will wake it       *)
(* (server_schedule.c:225), whatever expired, was edited or was overwritten.  *)
THEOREM StartAlwaysArmed == Spec => []StartArmed
BY ArmedAlways, ArmedSuffices, PTL

(* ... and that timer expires when the entry starts that is due first, or     *)
(* when the one in use ends: the searched delay, the command queue, the       *)
(* stale expiry and the clock agree in every state.                         *)
THEOREM AlwaysArmedForTheEvent == Spec => []ArmedForTheEvent
BY ArmedAlways, ArmedSuffices, PTL
=============================================================================
