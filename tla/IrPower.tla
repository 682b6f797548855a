------------------------------- MODULE IrPower -------------------------------
(***************************************************************************)
(* Switching the AC of "ESP32 - IR remote": two tasks that share the        *)
(* settings and the RMT transmitter.                                       *)
(*                                                                         *)
(*   httpd      update_post_handler (uri_handlers.c)                       *)
(*   scheduler  the AC_ON and AC_OFF branches of ac_scheduler_task          *)
(*                                                                         *)
(* A frame whose power bit is set toggles the AC.  The AC does not answer,  *)
(* so the remote keeps track of it in power_state.  Neither task takes a    *)
(* lock: power, power_state and the highest bit of mode are bit-fields of   *)
(* one machine word, and writing one of them reads and writes back all      *)
(* three.  The AC is assumed to hear every frame and no other remote.       *)
(***************************************************************************)
EXTENDS IrSettings

CONSTANT Commands           \* the commands clients send

ASSUME IrPowerAssumption == Commands \subseteq Command

Tasks == {"httpd", "scheduler"}

Other(t) == IF t = "httpd" THEN "scheduler" ELSE "httpd"

(* The word's bit-fields; "none" while a task has not read it. *)
Word == [mode_high : 0..1, power : 0..1, power_state : 0..1]
Unread == [mode_high |-> 0, power |-> 0, power_state |-> 2]

Frame == [power : 0..1, fields : Fields]
NoFrame == [power |-> 2, fields |-> InitialFields]

VARIABLES
  fields, power, power_state,   \* *ir_settings
  register,                     \* per task: the word it has read to write back
  pc, command,                  \* the tasks; httpd's command
  event, schedule_active,       \* scheduler: AC_ON or AC_OFF
  frame, queued, completed,     \* the RMT channel: on air, waiting, sent but not
                                \* yet recycled
  wanted,                       \* per task: completions it has yet to take
  ac_on, ac_fields,             \* the AC
  overlapped                    \* history: whether the tasks ever overlapped

settings_vars == <<fields, power, power_state, register>>
rmt_vars == <<frame, queued, completed, wanted, ac_on, ac_fields>>
event_vars == <<command, event, schedule_active, overlapped>>
vars == <<fields, power, power_state, register, pc, command, event,
          schedule_active, frame, queued, completed, wanted, ac_on, ac_fields, overlapped>>

Init ==
  /\ fields = InitialFields
  /\ power = 0 /\ power_state = 0
  /\ register = [t \in Tasks |-> Unread]
  /\ pc = [t \in Tasks |-> "idle"]
  /\ command \in Commands
  /\ event = "AC_ON" /\ schedule_active = FALSE
  /\ frame = NoFrame /\ queued = 0 /\ completed = 0
  /\ wanted = [t \in Tasks |-> 0]
  /\ ac_on = FALSE /\ ac_fields = InitialFields
  /\ overlapped = FALSE

At(t, here, there) == pc[t] = here /\ pc' = [pc EXCEPT ![t] = there]

Began(t) == overlapped' = (overlapped \/ pc[Other(t)] # "idle")

-----------------------------------------------------------------------------
(* Writing a bit-field: the word is read, then written back with one field   *)
(* changed.                                                                 *)

Writes(t) ==
  \/ pc[t] \in {"power", "state", "clear"}
  \/ pc[t] = "apply" /\ command.word \in DOMAIN ModeOf

Load(t) ==
  /\ Writes(t)
  /\ register[t] = Unread
  /\ register' = [register EXCEPT ![t] =
       [mode_high |-> fields.mode \div 4, power |-> power, power_state |-> power_state]]
  /\ UNCHANGED <<fields, power, power_state, pc, event_vars, rmt_vars>>

(* The lower bits of the fields come from "low", the word from the register. *)
Store(t, low, word) ==
  /\ register[t] # Unread
  /\ fields' = [low EXCEPT !.mode = (@ % 4) + 4 * word.mode_high]
  /\ power' = word.power
  /\ power_state' = word.power_state
  /\ register' = [register EXCEPT ![t] = Unread]

-----------------------------------------------------------------------------
(* update_post_handler.                                                    *)

Receive ==
  /\ pc["httpd"] = "idle"
  /\ command' \in Commands
  /\ pc' = [pc EXCEPT !["httpd"] = IF command'.word = "POWER" THEN "power" ELSE "apply"]
  /\ Began("httpd")
  /\ UNCHANGED <<settings_vars, event, schedule_active, rmt_vars>>

ApplyMode ==
  /\ At("httpd", "apply", "transmit")
  /\ command.word \in DOMAIN ModeOf
  /\ LET after == Applied(fields, command)
     IN  Store("httpd", after,
               [register["httpd"] EXCEPT !.mode_high = after.mode \div 4])
  /\ UNCHANGED <<event_vars, rmt_vars>>

(* A plausible slip: the frame is sent before the settings are changed. *)
ApplyLate ==
  /\ pc["httpd"] = "apply"
  /\ command.word \notin DOMAIN ModeOf
  /\ frame = NoFrame
  /\ frame' = [power |-> power, fields |-> fields]
  /\ pc' = [pc EXCEPT !["httpd"] = "count"]
  /\ fields' = Applied(fields, command)
  /\ UNCHANGED <<power, power_state, register, queued, completed, wanted, ac_on, ac_fields,
                 event_vars>>

ApplyOther ==
  /\ At("httpd", "apply", "transmit")
  /\ command.word \notin DOMAIN ModeOf
  /\ fields' = Applied(fields, command)
  /\ UNCHANGED <<power, power_state, register, event_vars, rmt_vars>>

(* "power isnt a persistent state, it toggles the AC" (line 228). *)
TestPower ==
  /\ pc["httpd"] = "test"
  /\ pc' = [pc EXCEPT !["httpd"] = IF power = 1 THEN "state" ELSE "idle"]
  /\ UNCHANGED <<settings_vars, event_vars, rmt_vars>>

(* A plausible slip: the tracked state is set instead of toggled. *)
SetState ==
  /\ At("httpd", "state", "clear")
  /\ Store("httpd", fields, [register["httpd"] EXCEPT !.power_state = 1])
  /\ UNCHANGED <<event_vars, rmt_vars>>

ToggleState ==
  /\ At("httpd", "state", "clear")
  /\ Store("httpd", fields, [register["httpd"] EXCEPT !.power_state = 1 - @])
  /\ UNCHANGED <<event_vars, rmt_vars>>

-----------------------------------------------------------------------------
(* The AC_ON and AC_OFF branches.  AC_ON comes when no schedule is active,   *)
(* AC_OFF when one is.                                                      *)

StartOn ==
  /\ pc["scheduler"] = "idle"
  /\ ~schedule_active
  /\ event' = "AC_ON"
  /\ schedule_active' = (power_state = 1)
  /\ pc' = [pc EXCEPT !["scheduler"] = IF power_state = 0 THEN "power" ELSE "idle"]
  /\ Began("scheduler")
  /\ UNCHANGED <<settings_vars, command, rmt_vars>>

StartOff ==
  /\ pc["scheduler"] = "idle"
  /\ schedule_active
  /\ event' = "AC_OFF"
  /\ pc' = [pc EXCEPT !["scheduler"] = IF power_state = 1 THEN "power" ELSE "idle"]
  /\ Began("scheduler")
  /\ UNCHANGED <<settings_vars, command, schedule_active, rmt_vars>>

(* A plausible slip: the scheduler does not record its switch. *)
RecordNothing ==
  /\ pc["scheduler"] = "state"
  /\ register["scheduler"] # Unread
  /\ register' = [register EXCEPT !["scheduler"] = Unread]
  /\ pc' = [pc EXCEPT !["scheduler"] = IF event = "AC_ON" THEN "clear" ELSE "idle"]
  /\ schedule_active' = (event = "AC_ON" /\ schedule_active)
  /\ UNCHANGED <<fields, power, power_state, command, event, overlapped, rmt_vars>>

(* power_state = 1 or 0; AC_OFF ends here and leaves "power" set.            *)
RecordState ==
  /\ pc["scheduler"] = "state"
  /\ Store("scheduler", fields,
           [register["scheduler"] EXCEPT !.power_state = IF event = "AC_ON" THEN 1 ELSE 0])
  /\ pc' = [pc EXCEPT !["scheduler"] = IF event = "AC_ON" THEN "clear" ELSE "idle"]
  /\ schedule_active' = (event = "AC_ON" /\ schedule_active)
  /\ UNCHANGED <<command, event, overlapped, rmt_vars>>

-----------------------------------------------------------------------------
(* Both tasks: power = 1, transmit_ir, power = 0.                           *)

SetPower(t) ==
  /\ At(t, "power", "transmit")
  /\ Store(t, fields, [register[t] EXCEPT !.power = 1])
  /\ UNCHANGED <<event_vars, rmt_vars>>

ClearPower(t) ==
  /\ At(t, "clear", "idle")
  /\ Store(t, fields, [register[t] EXCEPT !.power = 0])
  /\ schedule_active' = (schedule_active \/ t = "scheduler")
  /\ UNCHANGED <<command, event, overlapped, rmt_vars>>

(* The encoder reads the settings when the frame's turn comes.              *)
Encoded == [power |-> power, fields |-> fields]

(* num_trans_inflight: what was given to the channel and not yet recycled.    *)
Inflight == (IF frame = NoFrame THEN 0 ELSE 1) + queued + completed

(* rmt_transmit: an idle channel starts the frame, a busy one queues it.  (Of   *)
(* its four descriptors two are in use at most: TypeOK.)                     *)
Transmit(t) ==
  /\ At(t, "transmit", "count")
  /\ IF frame = NoFrame
     THEN frame' = Encoded /\ UNCHANGED queued
     ELSE queued' = queued + 1 /\ UNCHANGED frame
  /\ UNCHANGED <<settings_vars, event_vars, completed, wanted, ac_on, ac_fields>>

(* rmt_tx_wait_all_done: as many completions as are in flight now ...         *)
Count(t) ==
  /\ At(t, "count", "wait")
  /\ wanted' = [wanted EXCEPT ![t] = Inflight]
  /\ UNCHANGED <<settings_vars, event_vars, frame, queued, completed, ac_on, ac_fields>>

(* ... are taken, without a timeout, from one queue for all who wait.          *)
Recycle(t) ==
  /\ pc[t] = "wait" /\ wanted[t] > 0
  /\ completed > 0
  /\ completed' = completed - 1
  /\ wanted' = [wanted EXCEPT ![t] = @ - 1]
  /\ UNCHANGED <<settings_vars, pc, event_vars, frame, queued, ac_on, ac_fields>>

WaitDone(t) ==
  /\ At(t, "wait", IF t = "httpd" THEN "test" ELSE "state")
  /\ wanted[t] = 0
  /\ UNCHANGED <<settings_vars, event_vars, rmt_vars>>

(* A plausible slip: a frame that was queued is not started. *)
FrameDoneForgets ==
  /\ frame # NoFrame
  /\ ac_on' = IF frame.power = 1 THEN ~ac_on ELSE ac_on
  /\ ac_fields' = frame.fields
  /\ frame' = NoFrame
  /\ completed' = completed + 1
  /\ UNCHANGED <<queued, wanted, settings_vars, pc, event_vars>>

(* A frame ends: the AC has heard it, and the next one starts.              *)
FrameDone ==
  /\ frame # NoFrame
  /\ ac_on' = IF frame.power = 1 THEN ~ac_on ELSE ac_on
  /\ ac_fields' = frame.fields
  /\ completed' = completed + 1
  /\ IF queued > 0
     THEN frame' = Encoded /\ queued' = queued - 1
     ELSE frame' = NoFrame /\ UNCHANGED queued
  /\ UNCHANGED <<wanted, settings_vars, pc, event_vars>>

-----------------------------------------------------------------------------
TaskStep(t) == \/ Load(t) \/ SetPower(t) \/ ClearPower(t)
               \/ Transmit(t) \/ Count(t) \/ Recycle(t) \/ WaitDone(t)

HttpdStep == TaskStep("httpd") \/ ApplyMode \/ ApplyOther \/ TestPower \/ ToggleState

SchedulerStep == TaskStep("scheduler") \/ RecordState

Next ==
  \/ Receive \/ HttpdStep
  \/ StartOn \/ StartOff \/ SchedulerStep
  \/ FrameDone

Spec == Init /\ [][Next]_vars

(* The tasks run and a frame ends; clients and schedules may stop coming.  A *)
(* task that waits for a completion runs when one is there for it to take.   *)
FairSpec ==
  /\ Spec
  /\ WF_vars(HttpdStep) /\ WF_vars(SchedulerStep) /\ WF_vars(FrameDone)

-----------------------------------------------------------------------------
(* Properties.                                                             *)

(* The temperature keeps below the 31 degrees its bit-field could hold, the    *)
(* transactions in flight below the four the channel has descriptors for.     *)
TypeOK ==
  /\ fields \in Fields /\ fields.temperature <= MAX_TEMP_VAL
  /\ power \in 0..1 /\ power_state \in 0..1
  /\ register \in [Tasks -> Word \cup {Unread}]
  /\ pc \in [Tasks -> {"idle", "apply", "power", "transmit", "count", "wait",
                       "test", "state", "clear"}]
  /\ command \in Command
  /\ event \in {"AC_ON", "AC_OFF"} /\ schedule_active \in BOOLEAN
  /\ frame \in Frame \cup {NoFrame} /\ queued \in 0..1
  /\ completed \in 0..2 /\ Inflight \in 0..2 /\ wanted \in [Tasks -> 0..2]
  /\ ac_on \in BOOLEAN /\ ac_fields \in Fields
  /\ overlapped \in BOOLEAN

AllIdle == \A t \in Tasks : pc[t] = "idle"

Low(s) == [s EXCEPT !.mode = @ % 4]

(* "Send new settings to AC" (uri_handlers.c:225): when a command has been   *)
(* answered the AC has heard its settings, whatever the scheduler sent in    *)
(* between (the bit of mode that shares the racing word left aside).         *)
SettingsReachAc ==
  pc["httpd"] = "idle" => Low(ac_fields) = Low(fields)

(* "Current AC state. since 'power' toggles the AC, need a seperate state    *)
(* tracker" (ir_codec.h:29): at rest, the tracked state is the AC's -- as     *)
(* long as the two tasks have never switched at the same time, whatever       *)
(* frames carried a power bit that was left set.                             *)
StateTracked == AllIdle /\ ~overlapped => (power_state = 1 <=> ac_on)

(* A mode command leaves one of the five modes, although its highest bit     *)
(* shares a word with the scheduler's bits -- as long as the tasks have not    *)
(* overlapped.                                                              *)
ModeLegal == AllIdle /\ ~overlapped => fields.mode \in {COOL, HEAT, AUTO, DRY, FAN}

(* The scheduler leaves the AC the way its event says (server_schedule.c:261, *)
(* 281), whatever bit is left set, unless a client has interfered.            *)
EventTakesEffect ==
  [][pc["scheduler"] # "idle" /\ pc'["scheduler"] = "idle" /\ ~overlapped
       => ac_on' = (event = "AC_ON")]_vars

(* The two tasks wait for more completions than there will be: a frame was     *)
(* still in flight, counted by one, when the other counted it, too.           *)
Starved == wanted["httpd"] + wanted["scheduler"] > Inflight

(* A command is answered and a switch of the scheduler ends (ir_codec.c:23-24),  *)
(* with frames of both tasks on air and in the queue, unless both wait for the   *)
(* same completion: then one of them, or both, may wait for ever.             *)
TransmissionsEnd ==
  \A t \in Tasks : pc[t] # "idle" ~> (pc[t] = "idle" \/ Starved)
=============================================================================
