--------------------------- MODULE SettingsProofs ---------------------------
(***************************************************************************)
(* Proofs about the keepers of the AC's settings: IrPower, the server that   *)
(* sends them, and AcControlApp, the page that shows and changes them.       *)
(*                                                                         *)
(* IrPower, for all commands and any number of them.  Three things are       *)
(* tracked: who keeps the RMT channel busy, which frame carries the current   *)
(* settings, and, as long as the tasks take turns, what the power bit and    *)
(* the tracked state say about the AC.                                      *)
(*                                                                         *)
(* AcControlApp, for any number of taps: those on an arrow are counted,      *)
(* posted, applied or lost.                                                 *)
(***************************************************************************)
EXTENDS IrPower, AcControlApp, TLAPS

Places == {"idle", "apply", "power", "transmit", "count", "wait", "test", "state",
           "clear"}

SchedulerPlaces == Places \ {"apply", "test"}

(* The types but for Boolean variables.                                    *)
Types ==
  /\ fields \in Fields /\ fields.temperature <= MAX_TEMP_VAL
  /\ power \in 0..1 /\ power_state \in 0..1
  /\ register \in [Tasks -> Word \cup {Unread}]
  /\ pc \in [Tasks -> Places]
  /\ command \in Command
  /\ event \in {"AC_ON", "AC_OFF"}
  /\ frame \in Frame \cup {NoFrame} /\ queued \in 0..1
  /\ completed \in 0..2 /\ wanted \in [Tasks -> 0..2]
  /\ ac_fields \in Fields

(* A word in a register is about to be written back. *)
Registers == \A t \in Tasks : register[t] # Unread => Writes(t)

(* A task that has transmitted: it will take, or is about to count, at least n  *)
(* of the completions.                                                      *)
Covers(t, n) == pc[t] = "count" \/ (pc[t] = "wait" /\ wanted[t] >= n)

(* What is in flight was counted by one task to the last frame, or is about to  *)
(* be; and by both, when it is two frames.  No task leaves before.            *)
Channel ==
  /\ frame = NoFrame => queued = 0
  /\ Inflight \in 0..2
  /\ Inflight > 0 => \E t \in Tasks : Covers(t, Inflight)
  /\ Inflight = 2 => \A t \in Tasks : Covers(t, 1)
  /\ pc["scheduler"] \in SchedulerPlaces

TypeInv == Types /\ Registers /\ Channel

-----------------------------------------------------------------------------
(* The two tasks of the remote. *)
LEMMA TwoTasks ==
  /\ "httpd" \in Tasks /\ "scheduler" \in Tasks
  /\ \A t \in Tasks : t = "httpd" \/ t = "scheduler"
  /\ Other("httpd") = "scheduler" /\ Other("scheduler") = "httpd"
BY DEF Tasks, Other

(* A word is told from one that was not read, a frame from none, by a bit     *)
(* that has no third value.                                                 *)
LEMMA Marks ==
  /\ \A w \in Word : w # Unread
  /\ \A f \in Frame : f # NoFrame
<1>1. \A w \in Word : w.power_state \in 0..1
  BY DEF Word
<1>2. Unread.power_state = 2
  BY DEF Unread
<1>3. \A f \in Frame : f.power \in 0..1
  BY DEF Frame
<1>4. NoFrame.power = 2
  BY DEF NoFrame
<1> QED BY <1>1, <1>2, <1>3, <1>4

(* The command chain keeps every setting within its bit-field. *)
LEMMA AppliedInFields ==
  ASSUME NEW s \in Fields, s.temperature <= MAX_TEMP_VAL, NEW c \in Command
  PROVE  /\ Applied(s, c) \in Fields
         /\ Applied(s, c).temperature <= MAX_TEMP_VAL
         /\ c.word \in DOMAIN ModeOf => Applied(s, c).mode \in {COOL, HEAT, AUTO, DRY, FAN}
         /\ c.word \notin DOMAIN ModeOf => Applied(s, c).mode = s.mode
<1> USE DEF MAX_TEMP_VAL, MAX_FAN_VAL, AtMost, AtLeast, Fields, Applied, COOL, HEAT, AUTO, DRY, FAN
<1>1. DOMAIN ModeOf = {"COOL", "HEAT", "AUTO", "DRY", "FAN"}
  BY DEF ModeOf
<1>2. c.word \in Words /\ c.delta \in Nat
  BY DEF Command
<1>3. CASE c.word \in DOMAIN ModeOf
  <2>1. ModeOf[c.word] \in 1..5
    BY <1>1, <1>3 DEF ModeOf
  <2>2. Applied(s, c) = [s EXCEPT !.mode = ModeOf[c.word]]
    BY <1>1, <1>3
  <2> QED BY <1>3, <2>1, <2>2
<1>4. CASE c.word = "SWING"
  BY <1>1, <1>4
<1>5. CASE c.word = "TEMP_UP"
  BY <1>1, <1>2, <1>5
<1>6. CASE c.word = "TEMP_DOWN"
  BY <1>1, <1>2, <1>6
<1>7. CASE c.word = "FAN_UP"
  BY <1>1, <1>2, <1>7
<1>8. CASE c.word = "FAN_DOWN"
  BY <1>1, <1>2, <1>8
<1>9. CASE c.word \in {"POWER", "unknown"}
  BY <1>1, <1>9
<1> QED BY <1>1, <1>2, <1>3, <1>4, <1>5, <1>6, <1>7, <1>8, <1>9 DEF Words

(* What writing a word back leaves in the fields. *)
LEMMA StoreKeepsFields ==
  ASSUME NEW low \in Fields, NEW word \in Word
  PROVE  LET after == [low EXCEPT !.mode = (@ % 4) + 4 * word.mode_high]
         IN  /\ after \in Fields
             /\ after.temperature = low.temperature
             /\ Low(after) = Low(low)
             /\ word.mode_high = low.mode \div 4 => after.mode = low.mode
<1>1. low.mode \in 0..7 /\ word.mode_high \in 0..1
  BY DEF Fields, Word
<1>2. /\ (low.mode % 4) + 4 * word.mode_high \in 0..7
      /\ ((low.mode % 4) + 4 * word.mode_high) % 4 = low.mode % 4
      /\ word.mode_high = low.mode \div 4 => (low.mode % 4) + 4 * word.mode_high = low.mode
  <2>1. PICK m \in 0..7, h \in 0..1 : m = low.mode /\ h = word.mode_high
    BY <1>1
  <2>2. /\ (m % 4) + 4 * h \in 0..7
        /\ ((m % 4) + 4 * h) % 4 = m % 4
        /\ h = m \div 4 => (m % 4) + 4 * h = m
    BY SMT
  <2> QED BY <2>1, <2>2
<1>3. PICK m \in 0..7 : m = (low.mode % 4) + 4 * word.mode_high
  BY <1>2
<1>4. [low EXCEPT !.mode = m] \in Fields
  BY DEF Fields
<1>5. [low EXCEPT !.mode = m].temperature = low.temperature /\ [low EXCEPT !.mode = m].mode = m
  BY DEF Fields
<1>6. Low([low EXCEPT !.mode = m]) = Low(low)
  BY <1>2, <1>3 DEF Low, Fields
<1> QED BY <1>2, <1>3, <1>4, <1>5, <1>6

-----------------------------------------------------------------------------
(* The parts of TypeInv that only the settings, or only the channel, matter   *)
(* to.                                                                      *)
SettingsTyped ==
  /\ fields \in Fields /\ fields.temperature <= MAX_TEMP_VAL
  /\ power \in 0..1 /\ power_state \in 0..1
  /\ register \in [Tasks -> Word \cup {Unread}]

(* Writing a bit-field back keeps the types and empties the register. *)
LEMMA StoreTyped ==
  ASSUME TypeInv, NEW t \in Tasks, NEW low \in Fields, low.temperature <= MAX_TEMP_VAL,
         NEW word \in Word, Store(t, low, word)
  PROVE  /\ SettingsTyped'
         /\ register' = [register EXCEPT ![t] = Unread]
         /\ Low(fields') = Low(low)
<1>1. fields' = [low EXCEPT !.mode = (@ % 4) + 4 * word.mode_high]
  BY DEF Store
<1>2. fields' \in Fields /\ fields'.temperature <= MAX_TEMP_VAL /\ Low(fields') = Low(low)
  BY <1>1, StoreKeepsFields
<1>3. power' \in 0..1 /\ power_state' \in 0..1
  BY DEF Store, Word
<1>4. register' = [register EXCEPT ![t] = Unread]
  BY DEF Store
<1> QED BY <1>2, <1>3, <1>4 DEF SettingsTyped, TypeInv, Types

(* Whoever neither uses the channel nor leaves it keeps what is known of it.   *)
LEMMA ChannelKept ==
  ASSUME TypeInv, UNCHANGED rmt_vars, pc'["scheduler"] \in SchedulerPlaces,
         \A t \in Tasks : pc[t] \in {"count", "wait"} => pc'[t] = pc[t]
  PROVE  Channel'
<1>1. Inflight' = Inflight
  BY DEF Inflight, rmt_vars
<1>2. \A t \in Tasks, n \in 0..2 : Covers(t, n) => Covers(t, n)'
  BY DEF Covers, rmt_vars
<1>3. /\ frame = NoFrame => queued = 0
      /\ Inflight \in 0..2
      /\ Inflight > 0 => \E t \in Tasks : Covers(t, Inflight)
      /\ Inflight = 2 => \A t \in Tasks : Covers(t, 1)
  BY DEF TypeInv, Channel
<1>4. Inflight' > 0 => \E t \in Tasks : Covers(t, Inflight)'
  BY <1>1, <1>2, <1>3 DEF Covers
<1>5. Inflight' = 2 => \A t \in Tasks : Covers(t, 1)'
  BY <1>1, <1>2, <1>3
<1> QED BY <1>1, <1>3, <1>4, <1>5 DEF Channel, rmt_vars

(* What is in flight, in terms of the frame on air. *)
LEMMA InflightIs ==
  ASSUME TypeInv
  PROVE  /\ frame = NoFrame => queued = 0 /\ Inflight = completed
         /\ frame # NoFrame => Inflight = 1 + queued + completed
         /\ \A t \in Tasks : Inflight > 0 => \E u \in Tasks : Covers(u, 1)
         /\ \A t \in Tasks : pc[t] \notin {"count", "wait"} => Inflight <= 1
<1>1. frame = NoFrame => queued = 0 /\ Inflight = completed
  BY DEF TypeInv, Types, Channel, Inflight
<1>2. frame # NoFrame => Inflight = 1 + queued + completed
  BY DEF TypeInv, Types, Inflight
<1>3. Inflight \in 0..2
  BY DEF TypeInv, Channel
<1>4. ASSUME Inflight > 0 PROVE \E u \in Tasks : Covers(u, 1)
  <2>1. PICK u \in Tasks : Covers(u, Inflight)
    BY <1>4 DEF TypeInv, Channel
  <2>2. Covers(u, 1)
    BY <1>3, <1>4, <2>1 DEF Covers, TypeInv, Types
  <2> QED BY <2>2
<1>5. ASSUME NEW t \in Tasks, pc[t] \notin {"count", "wait"} PROVE Inflight <= 1
  <2>1. ~Covers(t, 1)
    BY <1>5 DEF Covers
  <2> QED BY <1>3, <2>1 DEF TypeInv, Channel
<1> QED BY <1>1, <1>2, <1>4, <1>5

(* A word that has been read, and one with a bit changed, are words. *)
LEMMA RegisterIsWord ==
  ASSUME TypeInv, NEW t \in Tasks, register[t] # Unread
  PROVE  /\ register[t] \in Word
         /\ \A b \in 0..1 : /\ [register[t] EXCEPT !.power = b] \in Word
                            /\ [register[t] EXCEPT !.power_state = b] \in Word
                            /\ [register[t] EXCEPT !.mode_high = b] \in Word
         /\ 1 - register[t].power_state \in 0..1
<1>1. register[t] \in Word
  BY DEF TypeInv, Types
<1>2. 1 - register[t].power_state \in 0..1
  <2>1. register[t].power_state \in 0..1
    BY <1>1 DEF Word
  <2> QED BY <2>1
<1> QED BY <1>1, <1>2 DEF Word

(* Each of the bit-field writes of the two tasks keeps TypeInv. *)
LEMMA WritesTyped ==
  ASSUME TypeInv, NEW t \in Tasks,
         NEW low \in Fields, low.temperature <= MAX_TEMP_VAL, NEW word \in Word,
         Store(t, low, word), UNCHANGED <<command, event, rmt_vars>>,
         NEW there \in SchedulerPlaces, there \notin {"count", "wait"},
         pc[t] \notin {"count", "wait"}, pc' = [pc EXCEPT ![t] = there]
  PROVE  TypeInv'
<1>1. SettingsTyped' /\ register' = [register EXCEPT ![t] = Unread]
  BY StoreTyped
<1>2. Types'
  BY <1>1 DEF TypeInv, Types, SettingsTyped, SchedulerPlaces, rmt_vars
<1>3. \A u \in Tasks \ {t} : pc'[u] = pc[u] /\ register'[u] = register[u] /\ command' = command
  BY <1>1 DEF TypeInv, Types
<1>4. register'[t] = Unread
  BY <1>1 DEF TypeInv, Types
<1>5. Registers'
  BY <1>3, <1>4 DEF TypeInv, Registers, Writes, Types, Tasks
<1>6. Channel'
  <2>1. pc'["scheduler"] \in SchedulerPlaces
    BY TwoTasks DEF TypeInv, Types, Channel
  <2> QED BY <1>3, <2>1, ChannelKept DEF rmt_vars
<1> QED BY <1>2, <1>5, <1>6 DEF TypeInv

(* Every step keeps TypeInv. *)
LEMMA TypeInvStep == ASSUME TypeInv, [Next]_vars PROVE TypeInv'
<1> USE TwoTasks DEF settings_vars, event_vars
<1>1. ASSUME Receive PROVE TypeInv'
  <2>1. Types'
    BY <1>1, IrPowerAssumption DEF Receive, TypeInv, Types, Places, rmt_vars
  <2>2. Registers'
    BY <1>1 DEF Receive, TypeInv, Registers, Writes, Types, Tasks, Channel, SchedulerPlaces
  <2>3. Channel'
    <3>1. /\ pc'["scheduler"] = pc["scheduler"] /\ UNCHANGED rmt_vars
          /\ \A t \in Tasks : pc[t] \in {"count", "wait"} => pc'[t] = pc[t]
      BY <1>1 DEF Receive, TypeInv, Types
    <3> QED BY <3>1, ChannelKept DEF TypeInv, Channel
  <2> QED BY <2>1, <2>2, <2>3 DEF TypeInv
<1>2. ASSUME ApplyMode PROVE TypeInv'
  <2> DEFINE after == Applied(fields, command)
             word == [register["httpd"] EXCEPT !.mode_high = after.mode \div 4]
  <2>1. register["httpd"] # Unread /\ pc["httpd"] = "apply" /\ command.word \in DOMAIN ModeOf
    BY <1>2 DEF ApplyMode, Store, At
  <2>2. /\ after \in Fields /\ after.temperature <= MAX_TEMP_VAL
        /\ after.mode \in {COOL, HEAT, AUTO, DRY, FAN}
    BY <2>1, AppliedInFields DEF TypeInv, Types
  <2>3. after.mode \div 4 \in 0..1
    BY <2>2 DEF COOL, HEAT, AUTO, DRY, FAN
  <2>4. word \in Word
    BY <2>1, <2>3, RegisterIsWord
  <2>5. Store("httpd", after, word) /\ pc' = [pc EXCEPT !["httpd"] = "transmit"]
        /\ UNCHANGED <<command, event, rmt_vars>>
    BY <1>2 DEF ApplyMode, At
  <2>6. "transmit" \in SchedulerPlaces
    BY DEF SchedulerPlaces, Places
  <2> HIDE DEF after, word
  <2> QED BY <2>1, <2>2, <2>4, <2>5, <2>6, WritesTyped
<1>3. ASSUME ApplyOther PROVE TypeInv'
  <2>1. fields' \in Fields /\ fields'.temperature <= MAX_TEMP_VAL
    BY <1>3, AppliedInFields DEF ApplyOther, TypeInv, Types
  <2>2. Types'
    BY <1>3, <2>1 DEF ApplyOther, At, TypeInv, Types, Places, rmt_vars
  <2>3. Registers'
    BY <1>3 DEF ApplyOther, At, TypeInv, Registers, Writes, Types, Tasks
  <2>4. Channel'
    <3>1. /\ pc'["scheduler"] = pc["scheduler"] /\ UNCHANGED rmt_vars
          /\ \A t \in Tasks : pc[t] \in {"count", "wait"} => pc'[t] = pc[t]
      BY <1>3 DEF ApplyOther, At, TypeInv, Types
    <3> QED BY <3>1, ChannelKept DEF TypeInv, Channel
  <2> QED BY <2>2, <2>3, <2>4 DEF TypeInv
<1>4. ASSUME TestPower PROVE TypeInv'
  <2>1. Types'
    BY <1>4 DEF TestPower, TypeInv, Types, Places, rmt_vars
  <2>2. Registers'
    BY <1>4 DEF TestPower, TypeInv, Registers, Writes, Types, Tasks
  <2>3. Channel'
    <3>1. /\ pc'["scheduler"] = pc["scheduler"] /\ UNCHANGED rmt_vars
          /\ \A t \in Tasks : pc[t] \in {"count", "wait"} => pc'[t] = pc[t]
      BY <1>4 DEF TestPower, TypeInv, Types
    <3> QED BY <3>1, ChannelKept DEF TypeInv, Channel
  <2> QED BY <2>1, <2>2, <2>3 DEF TypeInv
<1>5. ASSUME ToggleState PROVE TypeInv'
  <2> DEFINE word == [register["httpd"] EXCEPT !.power_state = 1 - @]
  <2>1. register["httpd"] # Unread
    BY <1>5 DEF ToggleState, Store
  <2>2. word \in Word
    BY <2>1, RegisterIsWord
  <2>3. Store("httpd", fields, word) /\ pc["httpd"] = "state"
        /\ pc' = [pc EXCEPT !["httpd"] = "clear"] /\ UNCHANGED <<command, event, rmt_vars>>
    BY <1>5 DEF ToggleState, At
  <2>4. "clear" \in SchedulerPlaces /\ fields \in Fields /\ fields.temperature <= MAX_TEMP_VAL
    BY DEF SchedulerPlaces, Places, TypeInv, Types
  <2> HIDE DEF word
  <2> QED BY <2>2, <2>3, <2>4, WritesTyped
<1>6. ASSUME StartOn \/ StartOff PROVE TypeInv'
  <2>1. Types'
    BY <1>6 DEF StartOn, StartOff, TypeInv, Types, Places, rmt_vars
  <2>2. Registers'
    BY <1>6 DEF StartOn, StartOff, TypeInv, Registers, Writes, Types, Tasks
  <2>3. Channel'
    <3>1. /\ pc'["scheduler"] \in SchedulerPlaces /\ UNCHANGED rmt_vars
          /\ \A t \in Tasks : pc[t] \in {"count", "wait"} => pc'[t] = pc[t]
      BY <1>6 DEF StartOn, StartOff, TypeInv, Types, SchedulerPlaces, Places
    <3> QED BY <3>1, ChannelKept
  <2> QED BY <2>1, <2>2, <2>3 DEF TypeInv
<1>7. ASSUME RecordState PROVE TypeInv'
  <2> DEFINE bit == IF event = "AC_ON" THEN 1 ELSE 0
             word == [register["scheduler"] EXCEPT !.power_state = bit]
             there == IF event = "AC_ON" THEN "clear" ELSE "idle"
  <2>1. register["scheduler"] # Unread
    BY <1>7 DEF RecordState, Store
  <2>2. word \in Word
    <3>1. bit \in 0..1
      OBVIOUS
    <3> HIDE DEF bit
    <3> QED BY <2>1, <3>1, RegisterIsWord
  <2>3. Store("scheduler", fields, word) /\ pc["scheduler"] = "state"
        /\ pc' = [pc EXCEPT !["scheduler"] = there] /\ UNCHANGED <<command, event, rmt_vars>>
    BY <1>7 DEF RecordState
  <2>4. there \in SchedulerPlaces /\ there \notin {"count", "wait"}
        /\ fields \in Fields /\ fields.temperature <= MAX_TEMP_VAL
    BY DEF SchedulerPlaces, Places, TypeInv, Types
  <2> HIDE DEF word, there
  <2> QED BY <2>2, <2>3, <2>4, WritesTyped
<1>8. ASSUME NEW t \in Tasks, SetPower(t) \/ ClearPower(t) PROVE TypeInv'
  <2> DEFINE bit == IF pc[t] = "power" THEN 1 ELSE 0
             word == [register[t] EXCEPT !.power = bit]
             there == IF pc[t] = "power" THEN "transmit" ELSE "idle"
  <2>1. register[t] # Unread
    BY <1>8 DEF SetPower, ClearPower, Store
  <2>2. word \in Word
    <3>1. bit \in 0..1
      OBVIOUS
    <3> HIDE DEF bit
    <3> QED BY <2>1, <3>1, RegisterIsWord
  <2>3. Store(t, fields, word) /\ pc[t] \notin {"count", "wait"}
        /\ pc' = [pc EXCEPT ![t] = there] /\ UNCHANGED <<command, event, rmt_vars>>
    BY <1>8 DEF SetPower, ClearPower, At
  <2>4. there \in SchedulerPlaces /\ there \notin {"count", "wait"}
        /\ fields \in Fields /\ fields.temperature <= MAX_TEMP_VAL
    BY DEF SchedulerPlaces, Places, TypeInv, Types
  <2> HIDE DEF word, there
  <2> QED BY <2>2, <2>3, <2>4, WritesTyped
<1>9. ASSUME NEW t \in Tasks, Load(t) PROVE TypeInv'
  <2> DEFINE word == [mode_high |-> fields.mode \div 4, power |-> power, power_state |-> power_state]
  <2>1. word \in Word
    <3>1. fields.mode \div 4 \in 0..1
      BY DEF TypeInv, Types, Fields
    <3> QED BY <3>1 DEF TypeInv, Types, Word
  <2>2. register' = [register EXCEPT ![t] = word] /\ Writes(t)
    BY <1>9 DEF Load
  <2> HIDE DEF word
  <2>3. Types'
    BY <1>9, <2>1, <2>2 DEF Load, TypeInv, Types, rmt_vars
  <2>4. Registers'
    BY <1>9, <2>2 DEF Load, TypeInv, Registers, Writes, Types
  <2>5. Channel'
    BY <1>9, ChannelKept DEF Load, TypeInv, Channel
  <2> QED BY <2>3, <2>4, <2>5 DEF TypeInv
<1>10. ASSUME NEW t \in Tasks, Transmit(t) PROVE TypeInv'
  <2>1. pc[t] = "transmit" /\ pc' = [pc EXCEPT ![t] = "count"]
        /\ UNCHANGED <<settings_vars, event_vars, completed, wanted, ac_fields>>
    BY <1>10 DEF Transmit, At
  <2>2. \/ frame = NoFrame /\ frame' = Encoded /\ queued' = queued
        \/ frame # NoFrame /\ frame' = frame /\ queued' = queued + 1
    BY <1>10 DEF Transmit
  <2>3. Encoded \in Frame /\ frame' # NoFrame
    <3>1. Encoded \in Frame
      BY DEF Encoded, Frame, TypeInv, Types
    <3> QED BY <2>2, <3>1, Marks
  <2>4. Inflight <= 1 /\ (frame # NoFrame => queued = 0)
    BY <2>1, InflightIs DEF TypeInv, Types
  <2>5. Inflight' = Inflight + 1
    BY <2>1, <2>2, <2>3, InflightIs DEF Inflight, TypeInv, Types
  <2>6. Types'
    BY <2>1, <2>2, <2>3, <2>4 DEF TypeInv, Types, Places
  <2>7. Registers'
    BY <2>1 DEF TypeInv, Registers, Writes, Types
  <2>8. \A n \in 0..2 : Covers(t, n)'
    BY <2>1 DEF Covers, TypeInv, Types
  <2>9. Inflight = 1 => \A u \in Tasks : Covers(u, 1)'
    <3> SUFFICES ASSUME Inflight = 1, NEW u \in Tasks, u # t PROVE Covers(u, 1)'
      BY <2>8
    <3>1. ~Covers(t, 1)
      BY <2>1 DEF Covers
    <3>2. Covers(u, 1)
      BY <3>1, InflightIs DEF Tasks
    <3> QED BY <2>1, <3>2 DEF Covers, TypeInv, Types
  <2>10. Inflight \in 0..2
    BY DEF TypeInv, Channel
  <2>11. pc'["scheduler"] \in SchedulerPlaces
    BY <2>1 DEF TypeInv, Types, Channel, SchedulerPlaces, Places
  <2>12. Channel'
    <3>1. Inflight' \in 1..2
      BY <2>4, <2>5, <2>10
    <3>2. \E u \in Tasks : Covers(u, Inflight)'
      <4>1. Covers(t, Inflight)'
        BY <2>1 DEF Covers, TypeInv, Types
      <4> QED BY <4>1
    <3>3. Inflight' = 2 => \A u \in Tasks : Covers(u, 1)'
      BY <2>5, <2>9, <2>10
    <3> QED BY <2>3, <2>11, <3>1, <3>2, <3>3 DEF Channel
  <2> QED BY <2>6, <2>7, <2>12 DEF TypeInv
<1>11. ASSUME NEW t \in Tasks, Count(t) PROVE TypeInv'
  <2>1. pc[t] = "count" /\ pc' = [pc EXCEPT ![t] = "wait"]
        /\ wanted' = [wanted EXCEPT ![t] = Inflight]
        /\ UNCHANGED <<settings_vars, event_vars, frame, queued, completed, ac_fields>>
    BY <1>11 DEF Count, At
  <2>2. Inflight \in 0..2 /\ Inflight' = Inflight
    BY <2>1 DEF TypeInv, Channel, Inflight
  <2>3. Types'
    BY <2>1, <2>2 DEF TypeInv, Types, Places
  <2>4. Registers'
    BY <2>1 DEF TypeInv, Registers, Writes, Types
  <2>5. \A n \in 0..2 : n <= Inflight => Covers(t, n)'
    BY <2>1, <2>2 DEF Covers, TypeInv, Types
  <2>6. \A u \in Tasks \ {t}, n \in 0..2 : Covers(u, n) => Covers(u, n)'
    BY <2>1 DEF Covers, TypeInv, Types
  <2>7. Inflight' = 2 => \A u \in Tasks : Covers(u, 1)'
    <3> SUFFICES ASSUME Inflight' = 2, NEW u \in Tasks PROVE Covers(u, 1)'
      OBVIOUS
    <3>1. Covers(u, 1)
      BY <2>2 DEF TypeInv, Channel
    <3> QED BY <2>2, <2>5, <2>6, <3>1
  <2>8. \E u \in Tasks : Covers(u, Inflight)'
    <3>1. Covers(t, Inflight)'
      BY <2>1, <2>2 DEF Covers, TypeInv, Types
    <3> QED BY <3>1
  <2>9. pc'["scheduler"] \in SchedulerPlaces
    BY <2>1 DEF TypeInv, Types, Channel, SchedulerPlaces, Places
  <2>10. Channel'
    BY <2>1, <2>2, <2>7, <2>8, <2>9 DEF TypeInv, Channel
  <2> QED BY <2>3, <2>4, <2>10 DEF TypeInv
<1>12. ASSUME NEW t \in Tasks, Recycle(t) PROVE TypeInv'
  <2>1. /\ pc[t] = "wait" /\ wanted[t] > 0 /\ completed > 0 /\ completed' = completed - 1
        /\ wanted' = [wanted EXCEPT ![t] = @ - 1]
        /\ UNCHANGED <<settings_vars, pc, event_vars, frame, queued, ac_fields>>
    BY <1>12 DEF Recycle
  <2>2. Inflight \in 0..2 /\ Inflight' = Inflight - 1
    BY <2>1 DEF TypeInv, Types, Channel, Inflight
  <2>3. Types'
    BY <2>1 DEF TypeInv, Types
  <2>4. Registers'
    BY <2>1 DEF TypeInv, Registers, Writes
  <2>5. Inflight' > 0 => \E u \in Tasks : Covers(u, Inflight)'
    <3> SUFFICES ASSUME Inflight' > 0 PROVE \E u \in Tasks : Covers(u, Inflight)'
      OBVIOUS
    <3>1. Inflight = 2 /\ Inflight' = 1
      BY <2>2
    <3>2. PICK u \in Tasks : Covers(u, 2)
      BY <3>1 DEF TypeInv, Channel
    <3>3. Covers(u, Inflight)'
      BY <2>1, <3>1, <3>2 DEF Covers, TypeInv, Types
    <3> QED BY <3>3
  <2>6. Inflight' \in 0..2 /\ Inflight' # 2
    BY <2>2, <2>1, InflightIs DEF TypeInv, Types
  <2>7. Channel'
    BY <2>1, <2>5, <2>6 DEF TypeInv, Channel
  <2> QED BY <2>3, <2>4, <2>7 DEF TypeInv
<1>13. ASSUME NEW t \in Tasks, WaitDone(t) PROVE TypeInv'
  <2>1. /\ pc[t] = "wait" /\ wanted[t] = 0
        /\ pc' = [pc EXCEPT ![t] = IF t = "httpd" THEN "test" ELSE "state"]
        /\ UNCHANGED <<settings_vars, event_vars, rmt_vars>>
    BY <1>13 DEF WaitDone, At
  <2>2. Types'
    BY <2>1 DEF TypeInv, Types, Places, rmt_vars
  <2>3. Registers'
    BY <2>1 DEF TypeInv, Registers, Writes, Types
  <2>4. Inflight \in 0..2 /\ Inflight' = Inflight /\ UNCHANGED <<frame, queued, wanted>>
    BY <2>1 DEF TypeInv, Channel, Inflight, rmt_vars
  <2>5. \A n \in 1..2 : ~Covers(t, n)
    BY <2>1 DEF Covers
  <2>6. Inflight # 2
    BY <2>5 DEF TypeInv, Channel
  <2>7. Inflight' > 0 => \E u \in Tasks : Covers(u, Inflight)'
    <3> SUFFICES ASSUME Inflight > 0 PROVE \E u \in Tasks : Covers(u, Inflight)'
      BY <2>4
    <3>1. PICK u \in Tasks : Covers(u, Inflight)
      BY DEF TypeInv, Channel
    <3>2. u # t
      BY <2>4, <2>5, <3>1
    <3>3. Covers(u, Inflight)'
      BY <2>1, <2>4, <3>1, <3>2 DEF Covers, TypeInv, Types
    <3> QED BY <3>3
  <2>8. pc'["scheduler"] \in SchedulerPlaces
    BY <2>1 DEF TypeInv, Types, Channel, SchedulerPlaces, Places
  <2>9. Channel'
    BY <2>4, <2>6, <2>7, <2>8 DEF TypeInv, Channel
  <2> QED BY <2>2, <2>3, <2>9 DEF TypeInv
<1>14. ASSUME FrameDone PROVE TypeInv'
  <2>1. /\ UNCHANGED <<settings_vars, pc, event_vars, wanted>> /\ frame # NoFrame
        /\ ac_fields' = frame.fields /\ completed' = completed + 1
    BY <1>14 DEF FrameDone
  <2>2. \/ queued = 1 /\ frame' = Encoded /\ queued' = 0
        \/ queued = 0 /\ frame' = NoFrame /\ queued' = 0
    BY <1>14 DEF FrameDone, TypeInv, Types
  <2>3. Encoded \in Frame /\ Encoded # NoFrame
    <3>1. Encoded \in Frame
      BY DEF Encoded, Frame, TypeInv, Types
    <3> QED BY <3>1, Marks
  <2>4. ac_fields' \in Fields
    BY <2>1 DEF TypeInv, Types, Frame
  <2>5. Inflight' = Inflight /\ Inflight \in 0..2 /\ completed' \in 0..2
    <3>1. Inflight = 1 + queued + completed /\ Inflight \in 0..2
      BY <2>1, InflightIs DEF TypeInv, Channel
    <3>2. completed' \in 0..2
      BY <2>1, <2>2, <3>1 DEF TypeInv, Types
    <3>3. Inflight' = 1 + queued + completed
      BY <2>1, <2>2, <2>3 DEF Inflight, TypeInv, Types
    <3> QED BY <3>1, <3>2, <3>3
  <2>6. Types'
    BY <2>1, <2>2, <2>3, <2>4, <2>5 DEF TypeInv, Types
  <2>7. Registers'
    BY <2>1 DEF TypeInv, Registers, Writes
  <2>8. \A t \in Tasks, n \in 0..2 : Covers(t, n)' <=> Covers(t, n)
    BY <2>1 DEF Covers
  <2>9. Inflight' > 0 => \E t \in Tasks : Covers(t, Inflight)'
    BY <2>1, <2>5 DEF TypeInv, Channel, Covers
  <2>10. Channel'
    BY <2>1, <2>2, <2>5, <2>8, <2>9 DEF TypeInv, Channel
  <2> QED BY <2>6, <2>7, <2>10 DEF TypeInv
<1>15. ASSUME UNCHANGED vars PROVE TypeInv'
  <2>1. UNCHANGED rmt_vars /\ pc' = pc /\ Channel'
    BY <1>15, ChannelKept DEF vars, rmt_vars, TypeInv, Channel
  <2> QED BY <1>15, <2>1 DEF vars, TypeInv, Types, Registers, Writes
<1> QED
  BY <1>1, <1>2, <1>3, <1>4, <1>5, <1>6, <1>7, <1>8, <1>9, <1>10, <1>11, <1>12, <1>13, <1>14,
     <1>15
  DEF Next, HttpdStep, SchedulerStep, TaskStep

(* The settings are those of a fresh start, no task is on its way. *)
LEMMA TypeInvInit == Init => TypeInv
<1> SUFFICES ASSUME Init PROVE TypeInv
  OBVIOUS
<1>1. InitialFields \in Fields /\ InitialFields.temperature <= MAX_TEMP_VAL
  BY DEF InitialFields, Fields, MAX_TEMP_VAL, COOL
<1>2. Types
  BY <1>1, IrPowerAssumption DEF Init, Types, Places
<1>3. Registers /\ Channel
  BY TwoTasks DEF Init, Registers, Channel, Inflight, SchedulerPlaces, Places
<1> QED BY <1>2, <1>3 DEF TypeInv

-----------------------------------------------------------------------------
(* Which frame carries the settings: that on air, when nothing waits behind   *)
(* it, and the last one the AC heard, when nothing is on air.  While a command  *)
(* waits, that is so as soon as the completions it still wants are there; what  *)
(* follows on air carries them again.  An overlap changes nothing of this.     *)
Sent ==
  /\ pc["httpd"] \in {"idle", "test", "state", "clear"} =>
       /\ Low(ac_fields) = Low(fields)
       /\ frame # NoFrame => Low(frame.fields) = Low(fields)
  /\ pc["httpd"] = "count" =>
       /\ frame = NoFrame => Low(ac_fields) = Low(fields)
       /\ frame # NoFrame /\ queued = 0 => Low(frame.fields) = Low(fields)
  /\ pc["httpd"] = "wait" =>
       /\ wanted["httpd"] <= completed => Low(ac_fields) = Low(fields)
       /\ frame # NoFrame /\ (queued = 0 \/ wanted["httpd"] <= completed + 1)
            => Low(frame.fields) = Low(fields)

(* Writing back a bit of the shared word changes nothing a frame is compared  *)
(* by.                                                                      *)
LEMMA SentWrites ==
  ASSUME TypeInv, Sent, NEW t \in Tasks, NEW word \in Word, Store(t, fields, word),
         UNCHANGED rmt_vars, NEW there \in {"idle", "clear", "transmit"},
         pc[t] \in {"power", "state", "clear"}, pc' = [pc EXCEPT ![t] = there],
         there # "transmit" => pc[t] # "power"
  PROVE  Sent'
<1>1. Low(fields') = Low(fields)
  BY StoreTyped DEF TypeInv, Types
<1>2. pc'["httpd"] \in {"idle", "test", "state", "clear"}
        => pc["httpd"] \in {"idle", "test", "state", "clear"}
  BY TwoTasks DEF TypeInv, Types
<1>3. pc'["httpd"] \in {"count", "wait"} => pc["httpd"] = pc'["httpd"]
  BY TwoTasks DEF TypeInv, Types
<1> QED BY <1>1, <1>2, <1>3 DEF Sent, rmt_vars

(* Every step keeps Sent. *)
LEMMA SentStep == ASSUME TypeInv, Sent, [Next]_vars PROVE Sent'
<1> USE TwoTasks DEF settings_vars, event_vars
<1>1. ASSUME Receive PROVE Sent'
  BY <1>1 DEF Receive, Sent, TypeInv, Types, rmt_vars
<1>2. ASSUME ApplyMode \/ ApplyOther PROVE Sent'
  <2>1. pc'["httpd"] = "transmit"
    BY <1>2 DEF ApplyMode, ApplyOther, At, TypeInv, Types
  <2> QED BY <2>1 DEF Sent
<1>3. ASSUME TestPower PROVE Sent'
  BY <1>3 DEF TestPower, Sent, TypeInv, Types, rmt_vars
<1>4. ASSUME ToggleState PROVE Sent'
  <2> DEFINE word == [register["httpd"] EXCEPT !.power_state = 1 - @]
  <2>1. word \in Word
    BY <1>4, RegisterIsWord DEF ToggleState, Store
  <2>2. Store("httpd", fields, word) /\ UNCHANGED rmt_vars
        /\ pc["httpd"] = "state" /\ pc' = [pc EXCEPT !["httpd"] = "clear"]
    BY <1>4 DEF ToggleState, At
  <2> HIDE DEF word
  <2> QED BY <2>1, <2>2, SentWrites
<1>5. ASSUME StartOn \/ StartOff PROVE Sent'
  BY <1>5 DEF StartOn, StartOff, Sent, TypeInv, Types, rmt_vars
<1>6. ASSUME RecordState PROVE Sent'
  <2> DEFINE bit == IF event = "AC_ON" THEN 1 ELSE 0
             word == [register["scheduler"] EXCEPT !.power_state = bit]
             there == IF event = "AC_ON" THEN "clear" ELSE "idle"
  <2>1. bit \in 0..1 /\ there \in {"idle", "clear"}
    OBVIOUS
  <2>2. Store("scheduler", fields, word) /\ UNCHANGED rmt_vars
        /\ pc["scheduler"] = "state" /\ pc' = [pc EXCEPT !["scheduler"] = there]
    BY <1>6 DEF RecordState
  <2> HIDE DEF bit, there
  <2>3. word \in Word
    BY <2>1, <2>2, RegisterIsWord DEF Store
  <2> HIDE DEF word
  <2> QED BY <2>1, <2>2, <2>3, SentWrites
<1>7. ASSUME NEW t \in Tasks, SetPower(t) PROVE Sent'
  <2> DEFINE word == [register[t] EXCEPT !.power = 1]
  <2>1. word \in Word
    <3>1. register[t] # Unread /\ 1 \in 0..1
      BY <1>7 DEF SetPower, Store
    <3> QED BY <3>1, RegisterIsWord
  <2>2. Store(t, fields, word) /\ UNCHANGED rmt_vars
        /\ pc[t] = "power" /\ pc' = [pc EXCEPT ![t] = "transmit"]
    BY <1>7 DEF SetPower, At
  <2> HIDE DEF word
  <2> QED BY <2>1, <2>2, SentWrites
<1>8. ASSUME NEW t \in Tasks, ClearPower(t) PROVE Sent'
  <2> DEFINE word == [register[t] EXCEPT !.power = 0]
  <2>1. word \in Word
    <3>1. register[t] # Unread /\ 0 \in 0..1
      BY <1>8 DEF ClearPower, Store
    <3> QED BY <3>1, RegisterIsWord
  <2>2. Store(t, fields, word) /\ UNCHANGED rmt_vars
        /\ pc[t] = "clear" /\ pc' = [pc EXCEPT ![t] = "idle"]
    BY <1>8 DEF ClearPower, At
  <2> HIDE DEF word
  <2> QED BY <2>1, <2>2, SentWrites
<1>9. ASSUME NEW t \in Tasks, Load(t) PROVE Sent'
  BY <1>9 DEF Load, Sent, rmt_vars
<1>10. ASSUME NEW t \in Tasks, Transmit(t) PROVE Sent'
  <2>1. pc[t] = "transmit" /\ pc' = [pc EXCEPT ![t] = "count"]
        /\ UNCHANGED <<settings_vars, event_vars, completed, wanted, ac_fields>>
    BY <1>10 DEF Transmit, At
  <2>2. \/ frame = NoFrame /\ frame' = Encoded /\ queued' = queued
        \/ frame # NoFrame /\ frame' = frame /\ queued' = queued + 1
    BY <1>10 DEF Transmit
  <2>3. Encoded \in Frame /\ Encoded.fields = fields
    BY DEF Encoded, Frame, TypeInv, Types
  <2>4. frame' # NoFrame
    BY <2>2, <2>3, Marks
  <2>5. frame # NoFrame => queued = 0 /\ queued' = 1
    BY <2>1, <2>2, InflightIs DEF TypeInv, Types
  <2>6. CASE t = "httpd"
    <3>1. pc'["httpd"] = "count"
      BY <2>1, <2>6 DEF TypeInv, Types
    <3> QED BY <2>1, <2>2, <2>3, <2>4, <2>5, <3>1 DEF Sent
  <2>7. CASE t = "scheduler"
    <3>1. pc'["httpd"] = pc["httpd"]
      BY <2>1, <2>7 DEF TypeInv, Types
    <3> QED BY <2>1, <2>2, <2>3, <2>4, <2>5, <3>1 DEF Sent
  <2> QED BY <2>6, <2>7
<1>11. ASSUME NEW t \in Tasks, Count(t) PROVE Sent'
  <2>1. pc[t] = "count" /\ pc' = [pc EXCEPT ![t] = "wait"]
        /\ wanted' = [wanted EXCEPT ![t] = Inflight]
        /\ UNCHANGED <<settings_vars, event_vars, frame, queued, completed, ac_fields>>
    BY <1>11 DEF Count, At
  <2>2. CASE t = "httpd"
    <3>1. pc'["httpd"] = "wait" /\ wanted'["httpd"] = Inflight /\ pc["httpd"] = "count"
      BY <2>1, <2>2 DEF TypeInv, Types
    <3>2. wanted'["httpd"] <= completed => frame = NoFrame
      BY <3>1, InflightIs DEF TypeInv, Types
    <3>3. frame # NoFrame /\ wanted'["httpd"] <= completed + 1 => queued = 0
      BY <3>1, InflightIs DEF TypeInv, Types
    <3> QED BY <2>1, <3>1, <3>2, <3>3 DEF Sent
  <2>3. CASE t = "scheduler"
    <3>1. pc'["httpd"] = pc["httpd"] /\ wanted'["httpd"] = wanted["httpd"]
      BY <2>1, <2>3 DEF TypeInv, Types
    <3> QED BY <2>1, <3>1 DEF Sent
  <2> QED BY <2>2, <2>3
<1>12. ASSUME NEW t \in Tasks, Recycle(t) PROVE Sent'
  <2>1. /\ wanted[t] > 0 /\ completed > 0 /\ completed' = completed - 1
        /\ wanted' = [wanted EXCEPT ![t] = @ - 1]
        /\ UNCHANGED <<settings_vars, pc, event_vars, frame, queued, ac_fields>>
    BY <1>12 DEF Recycle
  <2>2. wanted'["httpd"] \in {wanted["httpd"], wanted["httpd"] - 1} /\ wanted["httpd"] \in 0..2
        /\ completed \in 0..2
    BY <2>1 DEF TypeInv, Types
  <2>3. /\ wanted'["httpd"] <= completed' => wanted["httpd"] <= completed
        /\ wanted'["httpd"] <= completed' + 1 => wanted["httpd"] <= completed + 1
    BY <2>1, <2>2
  <2> QED BY <2>1, <2>3 DEF Sent
<1>13. ASSUME NEW t \in Tasks, WaitDone(t) PROVE Sent'
  <2>1. /\ pc[t] = "wait" /\ wanted[t] = 0
        /\ pc' = [pc EXCEPT ![t] = IF t = "httpd" THEN "test" ELSE "state"]
        /\ UNCHANGED <<settings_vars, event_vars, rmt_vars>>
    BY <1>13 DEF WaitDone, At
  <2>2. CASE t = "httpd"
    <3>1. pc'["httpd"] = "test" /\ wanted["httpd"] <= completed
          /\ wanted["httpd"] <= completed + 1
      BY <2>1, <2>2 DEF TypeInv, Types
    <3> QED BY <2>1, <2>2, <3>1 DEF Sent, rmt_vars
  <2>3. CASE t = "scheduler"
    <3>1. pc'["httpd"] = pc["httpd"]
      BY <2>1, <2>3 DEF TypeInv, Types
    <3> QED BY <2>1, <3>1 DEF Sent, rmt_vars
  <2> QED BY <2>2, <2>3
<1>14. ASSUME FrameDone PROVE Sent'
  <2>1. /\ UNCHANGED <<settings_vars, pc, event_vars, wanted>> /\ frame # NoFrame
        /\ ac_fields' = frame.fields /\ completed' = completed + 1
    BY <1>14 DEF FrameDone
  <2>2. \/ queued = 1 /\ frame' = Encoded /\ queued' = 0
        \/ queued = 0 /\ frame' = NoFrame /\ queued' = 0
    BY <1>14 DEF FrameDone, TypeInv, Types
  <2>3. Encoded.fields = fields
    BY DEF Encoded
  <2>4. CASE pc["httpd"] \in {"idle", "test", "state", "clear"}
    BY <2>1, <2>2, <2>3, <2>4 DEF Sent
  <2>5. CASE pc["httpd"] = "count"
    <3>1. Encoded # NoFrame
      BY Marks DEF Encoded, Frame, TypeInv, Types
    <3> QED BY <2>1, <2>2, <2>3, <2>5, <3>1 DEF Sent
  <2>6. CASE pc["httpd"] = "wait"
    <3>1. Low(ac_fields') = Low(fields) \/ ~(wanted["httpd"] <= completed')
      BY <2>1, <2>6 DEF Sent
    <3>2. frame' # NoFrame => Low(frame'.fields) = Low(fields)
      BY <2>2, <2>3
    <3> QED BY <2>1, <2>6, <3>1, <3>2 DEF Sent
  <2>7. CASE pc["httpd"] \notin {"idle", "test", "state", "clear", "count", "wait"}
    BY <2>1, <2>7 DEF Sent
  <2> QED BY <2>4, <2>5, <2>6, <2>7
<1>15. ASSUME UNCHANGED vars PROVE Sent'
  BY <1>15 DEF vars, Sent
<1> QED
  BY <1>1, <1>2, <1>3, <1>4, <1>5, <1>6, <1>7, <1>8, <1>9, <1>10, <1>11, <1>12, <1>13, <1>14,
     <1>15
  DEF Next, HttpdStep, SchedulerStep, TaskStep

-----------------------------------------------------------------------------
(* While the tasks take turns, what is known of the AC at each place.         *)
Tracked == power_state = 1 <=> ac_on

Alone == \E t \in Tasks : pc[t] = "idle"

(* The shared word as it is now. *)
WordNow == [mode_high |-> fields.mode \div 4, power |-> power, power_state |-> power_state]

Tracking ==
  /\ AllIdle => Tracked
  /\ \A t \in Tasks :
       /\ pc[t] \in {"apply", "power", "transmit", "clear"} => Tracked
       /\ pc[t] \in {"count", "wait"} /\ frame # NoFrame => Tracked /\ frame.power = power
       /\ pc[t] \in {"count", "wait"} /\ frame = NoFrame => (Tracked <=> power = 0)
       /\ pc[t] = "test" => (Tracked <=> power = 0)
       /\ pc[t] = "state" => ~Tracked

(* The scheduler switches in the direction of its event. *)
Direction ==
  /\ pc["scheduler"] \in {"power", "transmit", "count", "wait", "state"} =>
       power_state = (IF event = "AC_ON" THEN 0 ELSE 1)
  /\ pc["scheduler"] \in {"transmit", "count", "wait"} => power = 1
  /\ pc["scheduler"] = "clear" => event = "AC_ON" /\ power_state = 1

Fresh == \A t \in Tasks : register[t] # Unread => register[t] = WordNow

Legal == fields.mode \in {COOL, HEAT, AUTO, DRY, FAN}

Turns == Alone /\ Tracking /\ Direction /\ Fresh /\ Legal

(* Turning the tracked state, or the AC, turns their agreement. *)
LEMMA Turned ==
  /\ UNCHANGED <<power_state, ac_on>> => (Tracked' <=> Tracked)
  /\ power_state' = power_state /\ ac_on' = ~ac_on => (Tracked' <=> ~Tracked)
  /\ power_state \in 0..1 /\ power_state' = 1 - power_state /\ ac_on' = ac_on
       => (Tracked' <=> ~Tracked)
<1>1. UNCHANGED <<power_state, ac_on>> => (Tracked' <=> Tracked)
  BY DEF Tracked
<1>2. power_state' = power_state /\ ac_on' = ~ac_on => (Tracked' <=> ~Tracked)
  BY DEF Tracked
<1>3. ASSUME power_state \in 0..1, power_state' = 1 - power_state, ac_on' = ac_on
      PROVE  Tracked' <=> ~Tracked
  <2>1. power_state' = 1 <=> ~(power_state = 1)
    BY <1>3
  <2> QED BY <1>3, <2>1, Zenon DEF Tracked
<1> QED BY <1>1, <1>2, <1>3

(* A bit is written back into a word nobody else has changed: the mode keeps   *)
(* its highest bit, and nobody holds an old word.                            *)
LEMMA FreshWrites ==
  ASSUME TypeInv, Turns, NEW t \in Tasks, NEW word \in Word,
         word.mode_high = fields.mode \div 4, Store(t, fields, word)
  PROVE  /\ fields'.mode = fields.mode
         /\ \A u \in Tasks : register'[u] = Unread
         /\ power' = word.power /\ power_state' = word.power_state
<1>1. register[t] # Unread
  BY DEF Store
<1>2. pc[t] # "idle"
  BY <1>1 DEF TypeInv, Registers, Writes
<1>3. \A u \in Tasks \ {t} : register[u] = Unread
  BY <1>2, TwoTasks DEF Turns, Alone, TypeInv, Registers, Writes
<1>4. register' = [register EXCEPT ![t] = Unread]
  BY StoreTyped DEF TypeInv, Types
<1>5. fields'.mode = fields.mode
  <2>1. fields' = [fields EXCEPT !.mode = (@ % 4) + 4 * word.mode_high]
    BY DEF Store
  <2> QED BY <2>1, StoreKeepsFields DEF TypeInv, Types
<1> QED BY <1>3, <1>4, <1>5 DEF Store, TypeInv, Types

(* What FreshWrites leaves of Turns to prove once a task has written. *)
LEMMA TurnsAfterWrite ==
  ASSUME TypeInv, Turns, NEW t \in Tasks, NEW word \in Word,
         word.mode_high = fields.mode \div 4, Store(t, fields, word),
         pc' \in [Tasks -> Places], pc'[Other(t)] = pc[Other(t)]
  PROVE  /\ Alone' /\ Fresh' /\ Legal'
         /\ pc[Other(t)] = "idle" /\ pc'[Other(t)] = "idle"
         /\ power' = word.power /\ power_state' = word.power_state
<1>1. /\ fields'.mode = fields.mode
      /\ \A u \in Tasks : register'[u] = Unread
      /\ power' = word.power /\ power_state' = word.power_state
  BY FreshWrites
<1>2. pc[t] # "idle"
  BY DEF Store, TypeInv, Registers, Writes
<1>3. pc[Other(t)] = "idle" /\ Other(t) \in Tasks
  BY <1>2, TwoTasks DEF Turns, Alone
<1> QED BY <1>1, <1>3 DEF Turns, Alone, Fresh, Legal

(* Nothing is on air when one task is idle and the other has not transmitted, or  *)
(* has taken all it counted.                                                 *)
LEMMA NoneInFlight ==
  ASSUME TypeInv, NEW t \in Tasks, pc[Other(t)] = "idle", ~Covers(t, 1)
  PROVE  frame = NoFrame
<1>1. ~(Inflight > 0)
  BY TwoTasks, InflightIs DEF Covers
<1> QED BY <1>1, InflightIs DEF TypeInv, Types

(* Every step keeps Turns, unless a task begins while the other is at work. *)
LEMMA TurnsStep ==
  ASSUME TypeInv, ~overlapped => Turns, [Next]_vars, ~overlapped'
  PROVE  Turns'
<1> USE TwoTasks DEF settings_vars, event_vars
<1>0. ~overlapped
  BY DEF Next, HttpdStep, SchedulerStep, TaskStep, Receive, Began, ApplyMode, ApplyOther,
    TestPower, ToggleState, StartOn, StartOff, RecordState, SetPower, ClearPower, Load,
    Transmit, Count, Recycle, WaitDone, FrameDone, vars
<1>00. Turns
  BY <1>0
<1>1. ASSUME Receive PROVE Turns'
  <2>1. pc["scheduler"] = "idle" /\ pc["httpd"] = "idle"
        /\ UNCHANGED <<settings_vars, event, schedule_active, rmt_vars>>
        /\ pc' \in [Tasks -> Places] /\ pc'["scheduler"] = "idle"
        /\ pc'["httpd"] \in {"power", "apply"}
    BY <1>1 DEF Receive, Began, TypeInv, Types, Places
  <2>2. Tracked'
    BY <1>00, <2>1, Turned DEF Turns, Tracking, AllIdle, rmt_vars
  <2>3. Alone' /\ Tracking' /\ Direction'
    BY <2>1, <2>2 DEF Alone, Tracking, Direction, AllIdle
  <2> QED BY <1>00, <2>1, <2>3 DEF Turns, Fresh, WordNow, Legal
<1>2. ASSUME ApplyMode PROVE Turns'
  <2> DEFINE after == Applied(fields, command)
             word == [register["httpd"] EXCEPT !.mode_high = after.mode \div 4]
  <2>1. register["httpd"] # Unread /\ command.word \in DOMAIN ModeOf
        /\ pc["httpd"] = "apply" /\ pc' = [pc EXCEPT !["httpd"] = "transmit"]
        /\ UNCHANGED <<event, ac_on, frame>> /\ Store("httpd", after, word)
    BY <1>2 DEF ApplyMode, Store, At, rmt_vars
  <2>2. register["httpd"] = WordNow /\ Tracked
    BY <1>00, <2>1 DEF Turns, Fresh, Tracking
  <2>3. /\ after \in Fields /\ after.temperature <= MAX_TEMP_VAL
        /\ after.mode \in {COOL, HEAT, AUTO, DRY, FAN}
    BY <2>1, AppliedInFields DEF TypeInv, Types
  <2>4. after.mode \div 4 \in 0..1
    BY <2>3 DEF COOL, HEAT, AUTO, DRY, FAN
  <2>5. word \in Word
    BY <2>1, <2>4, RegisterIsWord
  <2>6. word.mode_high = after.mode \div 4 /\ word.power = power /\ word.power_state = power_state
    BY <2>2, <2>1, RegisterIsWord DEF WordNow, Word
  <2> HIDE DEF after, word
  <2>7. fields'.mode = after.mode
    <3>1. fields' = [after EXCEPT !.mode = (@ % 4) + 4 * word.mode_high]
      BY <2>1 DEF Store
    <3> QED BY <2>3, <2>5, <2>6, <3>1, StoreKeepsFields
  <2>8. Legal' /\ power' = power /\ power_state' = power_state
    BY <2>1, <2>3, <2>6, <2>7 DEF Legal, Store
  <2>9. pc["scheduler"] = "idle" /\ pc'["scheduler"] = "idle" /\ pc'["httpd"] = "transmit"
    BY <1>00, <2>1 DEF Turns, Alone, TypeInv, Types
  <2>10. Tracked'
    BY <2>1, <2>2, <2>8, Turned
  <2>11. Fresh'
    <3>1. register["scheduler"] = Unread
      BY <2>9 DEF TypeInv, Registers, Writes
    <3>2. register' = [register EXCEPT !["httpd"] = Unread]
      BY <2>1, <2>3, <2>5, StoreTyped
    <3>3. \A u \in Tasks : register'[u] = Unread
      BY <3>1, <3>2 DEF TypeInv, Types
    <3> QED BY <3>3 DEF Fresh
  <2>12. Alone' /\ Tracking' /\ Direction'
    BY <2>9, <2>10 DEF Alone, Tracking, Direction, AllIdle
  <2> QED BY <2>8, <2>11, <2>12 DEF Turns
<1>3. ASSUME ApplyOther PROVE Turns'
  <2>1. command.word \notin DOMAIN ModeOf
        /\ pc["httpd"] = "apply" /\ pc' = [pc EXCEPT !["httpd"] = "transmit"]
        /\ UNCHANGED <<power, power_state, register, event, ac_on, frame>>
        /\ fields' = Applied(fields, command)
    BY <1>3 DEF ApplyOther, At, rmt_vars
  <2>2. fields'.mode = fields.mode
    BY <2>1, AppliedInFields DEF TypeInv, Types
  <2>3. pc["scheduler"] = "idle" /\ pc'["scheduler"] = "idle" /\ pc'["httpd"] = "transmit"
    BY <1>00, <2>1 DEF Turns, Alone, TypeInv, Types
  <2>4. Tracked'
    BY <1>00, <2>1, Turned DEF Turns, Tracking
  <2>5. Alone' /\ Tracking' /\ Direction'
    BY <2>3, <2>4 DEF Alone, Tracking, Direction, AllIdle
  <2> QED BY <1>00, <2>1, <2>2, <2>5 DEF Turns, Fresh, WordNow, Legal
<1>4. ASSUME TestPower PROVE Turns'
  <2>1. /\ pc["httpd"] = "test"
        /\ pc' = [pc EXCEPT !["httpd"] = IF power = 1 THEN "state" ELSE "idle"]
        /\ UNCHANGED <<settings_vars, event, rmt_vars>>
    BY <1>4 DEF TestPower
  <2>2. pc["scheduler"] = "idle" /\ pc'["scheduler"] = "idle"
        /\ pc'["httpd"] = IF power = 1 THEN "state" ELSE "idle"
    BY <1>00, <2>1 DEF Turns, Alone, TypeInv, Types
  <2>3. (Tracked' <=> power = 0) /\ power \in 0..1
    BY <1>00, <2>1, Turned DEF Turns, Tracking, rmt_vars, TypeInv, Types
  <2>4. Alone' /\ Direction'
    BY <2>2 DEF Alone, Direction
  <2>5. Tracking'
    BY <2>2, <2>3 DEF Tracking, AllIdle
  <2> QED BY <1>00, <2>1, <2>4, <2>5 DEF Turns, Fresh, WordNow, Legal
<1>5. ASSUME ToggleState PROVE Turns'
  <2> DEFINE word == [register["httpd"] EXCEPT !.power_state = 1 - @]
  <2>1. pc["httpd"] = "state" /\ pc' = [pc EXCEPT !["httpd"] = "clear"]
        /\ UNCHANGED <<event, ac_on, frame>> /\ Store("httpd", fields, word)
        /\ register["httpd"] # Unread
    BY <1>5 DEF ToggleState, At, Store, rmt_vars
  <2>2. register["httpd"] = WordNow /\ register["httpd"] \in Word /\ word \in Word /\ ~Tracked
    BY <1>00, <2>1, RegisterIsWord DEF Turns, Fresh, Tracking
  <2>3. word.mode_high = fields.mode \div 4 /\ word.power_state = 1 - power_state
    BY <2>2 DEF WordNow, Word
  <2> HIDE DEF word
  <2>4. pc' \in [Tasks -> Places] /\ pc'["httpd"] = "clear" /\ pc'["scheduler"] = pc["scheduler"]
    BY <2>1 DEF TypeInv, Types, Places
  <2>5. /\ Alone' /\ Fresh' /\ Legal' /\ pc'["scheduler"] = "idle"
        /\ power_state' = 1 - power_state
    BY <1>00, <2>1, <2>2, <2>3, <2>4, TurnsAfterWrite
  <2>6. Tracked'
    BY <2>1, <2>2, <2>5, Turned DEF TypeInv, Types
  <2>7. Tracking' /\ Direction'
    BY <2>4, <2>5, <2>6 DEF Tracking, Direction, AllIdle
  <2> QED BY <2>5, <2>7 DEF Turns
<1>6. ASSUME StartOn \/ StartOff PROVE Turns'
  <2>1. pc["httpd"] = "idle" /\ pc["scheduler"] = "idle"
        /\ UNCHANGED <<settings_vars, rmt_vars>>
    BY <1>6 DEF StartOn, StartOff, Began
  <2>2. Tracked'
    BY <1>00, <2>1, Turned DEF Turns, Tracking, AllIdle, rmt_vars
  <2>3. /\ pc' \in [Tasks -> Places] /\ pc'["httpd"] = "idle"
        /\ pc'["scheduler"] \in {"idle", "power"}
        /\ pc'["scheduler"] = "power" => power_state = (IF event' = "AC_ON" THEN 0 ELSE 1)
    BY <1>6, <2>1 DEF StartOn, StartOff, TypeInv, Types, Places
  <2>4. Alone' /\ Tracking' /\ Direction'
    BY <2>1, <2>2, <2>3 DEF Alone, Tracking, Direction, AllIdle
  <2> QED BY <1>00, <2>1, <2>4 DEF Turns, Fresh, WordNow, Legal
<1>7. ASSUME RecordState PROVE Turns'
  <2> DEFINE bit == IF event = "AC_ON" THEN 1 ELSE 0
             word == [register["scheduler"] EXCEPT !.power_state = bit]
  <2>1. pc["scheduler"] = "state"
        /\ pc' = [pc EXCEPT !["scheduler"] = IF event = "AC_ON" THEN "clear" ELSE "idle"]
        /\ UNCHANGED <<event, ac_on, frame>> /\ Store("scheduler", fields, word)
        /\ register["scheduler"] # Unread
    BY <1>7 DEF RecordState, Store, rmt_vars
  <2>2. bit \in 0..1
    OBVIOUS
  <2>3. register["scheduler"] = WordNow /\ register["scheduler"] \in Word /\ ~Tracked
        /\ power_state = IF event = "AC_ON" THEN 0 ELSE 1
    BY <1>00, <2>1, RegisterIsWord DEF Turns, Fresh, Tracking, Direction
  <2> HIDE DEF bit
  <2>4. word \in Word
    BY <2>1, <2>2, RegisterIsWord
  <2>5. word.mode_high = fields.mode \div 4 /\ word.power_state = bit
    BY <2>3 DEF WordNow, Word
  <2> HIDE DEF word
  <2>6. pc' \in [Tasks -> Places] /\ pc'["httpd"] = pc["httpd"]
        /\ pc'["scheduler"] = IF event = "AC_ON" THEN "clear" ELSE "idle"
    BY <2>1 DEF TypeInv, Types, Places
  <2>7. Alone' /\ Fresh' /\ Legal' /\ pc'["httpd"] = "idle" /\ power_state' = bit
    BY <1>00, <2>1, <2>4, <2>5, <2>6, TurnsAfterWrite
  <2>8. power_state' = 1 - power_state /\ event \in {"AC_ON", "AC_OFF"}
    BY <2>3, <2>7 DEF bit, TypeInv, Types
  <2>9. Tracked'
    BY <2>1, <2>3, <2>8, Turned DEF TypeInv, Types
  <2>10. Tracking' /\ Direction'
    BY <2>1, <2>6, <2>7, <2>9 DEF Tracking, Direction, AllIdle, bit
  <2> QED BY <2>7, <2>10 DEF Turns
<1>8. ASSUME NEW t \in Tasks, SetPower(t) PROVE Turns'
  <2> DEFINE word == [register[t] EXCEPT !.power = 1]
  <2>1. pc[t] = "power" /\ pc' = [pc EXCEPT ![t] = "transmit"]
        /\ UNCHANGED <<event, ac_on, frame>> /\ Store(t, fields, word)
        /\ register[t] # Unread
    BY <1>8 DEF SetPower, At, Store, rmt_vars
  <2>2. register[t] = WordNow /\ register[t] \in Word /\ Tracked
    BY <1>00, <2>1, RegisterIsWord DEF Turns, Fresh, Tracking
  <2>3. word \in Word
    <3>1. 1 \in 0..1
      OBVIOUS
    <3> QED BY <2>1, <3>1, RegisterIsWord
  <2>4. word.mode_high = fields.mode \div 4 /\ word.power_state = power_state /\ word.power = 1
    BY <2>2 DEF WordNow, Word
  <2> HIDE DEF word
  <2>5. pc' \in [Tasks -> Places] /\ pc'[t] = "transmit" /\ pc'[Other(t)] = pc[Other(t)]
    BY <2>1 DEF TypeInv, Types, Places
  <2>6. /\ Alone' /\ Fresh' /\ Legal' /\ pc'[Other(t)] = "idle"
        /\ power' = 1 /\ power_state' = power_state
    BY <1>00, <2>1, <2>3, <2>4, <2>5, TurnsAfterWrite
  <2>7. Tracked'
    BY <2>1, <2>2, <2>6, Turned
  <2>8. Tracking'
    BY <2>5, <2>6, <2>7 DEF Tracking, AllIdle
  <2>9. Direction'
    BY <1>00, <2>1, <2>5, <2>6 DEF Direction, Turns
  <2> QED BY <2>6, <2>8, <2>9 DEF Turns
<1>9. ASSUME NEW t \in Tasks, ClearPower(t) PROVE Turns'
  <2> DEFINE word == [register[t] EXCEPT !.power = 0]
  <2>1. pc[t] = "clear" /\ pc' = [pc EXCEPT ![t] = "idle"]
        /\ UNCHANGED <<event, ac_on, frame>> /\ Store(t, fields, word)
        /\ register[t] # Unread
    BY <1>9 DEF ClearPower, At, Store, rmt_vars
  <2>2. register[t] = WordNow /\ register[t] \in Word /\ Tracked
    BY <1>00, <2>1, RegisterIsWord DEF Turns, Fresh, Tracking
  <2>3. word \in Word
    <3>1. 0 \in 0..1
      OBVIOUS
    <3> QED BY <2>1, <3>1, RegisterIsWord
  <2>4. word.mode_high = fields.mode \div 4 /\ word.power_state = power_state
    BY <2>2 DEF WordNow, Word
  <2> HIDE DEF word
  <2>5. pc' \in [Tasks -> Places] /\ pc'[t] = "idle" /\ pc'[Other(t)] = pc[Other(t)]
    BY <2>1 DEF TypeInv, Types, Places
  <2>6. /\ Alone' /\ Fresh' /\ Legal' /\ pc'[Other(t)] = "idle"
        /\ power_state' = power_state
    BY <1>00, <2>1, <2>3, <2>4, <2>5, TurnsAfterWrite
  <2>7. Tracked'
    BY <2>1, <2>2, <2>6, Turned
  <2>8. Tracking' /\ Direction'
    BY <2>5, <2>6, <2>7 DEF Tracking, Direction, AllIdle
  <2> QED BY <2>6, <2>8 DEF Turns
<1>10. ASSUME NEW t \in Tasks, Load(t) PROVE Turns'
  <2>1. register' = [register EXCEPT ![t] = WordNow]
        /\ UNCHANGED <<fields, power, power_state, pc, event, ac_on, frame>>
    BY <1>10 DEF Load, WordNow, rmt_vars
  <2>2. Tracked' <=> Tracked
    BY <2>1, Turned
  <2>3. Fresh'
    BY <1>00, <2>1 DEF Turns, Fresh, WordNow, TypeInv, Types
  <2>4. Tracking'
    BY <1>00, <2>1, <2>2 DEF Turns, Tracking, AllIdle
  <2>5. Alone' /\ Direction' /\ Legal'
    BY <1>00, <2>1 DEF Turns, Alone, Direction, Legal
  <2> QED BY <2>3, <2>4, <2>5 DEF Turns
<1>11. ASSUME NEW t \in Tasks, Transmit(t) PROVE Turns'
  <2>1. pc[t] = "transmit" /\ pc' = [pc EXCEPT ![t] = "count"]
        /\ UNCHANGED <<settings_vars, event, ac_on>>
    BY <1>11 DEF Transmit, At
  <2>2. pc'[t] = "count" /\ pc[Other(t)] = "idle" /\ pc'[Other(t)] = "idle"
    BY <1>00, <2>1 DEF Turns, Alone, TypeInv, Types
  <2>3. frame = NoFrame
    BY <2>1, <2>2, NoneInFlight DEF Covers
  <2>4. frame' = Encoded
    BY <1>11, <2>3 DEF Transmit
  <2>5. frame' # NoFrame /\ frame'.power = power
    <3>1. Encoded \in Frame
      BY DEF Encoded, Frame, TypeInv, Types
    <3> QED BY <2>4, <3>1, Marks DEF Encoded
  <2>6. Tracked'
    BY <1>00, <2>1, Turned DEF Turns, Tracking
  <2>7. Tracking'
    BY <2>1, <2>2, <2>5, <2>6 DEF Tracking, AllIdle
  <2>8. Alone' /\ Direction'
    BY <1>00, <2>1, <2>2 DEF Turns, Alone, Direction
  <2> QED BY <1>00, <2>1, <2>7, <2>8 DEF Turns, Fresh, WordNow, Legal
<1>12. ASSUME NEW t \in Tasks, Count(t) \/ Recycle(t) PROVE Turns'
  <2>1. /\ pc[t] \in {"count", "wait"} /\ pc' = [pc EXCEPT ![t] = "wait"]
        /\ UNCHANGED <<settings_vars, event, ac_on, frame>>
    BY <1>12 DEF Count, Recycle, At, TypeInv, Types
  <2>2. pc'[t] = "wait" /\ pc[Other(t)] = "idle" /\ pc'[Other(t)] = "idle"
    BY <1>00, <2>1 DEF Turns, Alone, TypeInv, Types
  <2>3. Tracked' <=> Tracked
    BY <2>1, Turned
  <2>4. Tracking'
    BY <1>00, <2>1, <2>2, <2>3 DEF Turns, Tracking, AllIdle
  <2>5. Alone' /\ Direction'
    BY <1>00, <2>1, <2>2 DEF Turns, Alone, Direction
  <2> QED BY <1>00, <2>1, <2>4, <2>5 DEF Turns, Fresh, WordNow, Legal
<1>13. ASSUME NEW t \in Tasks, WaitDone(t) PROVE Turns'
  <2>1. pc[t] = "wait" /\ pc' = [pc EXCEPT ![t] = IF t = "httpd" THEN "test" ELSE "state"]
        /\ wanted[t] = 0 /\ UNCHANGED <<settings_vars, event, ac_on, frame>>
    BY <1>13 DEF WaitDone, At, rmt_vars
  <2>2. pc'[t] = (IF t = "httpd" THEN "test" ELSE "state")
        /\ pc[Other(t)] = "idle" /\ pc'[Other(t)] = "idle"
    BY <1>00, <2>1 DEF Turns, Alone, TypeInv, Types
  <2>3. frame = NoFrame
    BY <2>1, <2>2, NoneInFlight DEF Covers
  <2>4. (Tracked' <=> power = 0) /\ (t = "scheduler" => power = 1)
    BY <1>00, <2>1, <2>3, Turned DEF Turns, Tracking, Direction
  <2>5. Tracking'
    BY <2>1, <2>2, <2>4 DEF Tracking, AllIdle
  <2>6. Alone' /\ Direction'
    BY <1>00, <2>1, <2>2 DEF Turns, Alone, Direction
  <2> QED BY <1>00, <2>1, <2>5, <2>6 DEF Turns, Fresh, WordNow, Legal
<1>14. ASSUME FrameDone PROVE Turns'
  <2>1. UNCHANGED <<settings_vars, pc, event>> /\ frame # NoFrame
        /\ ac_on' = IF frame.power = 1 THEN ~ac_on ELSE ac_on
    BY <1>14 DEF FrameDone
  <2>2. PICK t \in Tasks : pc[t] \in {"count", "wait"}
    <3>1. Inflight > 0
      BY <2>1, InflightIs DEF TypeInv, Types
    <3>2. PICK u \in Tasks : Covers(u, 1)
      BY <3>1, InflightIs
    <3> QED BY <3>2 DEF Covers
  <2>3. pc[Other(t)] = "idle"
    BY <1>00, <2>2 DEF Turns, Alone
  <2>4. frame' = NoFrame
    <3>1. Inflight <= 1
      BY <2>3, InflightIs
    <3>2. queued = 0
      BY <2>1, <3>1, InflightIs DEF TypeInv, Types
    <3> QED BY <1>14, <3>2 DEF FrameDone
  <2>5. Tracked /\ frame.power = power /\ power \in 0..1
    BY <1>00, <2>1, <2>2 DEF Turns, Tracking, TypeInv, Types
  <2>6. Tracked' <=> power' = 0
    <3>1. CASE power = 1
      <4>1. ac_on' = ~ac_on
        BY <2>1, <2>5, <3>1
      <4> QED BY <2>1, <2>5, <3>1, <4>1, Turned
    <3>2. CASE power = 0
      <4>1. ac_on' = ac_on
        BY <2>1, <2>5, <3>2
      <4> QED BY <2>1, <2>5, <3>2, <4>1, Turned
    <3> QED BY <2>5, <3>1, <3>2
  <2>7. Tracking'
    BY <2>1, <2>2, <2>3, <2>4, <2>6 DEF Tracking, AllIdle
  <2> QED BY <1>00, <2>1, <2>7 DEF Turns, Alone, Direction, Fresh, WordNow, Legal
<1>15. ASSUME UNCHANGED vars PROVE Turns'
  BY <1>00, <1>15 DEF vars, Turns, Alone, Tracking, Tracked, AllIdle, Direction, Fresh, WordNow, Legal
<1> QED
  BY <1>1, <1>2, <1>3, <1>4, <1>5, <1>6, <1>7, <1>8, <1>9, <1>10, <1>11, <1>12, <1>13, <1>14,
     <1>15
  DEF Next, HttpdStep, SchedulerStep, TaskStep

-----------------------------------------------------------------------------
IInv == TypeInv /\ Sent /\ (~overlapped => Turns)

(* Types, channel, frames and turns together hold in every state. *)
LEMMA InvAlways == Spec => []IInv
<1>1. Init => IInv
  <2> SUFFICES ASSUME Init PROVE IInv
    OBVIOUS
  <2>1. TypeInv
    BY TypeInvInit
  <2>2. Sent
    BY DEF Init, Sent
  <2>3. Tracked
    BY DEF Init, Tracked
  <2>4. Alone /\ Tracking /\ Direction
    BY <2>3, TwoTasks DEF Init, Alone, Tracking, Direction, AllIdle
  <2>5. Fresh /\ Legal
    BY DEF Init, Fresh, Legal, InitialFields
  <2> QED BY <2>1, <2>2, <2>4, <2>5 DEF IInv, Turns
<1>2. IInv /\ [Next]_vars => IInv'
  BY TypeInvStep, SentStep, TurnsStep DEF IInv
<1> QED BY <1>1, <1>2, PTL DEF Spec

Booleans == schedule_active \in BOOLEAN /\ ac_on \in BOOLEAN /\ overlapped \in BOOLEAN

(* Each of the three is kept, negated or the outcome of a test. *)
LEMMA BooleansAlways == Spec => []Booleans
<1> USE DEF Booleans
<1>1. Init => Booleans
  BY DEF Init
<1>2. Booleans /\ [Next]_vars => Booleans'
  <2> SUFFICES ASSUME Booleans, [Next]_vars PROVE Booleans'
    OBVIOUS
  <2> USE DEF Next, HttpdStep, SchedulerStep, TaskStep, Receive, ApplyMode, ApplyOther,
      TestPower, ToggleState, StartOn, StartOff, RecordState, SetPower, ClearPower, Load,
      Transmit, Count, Recycle, WaitDone, FrameDone, vars, event_vars, settings_vars, rmt_vars
  <2>1. schedule_active' \in BOOLEAN
    OBVIOUS
  <2>2. ac_on' \in BOOLEAN
    OBVIOUS
  <2>3. overlapped' \in BOOLEAN
    BY DEF Began
  <2> QED BY <2>1, <2>2, <2>3
<1> QED BY <1>1, <1>2, PTL DEF Spec

(* The settings, the channel and both tasks keep their types; no race takes    *)
(* the temperature past 30 degrees or a second frame into the queue.          *)
THEOREM TypeCorrect == Spec => []TypeOK
<1>1. IInv /\ Booleans => TypeOK
  BY DEF IInv, TypeInv, Types, Channel, TypeOK, Places, Booleans
<1> QED BY <1>1, InvAlways, BooleansAlways, PTL

(* "Send new settings to AC" (uri_handlers.c:225): an answered command has     *)
(* reached the AC, however the tasks overlapped.                             *)
THEOREM AnsweredSettingsReachAc == Spec => []SettingsReachAc
<1>1. IInv => SettingsReachAc
  BY DEF IInv, Sent, SettingsReachAc
<1> QED BY <1>1, InvAlways, PTL

(* The tracker of ir_codec.h:29 agrees with the AC while the tasks take turns. *)
THEOREM TrackerAgrees == Spec => []StateTracked
<1>1. IInv => StateTracked
  BY DEF IInv, Turns, Tracking, Tracked, StateTracked
<1> QED BY <1>1, InvAlways, PTL

(* While the tasks take turns the mode is one of the five.                     *)
THEOREM ModeStaysLegal == Spec => []ModeLegal
<1>1. IInv => ModeLegal
  BY DEF IInv, Turns, Legal, ModeLegal
<1> QED BY <1>1, InvAlways, PTL

(* A scheduled event leaves the AC as it says (server_schedule.c:261, 281),    *)
(* whatever power bit an earlier one left, unless a client interfered.        *)
THEOREM EventsTakeEffect == Spec => EventTakesEffect
<1> DEFINE Effect == pc["scheduler"] # "idle" /\ pc'["scheduler"] = "idle" /\ ~overlapped
                       => ac_on' = (event = "AC_ON")
<1>1. IInv /\ Booleans /\ [Next]_vars => Effect \/ UNCHANGED vars
  <2> SUFFICES ASSUME IInv, Booleans, [Next]_vars, ~overlapped,
                      pc["scheduler"] # "idle", pc'["scheduler"] = "idle"
               PROVE  ac_on' = (event = "AC_ON")
    OBVIOUS
  <2> USE TwoTasks
  <2>1. TypeInv /\ Turns
    BY DEF IInv
  <2>2. ClearPower("scheduler") \/ RecordState
    <3>1. \A t \in Tasks : /\ ~SetPower(t) /\ ~Load(t) /\ ~Transmit(t)
                           /\ ~Count(t) /\ ~Recycle(t) /\ ~WaitDone(t)
      BY <2>1 DEF SetPower, Load, Transmit, Count, Recycle, WaitDone, At, TypeInv, Types
    <3>2. ~ClearPower("httpd")
      BY <2>1 DEF ClearPower, At, TypeInv, Types
    <3>3. ~Receive /\ ~ApplyMode /\ ~ApplyOther /\ ~TestPower /\ ~ToggleState /\ ~FrameDone
      BY <2>1 DEF Receive, ApplyMode, ApplyOther, TestPower, ToggleState, FrameDone, At,
        TypeInv, Types
    <3>4. ~StartOn /\ ~StartOff /\ ~UNCHANGED vars
      BY <2>1 DEF StartOn, StartOff, vars
    <3> QED BY <3>1, <3>2, <3>3, <3>4 DEF Next, HttpdStep, SchedulerStep, TaskStep
  <2>3. CASE ClearPower("scheduler")
    <3>1. pc["scheduler"] = "clear" /\ ac_on' = ac_on
      BY <2>3 DEF ClearPower, At, rmt_vars
    <3>2. event = "AC_ON" /\ power_state = 1 /\ Tracked
      BY <2>1, <3>1 DEF Turns, Direction, Tracking
    <3>3. ac_on
      BY <3>2 DEF Tracked
    <3> QED BY <3>1, <3>2, <3>3
  <2>4. CASE RecordState
    <3>1. pc["scheduler"] = "state" /\ ac_on' = ac_on
          /\ pc' = [pc EXCEPT !["scheduler"] = IF event = "AC_ON" THEN "clear" ELSE "idle"]
      BY <2>4 DEF RecordState, rmt_vars
    <3>2. event # "AC_ON"
      BY <2>1, <3>1 DEF TypeInv, Types
    <3>3. power_state = 1 /\ ~Tracked
      BY <2>1, <3>1, <3>2 DEF Turns, Direction, Tracking
    <3>4. ac_on = FALSE
      BY <3>3 DEF Tracked, Booleans
    <3> QED BY <3>1, <3>2, <3>4
  <2> QED BY <2>2, <2>3, <2>4
<1>2. EventTakesEffect <=> [][Effect]_vars
  BY DEF EventTakesEffect
<1> HIDE DEF Effect
<1> QED BY <1>1, <1>2, InvAlways, BooleansAlways, PTL DEF Spec
-----------------------------------------------------------------------------
(* The control page of the app, whose taps become commands.  What a bag of    *)
(* POSTs will still add to an arrow is the sum, over the numbers n a command   *)
(* for it may carry, of n for each copy.                                     *)
Copies(b, w, n) ==
  LET c == [word |-> w, delta |-> n] IN IF c \in DOMAIN b THEN b[c] ELSE 0

(* S lists the partial sums. *)
Sums(S, b, w) ==
  /\ S \in [0..MaxTaps -> Nat]
  /\ S[0] = 0
  /\ \A n \in 1..MaxTaps : S[n] = S[n - 1] + n * Copies(b, w, n)
  /\ \A m, n \in 0..MaxTaps : m <= n => S[m] <= S[n]

Posts == [word : DirectWords \cup CountedWords, delta : 1..MaxTaps]

(* What b2 holds for w, compared with b. *)
AsMany(b2, b, w) == \A n \in 1..MaxTaps : Copies(b2, w, n) = Copies(b, w, n)

OneMore(b2, b, w, d) ==
  \A n \in 1..MaxTaps : Copies(b2, w, n) = Copies(b, w, n) + (IF n = d THEN 1 ELSE 0)

OneLess(b2, b, w, d) ==
  \A n \in 1..MaxTaps : Copies(b2, w, n) = Copies(b, w, n) - (IF n = d THEN 1 ELSE 0)

ABagOfPosts(b) == IsABag(b) /\ DOMAIN b \subseteq Posts

Counts ==
  /\ ABagOfPosts(posts) /\ ABagOfPosts(strays) /\ ABagOfPosts(answered)
  /\ resent \in [CountedWords -> Nat]
  /\ count \in [CountedWords -> Nat] /\ taps \in [CountedWords -> Nat]
  /\ applied \in [CountedWords -> Nat] /\ tapped \in 0..MaxTaps
  /\ \A w \in CountedWords : count[w] <= taps[w] /\ taps[w] <= tapped

(* The bag holds k steps for w. *)
Total(b, w, k) == k \in Nat /\ \E S : Sums(S, b, w) /\ S[MaxTaps] = k

(* The steps of a command that are for w. *)
Carried(x, w) == IF x.word = w THEN x.delta ELSE 0

(* b2 holds c steps less, or more, for w than b. *)
Fewer(b2, b, w, c) == \A k : Total(b, w, k) => \E l : Total(b2, w, l) /\ k = l + c

More(b2, b, w, c) == \A k : Total(b, w, k) => Total(b2, w, k + c)

(* The taps on an arrow are applied, posted, counted or lost, and the steps    *)
(* that were sent again as well.                                            *)
Accounted ==
  \A w \in CountedWords :
    \E k, l : /\ Total(posts, w, k) /\ Total(strays, w, l)
             /\ applied[w] + k + l + count[w] <= taps[w] + resent[w]

TapsInv == Counts /\ Accounted

(* A bag with one more of x has one more copy of x and as many of the rest;   *)
(* one with one less, one less.                                             *)
LEMMA CopiesAdded ==
  ASSUME NEW b, ABagOfPosts(b), NEW X, X \subseteq Posts, NEW b2, b2 = b (+) SetToBag(X)
  PROVE  /\ ABagOfPosts(b2)
         /\ \A w : \/ AsMany(b2, b, w)
                  \/ \E n \in 1..MaxTaps : [word |-> w, delta |-> n] \in X
         /\ \A w : \A d : \/ OneMore(b2, b, w, d)
                        \/ \E n \in 1..MaxTaps : ~([word |-> w, delta |-> n] \in X <=> n = d)
<1> DEFINE x2 == SetToBag(X)
<1>1. x2 = [e \in X |-> 1]
  BY DEF SetToBag
<1> HIDE DEF x2
<1>2. b2 = [e \in (DOMAIN b) \cup (DOMAIN x2) |->
              (IF e \in DOMAIN b THEN b[e] ELSE 0) + (IF e \in DOMAIN x2 THEN x2[e] ELSE 0)]
  BY DEF (+), x2
<1>3. DOMAIN b2 = DOMAIN b \cup X
  BY <1>1, <1>2
<1>4. \A e \in DOMAIN b2 : b2[e] = (IF e \in DOMAIN b THEN b[e] ELSE 0) + (IF e \in X THEN 1 ELSE 0)
  BY <1>1, <1>2
<1>5. \A e \in DOMAIN b : b[e] \in Nat /\ b[e] > 0
  BY DEF ABagOfPosts, IsABag
<1>6. \A e \in DOMAIN b2 : b2[e] \in Nat /\ b2[e] > 0
  BY <1>3, <1>4, <1>5
<1>7. b2 \in [DOMAIN b2 -> {n \in Nat : n > 0}]
  BY <1>2, <1>6
<1>8. ABagOfPosts(b2)
  BY <1>3, <1>7 DEF ABagOfPosts, IsABag
<1>9. ASSUME NEW w, NEW n \in 1..MaxTaps
      PROVE  Copies(b2, w, n)
               = Copies(b, w, n) + (IF [word |-> w, delta |-> n] \in X THEN 1 ELSE 0)
  <2> DEFINE c == [word |-> w, delta |-> n]
  <2>1. Copies(b2, w, n) = IF c \in DOMAIN b2 THEN b2[c] ELSE 0
    BY DEF Copies
  <2>2. Copies(b, w, n) = IF c \in DOMAIN b THEN b[c] ELSE 0
    BY DEF Copies
  <2> HIDE DEF c
  <2>3. CASE c \in DOMAIN b2
    BY <1>4, <2>1, <2>2, <2>3 DEF c
  <2>4. CASE c \notin DOMAIN b2
    BY <1>3, <2>1, <2>2, <2>4 DEF c
  <2> QED BY <2>3, <2>4
<1>10. \A w : \A n \in 1..MaxTaps : Copies(b, w, n) \in Nat
  BY DEF Copies, ABagOfPosts, IsABag
<1>11. ASSUME NEW w, ~\E n \in 1..MaxTaps : [word |-> w, delta |-> n] \in X
       PROVE  AsMany(b2, b, w)
  BY <1>9, <1>10, <1>11 DEF AsMany
<1>12. ASSUME NEW w, NEW d, ~\E n \in 1..MaxTaps : ~([word |-> w, delta |-> n] \in X <=> n = d)
       PROVE  OneMore(b2, b, w, d)
  BY <1>9, <1>12 DEF OneMore
<1> QED BY <1>8, <1>11, <1>12

LEMMA CopiesRemoved ==
  ASSUME NEW b, ABagOfPosts(b), NEW x \in DOMAIN b, NEW b2, b2 = b (-) SetToBag({x})
  PROVE  /\ ABagOfPosts(b2)
         /\ \A w : x.word = w \/ AsMany(b2, b, w)
         /\ OneLess(b2, b, x.word, x.delta)
<1> DEFINE x2 == SetToBag({x})
           B == [e \in DOMAIN b |-> IF e \in DOMAIN x2 THEN b[e] - x2[e] ELSE b[e]]
<1>1. x2 = [e \in {x} |-> 1]
  BY DEF SetToBag
<1> HIDE DEF x2
<1>2. b2 = [e \in {d \in DOMAIN B : B[d] > 0} |-> B[e]]
  BY DEF (-), x2
<1>3. DOMAIN B = DOMAIN b /\ \A e \in DOMAIN b : B[e] = IF e = x THEN b[e] - 1 ELSE b[e]
  BY <1>1
<1> HIDE DEF B
<1>5. \A e \in DOMAIN b : b[e] \in Nat /\ b[e] > 0
  BY DEF ABagOfPosts, IsABag
<1>6. \A e \in DOMAIN b2 : e \in DOMAIN b /\ b2[e] = B[e] /\ B[e] > 0
  BY <1>2, <1>3
<1>7. \A e \in DOMAIN b2 : b2[e] \in Nat /\ b2[e] > 0
  BY <1>3, <1>5, <1>6
<1>8. b2 \in [DOMAIN b2 -> {n \in Nat : n > 0}]
  BY <1>2, <1>7
<1>9. ABagOfPosts(b2)
  BY <1>6, <1>8 DEF ABagOfPosts, IsABag
<1>10. \A e \in DOMAIN b : e \notin DOMAIN b2 => ~(B[e] > 0)
  BY <1>2, <1>3
<1>11. ASSUME NEW w, NEW n \in 1..MaxTaps
       PROVE  Copies(b2, w, n)
                = Copies(b, w, n) - (IF [word |-> w, delta |-> n] = x THEN 1 ELSE 0)
  <2> DEFINE c == [word |-> w, delta |-> n]
  <2>1. Copies(b2, w, n) = IF c \in DOMAIN b2 THEN b2[c] ELSE 0
    BY DEF Copies
  <2>2. Copies(b, w, n) = IF c \in DOMAIN b THEN b[c] ELSE 0
    BY DEF Copies
  <2> HIDE DEF c
  <2>3. CASE c \in DOMAIN b2
    <3>1. c \in DOMAIN b /\ b2[c] = IF c = x THEN b[c] - 1 ELSE b[c]
      BY <1>3, <1>6, <2>3
    <3>2. b[c] \in Nat
      BY <1>5, <3>1
    <3> QED BY <2>1, <2>2, <2>3, <3>1, <3>2 DEF c
  <2>4. CASE c \notin DOMAIN b2 /\ c \in DOMAIN b
    BY <1>3, <1>5, <1>10, <2>1, <2>2, <2>4 DEF c
  <2>5. CASE c \notin DOMAIN b
    BY <1>6, <2>1, <2>2, <2>5 DEF c
  <2> QED BY <2>3, <2>4, <2>5
<1>12. x = [word |-> x.word, delta |-> x.delta]
  BY DEF ABagOfPosts, Posts
<1>13. \A w : \A n \in 1..MaxTaps : Copies(b, w, n) \in Nat
  BY DEF Copies, ABagOfPosts, IsABag
<1>14. ASSUME NEW w, x.word # w
       PROVE  AsMany(b2, b, w)
  <2>1. \A n \in 1..MaxTaps : [word |-> w, delta |-> n] # x
    BY <1>14
  <2> QED BY <1>11, <1>13, <2>1 DEF AsMany
<1>15. OneLess(b2, b, x.word, x.delta)
  <2>1. \A n \in 1..MaxTaps : [word |-> x.word, delta |-> n] = x <=> n = x.delta
    BY <1>12
  <2> QED BY <1>11, <2>1 DEF OneLess
<1> QED BY <1>9, <1>14, <1>15

(* The partial sums follow. *)
LEMMA SumsKept ==
  ASSUME NEW b, NEW b2, NEW w, NEW S, Sums(S, b, w), AsMany(b2, b, w)
  PROVE  Sums(S, b2, w)
BY DEF Sums, AsMany

LEMMA SumsAdded ==
  ASSUME NEW b, ABagOfPosts(b), NEW b2, NEW w, NEW S, Sums(S, b, w), NEW d \in 1..MaxTaps,
         OneMore(b2, b, w, d)
  PROVE  \E T : Sums(T, b2, w) /\ T[MaxTaps] = S[MaxTaps] + d
<1> DEFINE T == [n \in 0..MaxTaps |-> IF n >= d THEN S[n] + d ELSE S[n]]
<1>0. MaxTaps \in Nat
  BY AcControlAppAssumption
<1>1. S \in [0..MaxTaps -> Nat] /\ S[0] = 0
  BY DEF Sums
<1>2. T \in [0..MaxTaps -> Nat] /\ T[0] = 0 /\ T[MaxTaps] = S[MaxTaps] + d
  BY <1>0, <1>1
<1>3. \A m, n \in 0..MaxTaps : m <= n => T[m] <= T[n]
  <2>1. \A m, n \in 0..MaxTaps : m <= n => S[m] <= S[n]
    BY DEF Sums
  <2> QED BY <1>0, <1>1, <2>1
<1>4. ASSUME NEW n \in 1..MaxTaps
      PROVE  T[n] = T[n - 1] + n * Copies(b2, w, n)
  <2> DEFINE x == Copies(b, w, n)
  <2>1. x \in Nat
    BY DEF Copies, ABagOfPosts, IsABag
  <2>2. S[n] = S[n - 1] + n * x
    BY DEF Sums
  <2>3. Copies(b2, w, n) = x + (IF n = d THEN 1 ELSE 0)
    BY DEF OneMore
  <2> HIDE DEF x
  <2>4. n - 1 \in 0..MaxTaps /\ n \in 0..MaxTaps /\ S[n - 1] \in Nat /\ S[n] \in Nat
    BY <1>0, <1>1
  <2>5. CASE n = d
    <3>1. n * (x + 1) = n * x + n
      BY <2>1
    <3>2. T[n] = S[n] + n /\ T[n - 1] = S[n - 1]
      BY <2>4, <2>5
    <3>3. n * x \in Nat
      BY <2>1
    <3> QED BY <2>2, <2>3, <2>4, <2>5, <3>1, <3>2, <3>3
  <2>6. CASE n # d
    <3>1. Copies(b2, w, n) = x
      BY <2>1, <2>3, <2>6
    <3>2. n * x \in Nat
      BY <2>1
    <3>3. \/ T[n] = S[n] /\ T[n - 1] = S[n - 1]
          \/ T[n] = S[n] + d /\ T[n - 1] = S[n - 1] + d
      BY <2>4, <2>6
    <3> QED BY <2>2, <2>4, <3>1, <3>2, <3>3
  <2> QED BY <2>5, <2>6
<1> QED BY <1>2, <1>3, <1>4 DEF Sums

LEMMA SumsRemoved ==
  ASSUME NEW b, ABagOfPosts(b), NEW b2, NEW w, NEW S, Sums(S, b, w), NEW d \in 1..MaxTaps,
         Copies(b, w, d) > 0, OneLess(b2, b, w, d)
  PROVE  \E T : Sums(T, b2, w) /\ T[MaxTaps] + d = S[MaxTaps]
<1> DEFINE T == [n \in 0..MaxTaps |-> IF n >= d THEN S[n] - d ELSE S[n]]
           y == Copies(b, w, d)
<1>0. MaxTaps \in Nat
  BY AcControlAppAssumption
<1>1. S \in [0..MaxTaps -> Nat] /\ S[0] = 0
  BY DEF Sums
<1>2. \A m, n \in 0..MaxTaps : m <= n => S[m] <= S[n]
  BY DEF Sums
<1>3. S[d] >= S[d - 1] + d
  <2>1. y \in Nat /\ y > 0
    BY DEF Copies, ABagOfPosts, IsABag
  <2>2. S[d] = S[d - 1] + d * y
    BY DEF Sums
  <2> HIDE DEF y
  <2>3. PICK z \in Nat : y = z + 1
    BY <2>1
  <2>4. d * (z + 1) = d * z + d /\ d * z \in Nat
    OBVIOUS
  <2>5. S[d - 1] \in Nat /\ S[d] \in Nat
    BY <1>0, <1>1
  <2> QED BY <2>2, <2>3, <2>4, <2>5
<1>4. \A n \in 0..MaxTaps : n >= d => S[n] >= S[d - 1] + d
  <2>1. d \in 0..MaxTaps /\ d - 1 \in 0..MaxTaps
    BY <1>0
  <2> QED BY <1>1, <1>2, <1>3, <2>1
<1>5. T \in [0..MaxTaps -> Nat] /\ T[0] = 0 /\ T[MaxTaps] + d = S[MaxTaps]
  <2>1. S[d - 1] \in Nat
    BY <1>0, <1>1
  <2> QED BY <1>0, <1>1, <1>4, <2>1
<1>6. \A m, n \in 0..MaxTaps : m <= n => T[m] <= T[n]
  <2> TAKE m, n \in 0..MaxTaps
  <2> HAVE m <= n
  <2>1. S[m] \in Nat /\ S[n] \in Nat /\ S[m] <= S[n] /\ d - 1 \in 0..MaxTaps /\ S[d - 1] \in Nat
    BY <1>0, <1>1, <1>2
  <2>2. CASE m < d /\ n >= d
    <3>1. S[m] <= S[d - 1]
      BY <1>2, <2>1, <2>2
    <3>2. S[n] >= S[d - 1] + d
      BY <1>4, <2>2
    <3> QED BY <2>1, <2>2, <3>1, <3>2
  <2>3. CASE m >= d \/ n < d
    BY <2>1, <2>3
  <2> QED BY <2>2, <2>3
<1>7. ASSUME NEW n \in 1..MaxTaps
      PROVE  T[n] = T[n - 1] + n * Copies(b2, w, n)
  <2> DEFINE x == Copies(b, w, n)
  <2>1. x \in Nat /\ (n = d => x > 0)
    BY DEF Copies, ABagOfPosts, IsABag
  <2>2. S[n] = S[n - 1] + n * x
    BY DEF Sums
  <2>3. Copies(b2, w, n) = x - (IF n = d THEN 1 ELSE 0)
    BY DEF OneLess
  <2> HIDE DEF x
  <2>4. n - 1 \in 0..MaxTaps /\ n \in 0..MaxTaps /\ S[n - 1] \in Nat /\ S[n] \in Nat
    BY <1>0, <1>1
  <2>5. CASE n = d
    <3>1. PICK z \in Nat : x = z + 1
      BY <2>1, <2>5
    <3>2. n * (z + 1) = n * z + n /\ n * z \in Nat
      OBVIOUS
    <3>3. T[n] = S[n] - n /\ T[n - 1] = S[n - 1]
      BY <2>4, <2>5
    <3>4. Copies(b2, w, n) = z
      BY <2>3, <2>5, <3>1
    <3> QED BY <2>2, <2>4, <3>1, <3>2, <3>3, <3>4
  <2>6. CASE n # d
    <3>1. Copies(b2, w, n) = x
      BY <2>1, <2>3, <2>6
    <3>2. n * x \in Nat
      BY <2>1
    <3>3. \/ T[n] = S[n] /\ T[n - 1] = S[n - 1]
          \/ T[n] = S[n] - d /\ T[n - 1] = S[n - 1] - d
      BY <2>4, <2>6
    <3> QED BY <2>2, <2>4, <3>1, <3>2, <3>3
  <2> QED BY <2>5, <2>6
<1> QED BY <1>5, <1>6, <1>7 DEF Sums
-----------------------------------------------------------------------------
(* The totals follow: of one command more or less, and of none for w. *)
LEMMA TotalKept ==
  ASSUME NEW b, NEW b2, NEW w, NEW k, Total(b, w, k), AsMany(b2, b, w)
  PROVE  Total(b2, w, k)
BY SumsKept DEF Total

LEMMA BagAdded ==
  ASSUME NEW b, ABagOfPosts(b), NEW x \in Posts, NEW b2, b2 = b (+) SetToBag({x})
  PROVE  ABagOfPosts(b2) /\ \A w : More(b2, b, w, Carried(x, w))
<1> DEFINE X == {x}
<1>0. MaxTaps \in Nat
  BY AcControlAppAssumption
<1>1. X \subseteq Posts /\ b2 = b (+) SetToBag(X)
  OBVIOUS
<1>x. \A e : e \in X <=> e = x
  OBVIOUS
<1> HIDE DEF X
<1>2. /\ ABagOfPosts(b2)
      /\ \A w : \/ AsMany(b2, b, w)
               \/ \E n \in 1..MaxTaps : [word |-> w, delta |-> n] \in X
      /\ \A w : \A d : \/ OneMore(b2, b, w, d)
                     \/ \E n \in 1..MaxTaps : ~([word |-> w, delta |-> n] \in X <=> n = d)
  <2>1. ABagOfPosts(b2)
    BY <1>1, CopiesAdded
  <2>2. ASSUME NEW w
        PROVE  \/ AsMany(b2, b, w)
               \/ \E n \in 1..MaxTaps : [word |-> w, delta |-> n] \in X
    BY <1>1, CopiesAdded
  <2>3. ASSUME NEW w, NEW d
        PROVE  \/ OneMore(b2, b, w, d)
               \/ \E n \in 1..MaxTaps : ~([word |-> w, delta |-> n] \in X <=> n = d)
    BY <1>1, CopiesAdded
  <2> QED BY <2>1, <2>2, <2>3
<1>3. x = [word |-> x.word, delta |-> x.delta] /\ x.delta \in 1..MaxTaps
  BY DEF Posts
<1>4. ASSUME NEW w, NEW k, Total(b, w, k)
      PROVE  Total(b2, w, k + Carried(x, w))
  <2>0. k \in Nat /\ k + 0 = k
    BY <1>4 DEF Total
  <2>1. CASE x.word # w
    <3>1. \A n \in 1..MaxTaps : [word |-> w, delta |-> n] \notin X
      BY <1>x, <2>1
    <3>2. AsMany(b2, b, w)
      BY <1>2, <3>1
    <3>3. Carried(x, w) = 0
      BY <2>1 DEF Carried
    <3> QED BY <1>4, <2>0, <3>2, <3>3, TotalKept
  <2>2. CASE x.word = w
    <3> DEFINE d == x.delta
    <3>1. d \in 1..MaxTaps
      BY <1>3
    <3>2. \A n \in 1..MaxTaps : [word |-> w, delta |-> n] \in X <=> n = d
      BY <1>x, <1>3, <2>2
    <3>a. ~\E n \in 1..MaxTaps : ~([word |-> w, delta |-> n] \in X <=> n = d)
      BY <3>2
    <3>4. Carried(x, w) = d
      BY <2>2 DEF Carried
    <3> HIDE DEF d
    <3>3. OneMore(b2, b, w, d)
      BY <1>2, <3>a
    <3>5. PICK S : Sums(S, b, w) /\ S[MaxTaps] = k
      BY <1>4 DEF Total
    <3>6. \E T : Sums(T, b2, w) /\ T[MaxTaps] = S[MaxTaps] + d
      BY <3>1, <3>3, <3>5, SumsAdded
    <3>7. k + d \in Nat
      BY <1>0, <2>0, <3>1
    <3> QED BY <3>4, <3>5, <3>6, <3>7 DEF Total
  <2> QED BY <2>1, <2>2
<1> QED BY <1>2, <1>4 DEF More

LEMMA BagRemoved ==
  ASSUME NEW b, ABagOfPosts(b), NEW x \in DOMAIN b, NEW b2, b2 = b (-) SetToBag({x})
  PROVE  /\ ABagOfPosts(b2) /\ x \in Posts
         /\ \A w : Fewer(b2, b, w, Carried(x, w))
<1>0. MaxTaps \in Nat
  BY AcControlAppAssumption
<1>1. /\ ABagOfPosts(b2)
      /\ \A w : x.word = w \/ AsMany(b2, b, w)
      /\ OneLess(b2, b, x.word, x.delta)
  BY CopiesRemoved
<1>2. x \in Posts
  BY DEF ABagOfPosts
<1>3. x = [word |-> x.word, delta |-> x.delta] /\ x.delta \in 1..MaxTaps
  BY <1>2 DEF Posts
<1>4. ASSUME NEW w, NEW k, Total(b, w, k)
      PROVE  \E l : Total(b2, w, l) /\ k = l + Carried(x, w)
  <2>0. k \in Nat /\ k = k + 0
    BY <1>4 DEF Total
  <2>1. CASE x.word # w
    <3>1. Total(b2, w, k)
      BY <1>1, <1>4, <2>1, TotalKept
    <3>2. Carried(x, w) = 0
      BY <2>1 DEF Carried
    <3> QED BY <2>0, <3>1, <3>2
  <2>2. CASE x.word = w
    <3> DEFINE d == x.delta
    <3>1. d \in 1..MaxTaps
      BY <1>3
    <3>2. OneLess(b2, b, w, d)
      BY <1>1, <2>2
    <3>3. Copies(b, w, d) > 0
      <4>1. x = [word |-> w, delta |-> d]
        BY <1>3, <2>2
      <4> QED BY <4>1 DEF Copies, ABagOfPosts, IsABag
    <3>4. Carried(x, w) = d
      BY <2>2 DEF Carried
    <3> HIDE DEF d
    <3>5. PICK S : Sums(S, b, w) /\ S[MaxTaps] = k
      BY <1>4 DEF Total
    <3>6. \E T : Sums(T, b2, w) /\ T[MaxTaps] + d = S[MaxTaps]
      BY <3>1, <3>2, <3>3, <3>5, SumsRemoved
    <3>7. PICK T : Sums(T, b2, w) /\ T[MaxTaps] + d = S[MaxTaps]
      BY <3>6
    <3>8. T[MaxTaps] \in Nat
      BY <1>0, <3>7 DEF Sums
    <3>9. Total(b2, w, T[MaxTaps])
      BY <3>7, <3>8 DEF Total
    <3> QED BY <3>4, <3>5, <3>7, <3>9
  <2> QED BY <2>1, <2>2
<1> QED BY <1>1, <1>2, <1>4 DEF Fewer

(* What a command carries for an arrow is what is added to a count of its      *)
(* steps.                                                                  *)
LEMMA CarriedAdded ==
  ASSUME NEW x \in Posts, NEW f \in [CountedWords -> Nat], NEW g,
         g = IF x.word \in CountedWords THEN [f EXCEPT ![x.word] = @ + x.delta] ELSE f
  PROVE  /\ g \in [CountedWords -> Nat]
         /\ \A w \in CountedWords : Carried(x, w) \in Nat /\ g[w] = f[w] + Carried(x, w)
<1>0. MaxTaps \in Nat
  BY AcControlAppAssumption
<1>1. x.delta \in Nat
  BY <1>0 DEF Posts
<1>2. g \in [CountedWords -> Nat]
  BY <1>1
<1>3. ASSUME NEW w \in CountedWords
      PROVE  Carried(x, w) \in Nat /\ g[w] = f[w] + Carried(x, w)
  <2>1. CASE x.word = w
    BY <1>1, <2>1 DEF Carried
  <2>2. CASE x.word # w
    <3>1. g[w] = f[w] /\ f[w] \in Nat
      BY <2>2
    <3> QED BY <2>2, <3>1 DEF Carried
  <2> QED BY <2>1, <2>2
<1> QED BY <1>2, <1>3
-----------------------------------------------------------------------------
LEMMA TapDirectCounts ==
  ASSUME TapsInv, NEW word \in DirectWords, TapDirect(word)
  PROVE  TapsInv'
<1> DEFINE x == [word |-> word, delta |-> 1]
<1>0. MaxTaps \in Nat
  BY AcControlAppAssumption
<1>1. tapped' = tapped + 1 /\ tapped < MaxTaps
      /\ UNCHANGED <<count, taps, applied, strays, answered, resent>>
      /\ posts' = posts (+) SetToBag({x})
  BY DEF TapDirect, Tapped, Post, resend_vars
<1>2. x \in Posts
  BY <1>0, <1>1 DEF Posts, TapsInv, Counts
<1>3. \A w \in CountedWords : Carried(x, w) = 0
  BY AcControlAppAssumption DEF Carried
<1> HIDE DEF x
<1>c. ABagOfPosts(posts)
  BY DEF TapsInv, Counts
<1>4. ABagOfPosts(posts') /\ \A w : More(posts', posts, w, Carried(x, w))
  BY <1>1, <1>2, <1>c, BagAdded
<1>5. Counts'
  BY <1>0, <1>1, <1>4 DEF TapsInv, Counts
<1>6. ASSUME NEW w \in CountedWords, NEW k, Total(posts, w, k)
      PROVE  Total(posts', w, k)
  <2>1. k + 0 = k
    BY <1>6 DEF Total
  <2>2. Total(posts', w, k + Carried(x, w))
    BY <1>4, <1>6 DEF More
  <2> QED BY <1>3, <2>1, <2>2
<1>7. Accounted'
  BY <1>1, <1>6 DEF TapsInv, Accounted
<1> QED BY <1>5, <1>7 DEF TapsInv

LEMMA TapCountedCounts ==
  ASSUME TapsInv, NEW word \in CountedWords, TapCounted(word)
  PROVE  TapsInv'
<1>0. MaxTaps \in Nat
  BY AcControlAppAssumption
<1>1. /\ tapped' = tapped + 1 /\ tapped < MaxTaps
      /\ UNCHANGED <<applied, posts, strays, answered, resent>>
      /\ count' = [count EXCEPT ![word] = @ + 1]
      /\ taps' = [taps EXCEPT ![word] = @ + 1]
  BY DEF TapCounted, Tapped, resend_vars
<1>2. ASSUME NEW w \in CountedWords
      PROVE  /\ applied[w] \in Nat /\ count[w] \in Nat /\ taps[w] \in Nat /\ resent[w] \in Nat
             /\ count[w] <= taps[w] /\ taps[w] <= tapped
             /\ \/ count'[w] = count[w] /\ taps'[w] = taps[w]
                \/ count'[w] = count[w] + 1 /\ taps'[w] = taps[w] + 1
  BY <1>1 DEF TapsInv, Counts
<1>3. Counts'
  <2>1. /\ count' \in [CountedWords -> Nat] /\ taps' \in [CountedWords -> Nat]
        /\ tapped \in Nat /\ tapped' \in 0..MaxTaps
    BY <1>0, <1>1 DEF TapsInv, Counts
  <2>2. \A w \in CountedWords : count'[w] <= taps'[w] /\ taps'[w] <= tapped'
    BY <1>1, <1>2, <2>1
  <2> QED BY <1>1, <2>1, <2>2 DEF TapsInv, Counts
<1>4. ASSUME NEW w \in CountedWords
      PROVE  \E k, l : /\ Total(posts', w, k) /\ Total(strays', w, l)
                       /\ applied'[w] + k + l + count'[w] <= taps'[w] + resent'[w]
  <2>1. PICK k, l : /\ Total(posts, w, k) /\ Total(strays, w, l)
                    /\ applied[w] + k + l + count[w] <= taps[w] + resent[w]
    BY DEF TapsInv, Accounted
  <2>2. k \in Nat /\ l \in Nat
    BY <2>1 DEF Total
  <2>3. applied'[w] + k + l + count'[w] <= taps'[w] + resent'[w]
    BY <1>1, <1>2, <2>1, <2>2
  <2> QED BY <1>1, <2>1, <2>3
<1> QED BY <1>3, <1>4 DEF TapsInv, Accounted

LEMMA FireOutputCounts ==
  ASSUME TapsInv, FireOutput
  PROVE  TapsInv'
<1> DEFINE X == {[word |-> w, delta |-> count[w]] : w \in {v \in CountedWords : count[v] > 0}}
<1>0. MaxTaps \in Nat
  BY AcControlAppAssumption
<1>1. /\ posts' = posts (+) SetToBag(X)
      /\ count' = Zero
      /\ UNCHANGED <<taps, applied, tapped, strays, answered, resent>>
  BY DEF FireOutput, ResetCounters, history_vars, count_vars, resend_vars
<1>2. \A w \in CountedWords : count[w] \in Nat /\ count[w] <= MaxTaps
  BY <1>0 DEF TapsInv, Counts
<1>3. X \subseteq Posts
  BY <1>0, <1>2 DEF Posts
<1>4. \A w \in CountedWords : \A n \in Nat :
        [word |-> w, delta |-> n] \in X <=> n = count[w] /\ count[w] > 0
  OBVIOUS
<1> HIDE DEF X
<1>c. ABagOfPosts(posts)
  BY DEF TapsInv, Counts
<1>5. /\ ABagOfPosts(posts')
      /\ \A w : \/ AsMany(posts', posts, w)
               \/ \E n \in 1..MaxTaps : [word |-> w, delta |-> n] \in X
      /\ \A w : \A d : \/ OneMore(posts', posts, w, d)
                     \/ \E n \in 1..MaxTaps : ~([word |-> w, delta |-> n] \in X <=> n = d)
  BY <1>1, <1>3, <1>c, CopiesAdded
<1>6. Counts'
  <2>1. \A w \in CountedWords : count'[w] = 0 /\ 0 <= taps[w]
    BY <1>1 DEF TapsInv, Counts, Zero
  <2>2. count' \in [CountedWords -> Nat]
    BY <1>1 DEF Zero
  <2> QED BY <1>1, <1>5, <2>1, <2>2 DEF TapsInv, Counts
<1>7. ASSUME NEW w \in CountedWords
      PROVE  \E k, l : /\ Total(posts', w, k) /\ Total(strays', w, l)
                       /\ applied'[w] + k + l + count'[w] <= taps'[w] + resent'[w]
  <2>1. PICK k, l : /\ Total(posts, w, k) /\ Total(strays, w, l)
                    /\ applied[w] + k + l + count[w] <= taps[w] + resent[w]
    BY DEF TapsInv, Accounted
  <2>2. k \in Nat /\ l \in Nat /\ count'[w] = 0
    BY <1>1, <2>1 DEF Total, Zero
  <2>3. applied[w] \in Nat /\ count[w] \in Nat /\ taps[w] \in Nat /\ resent[w] \in Nat
    BY DEF TapsInv, Counts
  <2>4. \A n \in 1..MaxTaps : n \in Nat
    BY <1>0
  <2>5. Total(posts', w, k + count[w])
    <3>1. CASE count[w] = 0
      <4>1. \A n \in 1..MaxTaps : [word |-> w, delta |-> n] \notin X
        BY <1>4, <2>4, <3>1
      <4>2. AsMany(posts', posts, w)
        BY <1>5, <4>1
      <4>3. k + count[w] = k
        BY <2>2, <3>1
      <4> QED BY <2>1, <4>2, <4>3, TotalKept
    <3>2. CASE count[w] # 0
      <4> DEFINE d == count[w]
      <4>1. d \in 1..MaxTaps
        BY <1>0, <1>2, <3>2
      <4>2. \A n \in 1..MaxTaps : [word |-> w, delta |-> n] \in X <=> n = d
        BY <1>4, <2>3, <2>4, <3>2
      <4>3. k + d \in Nat
        BY <2>2, <2>3
      <4> HIDE DEF d
      <4>a. ~\E n \in 1..MaxTaps : ~([word |-> w, delta |-> n] \in X <=> n = d)
        BY <4>2
      <4>4. OneMore(posts', posts, w, d)
        BY <1>5, <4>a
      <4>5. PICK S : Sums(S, posts, w) /\ S[MaxTaps] = k
        BY <2>1 DEF Total
      <4>6. \E T : Sums(T, posts', w) /\ T[MaxTaps] = S[MaxTaps] + d
        BY <1>c, <4>1, <4>4, <4>5, SumsAdded
      <4> QED BY <4>3, <4>5, <4>6 DEF Total, d
    <3> QED BY <3>1, <3>2
  <2>6. applied'[w] + (k + count[w]) + l + count'[w] <= taps'[w] + resent'[w]
    BY <1>1, <2>1, <2>2, <2>3
  <2> QED BY <1>1, <2>1, <2>5, <2>6
<1> QED BY <1>6, <1>7 DEF TapsInv, Accounted

(* The server applies the steps of a command which leaves its bag: from the    *)
(* POSTs it is answered, from the strays it is not.                          *)
LEMMA ServedCounts ==
  ASSUME TapsInv, NEW x, Serve(x), UNCHANGED <<count, taps, tapped, resent>>,
         \/ /\ x \in DOMAIN posts /\ posts' = posts (-) SetToBag({x})
            /\ answered' = answered (+) SetToBag({x}) /\ strays' = strays
         \/ /\ x \in DOMAIN strays /\ strays' = strays (-) SetToBag({x})
            /\ UNCHANGED <<posts, answered>>
  PROVE  TapsInv'
<1>0. /\ ABagOfPosts(posts) /\ ABagOfPosts(strays) /\ ABagOfPosts(answered)
      /\ applied \in [CountedWords -> Nat]
  BY DEF TapsInv, Counts
<1>1. x \in Posts
  BY <1>0 DEF ABagOfPosts
<1>2. /\ applied' \in [CountedWords -> Nat]
      /\ \A w \in CountedWords :
           Carried(x, w) \in Nat /\ applied'[w] = applied[w] + Carried(x, w)
  BY <1>0, <1>1, CarriedAdded DEF Serve
<1>3. /\ ABagOfPosts(posts') /\ ABagOfPosts(strays') /\ ABagOfPosts(answered')
      /\ \/ strays' = strays /\ \A w : Fewer(posts', posts, w, Carried(x, w))
         \/ posts' = posts /\ \A w : Fewer(strays', strays, w, Carried(x, w))
  <2>1. CASE /\ x \in DOMAIN posts /\ posts' = posts (-) SetToBag({x})
             /\ answered' = answered (+) SetToBag({x}) /\ strays' = strays
    <3>1. ABagOfPosts(posts') /\ \A w : Fewer(posts', posts, w, Carried(x, w))
      BY <1>0, <2>1, BagRemoved
    <3>2. ABagOfPosts(answered')
      BY <1>0, <1>1, <2>1, BagAdded
    <3>3. strays' = strays /\ ABagOfPosts(strays')
      BY <1>0, <2>1
    <3> QED BY <3>1, <3>2, <3>3
  <2>2. CASE /\ x \in DOMAIN strays /\ strays' = strays (-) SetToBag({x})
             /\ UNCHANGED <<posts, answered>>
    <3>1. ABagOfPosts(strays') /\ \A w : Fewer(strays', strays, w, Carried(x, w))
      BY <1>0, <2>2, BagRemoved
    <3> QED BY <1>0, <2>2, <3>1
  <2> QED BY <2>1, <2>2
<1>4. Counts'
  BY <1>2, <1>3 DEF TapsInv, Counts
<1>5. ASSUME NEW w \in CountedWords
      PROVE  \E k, l : /\ Total(posts', w, k) /\ Total(strays', w, l)
                       /\ applied'[w] + k + l + count'[w] <= taps'[w] + resent'[w]
  <2>1. PICK k, l : /\ Total(posts, w, k) /\ Total(strays, w, l)
                    /\ applied[w] + k + l + count[w] <= taps[w] + resent[w]
    BY DEF TapsInv, Accounted
  <2>2. PICK m, n : /\ Total(posts', w, m) /\ Total(strays', w, n)
                    /\ \/ k = m + Carried(x, w) /\ l = n
                       \/ k = m /\ l = n + Carried(x, w)
    BY <1>3, <2>1 DEF Fewer
  <2>3. m \in Nat /\ n \in Nat
    BY <2>2 DEF Total
  <2>4. applied[w] \in Nat /\ count[w] \in Nat /\ taps[w] \in Nat /\ resent[w] \in Nat
    BY DEF TapsInv, Counts
  <2>5. Carried(x, w) \in Nat /\ applied'[w] = applied[w] + Carried(x, w)
    BY <1>2
  <2>6. applied'[w] + m + n + count'[w] <= taps'[w] + resent'[w]
    BY <2>1, <2>2, <2>3, <2>4, <2>5
  <2> QED BY <2>2, <2>6
<1> QED BY <1>4, <1>5 DEF TapsInv, Accounted

(* A command sent again is one more POST, and its steps are counted. *)
LEMMA RetriedCounts ==
  ASSUME NEW x \in Posts, NEW Q, ABagOfPosts(Q), resent \in [CountedWords -> Nat],
         Retried(x, Q)
  PROVE  /\ resent' \in [CountedWords -> Nat] /\ ABagOfPosts(posts')
         /\ \A w \in CountedWords : Carried(x, w) \in Nat
         /\ \/ posts' = Q /\ resent' = resent
            \/ /\ \A w : More(posts', Q, w, Carried(x, w))
               /\ \A w \in CountedWords : resent'[w] = resent[w] + Carried(x, w)
<1>0. \A w \in CountedWords : Carried(x, w) \in Nat
  BY CarriedAdded
<1>1. CASE posts' = Q /\ UNCHANGED resend_vars
  BY <1>0, <1>1 DEF resend_vars
<1>2. CASE /\ resent' = IF x.word \in CountedWords
                        THEN [resent EXCEPT ![x.word] = @ + x.delta]
                        ELSE resent
           /\ posts' = Q (+) SetToBag({x})
  <2>1. ABagOfPosts(posts') /\ \A w : More(posts', Q, w, Carried(x, w))
    BY <1>2, BagAdded
  <2>2. /\ resent' \in [CountedWords -> Nat]
        /\ \A w \in CountedWords : resent'[w] = resent[w] + Carried(x, w)
    BY <1>2, CarriedAdded
  <2> QED BY <1>0, <2>1, <2>2
<1> QED BY <1>1, <1>2 DEF Retried

(* Connections fail: a command leaves the POSTs or the answered ones, and may   *)
(* come back as a stray, as a POST sent again or both.                        *)
LEMMA LosePostCounts ==
  ASSUME TapsInv, LosePost
  PROVE  TapsInv'
<1>1. PICK x \in BagToSet(posts) :
        /\ strays' \in {strays, strays (+) SetToBag({x})}
        /\ Retried(x, posts (-) SetToBag({x}))
        /\ UNCHANGED <<count, taps, tapped, applied, answered>>
  BY DEF LosePost, app_vars
<1> DEFINE Q == posts (-) SetToBag({x})
<1>2. x \in DOMAIN posts
  BY DEF BagToSet
<1>3. /\ ABagOfPosts(posts) /\ ABagOfPosts(strays) /\ resent \in [CountedWords -> Nat]
  BY DEF TapsInv, Counts
<1>q. Q = posts (-) SetToBag({x})
  OBVIOUS
<1>r. Retried(x, Q)
  BY <1>1
<1> HIDE DEF Q
<1>4. /\ ABagOfPosts(Q) /\ x \in Posts
      /\ \A w : Fewer(Q, posts, w, Carried(x, w))
  BY <1>q, <1>2, <1>3, BagRemoved
<1>5. /\ ABagOfPosts(strays')
      /\ strays' = strays \/ \A w : More(strays', strays, w, Carried(x, w))
  BY <1>1, <1>3, <1>4, BagAdded
<1>6. /\ resent' \in [CountedWords -> Nat] /\ ABagOfPosts(posts')
      /\ \A w \in CountedWords : Carried(x, w) \in Nat
      /\ \/ posts' = Q /\ resent' = resent
         \/ /\ \A w : More(posts', Q, w, Carried(x, w))
            /\ \A w \in CountedWords : resent'[w] = resent[w] + Carried(x, w)
  BY <1>r, <1>3, <1>4, RetriedCounts
<1>7. Counts'
  BY <1>1, <1>5, <1>6 DEF TapsInv, Counts
<1>8. ASSUME NEW w \in CountedWords
      PROVE  \E k, l : /\ Total(posts', w, k) /\ Total(strays', w, l)
                       /\ applied'[w] + k + l + count'[w] <= taps'[w] + resent'[w]
  <2> DEFINE c == Carried(x, w)
  <2>1. PICK k, l : /\ Total(posts, w, k) /\ Total(strays, w, l)
                    /\ applied[w] + k + l + count[w] <= taps[w] + resent[w]
    BY DEF TapsInv, Accounted
  <2>2. PICK q : Total(Q, w, q) /\ k = q + c
    BY <1>4, <2>1 DEF Fewer
  <2>3. q \in Nat /\ l \in Nat /\ c \in Nat
    BY <1>6, <2>1, <2>2 DEF Total
  <2>4. applied[w] \in Nat /\ count[w] \in Nat /\ taps[w] \in Nat /\ resent[w] \in Nat
    BY DEF TapsInv, Counts
  <2>5. \E n \in {l, l + c} : Total(strays', w, n)
    BY <1>5, <2>1 DEF More
  <2>6. \/ Total(posts', w, q) /\ resent'[w] = resent[w]
        \/ Total(posts', w, q + c) /\ resent'[w] = resent[w] + c
    BY <1>6, <2>2 DEF More
  <2> HIDE DEF c
  <2>7. PICK n \in {l, l + c} : Total(strays', w, n)
    BY <2>5
  <2>8. CASE Total(posts', w, q) /\ resent'[w] = resent[w]
    <3>1. applied'[w] + q + n + count'[w] <= taps'[w] + resent'[w]
      BY <1>1, <2>1, <2>2, <2>3, <2>4, <2>7, <2>8
    <3> QED BY <2>7, <2>8, <3>1
  <2>9. CASE Total(posts', w, q + c) /\ resent'[w] = resent[w] + c
    <3>1. applied'[w] + (q + c) + n + count'[w] <= taps'[w] + resent'[w]
      BY <1>1, <2>1, <2>2, <2>3, <2>4, <2>7, <2>9
    <3> QED BY <2>7, <2>9, <3>1
  <2> QED BY <2>6, <2>8, <2>9
<1> QED BY <1>7, <1>8 DEF TapsInv, Accounted

LEMMA LosePostAnswerCounts ==
  ASSUME TapsInv, LosePostAnswer
  PROVE  TapsInv'
<1>1. PICK x \in BagToSet(answered) :
        /\ answered' = answered (-) SetToBag({x})
        /\ Retried(x, posts)
        /\ UNCHANGED <<count, taps, tapped, applied, strays>>
  BY DEF LosePostAnswer, app_vars
<1>2. x \in DOMAIN answered
  BY DEF BagToSet
<1>3. /\ ABagOfPosts(posts) /\ ABagOfPosts(answered) /\ resent \in [CountedWords -> Nat]
  BY DEF TapsInv, Counts
<1>4. ABagOfPosts(answered') /\ x \in Posts
  BY <1>1, <1>2, <1>3, BagRemoved
<1>6. /\ resent' \in [CountedWords -> Nat] /\ ABagOfPosts(posts')
      /\ \A w \in CountedWords : Carried(x, w) \in Nat
      /\ \/ posts' = posts /\ resent' = resent
         \/ /\ \A w : More(posts', posts, w, Carried(x, w))
            /\ \A w \in CountedWords : resent'[w] = resent[w] + Carried(x, w)
  BY <1>1, <1>3, <1>4, RetriedCounts
<1>7. Counts'
  BY <1>1, <1>4, <1>6 DEF TapsInv, Counts
<1>8. ASSUME NEW w \in CountedWords
      PROVE  \E k, l : /\ Total(posts', w, k) /\ Total(strays', w, l)
                       /\ applied'[w] + k + l + count'[w] <= taps'[w] + resent'[w]
  <2> DEFINE c == Carried(x, w)
  <2>1. PICK k, l : /\ Total(posts, w, k) /\ Total(strays, w, l)
                    /\ applied[w] + k + l + count[w] <= taps[w] + resent[w]
    BY DEF TapsInv, Accounted
  <2>2. k \in Nat /\ l \in Nat /\ c \in Nat
    BY <1>6, <2>1 DEF Total
  <2>3. applied[w] \in Nat /\ count[w] \in Nat /\ taps[w] \in Nat /\ resent[w] \in Nat
    BY DEF TapsInv, Counts
  <2>4. \/ Total(posts', w, k) /\ resent'[w] = resent[w]
        \/ Total(posts', w, k + c) /\ resent'[w] = resent[w] + c
    BY <1>6, <2>1 DEF More
  <2> HIDE DEF c
  <2>5. CASE Total(posts', w, k) /\ resent'[w] = resent[w]
    BY <1>1, <2>1, <2>5
  <2>6. CASE Total(posts', w, k + c) /\ resent'[w] = resent[w] + c
    <3>1. applied'[w] + (k + c) + l + count'[w] <= taps'[w] + resent'[w]
      BY <1>1, <2>1, <2>2, <2>3, <2>6
    <3> QED BY <1>1, <2>1, <2>6, <3>1
  <2> QED BY <2>4, <2>5, <2>6
<1> QED BY <1>7, <1>8 DEF TapsInv, Accounted

LEMMA TapsStep == ASSUME TapsInv, [ControlNext]_control_vars PROVE TapsInv'
<1>1. ASSUME NEW word \in DirectWords, TapDirect(word) PROVE TapsInv'
  BY <1>1, TapDirectCounts
<1>2. ASSUME NEW word \in CountedWords, TapCounted(word) PROVE TapsInv'
  BY <1>2, TapCountedCounts
<1>3. CASE FireOutput
  BY <1>3, FireOutputCounts
<1>4. CASE ServePost
  <2>1. PICK x \in BagToSet(posts) :
          /\ Serve(x)
          /\ posts' = posts (-) SetToBag({x})
          /\ answered' = answered (+) SetToBag({x})
          /\ UNCHANGED <<count, taps, tapped, strays, resent>>
    BY <1>4 DEF ServePost, app_vars, resend_vars
  <2>2. x \in DOMAIN posts
    BY DEF BagToSet
  <2> QED BY <2>1, <2>2, ServedCounts
<1>5. CASE ServeStray
  <2>1. PICK x \in BagToSet(strays) :
          /\ Serve(x)
          /\ strays' = strays (-) SetToBag({x})
          /\ UNCHANGED <<count, taps, tapped, posts, answered, resent>>
    BY <1>5 DEF ServeStray, app_vars, resend_vars
  <2>2. x \in DOMAIN strays
    BY DEF BagToSet
  <2> QED BY <2>1, <2>2, ServedCounts
<1>6. CASE AckPost
  <2>1. PICK x \in BagToSet(answered) : answered' = answered (-) SetToBag({x})
    BY <1>6 DEF AckPost, Acked
  <2>2. x \in DOMAIN answered /\ ABagOfPosts(answered)
    BY DEF BagToSet, TapsInv, Counts
  <2>3. ABagOfPosts(answered')
    BY <2>1, <2>2, BagRemoved
  <2>4. UNCHANGED <<posts, strays, count, taps, tapped, applied, resent>>
    BY <1>6 DEF AckPost, app_vars, history_vars, count_vars, resend_vars
  <2> QED BY <2>3, <2>4 DEF TapsInv, Counts, Accounted
<1>7. CASE LosePost
  BY <1>7, LosePostCounts
<1>8. CASE LosePostAnswer
  BY <1>8, LosePostAnswerCounts
<1>9. CASE FireInput \/ GetAnswer \/ ServeGet \/ LoseGet \/ UNCHANGED control_vars
  <2>1. UNCHANGED <<posts, strays, answered, count, taps, tapped, applied, resent>>
    BY <1>9 DEF FireInput, GetAnswer, ServeGet, LoseGet,
                control_vars, app_vars, count_vars, history_vars, resend_vars
  <2> QED BY <2>1 DEF TapsInv, Counts, Accounted
<1> QED BY <1>1, <1>2, <1>3, <1>4, <1>5, <1>6, <1>7, <1>8, <1>9 DEF ControlNext, User, Progress

LEMMA TapsInit == ControlInit => TapsInv
<1> SUFFICES ASSUME ControlInit PROVE TapsInv
  OBVIOUS
<1>0. MaxTaps \in Nat
  BY AcControlAppAssumption
<1>1. posts = EmptyBag /\ strays = EmptyBag /\ answered = EmptyBag
  BY DEF ControlInit
<1>2. DOMAIN EmptyBag = {} /\ IsABag(EmptyBag)
  BY DEF EmptyBag, SetToBag, IsABag
<1>3. Counts
  BY <1>0, <1>1, <1>2 DEF Counts, ControlInit, ABagOfPosts, Zero
<1>4. ASSUME NEW w \in CountedWords
      PROVE  Total(EmptyBag, w, 0)
  <2> DEFINE S == [n \in 0..MaxTaps |-> 0]
  <2>1. \A n \in 1..MaxTaps : Copies(EmptyBag, w, n) = 0
    BY <1>2 DEF Copies
  <2>2. \A n \in 1..MaxTaps : n * 0 = 0
    BY <1>0
  <2>3. Sums(S, EmptyBag, w)
    BY <1>0, <2>1, <2>2 DEF Sums
  <2>4. S[MaxTaps] = 0
    BY <1>0
  <2> HIDE DEF S
  <2> QED BY <2>3, <2>4 DEF Total
<1>5. \A w \in CountedWords : applied[w] = 0 /\ count[w] = 0 /\ taps[w] = 0 /\ resent[w] = 0
  BY DEF ControlInit, Zero
<1>6. Accounted
  BY <1>1, <1>4, <1>5 DEF Accounted
<1> QED BY <1>3, <1>6 DEF TapsInv

(* A tap on an arrow is applied by the server once at most, and once more for  *)
(* each time the HTTP client sent its POST again (network/HttpClient.kt:35),    *)
(* however often the pause before the POST was cut short                      *)
(* (AcControlViewModel.kt:126-144), in whatever order the POSTs are served and  *)
(* whichever connections fail, before or after the server had the POST.       *)
THEOREM TapsAppliedAtMostOnce == ControlSpec => []AppliedAtMostOnce
<1>1. TapsInv => AppliedAtMostOnce
  <2> SUFFICES ASSUME TapsInv, NEW w \in CountedWords
               PROVE  applied[w] + count[w] <= taps[w] + resent[w]
    BY DEF AppliedAtMostOnce
  <2>1. PICK k, l : /\ Total(posts, w, k) /\ Total(strays, w, l)
                    /\ applied[w] + k + l + count[w] <= taps[w] + resent[w]
    BY DEF TapsInv, Accounted
  <2>2. k \in Nat /\ l \in Nat
    BY <2>1 DEF Total
  <2>3. /\ applied[w] \in Nat /\ count[w] \in Nat /\ taps[w] \in Nat /\ resent[w] \in Nat
    BY DEF TapsInv, Counts
  <2> QED BY <2>1, <2>2, <2>3
<1> QED BY <1>1, TapsInit, TapsStep, PTL DEF ControlSpec
=============================================================================
