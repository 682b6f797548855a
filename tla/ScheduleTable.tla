---------------------------- MODULE ScheduleTable ----------------------------
(***************************************************************************)
(* The schedule table and the functions of server_schedule.c that read and *)
(* edit it: parse_index, transfer_data_to_entry, the slot search and the   *)
(* compaction loop of ac_scheduler_task, and the search for the nearest    *)
(* switch-on event of delay_to_nearest_schedule_ms.                        *)
(***************************************************************************)
EXTENDS ScheduleTime, FiniteSets

CONSTANT MAX_SCHEDULE_ENTRIES

ASSUME TableAssumption == MAX_SCHEDULE_ENTRIES \in Nat /\ MAX_SCHEDULE_ENTRIES > 0

Slots == 0..(MAX_SCHEDULE_ENTRIES - 1)
Weekdays == 0..(DAYS - 1)

(* struct schedule_entry; days_of_week is the set of the mask's days. *)
Entry == [hour_on : 0..(HOURS - 1), minute_on : 0..(MINS - 1),
          hour_off : 0..(HOURS - 1), minute_off : 0..(MINS - 1),
          days_of_week : SUBSET Weekdays,
          is_on : BOOLEAN, is_valid : BOOLEAN]

Tables == [Slots -> Entry]

ZeroEntry == [hour_on |-> 0, minute_on |-> 0, hour_off |-> 0, minute_off |-> 0,
              days_of_week |-> {}, is_on |-> FALSE, is_valid |-> FALSE]

EmptyTable == [i \in Slots |-> ZeroEntry]

(***************************************************************************)
(* What a POST carries.  The bytes of schedule_data are "I HH MM HH MM     *)
(* DDDDDDD": an index and a payload of four decimal time fields and a day   *)
(* mask.  HOURS and MINS stand for every value atoi() can return that the   *)
(* range tests refuse.  An index is a number, NewIndex for the letter n, or  *)
(* BadIndex for text that does not start with a digit.                     *)
(***************************************************************************)
NewIndex == -1
BadIndex == -2

Payload == [hour_on : 0..HOURS, minute_on : 0..MINS,
            hour_off : 0..HOURS, minute_off : 0..MINS,
            days_of_week : SUBSET Weekdays]

TimeFields == {"hour_on", "minute_on", "hour_off", "minute_off"}

Position == [hour_on |-> 0, minute_on |-> 1, hour_off |-> 2, minute_off |-> 3]

Limit == [hour_on |-> HOURS, minute_on |-> MINS,
          hour_off |-> HOURS, minute_off |-> MINS]

(* transfer_data_to_entry stores the time fields in order and returns at    *)
(* the first one out of range: these are the ones it has stored.            *)
Stored(p) == {f \in TimeFields :
                \A g \in TimeFields :
                  Position[g] <= Position[f] => p[g] < Limit[g]}

Accepted(p) == Stored(p) = TimeFields

(* A plausible slip: the entry is marked valid before the fields are read. *)
TransferDataEarlyValid(e, p) ==
  [e EXCEPT !.hour_on    = IF "hour_on" \in Stored(p) THEN p.hour_on ELSE @,
            !.minute_on  = IF "minute_on" \in Stored(p) THEN p.minute_on ELSE @,
            !.hour_off   = IF "hour_off" \in Stored(p) THEN p.hour_off ELSE @,
            !.minute_off = IF "minute_off" \in Stored(p) THEN p.minute_off ELSE @,
            !.days_of_week = IF Accepted(p) THEN p.days_of_week ELSE @,
            !.is_valid = TRUE,
            !.is_on    = TRUE]

TransferData(e, p) ==
  [e EXCEPT !.hour_on    = IF "hour_on" \in Stored(p) THEN p.hour_on ELSE @,
            !.minute_on  = IF "minute_on" \in Stored(p) THEN p.minute_on ELSE @,
            !.hour_off   = IF "hour_off" \in Stored(p) THEN p.hour_off ELSE @,
            !.minute_off = IF "minute_off" \in Stored(p) THEN p.minute_off ELSE @,
            !.days_of_week = IF Accepted(p) THEN p.days_of_week ELSE @,
            !.is_valid = @ \/ Accepted(p),
            !.is_on    = @ \/ Accepted(p)]

ValidSlots(tbl) == {i \in Slots : tbl[i].is_valid}
FreeSlots(tbl)  == Slots \ ValidSlots(tbl)

(* The slot a "n" request goes to: the first one that is not valid. *)
FirstFree(tbl) == CHOOSE i \in FreeSlots(tbl) : \A j \in FreeSlots(tbl) : i <= j

(***************************************************************************)
(* The compaction loop of EVENT_SCHED_DEL, in closed form.  Its k-th round  *)
(* moves the tail one slot down, starting at slot i + k; it goes on while   *)
(* slot i + k + 1 exists and is valid in the table moved so far.  Module    *)
(* DeleteLoop runs the loop round by round and compares.                    *)
(***************************************************************************)
Last(i) == IF i < MAX_SCHEDULE_ENTRIES THEN i ELSE MAX_SCHEDULE_ENTRIES - 1

Rounds(tbl, i) ==
  CHOOSE k \in 0..MAX_SCHEDULE_ENTRIES :
    /\ i + k + 1 \in Slots => ~tbl[Last(i + 2 * k + 1)].is_valid
    /\ \A m \in 0..(k - 1) :
         i + m + 1 \in Slots /\ tbl[Last(i + 2 * m + 1)].is_valid

Compacted(tbl, i) ==
  LET k == Rounds(tbl, i)
  IN  [j \in Slots |-> IF j < i THEN tbl[j]
                       ELSE IF j < i + k THEN tbl[Last(2 * j - i + 1)]
                       ELSE tbl[Last(j + k)]]

(* A plausible slip: the table is not compacted, the slot is only freed. *)
DeletedUncompacted(tbl, i) == [tbl EXCEPT ![i].is_valid = FALSE]

Deleted(tbl, i) == Compacted([tbl EXCEPT ![i].is_valid = FALSE], i)

Toggled(tbl, i) == [tbl EXCEPT ![i].is_on = ~@]

(***************************************************************************)
(* delay_to_nearest_schedule_ms with no schedule active.  Each valid entry  *)
(* is followed from today: the first day of its mask counts, and when that  *)
(* is today but more than a day away (its time has passed), the next one    *)
(* counts too.  The candidate with the smallest delay wins, the first found *)
(* of equals.                                                               *)
(***************************************************************************)
DayAhead(d, t) == (Wday(t) + d) % DAYS

OnDelay(e, d, t) == CalcDelay(DayAhead(d, t), e.hour_on, e.minute_on, t)

(* A plausible slip: an event of today that has passed ends the search. *)
CheckedFirstOnly(e, t) ==
  {d \in Weekdays : /\ DayAhead(d, t) \in e.days_of_week
                    /\ \A c \in 0..(d - 1) : DayAhead(c, t) \notin e.days_of_week}

Checked(e, t) ==
  {d \in Weekdays :
     /\ DayAhead(d, t) \in e.days_of_week
     /\ \A c \in 0..(d - 1) :
          DayAhead(c, t) \in e.days_of_week => c = 0 /\ OnDelay(e, 0, t) > DAY}

Candidates(tbl, t) ==
  {c \in Slots \X Weekdays : tbl[c[1]].is_valid /\ c[2] \in Checked(tbl[c[1]], t)}

CandidateDelay(tbl, c, t) == OnDelay(tbl[c[1]], c[2], t)

IsNearest(tbl, c, t) ==
  /\ c \in Candidates(tbl, t)
  /\ \A b \in Candidates(tbl, t) :
       \/ CandidateDelay(tbl, c, t) < CandidateDelay(tbl, b, t)
       \/ /\ CandidateDelay(tbl, c, t) = CandidateDelay(tbl, b, t)
          /\ c[1] < b[1] \/ (c[1] = b[1] /\ c[2] <= b[2])

HasCandidate(tbl, t) == Candidates(tbl, t) # {}

Nearest(tbl, t) == CHOOSE c \in Candidates(tbl, t) : IsNearest(tbl, c, t)

(* A plausible slip: a schedule that spans midnight ends on its first day. *)
OffDaySameDay(e, day) == day

(* The day on which an entry that switches on on the given day ends. *)
OffDay(e, day) == IF e.hour_off < e.hour_on THEN (day + 1) % DAYS ELSE day

OffDelay(e, day, t) == CalcDelay(day, e.hour_off, e.minute_off, t)
-----------------------------------------------------------------------------
(* The requests that edit the table, and what they do.                     *)

UPDATE == "UPDATE"
TOGGLE == "TOGGLE"
DEL    == "DEL"
Edits  == {UPDATE, TOGGLE, DEL}

(* What the last segment of a URI selects; an UNKNOWN one is answered 404. *)
UNKNOWN == "UNKNOWN"

(* Answers of the scheduler to a handler. *)
ESP_OK            == "ESP_OK"
ERR_WRONG_FORMAT  == "ERR_WRONG_FORMAT"
ERR_INVALID_ENTRY == "ERR_INVALID_ENTRY"
ERR_SCHED_FULL    == "ERR_SCHED_FULL"
Answers == {ESP_OK, ERR_WRONG_FORMAT, ERR_INVALID_ENTRY, ERR_SCHED_FULL}

(* The text of a request's body: an index and a payload. *)
Body == [index : {NewIndex, BadIndex} \cup 0..MAX_SCHEDULE_ENTRIES, payload : Payload]

Request == [action : Edits \cup {UNKNOWN}, body : Body]

NoBody == [index |-> BadIndex,
           payload |-> [hour_on |-> 0, minute_on |-> 0, hour_off |-> 0,
                        minute_off |-> 0, days_of_week |-> {}]]

NoRequest == [action |-> UNKNOWN, body |-> NoBody]

(* What an edit of the table with a body does, and what it answers. *)
UpdateSlot(tbl, index) == IF index = NewIndex THEN FirstFree(tbl) ELSE index

Updates(tbl, index) ==
  IF index = NewIndex THEN FreeSlots(tbl) # {} ELSE index \in Slots

UpdatedBy(tbl, body) ==
  IF Updates(tbl, body.index)
  THEN [tbl EXCEPT ![UpdateSlot(tbl, body.index)] = TransferData(@, body.payload)]
  ELSE tbl

ToggledBy(tbl, body) ==
  IF body.index \in ValidSlots(tbl) THEN Toggled(tbl, body.index) ELSE tbl

DeletedBy(tbl, body) ==
  IF body.index \in Slots THEN Deleted(tbl, body.index) ELSE tbl

Edited(tbl, action, body) ==
  CASE action = UPDATE -> UpdatedBy(tbl, body)
    [] action = TOGGLE -> ToggledBy(tbl, body)
    [] action = DEL    -> DeletedBy(tbl, body)

(* A plausible slip: a full table is not reported. *)
AnswerFullOK(tbl, action, body) ==
  CASE action = UPDATE ->
         IF body.index = BadIndex THEN ERR_WRONG_FORMAT
         ELSE IF Updates(tbl, body.index) /\ ~Accepted(body.payload)
         THEN ERR_WRONG_FORMAT
         ELSE ESP_OK
    [] action = TOGGLE ->
         IF body.index \notin Slots THEN ERR_WRONG_FORMAT
         ELSE IF tbl[body.index].is_valid THEN ESP_OK
         ELSE ERR_INVALID_ENTRY
    [] action = DEL ->
         IF body.index \in Slots THEN ESP_OK ELSE ERR_WRONG_FORMAT

Answer(tbl, action, body) ==
  CASE action = UPDATE ->
         IF body.index = NewIndex /\ FreeSlots(tbl) = {} THEN ERR_SCHED_FULL
         ELSE IF body.index = BadIndex THEN ERR_WRONG_FORMAT
         ELSE IF Updates(tbl, body.index) /\ ~Accepted(body.payload)
         THEN ERR_WRONG_FORMAT
         ELSE ESP_OK
    [] action = TOGGLE ->
         IF body.index \notin Slots THEN ERR_WRONG_FORMAT
         ELSE IF tbl[body.index].is_valid THEN ESP_OK
         ELSE ERR_INVALID_ENTRY
    [] action = DEL ->
         IF body.index \in Slots THEN ESP_OK ELSE ERR_WRONG_FORMAT

-----------------------------------------------------------------------------
(* Notions the properties of several modules use.                          *)

(* The valid entries are a prefix: what schedule_get_handler, which stops at *)
(* the first entry that is not valid, lists completely.                      *)
Compact(tbl) == \A i, j \in Slots : i < j /\ tbl[j].is_valid => tbl[i].is_valid

(* The table without slot i: the entries after it move up. *)
Removed(tbl, i) ==
  [j \in Slots |-> IF j < i THEN tbl[j]
                   ELSE IF j + 1 \in Slots THEN tbl[j + 1]
                   ELSE [tbl[j] EXCEPT !.is_valid = FALSE]]

(* The same entries are valid, and they are equal. *)
SameValid(a, b) ==
  \A j \in Slots : a[j].is_valid \/ b[j].is_valid => a[j] = b[j]

(* A deletion at slot i ends after one round of its loop. *)
HasRoom(tbl, i) == \E j \in FreeSlots(tbl) : j <= i + 3
=============================================================================
