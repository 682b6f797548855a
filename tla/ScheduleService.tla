--------------------------- MODULE ScheduleService ---------------------------
(***************************************************************************)
(* What the schedule pages promise a client: every POST edits the table at  *)
(* most once, in one step, between its arrival and its answer; the answer   *)
(* is that edit's; and nothing else ever changes the table.                 *)
(***************************************************************************)
EXTENDS ScheduleTable

CONSTANT Requests

VARIABLES phase,            \* "idle", "asked" or "edited"
          asked,            \* the request
          answer,           \* the answer on its way to the client, or "None"
          table

vars == <<phase, asked, answer, table>>

Init ==
  /\ phase = "idle"
  /\ asked = NoRequest
  /\ answer = "None"
  /\ table = EmptyTable

(* Slot i of "after" holds the times of payload p and is valid and on. *)
Holds(after, i, p) ==
  /\ \A f \in TimeFields : after[i][f] = p[f]
  /\ after[i].days_of_week = p.days_of_week
  /\ after[i].is_valid /\ after[i].is_on

OthersKept(before, after, i) == \A j \in Slots \ {i} : after[j] = before[j]

(* An update fills a free slot or the one it names; an index past the table  *)
(* is ignored.                                                              *)
UpdatePromise(before, after, body) ==
  \/ /\ body.index \notin Slots \cup {NewIndex}
     /\ after = before
  \/ \E i \in Slots :
       /\ IF body.index = NewIndex THEN ~before[i].is_valid ELSE i = body.index
       /\ Holds(after, i, body.payload)
       /\ OthersKept(before, after, i)

TogglePromise(before, after, body) ==
  /\ body.index \in ValidSlots(before)
  /\ after[body.index].is_on = ~before[body.index].is_on
  /\ OthersKept(before, after, body.index)

(* A deletion removes the entry from a table with room; from a full one it   *)
(* only keeps the entries before it.                                        *)
DeletePromise(before, after, body) ==
  /\ body.index \in Slots
  /\ \A j \in 0..(body.index - 1) : after[j] = before[j]
  /\ Compact(before) /\ before[body.index].is_valid /\ HasRoom(before, body.index)
       => SameValid(after, Removed(before, body.index))

(* What an answer means.  A refused request leaves the same entries valid. *)
Promise(before, after, request, ans) ==
  IF ans = ESP_OK
  THEN \/ request.action = UPDATE /\ UpdatePromise(before, after, request.body)
       \/ request.action = TOGGLE /\ TogglePromise(before, after, request.body)
       \/ request.action = DEL    /\ DeletePromise(before, after, request.body)
  ELSE ValidSlots(after) = ValidSlots(before)

Ask ==
  /\ phase = "idle"
  /\ phase' = "asked"
  /\ asked' \in Requests
  /\ UNCHANGED <<answer, table>>

Edit ==
  /\ phase = "asked"
  /\ phase' = "edited"
  /\ answer' \in Answers
  /\ table' \in Tables
  /\ Promise(table, table', asked, answer')
  /\ UNCHANGED asked

Reply ==
  /\ phase = "edited"
  /\ phase' = "idle"
  /\ answer' = "None"
  /\ asked' = NoRequest
  /\ UNCHANGED table

(* The client vanished, or asked for an unknown page. *)
Abandon ==
  /\ phase = "asked"
  /\ phase' = "idle"
  /\ asked' = NoRequest
  /\ UNCHANGED <<answer, table>>

Next == Ask \/ Edit \/ Reply \/ Abandon

Spec == Init /\ [][Next]_vars
=============================================================================
