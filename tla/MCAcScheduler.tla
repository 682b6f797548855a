---------------------------- MODULE MCAcScheduler ----------------------------
(* AcScheduler on a week of two days of two hours of two minutes of two      *)
(* seconds.                                                                  *)
EXTENDS AcScheduler

Times(hour_on, minute_on, hour_off, minute_off, days) ==
  [hour_on |-> hour_on, minute_on |-> minute_on, hour_off |-> hour_off,
   minute_off |-> minute_off, days_of_week |-> days]

Ask(action, index, payload) ==
  [action |-> action, body |-> [index |-> index, payload |-> payload]]

Morning  == Times(0, 1, 1, 0, Weekdays)
Night    == Times(1, 1, 0, 0, {1})
BadTimes == Times(1, MINS, 0, 0, Weekdays)

(* Every kind of request, and every kind of index. *)
MCAllRequests ==
  {Ask(UPDATE, index, Morning) : index \in {NewIndex, 0, 2}}
  \cup {Ask(UPDATE, NewIndex, BadTimes)}
  \cup {Ask(action, index, Morning) : action \in {TOGGLE, DEL}, index \in {NewIndex, 0, 1}}
  \cup {Ask(UNKNOWN, NewIndex, Morning)}

(* New entries that span midnight, refused when the table is full; one that  *)
(* starts on every day, at the second slot; a deletion.                      *)
MCRequests ==
  {Ask(UPDATE, NewIndex, Night), Ask(UPDATE, 1, Morning), Ask(DEL, 0, Night)}

(* One entry that starts and ends in different minutes. *)
MCOneEntry == {Ask(UPDATE, 0, Morning)}
=============================================================================
