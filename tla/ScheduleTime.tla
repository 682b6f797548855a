---------------------------- MODULE ScheduleTime ----------------------------
(***************************************************************************)
(* The calendar arithmetic of the weekly AC schedule                       *)
(* ("ESP32 - IR remote/server_schedule.c").                                *)
(*                                                                         *)
(* localtime() shows the scheduler a weekday, an hour, a minute and a      *)
(* second.  The schedule repeats every week, so a point in time is modelled *)
(* by the second of the week it falls on; the four constants are the code's *)
(* literals 7, 24, 60 and 60.  Delays are in seconds (the code's are the   *)
(* same numbers times 1000).                                               *)
(***************************************************************************)
EXTENDS Integers

CONSTANTS DAYS, HOURS, MINS, SECS

ASSUME CalendarAssumption ==
  /\ DAYS \in Nat /\ DAYS > 0
  /\ HOURS \in Nat /\ HOURS > 0
  /\ MINS \in Nat /\ MINS > 0
  /\ SECS \in Nat /\ SECS > 0

DAY  == HOURS * MINS * SECS
WEEK == DAYS * DAY

Instants == 0..(WEEK - 1)

(* struct tm of an instant: tm_wday, tm_hour, tm_min, tm_sec. *)
Wday(t)   == t \div DAY
Hour(t)   == (t % DAY) \div (MINS * SECS)
Minute(t) == (t % (MINS * SECS)) \div SECS
Second(t) == t % SECS

(* The instant at which a minute of the week begins. *)
At(day, hour, min) == ((day * HOURS + hour) * MINS + min) * SECS

(* A borrow: what "if (x < 0) x += n" leaves in x. *)
Wrap(x, n) == IF x < 0 THEN x + n ELSE x

(* A plausible slip: the hour's borrow from the days is forgotten. *)
CalcDelayNoBorrow(day, hour, min, t) ==
  LET mins  == min - Minute(t)
      hours == hour - Hour(t) - (IF mins < 0 THEN 1 ELSE 0)
      days  == (day - Wday(t) + DAYS) % DAYS
  IN  At(days, Wrap(hours, HOURS), Wrap(mins, MINS)) - Second(t)

(* calc_delay_to_event_ms: the time from t to the next beginning of the     *)
(* given minute, found by subtracting field by field with borrows.  During  *)
(* the event's own minute the result is zero or negative.                   *)
CalcDelay(day, hour, min, t) ==
  LET mins  == min - Minute(t)
      hours == hour - Hour(t) - (IF mins < 0 THEN 1 ELSE 0)
      days  == ((day - Wday(t) + DAYS) % DAYS) - (IF hours < 0 THEN 1 ELSE 0)
  IN  At(Wrap(days, DAYS), Wrap(hours, HOURS), Wrap(mins, MINS)) - Second(t)
=============================================================================
