----------------------------- MODULE IrSettings -----------------------------
(***************************************************************************)
(* The settings of the AC and the commands that change them: the union      *)
(* ir_jetpoint_settings (ir_codec.h) and the command chain of               *)
(* update_post_handler (uri_handlers.c).                                   *)
(***************************************************************************)
EXTENDS Integers

MAX_TEMP_VAL == 14          \* 30 degrees: the field is offset by 16
MAX_FAN_VAL  == 3

COOL == 1
HEAT == 2
AUTO == 3
DRY  == 4
FAN  == 5

(* The bit-fields a frame carries besides "power"; sleep never changes. *)
Fields == [temperature : 0..15, fan : 0..3, swing : 0..1, mode : 0..7]

(* set_jetpoint_settings(settings, 0, 1, 1, 25, 0, 0) *)
InitialFields == [temperature |-> 25 - 16, fan |-> 1, swing |-> 0, mode |-> COOL]

(* A POST to /update: a word and the number behind it, 1 without one. *)
Words == {"POWER", "SWING", "TEMP_UP", "TEMP_DOWN", "FAN_UP", "FAN_DOWN",
          "COOL", "HEAT", "AUTO", "DRY", "FAN", "unknown"}

Command == [word : Words, delta : Nat]

AtMost(x, bound)  == IF x > bound THEN bound ELSE x
AtLeast(x, bound) == IF x < bound THEN bound ELSE x

ModeOf == [COOL |-> COOL, HEAT |-> HEAT, AUTO |-> AUTO, DRY |-> DRY, FAN |-> FAN]

(* What a command leaves in the fields.  FAN_DOWN looks for its number behind *)
(* the prefix "FAN_UP" and never finds it (line 201): it always steps by 1.  *)
Applied(s, c) ==
  CASE c.word = "SWING"     -> [s EXCEPT !.swing = 1 - @]
    [] c.word = "TEMP_UP"   -> [s EXCEPT !.temperature = AtMost(@ + c.delta, MAX_TEMP_VAL)]
    [] c.word = "TEMP_DOWN" -> [s EXCEPT !.temperature = AtLeast(@ - c.delta, 0)]
    [] c.word = "FAN_UP"    -> [s EXCEPT !.fan = AtMost(@ + c.delta, MAX_FAN_VAL)]
    [] c.word = "FAN_DOWN"  -> [s EXCEPT !.fan = AtLeast(@ - 1, 0)]
    [] c.word \in DOMAIN ModeOf     -> [s EXCEPT !.mode = ModeOf[c.word]]
    [] c.word \in {"POWER", "unknown"} -> s
=============================================================================
