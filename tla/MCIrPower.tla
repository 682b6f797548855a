------------------------------ MODULE MCIrPower ------------------------------
(* IrPower with a command of every kind. *)
EXTENDS IrPower

Do(word) == [word |-> word, delta |-> 1]

(* The power button, one of the arrows, and two modes of which only one has  *)
(* the bit that lies in the scheduler's word.                                *)
MCCommands ==
  {Do("POWER"), Do("COOL"), Do("DRY"), [word |-> "TEMP_UP", delta |-> 6]}
=============================================================================
