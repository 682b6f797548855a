----------------------------- MODULE DlxControl -----------------------------
(***************************************************************************)
(* DLX_Control.vhd: the states of the processor's control, the outputs that *)
(* depend on the state, and the next state. MAC.vhd: the same for the bus.   *)
(***************************************************************************)
EXTENDS DlxWords

ControlState ==
  {"INIT", "FETCH", "DECODE", "ALU", "TESTI", "ALUI", "SHIFT_ST", "ADDRESSCMP",
   "LOAD", "STORE", "COPYMDR2C", "COPYGPR2MDR", "WBR", "WBI", "BRANCH",
   "BTAKEN", "JR", "SAVEPC", "JALR", "HALT"}

mr(s)      == s \in {"FETCH", "LOAD"}
mw(s)      == s = "STORE"
Ace(s)     == s = "DECODE"
Bce(s)     == s = "DECODE"
Cce(s)     == s \in {"ALU", "TESTI", "ALUI", "SHIFT_ST", "COPYMDR2C", "SAVEPC"}
GPRwe(s)   == s \in {"WBI", "WBR", "JALR"}
PCce(s)    == s \in {"DECODE", "BTAKEN", "JR", "JALR"}
IRce(s)    == s = "FETCH"
MARce(s)   == s = "ADDRESSCMP"
MDRce(s, busy) == (s = "LOAD" /\ ~busy) \/ s = "COPYGPR2MDR"
ASEL(s)    == s \in {"LOAD", "STORE"}
DINTSEL(s) == s \in {"SHIFT_ST", "COPYMDR2C", "COPYGPR2MDR"}
MDRSEL(s)  == s = "LOAD"
ADD(s)     == s \in {"DECODE", "ALUI", "ADDRESSCMP", "BTAKEN", "JR", "SAVEPC", "JALR"}
TEST(s)    == s = "TESTI"
SHIFT(s)   == s = "SHIFT_ST"
ITYPE(s)   == s \in {"TESTI", "ALUI", "WBI"}
JLINK(s)   == s = "JALR"
S1SEL0(s)  == s \in {"ALU", "TESTI", "ALUI", "SHIFT_ST", "ADDRESSCMP", "COPYMDR2C",
                     "JR", "JALR"}
S1SEL1(s)  == s \in {"COPYMDR2C", "COPYGPR2MDR"}
S2SEL0(s)  == s \in {"DECODE", "TESTI", "ALUI", "ADDRESSCMP", "BTAKEN"}
S2SEL1(s)  == s \in {"DECODE", "COPYMDR2C", "COPYGPR2MDR", "JR", "SAVEPC", "JALR"}

(* The end of an instruction: on to the next one, or wait to be stepped.    *)
Ended(step_en) == IF step_en THEN "FETCH" ELSE "INIT"

Decoded(opcode, ir5, step_en) ==
  CASE opcode \div 8 = 6  -> Ended(step_en)
    [] opcode \div 4 = 0  -> IF ir5 THEN "ALU" ELSE "SHIFT_ST"
    [] opcode \div 8 = 1  -> "ALUI"
    [] opcode \div 8 = 3  -> "TESTI"
    [] opcode \div 16 = 2 -> "ADDRESSCMP"
    [] opcode \div 8 = 2  -> IF Bit(opcode, 1) THEN "SAVEPC" ELSE "JR"
    [] opcode \div 4 = 1  -> "BRANCH"
    [] OTHER              -> "HALT"

NextState(s, opcode, ir5, bt, busy, step_en) ==
  CASE s = "INIT"                 -> Ended(step_en)
    [] s = "FETCH"                -> IF busy THEN "FETCH" ELSE "DECODE"
    [] s = "DECODE"               -> Decoded(opcode, ir5, step_en)
    [] s \in {"ALU", "SHIFT_ST"}  -> "WBR"
    [] s \in {"ALUI", "TESTI", "COPYMDR2C"} -> "WBI"
    [] s = "ADDRESSCMP"           -> IF Bit(opcode, 8) THEN "COPYGPR2MDR" ELSE "LOAD"
    [] s = "LOAD"                 -> IF busy THEN "LOAD" ELSE "COPYMDR2C"
    [] s = "COPYGPR2MDR"          -> "STORE"
    [] s = "STORE"                -> IF busy THEN "STORE" ELSE Ended(step_en)
    [] s = "SAVEPC"               -> "JALR"
    [] s = "BRANCH"               -> IF bt THEN "BTAKEN" ELSE Ended(step_en)
    [] s \in {"WBR", "WBI", "JR", "JALR", "BTAKEN"} -> Ended(step_en)
    [] s = "HALT"                 -> "HALT"

-----------------------------------------------------------------------------
MacState == {"WAIT4REQ", "WAIT4ACK", "stNEXT"}

(* A plausible slip: the strobe is held until the state after the answer.   *)
AddressStrobeHeld(m) == m \in {"WAIT4ACK", "stNEXT"}

AddressStrobe(m) == m = "WAIT4ACK"          \* as_n low

(* A plausible slip: the last state is left to the "others" branch.         *)
MacNextForgets(m, request, ack) ==
  CASE m = "WAIT4REQ" -> IF request THEN "WAIT4ACK" ELSE "WAIT4REQ"
    [] m = "WAIT4ACK" -> IF ack THEN "stNEXT" ELSE "WAIT4ACK"
    [] m = "stNEXT"   -> "stNEXT"

MacNext(m, request, ack) ==
  CASE m = "WAIT4REQ" -> IF request THEN "WAIT4ACK" ELSE "WAIT4REQ"
    [] m = "WAIT4ACK" -> IF ack THEN "stNEXT" ELSE "WAIT4ACK"
    [] m = "stNEXT"   -> "WAIT4REQ"

(* busy looks at the answer alone, whatever state the MAC is in.            *)
MacBusy(request, ack) == request /\ ~ack
=============================================================================
