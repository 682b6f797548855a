-------------------------------- MODULE Dlx --------------------------------
(***************************************************************************)
(* The simulated DLX computer (IO_simulation.vhf): the control, the MAC, the *)
(* data path and the memory, all clocked together. One step is one rising    *)
(* edge of the clock, or a reset that lasts over one.                       *)
(*                                                                         *)
(* Power-up values are the ones the declarations give: zero.                *)
(***************************************************************************)
EXTENDS DlxControl, DlxAlu

CONSTANT Programs       \* the contents sram_data.vhd may give the memory

ASSUME ProgramsAssumption == Programs \subseteq [Adr -> Word]

VARIABLES rom,                              \* pre_inst_mem
          state,                            \* of DLX_Control
          MAC_state,                        \* of MAC
          PC, IR, A, B, C, MAR, MDR, GPR,   \* the data path's registers
          main_mem, busy, busy_d, int_done, DO_S    \* of sram

vars == <<rom, state, MAC_state, PC, IR, A, B, C, MAR, MDR, GPR,
          main_mem, busy, busy_d, int_done, DO_S>>

-----------------------------------------------------------------------------
(* The bus.                                                                 *)
fields  == Decode[IR]
Request == mr(state) \/ mw(state)
BUSY    == MacBusy(Request, int_done)
AO      == PhysicalAddress(IF ASEL(state) THEN MAR ELSE PC)
DI      == IF int_done THEN DO_S ELSE 0

(* The data path between the registers.                                     *)
S1 == CASE ~S1SEL1(state) /\ ~S1SEL0(state) -> PC
        [] ~S1SEL1(state) /\ S1SEL0(state)  -> A
        [] S1SEL1(state) /\ ~S1SEL0(state)  -> B
        [] S1SEL1(state) /\ S1SEL0(state)   -> MDR

S2 == CASE ~S2SEL1(state) /\ ~S2SEL0(state) -> B
        [] ~S2SEL1(state) /\ S2SEL0(state)  -> fields.imm
        [] S2SEL1(state) /\ ~S2SEL0(state)  -> 0
        [] S2SEL1(state) /\ S2SEL0(state)   -> 1

ALUF == IF ITYPE(state) THEN fields.opcode % 8 ELSE fields.func % 8

DINT == IF DINTSEL(state) THEN Shifted(S1, SHIFT(state), Bit(fields.func, 2))
        ELSE Alu(S1, S2, ALUF, ADD(state), TEST(state))

Cadr == IF JLINK(state) THEN REGS - 1
        ELSE IF ITYPE(state) THEN fields.rt ELSE fields.rd

BT == (GPR[fields.rs] = 0) # Bit(fields.opcode, 1)

-----------------------------------------------------------------------------
Load(enable, register, value) == register' = IF enable THEN value ELSE register

(* Register 0 is never written.                                             *)
RegisterFile ==
  GPR' = IF GPRwe(state) /\ Cadr # 0 THEN [GPR EXCEPT ![Cadr] = C] ELSE GPR

Registers ==
  /\ Load(Ace(state), A, GPR[fields.rs])
  /\ Load(Bce(state), B, GPR[fields.rt])
  /\ Load(Cce(state), C, DINT)
  /\ Load(PCce(state), PC, DINT)
  /\ Load(IRce(state), IR, DI)
  /\ Load(MARce(state), MAR, DINT)
  /\ Load(MDRce(state, BUSY), MDR, IF MDRSEL(state) THEN DI ELSE DINT)

(* A plausible slip: the answer is given before the word is read. *)
SramProgressEarly ==
  LET as == AddressStrobe(MAC_state)
  IN  /\ busy' = as
      /\ busy_d' = (as /\ busy)
      /\ int_done' = (as /\ (IF busy THEN ~int_done ELSE int_done))

(* busy and busy_d make an access wait; int_done answers for one cycle.     *)
SramProgress ==
  LET as == AddressStrobe(MAC_state)
  IN  /\ busy' = as
      /\ busy_d' = (as /\ busy)
      /\ int_done' = (as /\ (IF busy_d THEN ~int_done ELSE int_done))

SramAccess ==
  LET access == AddressStrobe(MAC_state) /\ busy_d
  IN  /\ main_mem' = IF access /\ mw(state) THEN [main_mem EXCEPT ![AO] = MDR]
                     ELSE main_mem
      /\ DO_S' = IF access /\ ~mw(state) THEN main_mem[AO] ELSE DO_S

Clock ==
  /\ \E step_en \in BOOLEAN :
       state' = NextState(state, fields.opcode, Bit(fields.func, 32), BT,
                          BUSY, step_en)
  /\ MAC_state' = MacNext(MAC_state, Request, int_done)
  /\ RegisterFile
  /\ Registers
  /\ SramProgress
  /\ SramAccess
  /\ UNCHANGED rom

(* The reset is asynchronous for the control and the memory, synchronous for *)
(* PC and the MAC; the other registers keep what they hold.                  *)
Reset ==
  /\ state' = "INIT"
  /\ MAC_state' = "WAIT4REQ"
  /\ PC' = 0
  /\ main_mem' = rom
  /\ busy' = FALSE /\ busy_d' = FALSE /\ int_done' = FALSE
  /\ UNCHANGED <<rom, IR, A, B, C, MAR, MDR, GPR, DO_S>>

Init ==
  /\ rom \in Programs
  /\ state = "INIT" /\ MAC_state = "WAIT4REQ"
  /\ PC = 0 /\ IR = 0 /\ A = 0 /\ B = 0 /\ C = 0 /\ MAR = 0 /\ MDR = 0
  /\ GPR = [r \in Reg |-> 0]
  /\ main_mem = rom
  /\ busy = FALSE /\ busy_d = FALSE /\ int_done = FALSE /\ DO_S = 0

Next == Clock \/ Reset

Spec == Init /\ [][Next]_vars

(* The clock never stops; nothing is asked of step_en or of the reset.      *)
FairSpec == Spec /\ WF_vars(Clock)

-----------------------------------------------------------------------------
TypeOK ==
  /\ rom \in [Adr -> Word] /\ main_mem \in [Adr -> Word]
  /\ state \in ControlState /\ MAC_state \in MacState
  /\ {PC, IR, A, B, C, MAR, MDR, DO_S} \subseteq Word
  /\ GPR \in [Reg -> Word]
  /\ busy \in BOOLEAN /\ busy_d \in BOOLEAN /\ int_done \in BOOLEAN

(* The MAC tells the control that an access is over by looking at the answer *)
(* alone (MAC.vhd:102). Every answer of the memory falls into the access it  *)
(* belongs to: an answer left over from the access before, or given while    *)
(* the control does something else, would end the next one at once.          *)
AnsweredInTurn == int_done => MAC_state = "WAIT4ACK" /\ Request

(* The word on the data bus when a fetch or a load ends is the one at the    *)
(* address on the address bus, although the memory's output register is      *)
(* filled a cycle before and holds its old word until then.                  *)
ReadIsFresh == int_done /\ mr(state) => DI = main_mem[AO]

(* Instructions come to an end, whatever step_en does: the control is again  *)
(* and again at rest, halted or at the decoding of the next instruction.     *)
InstructionsEnd == []<>(state \in {"INIT", "HALT", "DECODE"})

-----------------------------------------------------------------------------
(* The processor does what the instructions say: seen between instructions,  *)
(* a run of the computer is a run of DlxIsa. DECODE has already advanced PC, *)
(* and a store is done when the memory answers, a cycle before its end.      *)
Completed == state \in {"INIT", "FETCH", "DECODE"} \/ (state = "STORE" /\ int_done)

NextInstruction == IF Completed THEN PC ELSE (PC - 1) % WORDS

ISA == INSTANCE DlxIsa WITH pc <- NextInstruction, mem <- main_mem

ExecutesIsa == ISA!Spec
=============================================================================
