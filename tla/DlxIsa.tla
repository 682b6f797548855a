------------------------------- MODULE DlxIsa -------------------------------
(***************************************************************************)
(* The DLX as its programmer sees it: program counter, registers, memory,   *)
(* one whole instruction per step. The mnemonics are those the test program *)
(* in "basic modules/sram_data.vhd" annotates its words with, the opcode    *)
(* ranges those of the comments in DLX_Control.vhd.                         *)
(***************************************************************************)
EXTENDS DlxWords

VARIABLES rom,      \* what a reset loads into the memory
          pc, GPR, mem

vars == <<rom, pc, GPR, mem>>

Register      == 0..3
Branch        == 4..7
AddImmediate  == 8..15
Jump          == 16..23
TestSet       == 24..31
LoadStore     == 32..47
NoOp          == 48..55
Halt          == 56..63

Signed(w) == IF w < WORDS \div 2 THEN w ELSE w - WORDS
Plus(a, b) == (a + b) % WORDS
Zero == 0
Link == REGS - 1

(* A register instruction: xor 4, or 5, and 6 or 7, add 1 or 3, sub 0 or 2,  *)
(* or a shift by one place, left or right.                                  *)
Computed(i, a, b) ==
  LET f == i.func % 8
  IN  IF i.func < 32 THEN IF Bit(i.func, 2) THEN a \div 2 ELSE Plus(a, a)
      ELSE CASE f = 4       -> BitXor[<<a, b>>]
             [] f = 5       -> BitOr[<<a, b>>]
             [] f \in {6, 7} -> BitAnd[<<a, b>>]
             [] f \in {1, 3} -> Plus(a, b)
             [] f \in {0, 2} -> (a - b) % WORDS

(* A test sets one if the comparison of the two signed numbers is among the  *)
(* ones its opcode selects: 4 less, 2 equal, 1 greater.                     *)
Tested(i, a, b) ==
  IF \/ Signed(a) < Signed(b) /\ Bit(i.opcode, 4)
     \/ a = b /\ Bit(i.opcode, 2)
     \/ Signed(a) > Signed(b) /\ Bit(i.opcode, 1)
  THEN 1 ELSE 0

Following == Plus(pc, 1)
Go(target) == pc' = target
Set(r, w) == GPR' = [GPR EXCEPT ![r] = IF r = Zero THEN @ ELSE w]

NoOperation(i) ==
  i.opcode \in NoOp /\ Go(Following) /\ UNCHANGED <<GPR, mem>>

RegisterOp(i) ==
  /\ i.opcode \in Register
  /\ Set(i.rd, Computed(i, GPR[i.rs], GPR[i.rt]))
  /\ Go(Following) /\ UNCHANGED mem

ImmediateOp(i) ==
  /\ i.opcode \in AddImmediate \cup TestSet
  /\ Set(i.rt, IF i.opcode \in TestSet THEN Tested(i, GPR[i.rs], i.imm)
               ELSE Plus(GPR[i.rs], i.imm))
  /\ Go(Following) /\ UNCHANGED mem

Load(i) ==
  /\ i.opcode \in LoadStore /\ ~Bit(i.opcode, 8)
  /\ Set(i.rt, mem[PhysicalAddress(Plus(GPR[i.rs], i.imm))])
  /\ Go(Following) /\ UNCHANGED mem

Store(i) ==
  /\ i.opcode \in LoadStore /\ Bit(i.opcode, 8)
  /\ mem' = [mem EXCEPT ![PhysicalAddress(Plus(GPR[i.rs], i.imm))] = GPR[i.rt]]
  /\ Go(Following) /\ UNCHANGED GPR

JumpRegister(i) ==
  /\ i.opcode \in Jump /\ ~Bit(i.opcode, 1)
  /\ Go(GPR[i.rs]) /\ UNCHANGED <<GPR, mem>>

JumpAndLink(i) ==
  /\ i.opcode \in Jump /\ Bit(i.opcode, 1)
  /\ Set(Link, Following)
  /\ Go(GPR[i.rs]) /\ UNCHANGED mem

BranchIf(i) ==
  /\ i.opcode \in Branch
  /\ Go(IF (GPR[i.rs] = 0) # Bit(i.opcode, 1) THEN Plus(Following, i.imm)
        ELSE Following)
  /\ UNCHANGED <<GPR, mem>>

Step ==
  LET i == Decode[mem[PhysicalAddress(pc)]]
  IN  \/ NoOperation(i) \/ RegisterOp(i) \/ ImmediateOp(i) \/ Load(i)
      \/ Store(i) \/ JumpRegister(i) \/ JumpAndLink(i) \/ BranchIf(i)

Reset == pc' = 0 /\ mem' = rom /\ UNCHANGED GPR

Init ==
  /\ rom \in [Adr -> Word]
  /\ pc = 0 /\ GPR = [r \in Reg |-> 0] /\ mem = rom

Next == (Step \/ Reset) /\ UNCHANGED rom

Spec == Init /\ [][Next]_vars
=============================================================================
