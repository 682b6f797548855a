------------------------------ MODULE DlxWords ------------------------------
(***************************************************************************)
(* The words of the DLX processor and the instructions they encode.         *)
(*                                                                         *)
(* A word is two halves, as in the adder: 32 bits are HALF = 2^16. What a    *)
(* word means as an instruction is left to the function Decode, so that a    *)
(* model with short words still has every kind of instruction; the fields    *)
(* are those the data path cuts out of IR.                                  *)
(***************************************************************************)
EXTENDS Integers

CONSTANTS HALF,                     \* the values of half a word
          ADDRS,                    \* words of the memory
          REGS,                     \* registers of the GPR file
          Decode,                   \* what each word means as an instruction
          BitAnd, BitOr, BitXor     \* AND32, OR32, XOR32

WORDS == HALF * HALF
Word  == 0..(WORDS - 1)
Adr   == 0..(ADDRS - 1)
Reg   == 0..(REGS - 1)

Instruction ==
  [opcode : 0..63,      \* IR(31 downto 26)
   rs : Reg,            \* IR(25 downto 21)
   rt : Reg,            \* IR(20 downto 16)
   rd : Reg,            \* IR(15 downto 11)
   func : 0..63,        \* IR(5 downto 0)
   imm : Word]          \* IR(15 downto 0), its sign extended

(* HALF is 2^16 in the code; of the powers of two the model needs that half a  *)
(* word's upper half is negative, HALF even.                                 *)
ASSUME WordsAssumption ==
  /\ HALF \in Nat /\ HALF >= 2 /\ HALF % 2 = 0
  /\ ADDRS \in Nat \ {0} /\ REGS \in Nat \ {0}
  /\ Decode \in [Word -> Instruction]
  /\ BitAnd \in [Word \X Word -> Word]
  /\ BitOr \in [Word \X Word -> Word]
  /\ BitXor \in [Word \X Word -> Word]

(* The MMU keeps 24 bits of an address and the memory as many as it has     *)
(* words.                                                                   *)
PhysicalAddress(w) == w % ADDRS

Bit(n, weight) == (n \div weight) % 2 = 1
=============================================================================
