------------------------------- MODULE MCDlx -------------------------------
(* The DLX with words of six bits, four registers and eight words of memory: *)
(* every kind of instruction, sums that overflow, loops, code that changes   *)
(* itself, registers that survive a reset. The first program is the one of   *)
(* sram_data.vhd.                                                            *)
EXTENDS Dlx, Bitwise, TLC

R(func, rd, rs, rt) ==
  [opcode |-> 0, rs |-> rs, rt |-> rt, rd |-> rd, func |-> func, imm |-> 0]

I(opcode, rt, rs, imm) ==
  [opcode |-> opcode, rs |-> rs, rt |-> rt, rd |-> 0, func |-> 0, imm |-> imm]

Encoded ==
     0  :> I(11, 2, 0, 12)   @@ 1  :> I(11, 3, 0, 24)   \* addi R2/R3 R0 n
  @@ 2  :> R(38, 1, 2, 3)    @@ 3  :> R(37, 1, 2, 3)    \* and, or R1 R2 R3
  @@ 4  :> R(36, 1, 2, 3)    @@ 5  :> R(0, 1, 3, 3)     \* xor; slli R1 R3
  @@ 6  :> R(2, 1, 3, 3)     @@ 7  :> I(63, 3, 3, 52)   \* srli R1 R3; halt
  @@ 8  :> I(11, 1, 0, 2)    @@ 9  :> I(11, 1, 1, 63)   \* addi R1 R0 2, R1 R1 -1
  @@ 10 :> I(5, 0, 1, 62)    @@ 11 :> I(4, 0, 1, 1)     \* bnez R1 -2, beqz R1 1
  @@ 12 :> I(23, 0, 1, 0)    @@ 13 :> I(22, 0, 3, 0)    \* jalr R1, jr R3
  @@ 14 :> I(43, 2, 1, 4)    @@ 15 :> I(35, 3, 1, 4)    \* sw R2 R1 4, lw R3 R1 4
  @@ 16 :> I(48, 0, 0, 0)    @@ 17 :> R(34, 3, 2, 3)    \* nop; sub R3 R2 R3
  @@ 18 :> I(28, 1, 3, 60)   @@ 19 :> I(25, 1, 3, 40)   \* R1 = R3 < -4, R3 > -24
  @@ 20 :> I(27, 1, 2, 12)   @@ 21 :> R(35, 0, 2, 3)    \* R1 = R2 >= 12; add R0
  @@ 22 :> R(35, 3, 1, 3)    @@ 23 :> I(11, 1, 0, 29)   \* add R3 R1 R3; addi R1 R0 29
  @@ 24 :> I(11, 2, 0, 13)                              \* addi R2 R0: a jr R3

MCDecode == [w \in Word |-> IF w \in DOMAIN Encoded THEN Encoded[w] ELSE Encoded[7]]

MCBitAnd == [p \in Word \X Word |-> p[1] & p[2]]
MCBitOr  == [p \in Word \X Word |-> p[1] | p[2]]
MCBitXor == [p \in Word \X Word |-> p[1] ^^ p[2]]

Contents(p) == [a \in Adr |-> p[a + 1]]

MCPrograms ==
  {Contents(p) : p \in
     {<<0, 1, 2, 3, 4, 5, 6, 7>>,         \* sram_data.vhd
      <<8, 9, 10, 11, 7, 12, 16, 7>>,     \* a loop, then on through a call
      <<8, 24, 14, 15, 11, 12, 7, 7>>,    \* stores the jump it then runs
      <<0, 1, 17, 18, 19, 20, 21, 7>>,    \* signed comparisons
      <<1, 23, 22, 18, 19, 6, 21, 13>>}   \* sums beyond the largest number
   \cup {<<1, 8, x, y, 0, 7, 16, 13>> :     \* each instruction after each other
           x \in DOMAIN Encoded, y \in DOMAIN Encoded}}
=============================================================================
