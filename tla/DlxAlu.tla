------------------------------- MODULE DlxAlu -------------------------------
(***************************************************************************)
(* ALU_ENV with its adder and comparator, and SHIFT_ENV: the combinational  *)
(* part of the DLX data path, gate by gate where the result depends on it.   *)
(***************************************************************************)
EXTENDS DlxWords

Top(w) == 2 * w >= WORDS        \* bit 31

(* ADSU16: half a word; CO is the carry, or that there was no borrow.       *)
Adsu16(a, b, add, ci) ==
  LET carry == IF ci THEN 1 ELSE 0
      sum   == IF add THEN a + b + carry ELSE a - b - (1 - carry)
  IN  [S |-> sum % HALF, CO |-> sum >= IF add THEN HALF ELSE 0]

(* A plausible slip: the upper half is chosen as in an addition. *)
AddSubNoBorrow(a, b, sub) ==
  LET lower  == Adsu16(a % HALF, b % HALF, ~sub, sub)
      upper0 == Adsu16(a \div HALF, b \div HALF, ~sub, FALSE)
      upper1 == Adsu16(a \div HALF, b \div HALF, ~sub, TRUE)
      upper  == IF lower.CO # sub THEN upper1 ELSE upper0
  IN  [ADD_SUB_OUT |-> upper.S * HALF + lower.S,
       NEG |-> ((sub # Top(b)) # Top(a)) # upper.CO]

(* ADD_SUB32: both upper halves are computed, the carry of the lower one     *)
(* selects; NEG is the sign of the 33-bit result.                           *)
AddSub32(a, b, sub) ==
  LET lower  == Adsu16(a % HALF, b % HALF, ~sub, sub)
      upper0 == Adsu16(a \div HALF, b \div HALF, ~sub, FALSE)
      upper1 == Adsu16(a \div HALF, b \div HALF, ~sub, TRUE)
      upper  == IF lower.CO THEN upper1 ELSE upper0
  IN  [ADD_SUB_OUT |-> upper.S * HALF + lower.S,
       NEG |-> ((sub # Top(b)) # Top(a)) # upper.CO]

(* COMP, its result padded with zeros. *)
Comp(f, neg, s) ==
  IF \/ s = 0 /\ Bit(f, 2)
     \/ neg /\ Bit(f, 4)
     \/ ~neg /\ Bit(f, 1) /\ s # 0
  THEN 1 ELSE 0

Alu(a, b, aluf, add, test) ==
  LET f   == IF add THEN 3 ELSE aluf
      sum == AddSub32(a, b, test \/ ~Bit(f, 1))
  IN  CASE test -> Comp(f, sum.NEG, sum.ADD_SUB_OUT)
        [] ~test /\ ~Bit(f, 4) -> sum.ADD_SUB_OUT
        [] ~test /\ Bit(f, 4) /\ Bit(f, 2) -> BitAnd[<<a, b>>]
        [] ~test /\ Bit(f, 4) /\ ~Bit(f, 2) ->
             IF Bit(f, 1) THEN BitOr[<<a, b>>] ELSE BitXor[<<a, b>>]

(* SHIFT_ENV: one place, a zero shifted in.                                  *)
Shifted(s, shift, right) ==
  IF ~shift THEN s ELSE IF right THEN s \div 2 ELSE (2 * s) % WORDS
=============================================================================
