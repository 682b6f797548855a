----------------------------- MODULE DlxProofs -----------------------------
(***************************************************************************)
(* Proofs about the DLX computer, for every word length, memory size,       *)
(* register count, program and meaning of the words: the handshake of bus    *)
(* and memory, the fields of a word, the adder, and, from these, that the    *)
(* clocked computer implements the instruction set (DlxIsa).                *)
(***************************************************************************)
EXTENDS Dlx, TLAPS

(* The handshake of MAC and memory: the memory's delay line follows the      *)
(* strobe, its answer comes only while the strobe is held, and the control   *)
(* does not leave an access before the answer.                              *)
Handshake ==
  /\ busy_d => busy
  /\ busy => MAC_state # "WAIT4REQ"
  /\ int_done => busy_d /\ MAC_state = "WAIT4ACK"
  /\ MAC_state = "WAIT4ACK" => Request

(* What the memory's output register holds while the memory answers.        *)
WordRead == int_done /\ ~mw(state) => DO_S = main_mem[AO]

-----------------------------------------------------------------------------
(* A word is two halves: putting a half above another gives a word.          *)
LEMMA HalvesMakeAWord ==
  ASSUME NEW upper \in 0..(HALF - 1), NEW lower \in 0..(HALF - 1)
  PROVE  upper * HALF + lower \in Word
<1>1. HALF \in Nat /\ HALF >= 2  BY WordsAssumption
<1>2. upper * HALF <= (HALF - 1) * HALF  BY <1>1, SMT
<1>3. (HALF - 1) * HALF = HALF * HALF - HALF  BY <1>1, SMT
<1>4. upper * HALF \in Nat /\ HALF * HALF \in Nat  BY <1>1, SMT
<1> QED  BY <1>1, <1>2, <1>3, <1>4, SMT DEF Word, WORDS

(* The number of words.                                                     *)
LEMMA WordsPositive == WORDS \in Nat /\ WORDS >= 4
  BY WordsAssumption, SMT DEF WORDS

(* What is left of a number when whole turns are taken from it.              *)
LEMMA RemainderUnique ==
  ASSUME NEW m \in Nat, m > 0, NEW n \in Int, NEW q \in Int, NEW r \in 0..(m - 1),
         n = q * m + r
  PROVE  n % m = r
<1> DEFINE p == n \div m
           s == n % m
<1>1. p \in Int /\ s \in 0..(m - 1) /\ n = m * p + s
  OBVIOUS
<1> HIDE DEF p, s
<1>2. (q - p) * m = s - r
  BY <1>1
<1>3. q - p = 0
  <2>1. ~(q - p >= 1)
    <3> SUFFICES ASSUME q - p >= 1 PROVE FALSE
      OBVIOUS
    <3>1. (q - p) * m >= m
      BY <1>1
    <3> QED BY <1>1, <1>2, <3>1
  <2>2. ~(q - p <= -1)
    <3> SUFFICES ASSUME q - p <= -1 PROVE FALSE
      OBVIOUS
    <3>1. (q - p) * m <= -m
      BY <1>1
    <3> QED BY <1>1, <1>2, <3>1
  <2> QED BY <1>1, <2>1, <2>2
<1>4. s = r
  BY <1>1, <1>2, <1>3
<1> QED BY <1>4 DEF s

(* A sum or a difference of two numbers below m wraps at most once.          *)
LEMMA OneTurn ==
  ASSUME NEW m \in Nat, m > 0, NEW n \in Int, -m <= n, n < 2 * m
  PROVE  n % m = IF n < 0 THEN n + m ELSE IF n < m THEN n ELSE n - m
<1>1. CASE n < 0
  <2>1. n = (-1) * m + (n + m) /\ n + m \in 0..(m - 1)
    BY <1>1
  <2> QED BY <1>1, <2>1, RemainderUnique
<1>2. CASE 0 <= n /\ n < m
  <2>1. n = 0 * m + n /\ n \in 0..(m - 1)
    BY <1>2
  <2> QED BY <1>2, <2>1, RemainderUnique
<1>3. CASE m <= n
  <2>1. n = 1 * m + (n - m) /\ n - m \in 0..(m - 1)
    BY <1>3
  <2> QED BY <1>3, <2>1, RemainderUnique
<1> QED BY <1>1, <1>2, <1>3

(* The halves of a word.                                                    *)
LEMMA Halves ==
  ASSUME NEW w \in Word
  PROVE  /\ w \in Nat /\ w < WORDS
         /\ w % HALF \in 0..(HALF - 1) /\ w \div HALF \in 0..(HALF - 1)
         /\ w = (w \div HALF) * HALF + (w % HALF)
<1> DEFINE q == w \div HALF
           r == w % HALF
<1>1. HALF \in Nat /\ HALF >= 2 /\ w \in Nat /\ w < HALF * HALF
  BY WordsAssumption, WordsPositive DEF Word, WORDS
<1>2. q \in Int /\ r \in 0..(HALF - 1) /\ w = HALF * q + r
  BY <1>1
<1> HIDE DEF q, r
<1>3. q >= 0
  <2> SUFFICES ASSUME q <= -1 PROVE FALSE
    BY <1>2
  <2>1. HALF * q <= -HALF
    BY <1>1, <1>2
  <2> QED BY <1>1, <1>2, <2>1
<1>4. q <= HALF - 1
  <2> SUFFICES ASSUME q >= HALF PROVE FALSE
    BY <1>1, <1>2
  <2>1. HALF * q >= HALF * HALF
    BY <1>1, <1>2
  <2> QED BY <1>1, <1>2, <2>1
<1>5. w = q * HALF + r
  BY <1>1, <1>2
<1> QED BY <1>1, <1>2, <1>3, <1>4, <1>5 DEF q, r, WORDS

LEMMA SumFields ==
  ASSUME NEW s, NEW n, NEW r, r = [ADD_SUB_OUT |-> s, NEG |-> n]
  PROVE  r.ADD_SUB_OUT = s /\ (r.NEG <=> n)
OBVIOUS

LEMMA HalfFields ==
  ASSUME NEW s, NEW c \in BOOLEAN, NEW r, r = [S |-> s, CO |-> c]
  PROVE  r.S = s /\ (r.CO <=> c) /\ r.CO \in BOOLEAN
OBVIOUS

(* One half of the adder: its sum, and its carry or that there was no borrow. *)
LEMMA HalfSum ==
  ASSUME NEW a \in 0..(HALF - 1), NEW b \in 0..(HALF - 1)
  PROVE  /\ Adsu16(a, b, TRUE, FALSE).CO <=> a + b >= HALF
         /\ Adsu16(a, b, TRUE, FALSE).S = IF a + b >= HALF THEN (a + b) - HALF ELSE a + b
         /\ Adsu16(a, b, TRUE, FALSE).CO \in BOOLEAN
<1> DEFINE r == Adsu16(a, b, TRUE, FALSE)
           n == a + b
           s == n % HALF
           c == n >= HALF
<1>1. r = [S |-> s, CO |-> c]
  <2>1. a + b + 0 = n
    BY WordsAssumption
  <2> QED BY <2>1 DEF Adsu16
<1>2. HALF \in Nat /\ HALF >= 2 /\ n \in Int /\ 0 <= n /\ n < 2 * HALF
  BY WordsAssumption
<1>3. s = IF n >= HALF THEN n - HALF ELSE n
  <2> HIDE DEF n
  <2> QED BY <1>2, OneTurn
<1>3a. c \in BOOLEAN
  OBVIOUS
<1> HIDE DEF r, s, c
<1>4. r.S = s /\ (r.CO <=> c) /\ r.CO \in BOOLEAN
  BY <1>1, <1>3a, HalfFields
<1>5. r.S = s /\ (r.CO <=> n >= HALF) /\ r.CO \in BOOLEAN
  BY <1>4 DEF c
<1>6. r.S = IF n >= HALF THEN n - HALF ELSE n
  BY <1>3, <1>5
<1> QED BY <1>5, <1>6 DEF r

LEMMA HalfSumCarry ==
  ASSUME NEW a \in 0..(HALF - 1), NEW b \in 0..(HALF - 1)
  PROVE  /\ Adsu16(a, b, TRUE, TRUE).CO <=> a + b + 1 >= HALF
         /\ Adsu16(a, b, TRUE, TRUE).S = IF a + b + 1 >= HALF THEN (a + b + 1) - HALF ELSE a + b + 1
         /\ Adsu16(a, b, TRUE, TRUE).CO \in BOOLEAN
<1> DEFINE r == Adsu16(a, b, TRUE, TRUE)
           n == a + b + 1
           s == n % HALF
           c == n >= HALF
<1>1. r = [S |-> s, CO |-> c]
  <2>1. a + b + 1 = n
    BY WordsAssumption
  <2> QED BY <2>1 DEF Adsu16
<1>2. HALF \in Nat /\ HALF >= 2 /\ n \in Int /\ 0 <= n /\ n < 2 * HALF
  BY WordsAssumption
<1>3. s = IF n >= HALF THEN n - HALF ELSE n
  <2> HIDE DEF n
  <2> QED BY <1>2, OneTurn
<1>3a. c \in BOOLEAN
  OBVIOUS
<1> HIDE DEF r, s, c
<1>4. r.S = s /\ (r.CO <=> c) /\ r.CO \in BOOLEAN
  BY <1>1, <1>3a, HalfFields
<1>5. r.S = s /\ (r.CO <=> n >= HALF) /\ r.CO \in BOOLEAN
  BY <1>4 DEF c
<1>6. r.S = IF n >= HALF THEN n - HALF ELSE n
  BY <1>3, <1>5
<1> QED BY <1>5, <1>6 DEF r

LEMMA HalfDifference ==
  ASSUME NEW a \in 0..(HALF - 1), NEW b \in 0..(HALF - 1)
  PROVE  /\ Adsu16(a, b, FALSE, TRUE).CO <=> a - b >= 0
         /\ Adsu16(a, b, FALSE, TRUE).S = IF a - b >= 0 THEN a - b ELSE a - b + HALF
         /\ Adsu16(a, b, FALSE, TRUE).CO \in BOOLEAN
<1> DEFINE r == Adsu16(a, b, FALSE, TRUE)
           n == a - b
           s == n % HALF
           c == n >= 0
<1>1. r = [S |-> s, CO |-> c]
  <2>1. a - b - (1 - 1) = n
    BY WordsAssumption
  <2> QED BY <2>1 DEF Adsu16
<1>2. HALF \in Nat /\ HALF >= 2 /\ n \in Int /\ -HALF <= n /\ n < HALF
  BY WordsAssumption
<1>3. s = IF n >= 0 THEN n ELSE n + HALF
  <2> HIDE DEF n
  <2> QED BY <1>2, OneTurn
<1>3a. c \in BOOLEAN
  OBVIOUS
<1> HIDE DEF r, s, c
<1>4. r.S = s /\ (r.CO <=> c) /\ r.CO \in BOOLEAN
  BY <1>1, <1>3a, HalfFields
<1>5. r.S = s /\ (r.CO <=> n >= 0) /\ r.CO \in BOOLEAN
  BY <1>4 DEF c
<1>6. r.S = IF n >= 0 THEN n ELSE n + HALF
  BY <1>3, <1>5
<1> QED BY <1>5, <1>6 DEF r

LEMMA HalfDifferenceBorrow ==
  ASSUME NEW a \in 0..(HALF - 1), NEW b \in 0..(HALF - 1)
  PROVE  /\ Adsu16(a, b, FALSE, FALSE).CO <=> a - b - 1 >= 0
         /\ Adsu16(a, b, FALSE, FALSE).S = IF a - b - 1 >= 0 THEN a - b - 1 ELSE a - b - 1 + HALF
         /\ Adsu16(a, b, FALSE, FALSE).CO \in BOOLEAN
<1> DEFINE r == Adsu16(a, b, FALSE, FALSE)
           n == a - b - 1
           s == n % HALF
           c == n >= 0
<1>1. r = [S |-> s, CO |-> c]
  <2>1. a - b - (1 - 0) = n
    BY WordsAssumption
  <2> QED BY <2>1 DEF Adsu16
<1>2. HALF \in Nat /\ HALF >= 2 /\ n \in Int /\ -HALF <= n /\ n < HALF
  BY WordsAssumption
<1>3. s = IF n >= 0 THEN n ELSE n + HALF
  <2> HIDE DEF n
  <2> QED BY <1>2, OneTurn
<1>3a. c \in BOOLEAN
  OBVIOUS
<1> HIDE DEF r, s, c
<1>4. r.S = s /\ (r.CO <=> c) /\ r.CO \in BOOLEAN
  BY <1>1, <1>3a, HalfFields
<1>5. r.S = s /\ (r.CO <=> n >= 0) /\ r.CO \in BOOLEAN
  BY <1>4 DEF c
<1>6. r.S = IF n >= 0 THEN n ELSE n + HALF
  BY <1>3, <1>5
<1> QED BY <1>5, <1>6 DEF r

(* The adder adds: the carry of the lower half selects the right upper half.  *)
LEMMA Adds ==
  ASSUME NEW a \in Word, NEW b \in Word
  PROVE  AddSub32(a, b, FALSE).ADD_SUB_OUT = (a + b) % WORDS
<1> DEFINE al == a % HALF  bl == b % HALF
           ah == a \div HALF  bh == b \div HALF
           lower == Adsu16(al, bl, TRUE, FALSE)
           upper0 == Adsu16(ah, bh, TRUE, FALSE)
           upper1 == Adsu16(ah, bh, TRUE, TRUE)
           upper == IF lower.CO THEN upper1 ELSE upper0
<1>1. AddSub32(a, b, FALSE).ADD_SUB_OUT = upper.S * HALF + lower.S
  BY DEF AddSub32
<1>2. /\ al \in 0..(HALF - 1) /\ ah \in 0..(HALF - 1) /\ a = ah * HALF + al
      /\ bl \in 0..(HALF - 1) /\ bh \in 0..(HALF - 1) /\ b = bh * HALF + bl
      /\ a \in Nat /\ b \in Nat /\ a < WORDS /\ b < WORDS
  BY Halves
<1> HIDE DEF al, bl, ah, bh
<1>3. /\ lower.CO <=> al + bl >= HALF
      /\ lower.S = IF al + bl >= HALF THEN (al + bl) - HALF ELSE al + bl
  BY <1>2, HalfSum, Zenon
<1>4. /\ upper0.S = IF ah + bh >= HALF THEN (ah + bh) - HALF ELSE ah + bh
      /\ upper1.S = IF ah + bh + 1 >= HALF THEN (ah + bh + 1) - HALF ELSE ah + bh + 1
  BY <1>2, HalfSum, HalfSumCarry, Zenon
<1> HIDE DEF lower, upper0, upper1
<1>5. HALF \in Nat /\ HALF >= 2 /\ WORDS = HALF * HALF /\ WORDS \in Nat /\ WORDS >= 4
  BY WordsAssumption, WordsPositive DEF WORDS
<1>5a. HALF \in Nat /\ WORDS \in Nat
  BY <1>5
<1>6. (a + b) % WORDS = IF a + b < WORDS THEN a + b ELSE a + b - WORDS
  BY <1>2, <1>5, OneTurn
<1> DEFINE x == ah * HALF  y == bh * HALF
<1>7. /\ x \in Nat /\ y \in Nat
      /\ (ah + bh) * HALF = x + y /\ (ah + bh - HALF) * HALF = x + y - WORDS
      /\ (ah + bh + 1) * HALF = x + y + HALF
      /\ (ah + bh + 1 - HALF) * HALF = x + y + HALF - WORDS
  BY <1>2, <1>5
<1>8. /\ ah + bh >= HALF => x + y >= WORDS
      /\ ah + bh + 1 >= HALF => x + y + HALF >= WORDS
      /\ ah + bh < HALF => x + y <= WORDS - HALF
      /\ ah + bh + 1 < HALF => x + y + HALF <= WORDS - HALF
  <2>1. ASSUME NEW n \in Int
        PROVE  /\ n >= HALF => n * HALF >= WORDS
               /\ n < HALF => n * HALF <= WORDS - HALF
    BY <1>5
  <2> QED BY <1>2, <1>5, <1>7, <2>1
<1>9. a = x + al /\ b = y + bl
  BY <1>2
<1>10. x \in Nat /\ y \in Nat /\ al \in 0..(HALF - 1) /\ bl \in 0..(HALF - 1)
      /\ ah \in Nat /\ bh \in Nat
  BY <1>2, <1>7
<1>11. upper.S * HALF = IF lower.CO
                       THEN IF ah + bh + 1 >= HALF THEN x + y + HALF - WORDS ELSE x + y + HALF
                       ELSE IF ah + bh >= HALF THEN x + y - WORDS ELSE x + y
  BY <1>2, <1>4, <1>5, <1>7
<1> HIDE DEF x, y, upper
<1>12. upper.S * HALF + lower.S = (a + b) % WORDS
  <2>1. CASE al + bl >= HALF /\ ah + bh + 1 >= HALF
    BY <1>3, <1>5a, <1>6, <1>8, <1>9, <1>10, <1>11, <2>1
  <2>2. CASE al + bl >= HALF /\ ah + bh + 1 < HALF
    BY <1>3, <1>5a, <1>6, <1>8, <1>9, <1>10, <1>11, <2>2
  <2>3. CASE al + bl < HALF /\ ah + bh >= HALF
    BY <1>3, <1>5a, <1>6, <1>8, <1>9, <1>10, <1>11, <2>3
  <2>4. CASE al + bl < HALF /\ ah + bh < HALF
    BY <1>3, <1>5a, <1>6, <1>8, <1>9, <1>10, <1>11, <2>4
  <2> QED BY <1>5a, <1>10, <2>1, <2>2, <2>3, <2>4
<1> QED BY <1>1, <1>12, Zenon

(* It subtracts, too, and tells the sign of the difference.                   *)
LEMMA Subtracts ==
  ASSUME NEW a \in Word, NEW b \in Word
  PROVE  /\ AddSub32(a, b, TRUE).ADD_SUB_OUT = (a - b) % WORDS
         /\ AddSub32(a, b, TRUE).NEG <=> ((Top(a) <=> Top(b)) /\ a < b) \/ (Top(a) /\ ~Top(b))
<1> DEFINE al == a % HALF  bl == b % HALF
           ah == a \div HALF  bh == b \div HALF
           lower == Adsu16(al, bl, FALSE, TRUE)
           upper0 == Adsu16(ah, bh, FALSE, FALSE)
           upper1 == Adsu16(ah, bh, FALSE, TRUE)
           upper == IF lower.CO THEN upper1 ELSE upper0
           neg == ((TRUE # Top(b)) # Top(a)) # upper.CO
<1>1. AddSub32(a, b, TRUE) = [ADD_SUB_OUT |-> upper.S * HALF + lower.S, NEG |-> neg]
  BY DEF AddSub32
<1>2. /\ al \in 0..(HALF - 1) /\ ah \in 0..(HALF - 1) /\ a = ah * HALF + al
      /\ bl \in 0..(HALF - 1) /\ bh \in 0..(HALF - 1) /\ b = bh * HALF + bl
      /\ a \in Nat /\ b \in Nat /\ a < WORDS /\ b < WORDS
  BY Halves
<1> HIDE DEF al, bl, ah, bh
<1>3. /\ lower.CO <=> al - bl >= 0
      /\ lower.S = IF al - bl >= 0 THEN al - bl ELSE al - bl + HALF
  BY <1>2, HalfDifference, Zenon
<1>4. /\ upper0.S = IF ah - bh - 1 >= 0 THEN ah - bh - 1 ELSE ah - bh - 1 + HALF
      /\ upper1.S = IF ah - bh >= 0 THEN ah - bh ELSE ah - bh + HALF
      /\ upper0.CO <=> ah - bh - 1 >= 0
      /\ upper1.CO <=> ah - bh >= 0
  BY <1>2, HalfDifference, HalfDifferenceBorrow, Zenon
<1> HIDE DEF lower, upper0, upper1
<1>5. HALF \in Nat /\ HALF >= 2 /\ WORDS = HALF * HALF /\ WORDS \in Nat /\ WORDS >= 4
  BY WordsAssumption, WordsPositive DEF WORDS
<1>5a. HALF \in Nat /\ WORDS \in Nat
  BY <1>5
<1>6. (a - b) % WORDS = IF a - b < 0 THEN a - b + WORDS ELSE a - b
  BY <1>2, <1>5, OneTurn
<1> DEFINE x == ah * HALF  y == bh * HALF
<1>7. /\ x \in Nat /\ y \in Nat
      /\ (ah - bh) * HALF = x - y /\ (ah - bh + HALF) * HALF = x - y + WORDS
      /\ (ah - bh - 1) * HALF = x - y - HALF
      /\ (ah - bh - 1 + HALF) * HALF = x - y - HALF + WORDS
  BY <1>2, <1>5
<1>8. /\ ah - bh >= 0 => x - y >= 0
      /\ ah - bh - 1 >= 0 => x - y >= HALF
      /\ ah - bh < 0 => x - y <= -HALF
      /\ ah - bh - 1 < 0 => x - y <= 0
  <2>1. ASSUME NEW n \in Int
        PROVE  /\ n >= 0 => n * HALF >= 0
               /\ n < 0 => n * HALF <= -HALF
    BY <1>5
  <2> QED BY <1>2, <1>5, <1>7, <2>1
<1>9. a = x + al /\ b = y + bl
  BY <1>2
<1>10. x \in Nat /\ y \in Nat /\ al \in 0..(HALF - 1) /\ bl \in 0..(HALF - 1)
      /\ ah \in Nat /\ bh \in Nat
  BY <1>2, <1>7
<1>11. upper.S * HALF = IF lower.CO
                       THEN IF ah - bh >= 0 THEN x - y ELSE x - y + WORDS
                       ELSE IF ah - bh - 1 >= 0 THEN x - y - HALF ELSE x - y - HALF + WORDS
  BY <1>2, <1>4, <1>5, <1>7
<1>11a. upper0.CO \in BOOLEAN /\ upper1.CO \in BOOLEAN
  <2>1. Adsu16(ah, bh, FALSE, FALSE).CO \in BOOLEAN /\ Adsu16(ah, bh, FALSE, TRUE).CO \in BOOLEAN
    BY <1>2, HalfDifference, HalfDifferenceBorrow, Zenon
  <2> QED BY <2>1, Zenon DEF upper0, upper1
<1>11b. upper.CO \in BOOLEAN
  BY <1>11a
<1>12. upper.CO <=> IF lower.CO THEN ah - bh >= 0 ELSE ah - bh - 1 >= 0
  BY <1>4
<1> HIDE DEF x, y, upper
<1>13. upper.S * HALF + lower.S = (a - b) % WORDS /\ (upper.CO <=> ~(a < b))
  <2>1. CASE al - bl >= 0 /\ ah - bh >= 0
    BY <1>3, <1>5a, <1>6, <1>8, <1>9, <1>10, <1>11, <1>12, <2>1
  <2>2. CASE al - bl >= 0 /\ ah - bh < 0
    BY <1>3, <1>5a, <1>6, <1>8, <1>9, <1>10, <1>11, <1>12, <2>2
  <2>3. CASE al - bl < 0 /\ ah - bh - 1 >= 0
    BY <1>3, <1>5a, <1>6, <1>8, <1>9, <1>10, <1>11, <1>12, <2>3
  <2>4. CASE al - bl < 0 /\ ah - bh - 1 < 0
    BY <1>3, <1>5a, <1>6, <1>8, <1>9, <1>10, <1>11, <1>12, <2>4
  <2> QED BY <1>5a, <1>10, <2>1, <2>2, <2>3, <2>4
<1>14. Top(a) /\ ~Top(b) => ~(a < b)
  BY <1>2, <1>5a DEF Top
<1>15. ~Top(a) /\ Top(b) => a < b
  BY <1>2, <1>5a DEF Top
<1>16. Top(a) \in BOOLEAN /\ Top(b) \in BOOLEAN
  BY DEF Top
<1>17. neg <=> ((Top(a) <=> Top(b)) /\ a < b) \/ (Top(a) /\ ~Top(b))
  BY <1>11b, <1>13, <1>14, <1>15, <1>16
<1> DEFINE out == upper.S * HALF + lower.S
<1> HIDE DEF out, neg
<1>18. AddSub32(a, b, TRUE) = [ADD_SUB_OUT |-> out, NEG |-> neg]
  BY <1>1, Zenon DEF out
<1>19. AddSub32(a, b, TRUE).ADD_SUB_OUT = out /\ (AddSub32(a, b, TRUE).NEG <=> neg)
  BY <1>18, SumFields, Zenon
<1>20. out = (a - b) % WORDS
  BY <1>13 DEF out
<1> QED BY <1>17, <1>19, <1>20, Zenon

(* The adder works on words and makes a word.                               *)
LEMMA AdderType ==
  ASSUME NEW a \in Word, NEW b \in Word, NEW sub \in BOOLEAN
  PROVE  AddSub32(a, b, sub).ADD_SUB_OUT \in Word
<1>1. HALF \in Nat /\ HALF >= 2  BY WordsAssumption
<1> DEFINE lower  == Adsu16(a % HALF, b % HALF, ~sub, sub)
           upper0 == Adsu16(a \div HALF, b \div HALF, ~sub, FALSE)
           upper1 == Adsu16(a \div HALF, b \div HALF, ~sub, TRUE)
           upper  == IF lower.CO THEN upper1 ELSE upper0
<1>2. ASSUME NEW x \in Int, NEW y \in Int, NEW add \in BOOLEAN, NEW ci \in BOOLEAN
      PROVE  Adsu16(x, y, add, ci).S \in 0..(HALF - 1)
  <2>1. ASSUME NEW n \in Int PROVE n % HALF \in 0..(HALF - 1)  BY <1>1
  <2> QED  BY <2>1 DEF Adsu16
<1>3. a \in Int /\ b \in Int  BY DEF Word
<1>4. a % HALF \in Int /\ b % HALF \in Int /\ a \div HALF \in Int /\ b \div HALF \in Int
  BY <1>1, <1>3
<1>5. lower.S \in 0..(HALF - 1) /\ upper0.S \in 0..(HALF - 1) /\ upper1.S \in 0..(HALF - 1)
  BY <1>2, <1>4
<1>6. upper.S \in 0..(HALF - 1)  BY <1>5
<1>7. AddSub32(a, b, sub).ADD_SUB_OUT = upper.S * HALF + lower.S  BY DEF AddSub32
<1> HIDE DEF lower, upper
<1> QED  BY <1>5, <1>6, <1>7, HalvesMakeAWord

(* The ALU and the shifter, too.                                            *)
LEMMA AluType ==
  ASSUME NEW a \in Word, NEW b \in Word, NEW aluf \in Int,
         NEW add \in BOOLEAN, NEW test \in BOOLEAN
  PROVE  Alu(a, b, aluf, add, test) \in Word
<1> DEFINE f   == IF add THEN 3 ELSE aluf
           sub == test \/ ~Bit(f, 1)
           sum == AddSub32(a, b, sub)
<1>1. sum.ADD_SUB_OUT \in Word  BY AdderType
<1>2. Comp(f, sum.NEG, sum.ADD_SUB_OUT) \in Word
  BY WordsPositive DEF Comp, Word
<1>3. <<a, b>> \in Word \X Word  OBVIOUS
<1>4. BitAnd[<<a, b>>] \in Word /\ BitOr[<<a, b>>] \in Word /\ BitXor[<<a, b>>] \in Word
  BY <1>3, WordsAssumption
<1>5. test \in BOOLEAN /\ Bit(f, 4) \in BOOLEAN /\ Bit(f, 2) \in BOOLEAN
  BY DEF Bit
<1>6. CASE test
  BY <1>2, <1>6 DEF Alu
<1>7. CASE ~test /\ ~Bit(f, 4)
  BY <1>1, <1>7 DEF Alu
<1>8. CASE ~test /\ Bit(f, 4) /\ Bit(f, 2)
  BY <1>4, <1>8 DEF Alu
<1>9. CASE ~test /\ Bit(f, 4) /\ ~Bit(f, 2)
  BY <1>4, <1>9 DEF Alu
<1> QED  BY <1>5, <1>6, <1>7, <1>8, <1>9

LEMMA ShifterType ==
  ASSUME NEW s \in Word, NEW shift \in BOOLEAN, NEW right \in BOOLEAN
  PROVE  Shifted(s, shift, right) \in Word
<1>1. s \in Int /\ 0 <= s /\ s < WORDS  BY WordsPositive DEF Word
<1>2. s \div 2 \in Int /\ 0 <= s \div 2 /\ s \div 2 <= s  BY <1>1, SMT
<1>3. (2 * s) % WORDS \in 0..(WORDS - 1)  BY <1>1, WordsPositive, SMT
<1> QED  BY <1>1, <1>2, <1>3, WordsPositive DEF Shifted, Word

(* The fields of the instruction register.                                  *)
LEMMA FieldTypes ==
  ASSUME TypeOK
  PROVE  /\ fields \in Instruction
         /\ fields.rs \in Reg /\ fields.rt \in Reg /\ fields.rd \in Reg
         /\ fields.imm \in Word /\ fields.opcode \in Int /\ fields.func \in Int
<1>1. IR \in Word  BY DEF TypeOK
<1>2. fields \in Instruction  BY <1>1, WordsAssumption DEF fields
<1> QED  BY <1>2 DEF Instruction

(* Whatever the control selects, the data path carries words.               *)
LEMMA DintType ==
  ASSUME TypeOK
  PROVE  DINT \in Word
<1>1. /\ PC \in Word /\ A \in Word /\ B \in Word /\ MDR \in Word
      /\ 0 \in Word /\ 1 \in Word
  BY WordsPositive DEF TypeOK, Word
<1>2. S1SEL0(state) \in BOOLEAN /\ S1SEL1(state) \in BOOLEAN
  BY DEF S1SEL0, S1SEL1
<1>3. S2SEL0(state) \in BOOLEAN /\ S2SEL1(state) \in BOOLEAN
  BY DEF S2SEL0, S2SEL1
<1>4. S1 \in Word
  <2>1. CASE ~S1SEL1(state) /\ ~S1SEL0(state)  BY <1>1, <2>1 DEF S1
  <2>2. CASE ~S1SEL1(state) /\ S1SEL0(state)   BY <1>1, <2>2 DEF S1
  <2>3. CASE S1SEL1(state) /\ ~S1SEL0(state)   BY <1>1, <2>3 DEF S1
  <2>4. CASE S1SEL1(state) /\ S1SEL0(state)    BY <1>1, <2>4 DEF S1
  <2> QED  BY <1>2, <2>1, <2>2, <2>3, <2>4
<1>5. S2 \in Word
  <2>1. CASE ~S2SEL1(state) /\ ~S2SEL0(state)  BY <1>1, <2>1 DEF S2
  <2>2. CASE ~S2SEL1(state) /\ S2SEL0(state)   BY FieldTypes, <2>2 DEF S2
  <2>3. CASE S2SEL1(state) /\ ~S2SEL0(state)   BY <1>1, <2>3 DEF S2
  <2>4. CASE S2SEL1(state) /\ S2SEL0(state)    BY <1>1, <2>4 DEF S2
  <2> QED  BY <1>3, <2>1, <2>2, <2>3, <2>4
<1>6. ALUF \in Int  BY FieldTypes DEF ALUF
<1>7. ADD(state) \in BOOLEAN /\ TEST(state) \in BOOLEAN /\ SHIFT(state) \in BOOLEAN
  BY DEF ADD, TEST, SHIFT
<1>8. Alu(S1, S2, ALUF, ADD(state), TEST(state)) \in Word
  BY <1>4, <1>5, <1>6, <1>7, AluType
<1>9. Shifted(S1, SHIFT(state), Bit(fields.func, 2)) \in Word
  <2>1. Bit(fields.func, 2) \in BOOLEAN  BY DEF Bit
  <2> QED  BY <1>4, <1>7, <2>1, ShifterType
<1> QED  BY <1>8, <1>9 DEF DINT

-----------------------------------------------------------------------------
(* The control stays among its states, and so does the MAC.                  *)
LEMMA NextStateType ==
  ASSUME NEW s \in ControlState, NEW opcode \in Int, NEW ir5 \in BOOLEAN,
         NEW bt \in BOOLEAN, NEW bus \in BOOLEAN, NEW step_en \in BOOLEAN
  PROVE  NextState(s, opcode, ir5, bt, bus, step_en) \in ControlState
<1>1. Ended(step_en) \in ControlState  BY DEF Ended, ControlState
<1>2. Decoded(opcode, ir5, step_en) \in ControlState
  BY <1>1 DEF Decoded, ControlState
<1> HIDE DEF Ended, Decoded
<1> QED  BY <1>1, <1>2 DEF NextState, ControlState

LEMMA MacNextType ==
  ASSUME NEW m \in MacState, NEW request \in BOOLEAN, NEW ack \in BOOLEAN
  PROVE  MacNext(m, request, ack) \in MacState
  BY DEF MacNext, MacState

(* The clock keeps every register in its type.                               *)
LEMMA ClockType == TypeOK /\ Clock => TypeOK'
<1> SUFFICES ASSUME TypeOK, Clock PROVE TypeOK'
  OBVIOUS
<1>1. /\ DINT \in Word /\ DI \in Word /\ AO \in Adr
  <2>1. DINT \in Word  BY DintType
  <2>2. DI \in Word  BY WordsPositive DEF DI, TypeOK, Word
  <2>3. ASSUME NEW w \in Word PROVE PhysicalAddress(w) \in Adr
    BY WordsAssumption DEF PhysicalAddress, Word, Adr
  <2>4. AO \in Adr  BY <2>3 DEF AO, TypeOK
  <2> QED  BY <2>1, <2>2, <2>4
<1>2. state' \in ControlState
  <2>1. PICK step_en \in BOOLEAN :
          state' = NextState(state, fields.opcode, Bit(fields.func, 32), BT, BUSY, step_en)
    BY DEF Clock
  <2>2. Bit(fields.func, 32) \in BOOLEAN /\ BT \in BOOLEAN /\ BUSY \in BOOLEAN
    BY DEF Bit, BT, BUSY, MacBusy
  <2> QED  BY <2>1, <2>2, FieldTypes, NextStateType DEF TypeOK
<1>3. MAC_state' \in MacState
  <2>1. Request \in BOOLEAN  BY DEF Request
  <2> QED  BY <2>1, MacNextType DEF Clock, TypeOK
<1>4. GPR' \in [Reg -> Word]
  BY DEF Clock, RegisterFile, TypeOK
<1>5. {PC, IR, A, B, C, MAR, MDR}' \subseteq Word
  <2>1. GPR[fields.rs] \in Word /\ GPR[fields.rt] \in Word
    BY FieldTypes DEF TypeOK
  <2> QED  BY <1>1, <2>1 DEF Clock, Registers, Load, TypeOK
<1>6. busy' \in BOOLEAN /\ busy_d' \in BOOLEAN /\ int_done' \in BOOLEAN
  BY DEF Clock, SramProgress, TypeOK, AddressStrobe
<1>7. main_mem' \in [Adr -> Word] /\ DO_S' \in Word
  BY <1>1 DEF Clock, SramAccess, TypeOK
<1>8. rom' \in [Adr -> Word]
  BY DEF Clock, TypeOK
<1> QED  BY <1>2, <1>3, <1>4, <1>5, <1>6, <1>7, <1>8 DEF TypeOK

(* Types are kept from power-up on.                                          *)
THEOREM TypeCorrect == Spec => []TypeOK
<1>1. Init => TypeOK
  <2>1. 0 \in Word  BY WordsPositive DEF Word
  <2> QED  BY <2>1, ProgramsAssumption DEF Init, TypeOK, ControlState, MacState
<1>2. TypeOK /\ [Next]_vars => TypeOK'
  <2> SUFFICES ASSUME TypeOK, [Next]_vars PROVE TypeOK'
    OBVIOUS
  <2>1. CASE Clock  BY <2>1, ClockType
  <2>2. CASE Reset
    <3>1. 0 \in Word  BY WordsPositive DEF Word
    <3> QED  BY <2>2, <3>1 DEF Reset, TypeOK, ControlState, MacState
  <2>3. CASE UNCHANGED vars  BY <2>3 DEF vars, TypeOK
  <2> QED  BY <2>1, <2>2, <2>3 DEF Next
<1> QED  BY <1>1, <1>2, PTL DEF Spec

-----------------------------------------------------------------------------
(* While an access is on, the control waits where it is.                     *)
LEMMA WaitsForAnswer ==
  ASSUME TypeOK, Clock, Request, ~int_done
  PROVE  state' = state
<1>1. state \in {"FETCH", "LOAD", "STORE"}  BY DEF Request, mr, mw
<1>2. BUSY  BY DEF BUSY, MacBusy
<1>3. PICK step_en \in BOOLEAN :
        state' = NextState(state, fields.opcode, Bit(fields.func, 32), BT, BUSY, step_en)
  BY DEF Clock
<1>4. ASSUME NEW op, NEW i5, NEW b
      PROVE  NextState(state, op, i5, b, BUSY, step_en) = state
  BY <1>1, <1>2 DEF NextState
<1> QED  BY <1>3, <1>4

LEMMA HandshakeKept == TypeOK /\ Handshake /\ [Next]_vars => Handshake'
<1> SUFFICES ASSUME TypeOK, Handshake, [Next]_vars PROVE Handshake'
  OBVIOUS
<1>1. CASE Clock
  <2> USE <1>1
  <2>1. MAC_state' = MacNext(MAC_state, Request, int_done)  BY DEF Clock
  <2>2. /\ busy' = (MAC_state = "WAIT4ACK")
        /\ busy_d' = (MAC_state = "WAIT4ACK" /\ busy)
        /\ int_done' = (MAC_state = "WAIT4ACK"
                          /\ (IF busy_d THEN ~int_done ELSE int_done))
    BY DEF Clock, SramProgress, AddressStrobe
  <2>3. MAC_state \in MacState /\ busy \in BOOLEAN /\ busy_d \in BOOLEAN
        /\ int_done \in BOOLEAN
    BY DEF TypeOK
  <2>4. (busy_d => busy)'  BY <2>2
  <2>5. (busy => MAC_state # "WAIT4REQ")'
    BY <2>1, <2>2 DEF MacNext
  <2>6. (int_done => busy_d /\ MAC_state = "WAIT4ACK")'
    <3>1. ASSUME int_done' PROVE MAC_state = "WAIT4ACK" /\ busy_d /\ ~int_done
      BY <2>2, <2>3, <3>1 DEF Handshake
    <3> QED  BY <2>1, <2>2, <3>1 DEF MacNext, Handshake
  <2>7. (MAC_state = "WAIT4ACK" => Request)'
    <3> SUFFICES ASSUME MAC_state' = "WAIT4ACK" PROVE Request'
      OBVIOUS
    <3>1. Request \in BOOLEAN  BY DEF Request
    <3>2. Request /\ ~int_done
      BY <2>1, <2>3, <3>1 DEF MacNext, MacState, Handshake
    <3>3. state' = state  BY <3>2, WaitsForAnswer
    <3> QED  BY <3>2, <3>3 DEF Request
  <2> QED  BY <2>4, <2>5, <2>6, <2>7 DEF Handshake
<1>2. CASE Reset
  BY <1>2 DEF Reset, Handshake
<1>3. CASE UNCHANGED vars
  BY <1>3 DEF vars, Handshake, Request
<1> QED  BY <1>1, <1>2, <1>3 DEF Next

(* The handshake, for every program and every behaviour of step_en and of   *)
(* the reset.                                                               *)
THEOREM HandshakeCorrect == Spec => []Handshake
<1>1. Init => Handshake  BY DEF Init, Handshake
<1> QED  BY <1>1, HandshakeKept, TypeCorrect, PTL DEF Spec

(* Every answer of the memory belongs to the access the control waits in:    *)
(* no answer is left over for the next access, although the MAC's busy       *)
(* output looks at the answer alone.                                        *)
THEOREM Answers == Spec => []AnsweredInTurn
<1>1. Handshake => AnsweredInTurn  BY DEF Handshake, AnsweredInTurn
<1> QED  BY <1>1, HandshakeCorrect, PTL

-----------------------------------------------------------------------------
LEMMA WordReadKept == TypeOK /\ Handshake /\ WordRead /\ [Next]_vars => WordRead'
<1> SUFFICES ASSUME TypeOK, Handshake, WordRead, [Next]_vars PROVE WordRead'
  OBVIOUS
<1>1. CASE Clock
  <2> USE <1>1
  <2> SUFFICES ASSUME int_done', ~mw(state') PROVE (DO_S = main_mem[AO])'
    BY DEF WordRead
  <2>1. MAC_state = "WAIT4ACK" /\ busy_d /\ ~int_done
    BY DEF Clock, SramProgress, AddressStrobe, Handshake, TypeOK
  <2>2. Request  BY <2>1 DEF Handshake
  <2>3. state' = state  BY <2>1, <2>2, WaitsForAnswer
  <2>4. ~mw(state) /\ mr(state)  BY <2>2, <2>3 DEF Request
  <2>5. PC' = PC /\ MAR' = MAR
    BY <2>4 DEF Clock, Registers, Load, mr, PCce, MARce
  <2>6. main_mem' = main_mem /\ DO_S' = main_mem[AO]
    BY <2>1, <2>4 DEF Clock, SramAccess, AddressStrobe
  <2>7. AO' = AO  BY <2>3, <2>5 DEF AO, ASEL, PhysicalAddress
  <2> QED  BY <2>6, <2>7
<1>2. CASE Reset
  BY <1>2 DEF Reset, WordRead
<1>3. CASE UNCHANGED vars
  BY <1>3 DEF vars, WordRead, AO, ASEL, PhysicalAddress, mw
<1> QED  BY <1>1, <1>2, <1>3 DEF Next

LEMMA WordReadAlways == Spec => []WordRead
<1>1. Init => WordRead  BY DEF Init, WordRead
<1> QED BY <1>1, WordReadKept, HandshakeCorrect, TypeCorrect, PTL DEF Spec

(* A fetch or a load ends with the word that is in the memory at the address *)
(* on the bus.                                                              *)
THEOREM Reads == Spec => []ReadIsFresh
<1>1. WordRead => ReadIsFresh
  <2> SUFFICES ASSUME WordRead, int_done, mr(state) PROVE DI = main_mem[AO]
    BY DEF ReadIsFresh
  <2>1. ~mw(state)  BY DEF mr, mw
  <2> QED  BY <2>1 DEF WordRead, DI
<1> QED  BY <1>1, WordReadAlways, PTL

-----------------------------------------------------------------------------
(* The instruction set's operators are the ones of the words.                *)
LEMMA SameWords ==
  /\ ISA!WORDS = WORDS /\ ISA!Word = Word /\ ISA!Adr = Adr /\ ISA!Reg = Reg
  /\ \A n, w : ISA!Bit(n, w) <=> Bit(n, w)
  /\ \A w : ISA!PhysicalAddress(w) = PhysicalAddress(w)
  /\ \A a, b : ISA!Plus(a, b) = (a + b) % WORDS
<1>1. ISA!WORDS = WORDS
  BY DEF ISA!WORDS, WORDS
<1>2. ISA!Word = Word /\ ISA!Adr = Adr /\ ISA!Reg = Reg
  BY <1>1 DEF ISA!Word, Word, ISA!Adr, Adr, ISA!Reg, Reg
<1>3. \A n, w : ISA!Bit(n, w) <=> Bit(n, w)
  BY Zenon DEF ISA!Bit, Bit
<1>4. \A w : ISA!PhysicalAddress(w) = PhysicalAddress(w)
  BY DEF ISA!PhysicalAddress, PhysicalAddress
<1>5. \A a, b : ISA!Plus(a, b) = (a + b) % WORDS
  BY <1>1 DEF ISA!Plus
<1> QED BY <1>1, <1>2, <1>3, <1>4, <1>5

(* The three lowest bits of a code.                                          *)
LEMMA LowBits ==
  ASSUME NEW n \in 0..63
  PROVE  /\ n % 8 \in 0..7
         /\ Bit(n % 8, 1) <=> Bit(n, 1)
         /\ Bit(n % 8, 2) <=> Bit(n, 2)
         /\ Bit(n % 8, 4) <=> Bit(n, 4)
BY DEF Bit

LEMMA BitsOfThree ==
  ASSUME NEW f \in 0..7
  PROVE  /\ Bit(f, 1) <=> f \in {1, 3, 5, 7}
         /\ Bit(f, 2) <=> f \in {2, 3, 6, 7}
         /\ Bit(f, 4) <=> f \in {4, 5, 6, 7}
BY DEF Bit

(* With ADD the ALU adds, whatever the instruction says.                     *)
LEMMA AluAdds ==
  ASSUME NEW a \in Word, NEW b \in Word, NEW f
  PROVE  Alu(a, b, f, TRUE, FALSE) = ISA!Plus(a, b)
<1>1. Bit(3, 1) /\ ~Bit(3, 4)
  BY BitsOfThree
<1>2. Alu(a, b, f, TRUE, FALSE) = AddSub32(a, b, FALSE).ADD_SUB_OUT
  BY <1>1 DEF Alu
<1> QED BY <1>2, Adds, SameWords, Zenon

(* A register instruction's ALU does what its function says.                 *)
LEMMA AluComputes ==
  ASSUME NEW a \in Word, NEW b \in Word, NEW i \in Instruction, i.func >= 32
  PROVE  Alu(a, b, i.func % 8, FALSE, FALSE) = ISA!Computed(i, a, b)
<1> DEFINE f == i.func % 8
<1>1. f \in 0..7 /\ ~(i.func < 32)
  BY LowBits DEF Instruction
<1>2. ISA!Computed(i, a, b) = CASE f = 4        -> BitXor[<<a, b>>]
                                [] f = 5        -> BitOr[<<a, b>>]
                                [] f \in {6, 7} -> BitAnd[<<a, b>>]
                                [] f \in {1, 3} -> ISA!Plus(a, b)
                                [] f \in {0, 2} -> (a - b) % WORDS
  BY <1>1, SameWords DEF ISA!Computed
<1> HIDE DEF f
<1>3. CASE f \in {1, 3}
  <2>1. Bit(f, 1) /\ ~Bit(f, 4)
    BY <1>3, BitsOfThree
  <2>2. Alu(a, b, f, FALSE, FALSE) = AddSub32(a, b, FALSE).ADD_SUB_OUT
    BY <2>1 DEF Alu
  <2>3. Alu(a, b, f, FALSE, FALSE) = ISA!Plus(a, b)
    BY <2>2, Adds, SameWords, Zenon
  <2>4. ISA!Computed(i, a, b) = ISA!Plus(a, b)
    BY <1>2, <1>3
  <2> QED BY <2>3, <2>4, Zenon DEF f
<1>4. CASE f \in {0, 2}
  <2>1. ~Bit(f, 1) /\ ~Bit(f, 4)
    BY <1>4, BitsOfThree
  <2>2. Alu(a, b, f, FALSE, FALSE) = AddSub32(a, b, TRUE).ADD_SUB_OUT
    BY <2>1 DEF Alu
  <2>3. Alu(a, b, f, FALSE, FALSE) = (a - b) % WORDS
    BY <2>2, Subtracts, Zenon
  <2>4. ISA!Computed(i, a, b) = (a - b) % WORDS
    BY <1>2, <1>4
  <2> QED BY <2>3, <2>4, Zenon DEF f
<1>5. CASE f = 4
  <2>1. Bit(f, 4) /\ ~Bit(f, 2) /\ ~Bit(f, 1)
    BY <1>5, BitsOfThree
  <2>2. Alu(a, b, f, FALSE, FALSE) = BitXor[<<a, b>>]
    BY <2>1 DEF Alu
  <2>3. ISA!Computed(i, a, b) = BitXor[<<a, b>>]
    BY <1>2, <1>5
  <2> QED BY <2>2, <2>3, Zenon DEF f
<1>6. CASE f = 5
  <2>1. Bit(f, 4) /\ ~Bit(f, 2) /\ Bit(f, 1)
    BY <1>6, BitsOfThree
  <2>2. Alu(a, b, f, FALSE, FALSE) = BitOr[<<a, b>>]
    BY <2>1 DEF Alu
  <2>3. ISA!Computed(i, a, b) = BitOr[<<a, b>>]
    BY <1>2, <1>6
  <2> QED BY <2>2, <2>3, Zenon DEF f
<1>7. CASE f \in {6, 7}
  <2>1. Bit(f, 4) /\ Bit(f, 2)
    BY <1>7, BitsOfThree
  <2>2. Alu(a, b, f, FALSE, FALSE) = BitAnd[<<a, b>>]
    BY <2>1 DEF Alu
  <2>3. ISA!Computed(i, a, b) = BitAnd[<<a, b>>]
    BY <1>2, <1>7
  <2> QED BY <2>2, <2>3, Zenon DEF f
<1>8. f \in {1, 3} \/ f \in {0, 2} \/ f = 4 \/ f = 5 \/ f \in {6, 7}
  BY <1>1
<1> QED BY <1>3, <1>4, <1>5, <1>6, <1>7, <1>8, Zenon

(* The comparator's condition is the test of the signed numbers.             *)
LEMMA AluTests ==
  ASSUME NEW a \in Word, NEW b \in Word, NEW i \in Instruction
  PROVE  Alu(a, b, i.opcode % 8, FALSE, TRUE) = ISA!Tested(i, a, b)
<1> DEFINE f == i.opcode % 8
           sum == AddSub32(a, b, TRUE)
           d == (a - b) % WORDS
           neg == ((Top(a) <=> Top(b)) /\ a < b) \/ (Top(a) /\ ~Top(b))
<1>1. Alu(a, b, f, FALSE, TRUE) = Comp(f, sum.NEG, sum.ADD_SUB_OUT)
  BY DEF Alu
<1>2. sum.ADD_SUB_OUT = d /\ (sum.NEG <=> neg)
  BY Subtracts, Zenon
<1> DEFINE V == IF \/ d = 0 /\ Bit(f, 2)
                   \/ neg /\ Bit(f, 4)
                   \/ ~neg /\ Bit(f, 1) /\ d # 0
                THEN 1 ELSE 0
<1>3. Comp(f, sum.NEG, sum.ADD_SUB_OUT) = V
  <2> HIDE DEF sum, d, neg
  <2> QED BY <1>2 DEF Comp
<1>4. a \in Nat /\ b \in Nat /\ a < WORDS /\ b < WORDS /\ WORDS \in Nat /\ WORDS >= 4
  BY Halves, WordsPositive
<1>5. d = 0 <=> a = b
  BY <1>4, OneTurn
<1>6. PICK m \in Nat : WORDS = 2 * m
  <2>1. HALF \in Nat /\ HALF = 2 * (HALF \div 2)
    BY WordsAssumption
  <2> DEFINE h == HALF \div 2
  <2>2. h \in Nat
    BY <2>1, WordsAssumption
  <2> HIDE DEF h
  <2>3. HALF = 2 * h
    BY <2>1 DEF h
  <2>4. HALF * HALF = 2 * (h * HALF) /\ h * HALF \in Nat
    BY <2>1, <2>2, <2>3
  <2> QED BY <2>4 DEF WORDS
<1>7. WORDS \div 2 = m
  BY <1>6
<1>8. /\ ISA!Signed(a) = IF Top(a) THEN a - WORDS ELSE a
      /\ ISA!Signed(b) = IF Top(b) THEN b - WORDS ELSE b
  BY <1>4, <1>6, <1>7, SameWords DEF ISA!Signed, Top
<1>9. Top(a) <=> a >= m
  BY <1>4, <1>6 DEF Top
<1>10. Top(b) <=> b >= m
  BY <1>4, <1>6 DEF Top
<1>11. neg <=> ISA!Signed(a) < ISA!Signed(b)
  BY <1>4, <1>6, <1>8, <1>9, <1>10
<1>12. ~neg /\ d # 0 <=> ISA!Signed(a) > ISA!Signed(b)
  BY <1>4, <1>5, <1>6, <1>8, <1>9, <1>10
<1>13. /\ Bit(f, 1) <=> ISA!Bit(i.opcode, 1)
       /\ Bit(f, 2) <=> ISA!Bit(i.opcode, 2)
       /\ Bit(f, 4) <=> ISA!Bit(i.opcode, 4)
  BY LowBits, SameWords DEF Instruction
<1> HIDE DEF f, d, neg
<1>14. V = ISA!Tested(i, a, b)
  BY <1>5, <1>11, <1>12, <1>13 DEF ISA!Tested
<1> HIDE DEF V, sum
<1> QED BY <1>1, <1>3, <1>14, Zenon DEF f

(* A word and zero; the word before, and back.                               *)
LEMMA PlusFacts ==
  ASSUME NEW w \in Word
  PROVE  /\ ISA!Plus(w, 0) = w
         /\ ISA!Plus(w, 1) \in Word /\ (w - 1) % WORDS \in Word
         /\ ISA!Plus((w - 1) % WORDS, 1) = w
         /\ (ISA!Plus(w, 1) - 1) % WORDS = w
<1>1. w \in Nat /\ w < WORDS /\ WORDS \in Nat /\ WORDS >= 4
  BY Halves, WordsPositive
<1>2. \A x : ISA!Plus(x, 0) = (x + 0) % WORDS /\ ISA!Plus(x, 1) = (x + 1) % WORDS
  BY SameWords
<1>3. \A n \in -1..WORDS : n % WORDS = IF n < 0 THEN n + WORDS ELSE IF n < WORDS THEN n ELSE n - WORDS
  <2> TAKE n \in -1..WORDS
  <2>1. n \in Int /\ -WORDS <= n /\ n < 2 * WORDS
    BY <1>1
  <2> QED BY <1>1, <2>1, OneTurn
<1>4. (w + 0) % WORDS = w
  BY <1>1, <1>3
<1>5. (w + 1) % WORDS = IF w + 1 < WORDS THEN w + 1 ELSE 0
  BY <1>1, <1>3
<1>6. (w - 1) % WORDS = IF w = 0 THEN WORDS - 1 ELSE w - 1
  BY <1>1, <1>3
<1>7. (((w - 1) % WORDS) + 1) % WORDS = w
  BY <1>1, <1>3, <1>6
<1>8. (((w + 1) % WORDS) - 1) % WORDS = w
  BY <1>1, <1>3, <1>5
<1>9. (w + 1) % WORDS \in Word /\ (w - 1) % WORDS \in Word
  BY <1>1, <1>5, <1>6 DEF Word
<1> QED BY <1>2, <1>4, <1>7, <1>8, <1>9

(* What goes into the ALU, state by state.                                   *)
LEMMA Operands ==
  /\ state \in {"DECODE", "BTAKEN", "SAVEPC"} => S1 = PC
  /\ state \in {"ALU", "TESTI", "ALUI", "SHIFT_ST", "ADDRESSCMP", "JR", "JALR"} => S1 = A
  /\ state = "COPYGPR2MDR" => S1 = B
  /\ state = "COPYMDR2C" => S1 = MDR
  /\ state = "ALU" => S2 = B
  /\ state \in {"TESTI", "ALUI", "ADDRESSCMP", "BTAKEN"} => S2 = fields.imm
  /\ state \in {"JR", "SAVEPC", "JALR"} => S2 = 0
  /\ state = "DECODE" => S2 = 1
BY DEF S1, S2, S1SEL0, S1SEL1, S2SEL0, S2SEL1

(* What comes out of the ALU or the shifter, state by state.                  *)
LEMMA Results ==
  ASSUME TypeOK
  PROVE  /\ state = "DECODE" => DINT = ISA!Plus(PC, 1)
         /\ state \in {"ALUI", "ADDRESSCMP"} => DINT = ISA!Plus(A, fields.imm)
         /\ state = "BTAKEN" => DINT = ISA!Plus(PC, fields.imm)
         /\ state \in {"JR", "JALR"} => DINT = A
         /\ state = "SAVEPC" => DINT = PC
         /\ state = "TESTI" => DINT = ISA!Tested(fields, A, fields.imm)
         /\ state = "ALU" /\ fields.func >= 32 => DINT = ISA!Computed(fields, A, B)
         /\ state = "SHIFT_ST" /\ fields.func < 32 => DINT = ISA!Computed(fields, A, B)
         /\ state = "COPYMDR2C" => DINT = MDR
         /\ state = "COPYGPR2MDR" => DINT = B
<1>1. /\ PC \in Word /\ A \in Word /\ B \in Word /\ MDR \in Word
      /\ 0 \in Word /\ 1 \in Word /\ fields.imm \in Word /\ fields \in Instruction
  BY WordsPositive, FieldTypes DEF TypeOK, Word
<1>2. state \in {"DECODE", "ALUI", "ADDRESSCMP", "BTAKEN", "JR", "JALR", "SAVEPC"}
        => DINT = Alu(S1, S2, ALUF, TRUE, FALSE)
  <2> SUFFICES ASSUME state \in {"DECODE", "ALUI", "ADDRESSCMP", "BTAKEN", "JR", "JALR", "SAVEPC"}
               PROVE  DINT = Alu(S1, S2, ALUF, TRUE, FALSE)
    OBVIOUS
  <2>1. ADD(state) = TRUE /\ TEST(state) = FALSE /\ ~DINTSEL(state)
    BY DEF ADD, TEST, DINTSEL
  <2> QED BY <2>1, Zenon DEF DINT
<1>3. state \in {"DECODE", "ALUI", "ADDRESSCMP", "BTAKEN", "JR", "JALR", "SAVEPC"}
        => DINT = ISA!Plus(S1, S2)
  <2>1. state \in {"DECODE", "ALUI", "ADDRESSCMP", "BTAKEN", "JR", "JALR", "SAVEPC"}
          => S1 \in Word /\ S2 \in Word
    BY <1>1, Operands
  <2> QED BY <1>2, <2>1, AluAdds, Zenon
<1>4. CASE state \in {"DECODE", "ALUI", "ADDRESSCMP", "BTAKEN", "JR", "JALR", "SAVEPC"}
  <2>1. ISA!Plus(A, 0) = A /\ ISA!Plus(PC, 0) = PC
    BY <1>1, PlusFacts
  <2> QED BY <1>3, <1>4, <2>1, Operands
<1>5. CASE state = "TESTI"
  <2>1. ADD(state) = FALSE /\ TEST(state) = TRUE /\ ~DINTSEL(state) /\ ITYPE(state)
    BY <1>5 DEF ADD, TEST, DINTSEL, ITYPE
  <2>2. DINT = Alu(A, fields.imm, fields.opcode % 8, FALSE, TRUE)
    BY <1>5, <2>1, Operands, Zenon DEF DINT, ALUF
  <2>3. DINT = ISA!Tested(fields, A, fields.imm)
    BY <1>1, <2>2, AluTests, Zenon
  <2> QED BY <1>5, <2>3
<1>6. CASE state = "ALU" /\ fields.func >= 32
  <2>1. ADD(state) = FALSE /\ TEST(state) = FALSE /\ ~DINTSEL(state) /\ ~ITYPE(state)
    BY <1>6 DEF ADD, TEST, DINTSEL, ITYPE
  <2>2. DINT = Alu(A, B, fields.func % 8, FALSE, FALSE)
    BY <1>6, <2>1, Operands, Zenon DEF DINT, ALUF
  <2>3. DINT = ISA!Computed(fields, A, B)
    BY <1>1, <1>6, <2>2, AluComputes, Zenon
  <2> QED BY <1>6, <2>3
<1>7. CASE state = "SHIFT_ST" /\ fields.func < 32
  <2>1. SHIFT(state) = TRUE /\ DINTSEL(state)
    BY <1>7 DEF SHIFT, DINTSEL
  <2>2. DINT = Shifted(A, TRUE, Bit(fields.func, 2))
    BY <1>7, <2>1, Operands, Zenon DEF DINT
  <2>3. DINT = IF Bit(fields.func, 2) THEN A \div 2 ELSE (2 * A) % WORDS
    BY <2>2 DEF Shifted
  <2>4. 2 * A = A + A
    BY <1>1, WordsPositive DEF Word
  <2>5. ISA!Computed(fields, A, B) = IF Bit(fields.func, 2) THEN A \div 2 ELSE (A + A) % WORDS
    BY <1>7, SameWords DEF ISA!Computed
  <2>6. DINT = ISA!Computed(fields, A, B)
    BY <2>3, <2>4, <2>5
  <2> QED BY <1>7, <2>6
<1>8. CASE state \in {"COPYMDR2C", "COPYGPR2MDR"}
  <2>1. SHIFT(state) = FALSE /\ DINTSEL(state)
    BY <1>8 DEF SHIFT, DINTSEL
  <2>2. DINT = Shifted(S1, FALSE, Bit(fields.func, 2))
    BY <2>1, Zenon DEF DINT
  <2>3. DINT = S1
    BY <2>2 DEF Shifted
  <2> QED BY <1>8, <2>3, Operands
<1> QED BY <1>4, <1>5, <1>6, <1>7, <1>8

(* What a clock leaves alone, and where results go.                          *)
LEMMA Clocked ==
  ASSUME TypeOK, Handshake, Clock
  PROVE  /\ rom' = rom
         /\ state # "FETCH" => IR' = IR /\ fields' = fields
         /\ state = "FETCH" => IR' = DI
         /\ state # "DECODE" => A' = A /\ B' = B
         /\ state = "DECODE" => A' = GPR[fields.rs] /\ B' = GPR[fields.rt]
         /\ PC' = IF state \in {"DECODE", "BTAKEN", "JR", "JALR"} THEN DINT ELSE PC
         /\ MAR' = IF state = "ADDRESSCMP" THEN DINT ELSE MAR
         /\ C' = IF state \in {"ALU", "TESTI", "ALUI", "SHIFT_ST", "COPYMDR2C", "SAVEPC"}
                 THEN DINT ELSE C
         /\ state \notin {"LOAD", "COPYGPR2MDR"} => MDR' = MDR
         /\ state = "COPYGPR2MDR" => MDR' = DINT
         /\ state = "LOAD" /\ int_done => MDR' = DI
         /\ state \notin {"WBI", "WBR", "JALR"} => GPR' = GPR
         /\ state # "STORE" => main_mem' = main_mem
         /\ ~Request => ~int_done'
<1>1. rom' = rom
  BY DEF Clock
<1>2. /\ state # "FETCH" => IR' = IR
      /\ state = "FETCH" => IR' = DI
  BY DEF Clock, Registers, Load, IRce
<1>3. state # "FETCH" => fields' = fields
  BY <1>2 DEF fields
<1>4. /\ state # "DECODE" => A' = A /\ B' = B
      /\ state = "DECODE" => A' = GPR[fields.rs] /\ B' = GPR[fields.rt]
  BY DEF Clock, Registers, Load, Ace, Bce
<1>5. PC' = IF state \in {"DECODE", "BTAKEN", "JR", "JALR"} THEN DINT ELSE PC
  BY DEF Clock, Registers, Load, PCce
<1>6. MAR' = IF state = "ADDRESSCMP" THEN DINT ELSE MAR
  BY DEF Clock, Registers, Load, MARce
<1>7. C' = IF state \in {"ALU", "TESTI", "ALUI", "SHIFT_ST", "COPYMDR2C", "SAVEPC"}
           THEN DINT ELSE C
  BY DEF Clock, Registers, Load, Cce
<1>8. MDR' = IF MDRce(state, BUSY) THEN IF MDRSEL(state) THEN DI ELSE DINT ELSE MDR
  BY DEF Clock, Registers, Load
<1>9. /\ state \notin {"LOAD", "COPYGPR2MDR"} => MDR' = MDR
      /\ state = "COPYGPR2MDR" => MDR' = DINT
      /\ state = "LOAD" /\ int_done => MDR' = DI
  BY <1>8 DEF MDRce, MDRSEL, BUSY, MacBusy
<1>10. state \notin {"WBI", "WBR", "JALR"} => GPR' = GPR
  BY DEF Clock, RegisterFile, GPRwe
<1>11. state # "STORE" => main_mem' = main_mem
  BY DEF Clock, SramAccess, mw
<1>12. ~Request => ~int_done'
  BY DEF Clock, SramProgress, AddressStrobe, Handshake
<1> QED BY <1>1, <1>2, <1>3, <1>4, <1>5, <1>6, <1>7, <1>9, <1>10, <1>11, <1>12

(* Where the control goes, in the instruction set's terms.                    *)
LEMMA GoesTo ==
  ASSUME TypeOK, Clock
  PROVE  /\ state \in {"INIT", "WBR", "WBI", "JR", "JALR", "BTAKEN"} => state' \in {"INIT", "FETCH"}
         /\ state = "FETCH" => state' = IF int_done THEN "DECODE" ELSE "FETCH"
         /\ state \in {"ALU", "SHIFT_ST"} => state' = "WBR"
         /\ state \in {"ALUI", "TESTI", "COPYMDR2C"} => state' = "WBI"
         /\ state = "ADDRESSCMP" => state' = IF Bit(fields.opcode, 8) THEN "COPYGPR2MDR" ELSE "LOAD"
         /\ state = "LOAD" => state' = IF int_done THEN "COPYMDR2C" ELSE "LOAD"
         /\ state = "COPYGPR2MDR" => state' = "STORE"
         /\ state = "STORE" => IF int_done THEN state' \in {"INIT", "FETCH"} ELSE state' = "STORE"
         /\ state = "SAVEPC" => state' = "JALR"
         /\ state = "BRANCH" => IF BT THEN state' = "BTAKEN" ELSE state' \in {"INIT", "FETCH"}
         /\ state = "HALT" => state' = "HALT"
<1>1. PICK step_en \in BOOLEAN :
        state' = NextState(state, fields.opcode, Bit(fields.func, 32), BT, BUSY, step_en)
  BY DEF Clock
<1>2. Ended(step_en) \in {"INIT", "FETCH"}
  BY DEF Ended
<1>3. state \in {"FETCH", "LOAD", "STORE"} => (BUSY <=> ~int_done)
  BY DEF BUSY, MacBusy, Request, mr, mw
<1> HIDE DEF Ended, BUSY
<1>4. CASE state \in {"INIT", "WBR", "WBI", "JR", "JALR", "BTAKEN"}
  BY <1>1, <1>2, <1>4 DEF NextState
<1>5. CASE state \in {"FETCH", "LOAD", "STORE"}
  BY <1>1, <1>2, <1>3, <1>5 DEF NextState
<1>6. CASE state \in {"ALU", "SHIFT_ST", "ALUI", "TESTI", "COPYMDR2C", "COPYGPR2MDR", "SAVEPC", "HALT"}
  BY <1>1, <1>6 DEF NextState
<1>7. CASE state = "ADDRESSCMP"
  BY <1>1, <1>7 DEF NextState
<1>8. CASE state = "BRANCH"
  BY <1>1, <1>2, <1>8 DEF NextState
<1> QED BY <1>4, <1>5, <1>6, <1>7, <1>8

LEMMA DecodesTo ==
  ASSUME TypeOK, Clock, state = "DECODE"
  PROVE  /\ fields.opcode \in ISA!NoOp => state' \in {"INIT", "FETCH"}
         /\ fields.opcode \in ISA!Register
              => state' = IF fields.func < 32 THEN "SHIFT_ST" ELSE "ALU"
         /\ fields.opcode \in ISA!AddImmediate => state' = "ALUI"
         /\ fields.opcode \in ISA!TestSet => state' = "TESTI"
         /\ fields.opcode \in ISA!LoadStore => state' = "ADDRESSCMP"
         /\ fields.opcode \in ISA!Jump => state' = IF Bit(fields.opcode, 1) THEN "SAVEPC" ELSE "JR"
         /\ fields.opcode \in ISA!Branch => state' = "BRANCH"
         /\ fields.opcode \in ISA!Halt => state' = "HALT"
         /\ fields.opcode \in ISA!NoOp \cup ISA!Register \cup ISA!AddImmediate \cup ISA!TestSet
              \cup ISA!LoadStore \cup ISA!Jump \cup ISA!Branch \cup ISA!Halt
<1> USE DEF ISA!NoOp, ISA!Register, ISA!AddImmediate, ISA!TestSet, ISA!LoadStore, ISA!Jump,
            ISA!Branch, ISA!Halt
<1>1. PICK step_en \in BOOLEAN : state' = Decoded(fields.opcode, Bit(fields.func, 32), step_en)
  <2>1. PICK step_en \in BOOLEAN :
          state' = NextState(state, fields.opcode, Bit(fields.func, 32), BT, BUSY, step_en)
    BY DEF Clock
  <2>2. ASSUME NEW op, NEW i5, NEW b, NEW s
        PROVE  NextState(state, op, i5, b, s, step_en) = Decoded(op, i5, step_en)
    BY DEF NextState
  <2> QED BY <2>1, <2>2
<1>2. Ended(step_en) \in {"INIT", "FETCH"}
  BY DEF Ended
<1> DEFINE op == fields.opcode
<1>3. op \in 0..63 /\ fields.func \in 0..63
  BY FieldTypes DEF Instruction
<1>4. Bit(fields.func, 32) <=> ~(fields.func < 32)
  BY <1>3 DEF Bit
<1> HIDE DEF op, Ended
<1>5. /\ op \in 48..55 <=> op \div 8 = 6
      /\ op \in 0..3 <=> op \div 4 = 0
      /\ op \in 8..15 <=> op \div 8 = 1
      /\ op \in 24..31 <=> op \div 8 = 3
      /\ op \in 32..47 <=> op \div 16 = 2
      /\ op \in 16..23 <=> op \div 8 = 2
      /\ op \in 4..7 <=> op \div 4 = 1
  BY <1>3
<1>6. state' = Decoded(op, Bit(fields.func, 32), step_en)
  BY <1>1 DEF op
<1> DEFINE ir5 == Bit(fields.func, 32)
           link == Bit(op, 1)
<1>7. state' = CASE op \div 8 = 6  -> Ended(step_en)
    [] op \div 4 = 0  -> IF ir5 THEN "ALU" ELSE "SHIFT_ST"
    [] op \div 8 = 1  -> "ALUI"
    [] op \div 8 = 3  -> "TESTI"
    [] op \div 16 = 2 -> "ADDRESSCMP"
    [] op \div 8 = 2  -> IF link THEN "SAVEPC" ELSE "JR"
    [] op \div 4 = 1  -> "BRANCH"
    [] OTHER          -> "HALT"
  BY <1>6, Zenon DEF Decoded
<1> HIDE DEF ir5, link
<1>8. op \in 48..55 => state' \in {"INIT", "FETCH"}
  BY <1>2, <1>3, <1>5, <1>7
<1>9. op \in 0..3 => state' = IF ir5 THEN "ALU" ELSE "SHIFT_ST"
  BY <1>3, <1>5, <1>7
<1>10. (op \in 8..15 => state' = "ALUI") /\ (op \in 24..31 => state' = "TESTI")
  BY <1>3, <1>5, <1>7
<1>11. (op \in 32..47 => state' = "ADDRESSCMP") /\ (op \in 4..7 => state' = "BRANCH")
  BY <1>3, <1>5, <1>7
<1>12. op \in 16..23 => state' = IF link THEN "SAVEPC" ELSE "JR"
  BY <1>3, <1>5, <1>7
<1>13. op \in 56..63 => state' = "HALT"
  BY <1>3, <1>5, <1>7
<1> QED BY <1>3, <1>4, <1>8, <1>9, <1>10, <1>11, <1>12, <1>13 DEF op, ir5, link

-----------------------------------------------------------------------------
(* The instruction under way.  Between decoding and its end the registers of  *)
(* the data path hold, state by state, what the instruction needs next.       *)
Working == state \notin {"INIT", "FETCH", "DECODE", "HALT"}

(* It stands where the last fetch found it, until its own store is done.      *)
Fetched ==
  state = "DECODE" \/ (Working /\ ~(state = "STORE" /\ int_done))
    => IR = main_mem[PhysicalAddress(NextInstruction)]

Latched == Working => A = GPR[fields.rs] /\ B = GPR[fields.rt]

Decided ==
  /\ state \in {"ALU", "SHIFT_ST", "WBR"} => fields.opcode \in ISA!Register
  /\ state = "ALU" => fields.func >= 32
  /\ state = "SHIFT_ST" => fields.func < 32
  /\ state = "ALUI" => fields.opcode \in ISA!AddImmediate
  /\ state = "TESTI" => fields.opcode \in ISA!TestSet
  /\ state \in {"ADDRESSCMP", "LOAD", "COPYMDR2C", "COPYGPR2MDR", "STORE"}
       => fields.opcode \in ISA!LoadStore
  /\ state \in {"LOAD", "COPYMDR2C"} => ~Bit(fields.opcode, 8)
  /\ state \in {"COPYGPR2MDR", "STORE"} => Bit(fields.opcode, 8)
  /\ state \in {"JR", "SAVEPC", "JALR"} => fields.opcode \in ISA!Jump
  /\ state = "JR" => ~Bit(fields.opcode, 1)
  /\ state \in {"SAVEPC", "JALR"} => Bit(fields.opcode, 1)
  /\ state \in {"BRANCH", "BTAKEN"} => fields.opcode \in ISA!Branch
  /\ state = "BTAKEN" => BT

Place == PhysicalAddress(ISA!Plus(A, fields.imm))

Worked ==
  /\ state = "WBR" => C = ISA!Computed(fields, A, B)
  /\ state = "WBI" =>
       \/ fields.opcode \in ISA!AddImmediate /\ C = ISA!Plus(A, fields.imm)
       \/ fields.opcode \in ISA!TestSet /\ C = ISA!Tested(fields, A, fields.imm)
       \/ /\ fields.opcode \in ISA!LoadStore /\ ~Bit(fields.opcode, 8)
          /\ C = main_mem[Place]
  /\ state \in {"LOAD", "COPYMDR2C", "COPYGPR2MDR", "STORE"} => MAR = ISA!Plus(A, fields.imm)
  /\ state = "COPYMDR2C" => MDR = main_mem[Place]
  /\ state = "STORE" => MDR = B /\ (int_done => main_mem[Place] = MDR)
  /\ state = "JALR" => C = PC

InProgress == Fetched /\ Latched /\ Decided /\ Worked

(* The memory while the control stores.                                      *)
LEMMA Stores ==
  ASSUME TypeOK, Handshake, Worked, Clock, state = "STORE"
  PROVE  /\ int_done => main_mem' = main_mem /\ ~int_done'
         /\ ~int_done /\ ~int_done' => main_mem' = main_mem
         /\ ~int_done /\ int_done' => main_mem' = [main_mem EXCEPT ![Place] = MDR]
<1>1. AO = Place /\ mw(state)
  BY DEF AO, ASEL, Worked, Place, mw
<1>2. /\ int_done' = (AddressStrobe(MAC_state) /\ (IF busy_d THEN ~int_done ELSE int_done))
      /\ main_mem' = IF AddressStrobe(MAC_state) /\ busy_d
                     THEN [main_mem EXCEPT ![Place] = MDR] ELSE main_mem
  BY <1>1 DEF Clock, SramProgress, SramAccess
<1>3. int_done \in BOOLEAN /\ busy_d \in BOOLEAN
  BY DEF TypeOK
<1>4. AddressStrobe(MAC_state) \in BOOLEAN
  BY DEF AddressStrobe
<1>5. int_done => busy_d /\ AddressStrobe(MAC_state)
  BY DEF Handshake, AddressStrobe
<1>6. int_done => [main_mem EXCEPT ![Place] = MDR] = main_mem
  BY DEF Worked, TypeOK
<1> HIDE DEF AddressStrobe
<1> QED BY <1>2, <1>3, <1>4, <1>5, <1>6

(* What a write to the register file is to the instruction set.               *)
LEMMA WritesBack ==
  ASSUME TypeOK, Clock, state \in {"WBR", "WBI", "JALR"}
  PROVE  /\ state = "WBR" => ISA!Set(fields.rd, C)
         /\ state = "WBI" => ISA!Set(fields.rt, C)
         /\ state = "JALR" => ISA!Set(ISA!Link, C)
<1>1. GPR' = IF Cadr # 0 THEN [GPR EXCEPT ![Cadr] = C] ELSE GPR
  BY DEF Clock, RegisterFile, GPRwe
<1>2. GPR \in [Reg -> Word]
  BY DEF TypeOK
<1>3. GPR' = [GPR EXCEPT ![Cadr] = IF Cadr = 0 THEN @ ELSE C]
  BY <1>1, <1>2
<1>4. ISA!Set(Cadr, C)
  BY <1>3 DEF ISA!Set, ISA!Zero
<1>5. /\ state = "WBR" => Cadr = fields.rd
      /\ state = "WBI" => Cadr = fields.rt
      /\ state = "JALR" => Cadr = ISA!Link
  BY DEF Cadr, JLINK, ITYPE, ISA!Link
<1> QED BY <1>4, <1>5

-----------------------------------------------------------------------------
(* An instruction under way stays so, clock by clock.                         *)
LEMMA Proceeds ==
  ASSUME TypeOK, Handshake, WordRead, InProgress, Clock
  PROVE  InProgress'
<1> USE DEF InProgress, Fetched, Latched, Decided, Worked, Working, NextInstruction, Completed
<1>1. CASE state \in {"INIT", "WBR", "WBI", "JR", "JALR", "BTAKEN"}
  <2>1. state' \in {"INIT", "FETCH"}
    BY <1>1, GoesTo
  <2> QED BY <2>1
<1>2. CASE state = "FETCH"
  <2>1. CASE ~int_done
    <3>1. state' = "FETCH"
      BY <1>2, <2>1, GoesTo
    <3> QED BY <3>1
  <2>2. CASE int_done
    <3>1. state' = "DECODE"
      BY <1>2, <2>2, GoesTo
    <3>2. IR' = DI /\ PC' = PC /\ main_mem' = main_mem
      BY <1>2, Clocked
    <3>3. DI = main_mem[PhysicalAddress(PC)]
      BY <1>2, <2>2 DEF WordRead, DI, AO, ASEL, mw
    <3>4. IR' = main_mem'[PhysicalAddress(NextInstruction')]
      BY <3>1, <3>2, <3>3
    <3> QED BY <3>1, <3>4
  <2> QED BY <2>1, <2>2
<1>3. CASE state = "DECODE"
  <2>1. /\ IR' = IR /\ fields' = fields /\ A' = GPR[fields.rs] /\ B' = GPR[fields.rt]
        /\ GPR' = GPR /\ main_mem' = main_mem /\ PC' = DINT
    BY <1>3, Clocked
  <2>2. PC \in Word /\ DINT = ISA!Plus(PC, 1)
    BY <1>3, Results DEF TypeOK
  <2>3. (PC' - 1) % WORDS = PC
    BY <2>1, <2>2, PlusFacts
  <2>4. IR' = main_mem'[PhysicalAddress((PC' - 1) % WORDS)]
    BY <1>3, <2>1, <2>3
  <2>5. fields.func \in Int
    BY FieldTypes
  <2>6. state' \notin {"INIT", "FETCH"} => Fetched' /\ Latched'
    BY <1>3, <2>1, <2>4, DecodesTo
  <2>7. state' \in {"INIT", "FETCH"} => InProgress'
    OBVIOUS
  <2>8. state' \in {"INIT", "FETCH", "ALU", "SHIFT_ST", "ALUI", "TESTI", "ADDRESSCMP", "SAVEPC",
                    "JR", "BRANCH", "HALT"}
    BY <1>3, DecodesTo
  <2>9. Worked'
    BY <2>8
  <2>10. Decided'
    BY <1>3, <2>1, <2>5, <2>8, DecodesTo DEF ISA!NoOp, ISA!Register, ISA!AddImmediate,
       ISA!TestSet, ISA!LoadStore, ISA!Jump, ISA!Branch, ISA!Halt
  <2> QED BY <2>6, <2>7, <2>9, <2>10
<1>4. ASSUME Working, state \notin {"WBR", "WBI", "JR", "JALR", "BTAKEN"}
      PROVE  /\ IR' = IR /\ fields' = fields /\ A' = A /\ B' = B /\ GPR' = GPR /\ PC' = PC
             /\ A = GPR[fields.rs] /\ B = GPR[fields.rt] /\ Place' = Place
  BY <1>4, Clocked DEF Place
<1>5. ASSUME Working, state \notin {"WBR", "WBI", "JR", "JALR", "BTAKEN", "STORE", "BRANCH"}
      PROVE  main_mem' = main_mem /\ IR' = main_mem'[PhysicalAddress((PC' - 1) % WORDS)]
  BY <1>4, <1>5, Clocked
<1>6. CASE state \in {"ALU", "SHIFT_ST"}
  <2>1. state' = "WBR" /\ C' = DINT
    BY <1>6, GoesTo, Clocked
  <2>2. DINT = ISA!Computed(fields, A, B)
    BY <1>6, Results
  <2> QED BY <1>4, <1>5, <1>6, <2>1, <2>2
<1>7. CASE state \in {"ALUI", "TESTI"}
  <2>1. state' = "WBI" /\ C' = DINT
    BY <1>7, GoesTo, Clocked
  <2>2. /\ state = "ALUI" => DINT = ISA!Plus(A, fields.imm)
        /\ state = "TESTI" => DINT = ISA!Tested(fields, A, fields.imm)
    BY <1>7, Results
  <2> QED BY <1>4, <1>5, <1>7, <2>1, <2>2
<1>8. CASE state = "ADDRESSCMP"
  <2>1. state' = (IF Bit(fields.opcode, 8) THEN "COPYGPR2MDR" ELSE "LOAD") /\ MAR' = DINT
    BY <1>8, GoesTo, Clocked
  <2>2. DINT = ISA!Plus(A, fields.imm)
    BY <1>8, Results
  <2> QED BY <1>4, <1>5, <1>8, <2>1, <2>2
<1>9. CASE state = "LOAD"
  <2>1. state' = (IF int_done THEN "COPYMDR2C" ELSE "LOAD") /\ MAR' = MAR
        /\ (int_done => MDR' = DI)
    BY <1>9, GoesTo, Clocked
  <2>2. int_done => DI = main_mem[Place]
    BY <1>9 DEF WordRead, DI, AO, ASEL, mw, Place
  <2> QED BY <1>4, <1>5, <1>9, <2>1, <2>2
<1>10. CASE state = "COPYMDR2C"
  <2>1. state' = "WBI" /\ C' = DINT
    BY <1>10, GoesTo, Clocked
  <2>2. DINT = MDR
    BY <1>10, Results
  <2> QED BY <1>4, <1>5, <1>10, <2>1, <2>2
<1>11. CASE state = "COPYGPR2MDR"
  <2>1. state' = "STORE" /\ MDR' = DINT /\ MAR' = MAR /\ ~int_done'
    BY <1>11, GoesTo, Clocked DEF Request, mr, mw
  <2>2. DINT = B
    BY <1>11, Results
  <2> QED BY <1>4, <1>5, <1>11, <2>1, <2>2
<1>12. CASE state = "STORE"
  <2>1. CASE int_done
    <3>1. state' \in {"INIT", "FETCH"}
      BY <1>12, <2>1, GoesTo
    <3> QED BY <3>1
  <2>2. CASE ~int_done
    <3>1. state' = "STORE" /\ MAR' = MAR /\ MDR' = MDR
      BY <1>12, <2>2, GoesTo, Clocked
    <3>2. /\ ~int_done' => main_mem' = main_mem
          /\ int_done' => main_mem' = [main_mem EXCEPT ![Place] = MDR]
      BY <1>12, <2>2, Stores
    <3>3. Place \in Adr
      <4>1. ISA!Plus(A, fields.imm) \in Int
        BY FieldTypes, SameWords, WordsPositive DEF TypeOK, Word
      <4> QED BY <4>1, WordsAssumption DEF Place, PhysicalAddress, Adr
    <3>4. int_done' => main_mem'[Place] = MDR
      BY <3>2, <3>3 DEF TypeOK
    <3>5. ~int_done' => IR' = main_mem'[PhysicalAddress((PC' - 1) % WORDS)]
      BY <1>4, <1>12, <2>2, <3>2
    <3> QED BY <1>4, <1>12, <3>1, <3>4, <3>5
  <2> QED BY <2>1, <2>2
<1>13. CASE state = "SAVEPC"
  <2>1. state' = "JALR" /\ C' = DINT
    BY <1>13, GoesTo, Clocked
  <2>2. DINT = PC
    BY <1>13, Results
  <2> QED BY <1>4, <1>5, <1>13, <2>1, <2>2
<1>14. CASE state = "BRANCH"
  <2>1. CASE ~BT
    <3>1. state' \in {"INIT", "FETCH"}
      BY <1>14, <2>1, GoesTo
    <3> QED BY <3>1
  <2>2. CASE BT
    <3>1. state' = "BTAKEN" /\ main_mem' = main_mem
      BY <1>14, <2>2, GoesTo, Clocked
    <3>2. BT'
      BY <1>4, <1>14, <2>2 DEF BT
    <3>3. IR' = main_mem'[PhysicalAddress((PC' - 1) % WORDS)]
      BY <1>4, <1>14, <3>1
    <3> QED BY <1>4, <1>14, <3>1, <3>2, <3>3
  <2> QED BY <2>1, <2>2
<1>15. CASE state = "HALT"
  <2>1. state' = "HALT"
    BY <1>15, GoesTo
  <2> QED BY <2>1
<1> QED BY <1>1, <1>2, <1>3, <1>6, <1>7, <1>8, <1>9, <1>10, <1>11, <1>12, <1>13, <1>14, <1>15
        DEF TypeOK, ControlState

-----------------------------------------------------------------------------
(* One clock is an instruction or nothing, seen from outside.                 *)
Unseen == UNCHANGED <<rom, NextInstruction, GPR, main_mem>>

(* The instruction under way is the one the instruction set would take.       *)
LEMMA Takes ==
  ASSUME IR = main_mem[PhysicalAddress(NextInstruction)],
         \/ ISA!NoOperation(fields) \/ ISA!RegisterOp(fields) \/ ISA!ImmediateOp(fields)
         \/ ISA!Load(fields) \/ ISA!Store(fields) \/ ISA!JumpRegister(fields)
         \/ ISA!JumpAndLink(fields) \/ ISA!BranchIf(fields)
  PROVE  ISA!Step
<1>1. fields = Decode[main_mem[ISA!PhysicalAddress(NextInstruction)]]
  BY SameWords DEF fields
<1> QED BY <1>1 DEF ISA!Step

LEMMA ClockImplements ==
  ASSUME TypeOK, Handshake, WordRead, InProgress, Clock
  PROVE  ISA!Step \/ Unseen
<1>1. CASE state \in {"INIT", "FETCH"}
  <2>1. state' \in {"INIT", "FETCH", "DECODE"}
    BY <1>1, GoesTo
  <2>2. PC' = PC /\ GPR' = GPR /\ main_mem' = main_mem /\ rom' = rom
    BY <1>1, Clocked
  <2> QED BY <1>1, <2>1, <2>2 DEF Unseen, NextInstruction, Completed
<1>2. CASE state = "DECODE"
  <2>1. /\ GPR' = GPR /\ main_mem' = main_mem /\ rom' = rom /\ PC' = ISA!Plus(PC, 1)
        /\ NextInstruction = PC
    BY <1>2, Clocked, Results DEF NextInstruction, Completed
  <2>2. (PC' - 1) % WORDS = PC
    BY <2>1, PlusFacts DEF TypeOK
  <2>3. CASE state' \in {"INIT", "FETCH"}
    <3>1. fields.opcode \in ISA!NoOp
      BY <1>2, <2>3, DecodesTo
    <3>2. NextInstruction' = ISA!Plus(NextInstruction, 1)
      BY <2>1, <2>3 DEF NextInstruction, Completed
    <3>3. ISA!NoOperation(fields)
      BY <2>1, <3>1, <3>2 DEF ISA!NoOperation, ISA!Go, ISA!Following
    <3>4. IR = main_mem[PhysicalAddress(NextInstruction)]
      BY <1>2 DEF InProgress, Fetched
    <3> QED BY <3>3, <3>4, Takes
  <2>4. CASE state' \notin {"INIT", "FETCH"}
    <3>1. state' \notin {"INIT", "FETCH", "DECODE", "STORE"}
      BY <1>2, <2>4, DecodesTo
    <3>2. NextInstruction' = PC
      BY <2>2, <3>1 DEF NextInstruction, Completed
    <3> QED BY <2>1, <3>2 DEF Unseen
  <2> QED BY <2>3, <2>4
<1>3. CASE state \in {"ALU", "SHIFT_ST", "ALUI", "TESTI", "ADDRESSCMP", "LOAD", "COPYMDR2C",
                      "COPYGPR2MDR", "SAVEPC", "HALT"}
  <2>1. PC' = PC /\ GPR' = GPR /\ main_mem' = main_mem /\ rom' = rom
    BY <1>3, Clocked
  <2>2. state' \in {"WBR", "WBI", "COPYGPR2MDR", "LOAD", "COPYMDR2C", "STORE", "JALR", "HALT"}
    BY <1>3, GoesTo
  <2>3. state' = "STORE" => ~int_done'
    <3>1. state' = "STORE" => state = "COPYGPR2MDR"
      BY <1>3, GoesTo
    <3> QED BY <3>1, Clocked DEF Request, mr, mw
  <2>4. NextInstruction' = NextInstruction
    BY <1>3, <2>1, <2>2, <2>3 DEF NextInstruction, Completed
  <2> QED BY <2>1, <2>4 DEF Unseen
<1>4. ASSUME state \in {"WBR", "WBI", "JR", "JALR", "BTAKEN", "BRANCH"} \/ (state = "STORE" /\ ~int_done)
      PROVE  /\ IR = main_mem[PhysicalAddress(NextInstruction)]
             /\ A = GPR[fields.rs] /\ B = GPR[fields.rt]
             /\ ISA!Following = PC /\ NextInstruction = (PC - 1) % WORDS
  <2>1. NextInstruction = (PC - 1) % WORDS
    BY <1>4 DEF NextInstruction, Completed
  <2>2. ISA!Following = PC
    BY <2>1, PlusFacts DEF ISA!Following, TypeOK
  <2> QED BY <1>4, <2>1, <2>2 DEF InProgress, Fetched, Latched, Working
<1>5. CASE state = "WBR"
  <2>1. /\ GPR[fields.rs] = A /\ GPR[fields.rt] = B
        /\ fields.opcode \in ISA!Register /\ C = ISA!Computed(fields, A, B)
    BY <1>4, <1>5 DEF InProgress, Decided, Worked
  <2>2. main_mem' = main_mem /\ PC' = PC /\ state' \in {"INIT", "FETCH"}
    BY <1>5, Clocked, GoesTo
  <2>3. NextInstruction' = ISA!Following
    BY <1>4, <1>5, <2>2 DEF NextInstruction, Completed
  <2>4. ISA!Set(fields.rd, C)
    BY <1>5, WritesBack
  <2>5. ISA!RegisterOp(fields)
    BY <2>1, <2>2, <2>3, <2>4 DEF ISA!RegisterOp, ISA!Go
  <2> QED BY <1>4, <1>5, <2>5, Takes
<1>6. CASE state = "WBI"
  <2>1. main_mem' = main_mem /\ PC' = PC /\ state' \in {"INIT", "FETCH"}
    BY <1>6, Clocked, GoesTo
  <2>2. NextInstruction' = ISA!Following
    BY <1>4, <1>6, <2>1 DEF NextInstruction, Completed
  <2>3. ISA!Set(fields.rt, C) /\ GPR[fields.rs] = A
    BY <1>4, <1>6, WritesBack
  <2>4. CASE fields.opcode \in ISA!AddImmediate /\ C = ISA!Plus(A, fields.imm)
    <3>1. fields.opcode \notin ISA!TestSet
      BY <2>4 DEF ISA!TestSet, ISA!AddImmediate
    <3>2. ISA!ImmediateOp(fields)
      BY <2>1, <2>2, <2>3, <2>4, <3>1 DEF ISA!ImmediateOp, ISA!Go
    <3> QED BY <1>4, <1>6, <3>2, Takes
  <2>5. CASE fields.opcode \in ISA!TestSet /\ C = ISA!Tested(fields, A, fields.imm)
    <3>1. ISA!ImmediateOp(fields)
      BY <2>1, <2>2, <2>3, <2>5 DEF ISA!ImmediateOp, ISA!Go
    <3> QED BY <1>4, <1>6, <3>1, Takes
  <2>6. CASE fields.opcode \in ISA!LoadStore /\ ~Bit(fields.opcode, 8) /\ C = main_mem[Place]
    <3>1. ~ISA!Bit(fields.opcode, 8)
      BY <2>6, SameWords
    <3>2. Place = ISA!PhysicalAddress(ISA!Plus(A, fields.imm))
      BY SameWords DEF Place
    <3>3. ISA!Load(fields)
      BY <2>1, <2>2, <2>3, <2>6, <3>1, <3>2 DEF ISA!Load, ISA!Go
    <3> QED BY <1>4, <1>6, <3>3, Takes
  <2> QED BY <1>6, <2>4, <2>5, <2>6 DEF InProgress, Worked
<1>7. CASE state = "STORE"
  <2>1. PC' = PC /\ GPR' = GPR /\ rom' = rom
    BY <1>7, Clocked
  <2>2. CASE int_done
    <3>1. main_mem' = main_mem /\ ~int_done' /\ state' \in {"INIT", "FETCH"}
      BY <1>7, <2>2, Stores, GoesTo DEF InProgress
    <3> QED BY <1>7, <2>1, <2>2, <3>1 DEF Unseen, NextInstruction, Completed
  <2>3. CASE ~int_done /\ ~int_done'
    <3>1. main_mem' = main_mem /\ state' = "STORE"
      BY <1>7, <2>3, Stores, GoesTo DEF InProgress
    <3> QED BY <1>7, <2>1, <2>3, <3>1 DEF Unseen, NextInstruction, Completed
  <2>4. CASE ~int_done /\ int_done'
    <3>1. main_mem' = [main_mem EXCEPT ![Place] = MDR] /\ state' = "STORE"
      BY <1>7, <2>4, Stores, GoesTo DEF InProgress
    <3>2. NextInstruction' = ISA!Following
      BY <1>4, <1>7, <2>1, <2>4, <3>1 DEF NextInstruction, Completed
    <3>3. /\ fields.opcode \in ISA!LoadStore /\ ISA!Bit(fields.opcode, 8)
          /\ MDR = GPR[fields.rt] /\ GPR[fields.rs] = A
      BY <1>4, <1>7, <2>4, SameWords DEF InProgress, Decided, Worked
    <3>4. Place = ISA!PhysicalAddress(ISA!Plus(A, fields.imm))
      BY SameWords DEF Place
    <3>5. ISA!Store(fields)
      BY <2>1, <3>1, <3>2, <3>3, <3>4 DEF ISA!Store, ISA!Go
    <3> QED BY <1>4, <1>7, <2>4, <3>5, Takes
  <2> QED BY <2>2, <2>3, <2>4
<1>8. CASE state = "JR"
  <2>1. /\ PC' = DINT /\ DINT = A /\ GPR' = GPR /\ main_mem' = main_mem
        /\ state' \in {"INIT", "FETCH"}
    BY <1>8, Clocked, GoesTo, Results
  <2>2. NextInstruction' = GPR[fields.rs]
    BY <1>4, <1>8, <2>1 DEF NextInstruction, Completed
  <2>3. fields.opcode \in ISA!Jump /\ ~ISA!Bit(fields.opcode, 1)
    BY <1>8, SameWords DEF InProgress, Decided
  <2>4. ISA!JumpRegister(fields)
    BY <2>1, <2>2, <2>3 DEF ISA!JumpRegister, ISA!Go
  <2> QED BY <1>4, <1>8, <2>4, Takes
<1>9. CASE state = "JALR"
  <2>1. /\ PC' = DINT /\ DINT = A /\ main_mem' = main_mem /\ state' \in {"INIT", "FETCH"}
    BY <1>9, Clocked, GoesTo, Results
  <2>2. NextInstruction' = GPR[fields.rs]
    BY <1>4, <1>9, <2>1 DEF NextInstruction, Completed
  <2>3. fields.opcode \in ISA!Jump /\ ISA!Bit(fields.opcode, 1) /\ C = ISA!Following
    BY <1>4, <1>9, SameWords DEF InProgress, Decided, Worked
  <2>4. ISA!Set(ISA!Link, C)
    BY <1>9, WritesBack
  <2>5. ISA!JumpAndLink(fields)
    BY <2>1, <2>2, <2>3, <2>4 DEF ISA!JumpAndLink, ISA!Go
  <2> QED BY <1>4, <1>9, <2>5, Takes
<1>10. ASSUME state \in {"BRANCH", "BTAKEN"}
       PROVE  (BT <=> (GPR[fields.rs] = 0) # ISA!Bit(fields.opcode, 1))
  <2>1. ISA!Bit(fields.opcode, 1) \in BOOLEAN /\ Bit(fields.opcode, 1) \in BOOLEAN
    BY DEF Bit, ISA!Bit
  <2> HIDE DEF Bit
  <2> QED BY <2>1, SameWords DEF BT
<1>11. CASE state = "BTAKEN"
  <2>1. /\ PC' = DINT /\ DINT = ISA!Plus(PC, fields.imm) /\ GPR' = GPR /\ main_mem' = main_mem
        /\ state' \in {"INIT", "FETCH"}
    BY <1>11, Clocked, GoesTo, Results
  <2>2. NextInstruction' = ISA!Plus(ISA!Following, fields.imm)
    BY <1>4, <1>11, <2>1 DEF NextInstruction, Completed
  <2>3. fields.opcode \in ISA!Branch /\ BT
    BY <1>11 DEF InProgress, Decided
  <2>4. ISA!BranchIf(fields)
    BY <1>10, <1>11, <2>1, <2>2, <2>3 DEF ISA!BranchIf, ISA!Go
  <2> QED BY <1>4, <1>11, <2>4, Takes
<1>12. CASE state = "BRANCH"
  <2>1. PC' = PC /\ GPR' = GPR /\ main_mem' = main_mem /\ rom' = rom
    BY <1>12, Clocked
  <2>2. CASE BT
    <3>1. state' = "BTAKEN"
      BY <1>12, <2>2, GoesTo
    <3> QED BY <1>12, <2>1, <3>1 DEF Unseen, NextInstruction, Completed
  <2>3. CASE ~BT
    <3>1. state' \in {"INIT", "FETCH"}
      BY <1>12, <2>3, GoesTo
    <3>2. NextInstruction' = ISA!Following
      BY <1>4, <1>12, <2>1, <3>1 DEF NextInstruction, Completed
    <3>3. fields.opcode \in ISA!Branch
      BY <1>12 DEF InProgress, Decided
    <3>4. ISA!BranchIf(fields)
      BY <1>10, <1>12, <2>1, <2>3, <3>2, <3>3 DEF ISA!BranchIf, ISA!Go
    <3> QED BY <1>4, <1>12, <3>4, Takes
  <2> QED BY <2>2, <2>3
<1> QED BY <1>1, <1>2, <1>3, <1>5, <1>6, <1>7, <1>8, <1>9, <1>11, <1>12 DEF TypeOK, ControlState

(* The instruction under way is kept by every step, a reset included.         *)
LEMMA InProgressKept ==
  TypeOK /\ Handshake /\ WordRead /\ InProgress /\ [Next]_vars => InProgress'
<1> SUFFICES ASSUME TypeOK, Handshake, WordRead, InProgress, [Next]_vars
             PROVE  InProgress'
  OBVIOUS
<1>1. CASE Clock
  BY <1>1, Proceeds
<1>2. CASE Reset
  BY <1>2 DEF Reset, InProgress, Fetched, Latched, Decided, Worked, Working
<1>3. CASE UNCHANGED vars
  <2>1. /\ UNCHANGED <<state, int_done, IR, A, B, C, PC, MAR, MDR, GPR, main_mem>>
        /\ fields' = fields
    BY <1>3 DEF vars, fields
  <2>2. Place' = Place /\ NextInstruction' = NextInstruction /\ BT' = BT
    BY <2>1 DEF Place, NextInstruction, Completed, BT
  <2> QED BY <2>1, <2>2 DEF InProgress, Fetched, Latched, Decided, Worked, Working
<1> QED BY <1>1, <1>2, <1>3 DEF Next

(* The refinement: whatever step_en and the reset do, for every word length,  *)
(* memory, program and meaning of the words, the processor executes whole     *)
(* instructions one after the other (DLX_Control.vhd, DLX_DATA_PATH.vhf).      *)
THEOREM Executes == Spec => ExecutesIsa
<1>1. Init => ISA!Init
  <2> SUFFICES ASSUME Init PROVE ISA!Init
    OBVIOUS
  <2>1. NextInstruction = 0
    BY DEF Init, NextInstruction, Completed
  <2> QED BY <2>1, ProgramsAssumption, SameWords DEF Init, ISA!Init
<1>2. Init => InProgress
  BY DEF Init, InProgress, Fetched, Latched, Decided, Worked, Working
<1>3. Spec => []InProgress
  BY <1>2, InProgressKept, TypeCorrect, HandshakeCorrect, WordReadAlways, PTL DEF Spec
<1>4. TypeOK /\ Handshake /\ WordRead /\ InProgress /\ [Next]_vars => [ISA!Next]_(ISA!vars)
  <2> SUFFICES ASSUME TypeOK, Handshake, WordRead, InProgress, [Next]_vars
               PROVE  ISA!Next \/ UNCHANGED ISA!vars
    OBVIOUS
  <2>1. CASE Clock
    <3>1. ISA!Step \/ Unseen
      BY <2>1, ClockImplements
    <3>2. rom' = rom
      BY <2>1, Clocked
    <3> QED BY <3>1, <3>2 DEF ISA!Next, ISA!vars, Unseen
  <2>2. CASE Reset
    <3>1. NextInstruction' = 0
      BY <2>2 DEF Reset, NextInstruction, Completed
    <3> QED BY <2>2, <3>1 DEF Reset, ISA!Next, ISA!Reset
  <2>3. CASE UNCHANGED vars
    BY <2>3 DEF vars, ISA!vars, NextInstruction, Completed
  <2> QED BY <2>1, <2>2, <2>3 DEF Next
<1> QED BY <1>1, <1>3, <1>4, TypeCorrect, HandshakeCorrect, WordReadAlways, PTL
        DEF Spec, ExecutesIsa, ISA!Spec
=============================================================================
