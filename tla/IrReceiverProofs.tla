-------------------------- MODULE IrReceiverProofs --------------------------
(***************************************************************************)
(* Theorems about IrReceiver: the server reboots only when something has     *)
(* gone wrong, what it prints is fresh until a wait has timed out, what it   *)
(* reads from the light is the complement of what was sent, and the link it  *)
(* hangs on is never stranded.                                             *)
(***************************************************************************)
EXTENDS IrReceiver, SequenceTheorems, WellFoundedInduction, TLAPS

Places == {"off", "open", "accept", "deleted", "crashed"} \cup Inside

(* What the memory of a connection that has not started, or has ended, holds. *)
Idle == ~armed /\ ~late /\ queue = 0

(* Without a broken connection the blocks are those of the client in there. *)
Expected == IF pc \in Inside THEN RMT_BLOCKS - Taken ELSE RMT_BLOCKS

(* The channel is armed, or its event waits, only for a command that waits; or *)
(* for none, after a wait has timed out. *)
ChannelInv ==
  /\ queue \in {0, 1}
  /\ pc \in Inside \ {"filter1", "filter2"} \/ Idle
  /\ armed => pc \in {"echo", "wait"} \/ late
  /\ ~(armed /\ fresh)
  /\ queue = 1 => late \/ (fresh /\ pc \in {"echo", "wait"})

CrashInv ==
  /\ pc \in Places
  /\ stray => "error" \in provoked
  /\ late => "late" \in provoked
  /\ "error" \in provoked \/ blocks = Expected
  /\ pc = "crashed" => provoked # {} /\ ~stray /\ blocks = RMT_BLOCKS

IInv == ChannelInv /\ CrashInv
-----------------------------------------------------------------------------
(* What an abort leaves behind is in order, if something has provoked it. *)
LEMMA AbortInv ==
  ASSUME Abort, provoked' # {}
  PROVE  IInv'
<1>1. ChannelInv'
  BY DEF Abort, ChannelInv, Idle
<1>2. CrashInv'
  BY DEF Abort, CrashInv, Places, Expected, Inside
<1> QED
  BY <1>1, <1>2 DEF IInv

LEMMA InitInv ==
  ASSUME Init
  PROVE  IInv
<1>1. ChannelInv
  BY DEF Init, ChannelInv, Idle
<1>2. CrashInv
  BY DEF Init, CrashInv, Places, Expected, Inside
<1> QED
  BY <1>1, <1>2 DEF IInv

(* The Wi-Fi link and the client leave the server's memory alone. *)
LEMMA OutsideInv ==
  ASSUME IInv, Wifi \/ Client
  PROVE  IInv'
<1> USE DEF IInv, ChannelInv, CrashInv, Idle, Places, Expected, Inside, Taken,
        server_vars, network_vars, wifi_vars, rmt_vars, settings_vars, rx_vars
<1>1. CASE AccessPoint \/ HandleEvent
  BY <1>1 DEF AccessPoint, HandleEvent
<1>2. CASE ConnectSta
  BY <1>2 DEF ConnectSta
<1>3. CASE Connect
  BY <1>3 DEF Connect
<1>4. CASE Deliver
  BY <1>4 DEF Deliver
<1>5. CASE Hangup
  BY <1>5 DEF Hangup
<1> QED
  BY <1>1, <1>2, <1>3, <1>4, <1>5 DEF Wifi, Client

(* Coming and going of clients. *)
LEMMA SessionInv ==
  ASSUME IInv,
         Listen \/ AcceptFails \/ Accept \/ Filter \/ EndOfStream \/ EndOfError \/ Restart
  PROVE  IInv'
<1> USE DEF IInv, ChannelInv, CrashInv, Idle, Places, Expected, Inside, Taken,
        TxBlocks, RxBlocks, RMT_BLOCKS, wifi_vars, rmt_vars, settings_vars, rx_vars, At
<1>1. CASE Listen
  BY <1>1 DEF Listen
<1>2. CASE AcceptFails
  BY <1>2 DEF AcceptFails
<1>3. CASE Accept
  BY <1>3 DEF Accept, NewEncoder
<1>4. CASE Filter
  BY <1>4 DEF Filter
<1>5. CASE EndOfStream
  BY <1>5 DEF EndOfStream, Return, Freed
<1>6. CASE EndOfError
  BY <1>6 DEF EndOfError, Return
<1>7. CASE Restart
  BY <1>7 DEF Restart
<1> QED
  BY <1>1, <1>2, <1>3, <1>4, <1>5, <1>6, <1>7

(* The commands, but for those that end in abort(). *)
LEMMA CommandInv ==
  ASSUME IInv,
         Set \/ Freq \/ Unknown \/ Tx \/ Rx \/ RxTx
  PROVE  IInv'
<1> USE DEF IInv, ChannelInv, CrashInv, Idle, Places, Expected, Inside, Taken,
        wifi_vars, rmt_vars, Taking, Arrived
<1>1. CASE Set \/ Freq \/ Unknown
  BY <1>1 DEF Set, Freq, Unknown
<1>2. CASE Tx
  BY <1>2 DEF Tx
<1>3. CASE Rx
  BY <1>3 DEF Rx, ReceiveIR
<1>4. CASE RxTx
  BY <1>4 DEF RxTx, ReceiveIR
<1> QED
  BY <1>1, <1>2, <1>3, <1>4

(* Frames come, or a wait for them ends. *)
LEMMA FrameInv ==
  ASSUME IInv,
         SendDone \/ OtherFrame \/ StrayFrame \/ TakeFrame \/ Timeout
  PROVE  IInv'
<1> USE DEF IInv, ChannelInv, CrashInv, Idle, Places, Expected, Inside, Taken,
        wifi_vars, rmt_vars, settings_vars, rx_vars, At
<1>0. ASSUME NEW word, Capture(word)
      PROVE  /\ ~armed' /\ queue' = 1 /\ stray' = stray
             /\ pc \in {"echo", "wait"} => fresh'
  BY <1>0 DEF Capture
<1>1. CASE SendDone
  <2>1. CASE armed /\ Capture(Sent(settings, reserved))
    BY <1>0, <1>1, <2>1 DEF SendDone
  <2>2. CASE UNCHANGED rx_vars
    BY <1>1, <2>2 DEF SendDone
  <2> QED
    BY <1>1, <2>1, <2>2 DEF SendDone
<1>2. CASE OtherFrame
  <2>1. PICK s \in OtherRemote : Capture(Sent(s, 0))
    BY <1>2 DEF OtherFrame
  <2> QED
    BY <1>0, <1>2, <2>1 DEF OtherFrame
<1>3. CASE StrayFrame
  BY <1>3 DEF StrayFrame
<1>4. CASE TakeFrame
  BY <1>4 DEF TakeFrame, TakeEvent
<1>5. CASE Timeout
  <2>1. late' /\ "late" \in provoked' /\ pc' = "recv" /\ queue' = 0
    BY <1>5 DEF Timeout, Expired
  <2>2. UNCHANGED <<armed, stray, blocks, firmware>> /\ provoked \subseteq provoked'
    BY <1>5 DEF Timeout, Expired
  <2> QED
    BY <1>5, <2>1, <2>2 DEF Timeout, Expired
<1> QED
  BY <1>1, <1>2, <1>3, <1>4, <1>5

(* Every abort has been provoked: without a broken connection the RMT memory   *)
(* suffices, and without a wait that timed out the channel is not armed.      *)
LEMMA AbortProvoked ==
  ASSUME IInv,
         AcceptAborts \/ FreqAborts \/ ReceiveAborts \/ TimeoutAborts \/ StrayAborts
  PROVE  Abort /\ provoked' # {}
<1>1. CASE AcceptAborts
  <2>1. CASE heap = 0
    BY <1>1, <2>1 DEF AcceptAborts
  <2>2. CASE heap # 0
    <3>1. blocks < Taken /\ provoked' = provoked /\ pc = "accept"
      BY <1>1, <2>2 DEF AcceptAborts
    <3>2. blocks # RMT_BLOCKS
      BY <3>1 DEF Taken, TxBlocks, RxBlocks, RMT_BLOCKS
    <3> QED
      BY <1>1, <3>1, <3>2 DEF AcceptAborts, IInv, CrashInv, Expected, Inside
  <2> QED
    BY <2>1, <2>2
<1>2. CASE FreqAborts
  BY <1>2 DEF FreqAborts
<1>3. CASE ReceiveAborts
  BY <1>3 DEF ReceiveAborts, Arrived, IInv, ChannelInv, CrashInv, Inside
<1>4. CASE TimeoutAborts
  BY <1>4 DEF TimeoutAborts, Expired
<1>5. CASE StrayAborts
  BY <1>5 DEF StrayAborts, IInv, CrashInv
<1> QED
  BY <1>1, <1>2, <1>3, <1>4, <1>5

LEMMA NextInv ==
  ASSUME IInv, [Next]_vars
  PROVE  IInv'
<1>1. CASE UNCHANGED vars
  BY <1>1 DEF vars, IInv, ChannelInv, CrashInv, Idle, Places, Expected, Inside, Taken
<1>2. CASE AcceptAborts \/ FreqAborts \/ ReceiveAborts \/ TimeoutAborts \/ StrayAborts
  BY <1>2, AbortProvoked, AbortInv
<1> QED
  BY <1>1, <1>2, OutsideInv, SessionInv, CommandInv, FrameInv DEF Next, Server, TimesOut

THEOREM Invariance == Spec => []IInv
<1>1. Init => IInv
  BY InitInv
<1>2. IInv /\ [Next]_vars => IInv'
  BY NextInv
<1> QED
  BY <1>1, <1>2, PTL DEF Spec
-----------------------------------------------------------------------------
(* However clients come, go and type and whatever light there is, the server    *)
(* reboots only if a connection broke, a wait timed out, a frequency had no     *)
(* number or the heap was used up: for every heap and all settings.           *)
THEOREM CrashesAreProvoked == Spec => []NoCrashUnprovoked
<1>1. IInv => NoCrashUnprovoked
  BY DEF IInv, CrashInv, NoCrashUnprovoked
<1> QED
  BY <1>1, Invariance, PTL

(* A decode reports a frame received since its command began, unless a wait of  *)
(* the connection has timed out.                                            *)
THEOREM DecodesAreFresh == Spec => FreshDecode
<1> DEFINE Decodes == pc = "wait" /\ pc' = "recv"
<1>1. ASSUME IInv, [Next]_vars, Decodes
      PROVE  fresh \/ late'
  <2>1. CASE TakeFrame
    BY <1>1, <2>1 DEF TakeFrame, At, IInv, ChannelInv
  <2>2. CASE Timeout
    BY <2>2 DEF Timeout
  <2>3. TakeFrame \/ Timeout
    <3> USE <1>1
    <3>1. ~UNCHANGED vars
      BY DEF vars
    <3>2. ~(Wifi \/ Client)
      BY DEF Wifi, Client, AccessPoint, HandleEvent, ConnectSta, Connect, Deliver,
             Hangup, server_vars, network_vars
    <3>3. ~(Listen \/ AcceptFails \/ Accept \/ Filter \/ EndOfStream \/ EndOfError
            \/ Restart \/ SendDone)
      BY DEF Listen, AcceptFails, Accept, Filter, EndOfStream, EndOfError, Restart,
             SendDone, At
    <3>4. ~(Set \/ Freq \/ Unknown \/ Tx \/ Rx \/ RxTx)
      BY DEF Set, Freq, Unknown, Tx, Rx, RxTx, Taking, Arrived
    <3>5. ~(AcceptAborts \/ FreqAborts \/ ReceiveAborts \/ TimeoutAborts \/ StrayAborts)
      BY AbortProvoked DEF Abort
    <3>6. ~(OtherFrame \/ StrayFrame)
      BY DEF OtherFrame, StrayFrame
    <3> QED
      BY <3>1, <3>2, <3>3, <3>4, <3>5, <3>6 DEF Next, Server, TimesOut
  <2> QED
    BY <2>1, <2>2, <2>3
<1>2. IInv /\ [Next]_vars => [Decodes => fresh \/ late']_vars
  BY <1>1
<1> QED
  BY <1>2, Invariance, PTL DEF Spec, FreshDecode
-----------------------------------------------------------------------------
(* Every set of natural numbers that is not empty has a least element. *)
LEMMA LeastNatural ==
  ASSUME NEW T, T \subseteq Nat, T # {}
  PROVE  \E n \in T : \A m \in T : n <= m
<1> DEFINE R == OpToRel(<, Nat)
<1>1. \A m, n \in Nat : m < n => <<m, n>> \in R
  BY DEF OpToRel
<1>2. \E n \in T : \A m \in T : ~(<<m, n>> \in R)
  <2>1. IsWellFoundedOn(R, Nat)
    BY NatLessThanWellFounded
  <2> HIDE DEF R
  <2> QED BY <2>1, WFMin
<1> HIDE DEF R
<1>3. PICK n \in T : \A m \in T : ~(<<m, n>> \in R)
  BY <1>2
<1>4. \A m \in T : ~(m < n) /\ m \in Nat /\ n \in Nat
  BY <1>1, <1>3
<1> QED BY <1>3, <1>4

-----------------------------------------------------------------------------
(* Sequences of levels.                                                    *)

Bit == {0, 1}

LEMMA FunctionIsSequence ==
  ASSUME NEW n \in Nat, NEW f \in [1..n -> Bit]
  PROVE  f \in Seq(Bit) /\ Len(f) = n
<1>1. f \in Seq(Bit)
  BY SeqDef
<1>2. Len(f) \in Nat /\ 1..Len(f) = 1..n
  BY <1>1, LenProperties
<1> QED BY <1>1, <1>2

(* c, of k bits, is the m bits of a with the n bits of b behind them. *)
Joins(c, k, a, m, b, n) ==
  /\ c \in [1..k -> Bit]
  /\ \A i \in 1..m : c[i] = a[i]
  /\ \A i \in 1..n : c[m + i] = b[i]

LEMMA Concat ==
  ASSUME NEW m \in Nat, NEW n \in Nat, NEW k \in Nat, k = m + n,
         NEW a \in [1..m -> Bit], NEW b \in [1..n -> Bit], NEW c, c = a \o b
  PROVE  Joins(c, k, a, m, b, n)
<1>1. a \in Seq(Bit) /\ b \in Seq(Bit) /\ Len(a) = m /\ Len(b) = n
  BY FunctionIsSequence
<1>2. c \in Seq(Bit) /\ Len(c) = m + n
  BY <1>1, ConcatProperties
<1>3. c \in [1..k -> Bit]
  BY <1>2, LenProperties
<1>4. \A i \in 1..(m + n) : c[i] = IF i <= m THEN a[i] ELSE b[i - m]
  BY <1>1, ConcatProperties
<1>5. \A i \in 1..m : c[i] = a[i]
  BY <1>4
<1>6. \A i \in 1..n : c[m + i] = b[i]
  <2> TAKE i \in 1..n
  <2>1. m + i \in 1..(m + n) /\ ~(m + i <= m) /\ (m + i) - m = i
    OBVIOUS
  <2> QED BY <1>4, <2>1
<1> QED BY <1>3, <1>5, <1>6 DEF Joins

(* n levels that are the same, and another one behind them. *)
Run(s, at, n) ==
  /\ \A i \in at..(at + n - 1) : s[i] = s[at]
  /\ s[at + n] # s[at]

(* Lasts is the length of the run that starts at a place. *)
LEMMA RunLasts ==
  ASSUME NEW k \in Nat, NEW s \in [1..k -> Bit], NEW at \in 1..k, NEW n \in 1..k,
         at + n <= k, Run(s, at, n)
  PROVE  Lasts(s, at) = n
<1> DEFINE P(m) == /\ \A i \in at..(at + m - 1) : s[i] = s[at]
                   /\ at + m > k \/ s[at + m] # s[at]
<1>0. (\A i \in at..(at + n - 1) : s[i] = s[at]) /\ s[at + n] # s[at]
  BY DEF Run
<1>1. n \in 1..k /\ P(n)
  BY <1>0
<1>2. ASSUME NEW m \in 1..k, P(m) PROVE m = n
  <2>1. ~(m < n)
    <3> SUFFICES ASSUME m < n PROVE FALSE
      OBVIOUS
    <3>1. at + m \in at..(at + n - 1) /\ ~(at + m > k)
      BY <1>1
    <3> QED BY <1>0, <1>2, <3>1
  <2>2. ~(n < m)
    <3> SUFFICES ASSUME n < m PROVE FALSE
      OBVIOUS
    <3>1. at + n \in at..(at + m - 1)
      BY <1>1
    <3> QED BY <1>0, <1>2, <3>1
  <2> QED BY <1>1, <2>1, <2>2
<1>3. Lasts(s, at) = CHOOSE m \in 1..k : P(m)
  BY FunctionIsSequence DEF Lasts
<1> HIDE DEF P
<1> QED BY <1>1, <1>2, <1>3

-----------------------------------------------------------------------------
(* The signal of a word.                                                   *)

LEMMA SignalShape ==
  ASSUME NEW w \in Word
  PROVE  LET s == Signal(w)
         IN  /\ s \in [1..226 -> Bit]
             /\ s[1] = 1 /\ s[2] = 1 /\ s[3] = 1 /\ s[4] = 0 /\ s[5] = 0 /\ s[6] = 0
             /\ \A j \in 1..34 : s[2 * j + 5] = 1 - w[j] /\ s[2 * j + 6] = w[j]
             /\ s[75] = 1
<1> DEFINE hdr == <<1, 1, 1, 0, 0, 0>>
           t == <<1, 1, 1, 1>>
           h == HalfBits(w)
           c == Code(w)
           c2 == c \o c
           c3 == c2 \o c
           s == c3 \o t
<1>1. /\ hdr \in [1..6 -> Bit] /\ t \in [1..4 -> Bit]
      /\ hdr[1] = 1 /\ hdr[2] = 1 /\ hdr[3] = 1 /\ hdr[4] = 0 /\ hdr[5] = 0 /\ hdr[6] = 0
  BY DEF Bit
<1>2. /\ h \in [1..68 -> Bit]
      /\ \A j \in 1..34 : h[2 * j - 1] = 1 - w[j] /\ h[2 * j] = w[j]
  <2>1. \A j \in 1..34 : w[j] \in Bit /\ 1 - w[j] \in Bit
    BY DEF Word, DATA_BITS, Bit
  <2>2. \A i \in 1..68 : (i % 2 = 1 => (i + 1) \div 2 \in 1..34) /\ (i % 2 # 1 => i \div 2 \in 1..34)
    OBVIOUS
  <2>3. h = [i \in 1..68 |-> IF i % 2 = 1 THEN 1 - w[(i + 1) \div 2] ELSE w[i \div 2]]
    BY DEF HalfBits, DATA_BITS
  <2> HIDE DEF h
  <2>4. h \in [1..68 -> Bit]
    BY <2>1, <2>2, <2>3
  <2>5. \A j \in 1..34 : /\ (2 * j - 1) % 2 = 1 /\ ((2 * j - 1) + 1) \div 2 = j
                         /\ 2 * j - 1 \in 1..68 /\ 2 * j \in 1..68
                         /\ (2 * j) % 2 = 0 /\ (2 * j) \div 2 = j
    OBVIOUS
  <2> QED BY <2>3, <2>4, <2>5
<1>3. t \in [1..4 -> Bit] /\ hdr \in [1..6 -> Bit]
  BY <1>1
<1>a. c = hdr \o h
  BY DEF Code
<1>b. c2 = c \o c
  OBVIOUS
<1>d. c3 = c2 \o c
  OBVIOUS
<1>e. s = c3 \o t
  OBVIOUS
<1>c. Signal(w) = s
  BY DEF Signal
<1> HIDE DEF hdr, t, h, c, c2, c3, s
<1>4. Joins(c, 74, hdr, 6, h, 68)
  <2>1. c = hdr \o h /\ 74 = 6 + 68
    BY <1>a
  <2>2. hdr \in [1..6 -> Bit] /\ h \in [1..68 -> Bit]
    BY <1>2, <1>3
  <2> QED BY <2>1, <2>2, Concat
<1>5. c \in [1..74 -> Bit]
  BY <1>4 DEF Joins
<1>6. Joins(c2, 148, c, 74, c, 74)
  <2>1. c2 = c \o c /\ 148 = 74 + 74
    BY <1>b
  <2> QED BY <2>1, <1>5, Concat
<1>7. c2 \in [1..148 -> Bit]
  BY <1>6 DEF Joins
<1>8. Joins(c3, 222, c2, 148, c, 74)
  <2> DEFINE k == 222
             m == 148
             n == 74
  <2>1. k \in Nat /\ m \in Nat /\ n \in Nat /\ k = m + n
    OBVIOUS
  <2>2. c2 \in [1..m -> Bit] /\ c \in [1..n -> Bit]
    BY <1>5, <1>7
  <2> HIDE DEF k, m, n
  <2>3. Joins(c3, k, c2, m, c, n)
    BY <2>1, <2>2, <1>d, Concat
  <2> QED BY <2>3 DEF k, m, n
<1>9. c3 \in [1..222 -> Bit]
  BY <1>8 DEF Joins
<1>10. Joins(s, 226, c3, 222, t, 4)
  <2> DEFINE k == 226
             m == 222
             n == 4
  <2>1. k \in Nat /\ m \in Nat /\ n \in Nat /\ k = m + n
    OBVIOUS
  <2>2. c3 \in [1..m -> Bit] /\ t \in [1..n -> Bit]
    BY <1>3, <1>9
  <2> HIDE DEF k, m, n
  <2>3. Joins(s, k, c3, m, t, n)
    BY <2>1, <2>2, <1>e, Concat
  <2> QED BY <2>3 DEF k, m, n
<1>11. s \in [1..226 -> Bit]
  BY <1>10 DEF Joins
<1>12. \A i \in 1..74 : s[i] = c[i]
  BY <1>6, <1>8, <1>10 DEF Joins
<1>13. s[75] = c[1]
  <2>1. c2[74 + 1] = c[1]
    BY <1>6 DEF Joins
  <2>2. c3[75] = c2[75] /\ s[75] = c3[75]
    BY <1>8, <1>10 DEF Joins
  <2> QED BY <2>1, <2>2
<1>14. /\ \A i \in 1..6 : s[i] = hdr[i]
       /\ s[75] = hdr[1]
  BY <1>4, <1>12, <1>13 DEF Joins
<1>15. \A j \in 1..34 : s[2 * j + 5] = 1 - w[j] /\ s[2 * j + 6] = w[j]
  <2> TAKE j \in 1..34
  <2>1. 2 * j - 1 \in 1..68 /\ 2 * j \in 1..68
    OBVIOUS
  <2>2. c[6 + (2 * j - 1)] = h[2 * j - 1] /\ c[6 + 2 * j] = h[2 * j]
    BY <1>4, <2>1 DEF Joins
  <2>3. 6 + (2 * j - 1) = 2 * j + 5 /\ 6 + 2 * j = 2 * j + 6
        /\ 2 * j + 5 \in 1..74 /\ 2 * j + 6 \in 1..74
    OBVIOUS
  <2> QED BY <1>2, <1>12, <2>2, <2>3
<1>16. /\ s[1] = 1 /\ s[2] = 1 /\ s[3] = 1 /\ s[4] = 0 /\ s[5] = 0 /\ s[6] = 0
       /\ s[75] = 1
  BY <1>1, <1>14
<1> QED BY <1>11, <1>15, <1>16, <1>c

-----------------------------------------------------------------------------
(* Reading it back.                                                        *)

(* A level differs from the next one at every odd place from 7 to 73, where   *)
(* the two halves of a bit meet; the second repetition begins at place 75.   *)
Coded(s) ==
  /\ s \in [1..226 -> Bit]
  /\ \A p \in 7..73 : p % 2 = 1 => s[p] # s[p + 1]
  /\ s[75] = 1

LEMMA SignalCoded ==
  ASSUME NEW w \in Word
  PROVE  Coded(Signal(w))
<1> DEFINE s == Signal(w)
<1>1. /\ s \in [1..226 -> Bit] /\ s[75] = 1
      /\ \A j \in 1..34 : s[2 * j + 5] = 1 - w[j] /\ s[2 * j + 6] = w[j]
  BY SignalShape
<1>2. \A j \in 1..34 : w[j] = 0 \/ w[j] = 1
  BY DEF Word, DATA_BITS
<1> HIDE DEF s
<1>3. \A p \in 7..73 : p % 2 = 1 => s[p] # s[p + 1]
  <2> TAKE p \in 7..73
  <2> HAVE p % 2 = 1
  <2>1. PICK j \in 1..34 : p = 2 * j + 5
    <3>1. (p - 5) \div 2 \in 1..34 /\ p = 2 * ((p - 5) \div 2) + 5
      OBVIOUS
    <3> QED BY <3>1
  <2>2. p + 1 = 2 * j + 6
    BY <2>1
  <2>3. s[p] = 1 - w[j] /\ s[p + 1] = w[j]
    BY <1>1, <2>1, <2>2
  <2> QED BY <1>2, <2>3
<1> QED BY <1>1, <1>3 DEF Coded, s

(* A mark that begins inside the code, and the space behind it, last one or   *)
(* two units each, and the next mark begins no later than the next code.     *)
LEMMA MarkAndSpace ==
  ASSUME NEW s, Coded(s), NEW p \in 7..73, s[p] = 1, s[p - 1] = 0
  PROVE  \E d0, d1 \in {1, 2} :
           /\ Lasts(s, p) = d0 /\ Lasts(s, p + d0) = d1
           /\ \A i \in p..(p + d0 - 1) : s[i] = 1
           /\ \A i \in (p + d0)..(p + d0 + d1 - 1) : s[i] = 0
           /\ p + d0 + d1 <= 75 /\ s[p + d0 + d1] = 1
<1>0. /\ s \in [1..226 -> Bit]
      /\ \A i \in 7..73 : i % 2 = 1 => s[i] # s[i + 1]
      /\ s[75] = 1
      /\ \A i \in 1..226 : s[i] = 0 \/ s[i] = 1
  BY DEF Coded, Bit
<1>a. s \in [1..226 -> Bit]
  BY <1>0
<1>1. ASSUME NEW q \in 1..100, s[q] = 1, s[q + 1] = 0 PROVE Lasts(s, q) = 1
  <2>1. Run(s, q, 1)
    BY <1>1 DEF Run
  <2>2. q \in 1..226 /\ 1 \in 1..226 /\ q + 1 <= 226 /\ 226 \in Nat
    OBVIOUS
  <2> QED BY <1>a, <2>1, <2>2, RunLasts
<1>2. ASSUME NEW q \in 1..100, s[q] = 0, s[q + 1] = 1 PROVE Lasts(s, q) = 1
  <2>1. Run(s, q, 1)
    BY <1>2 DEF Run
  <2>2. q \in 1..226 /\ 1 \in 1..226 /\ q + 1 <= 226 /\ 226 \in Nat
    OBVIOUS
  <2> QED BY <1>a, <2>1, <2>2, RunLasts
<1>3. ASSUME NEW q \in 1..100, s[q] = 1, s[q + 1] = 1, s[q + 2] = 0 PROVE Lasts(s, q) = 2
  <2>1. Run(s, q, 2)
    BY <1>3 DEF Run
  <2>2. q \in 1..226 /\ 2 \in 1..226 /\ q + 2 <= 226 /\ 226 \in Nat
    OBVIOUS
  <2> QED BY <1>a, <2>1, <2>2, RunLasts
<1>4. ASSUME NEW q \in 1..100, s[q] = 0, s[q + 1] = 0, s[q + 2] = 1 PROVE Lasts(s, q) = 2
  <2>1. Run(s, q, 2)
    BY <1>4 DEF Run
  <2>2. q \in 1..226 /\ 2 \in 1..226 /\ q + 2 <= 226 /\ 226 \in Nat
    OBVIOUS
  <2> QED BY <1>a, <2>1, <2>2, RunLasts
<1>5. /\ p + 1 \in 1..100 /\ p + 2 \in 1..100 /\ p \in 1..100
      /\ (p + 1) + 1 = p + 2 /\ (p + 1) + 2 = p + 3 /\ (p + 2) + 1 = p + 3
      /\ (p + 2) + 2 = p + 4 /\ p + 3 \in 1..226 /\ p + 4 \in 1..226
  OBVIOUS
<1>6. CASE p % 2 = 1
  <2>1. s[p + 1] = 0
    BY <1>0, <1>5, <1>6
  <2>2. CASE s[p + 2] = 1
    <3>1. Lasts(s, p) = 1 /\ Lasts(s, p + 1) = 1
      BY <1>1, <1>2, <1>5, <2>1, <2>2
    <3> WITNESS 1 \in {1, 2}, 1 \in {1, 2}
    <3> QED BY <2>1, <2>2, <3>1
  <2>3. CASE s[p + 2] = 0
    <3>1. p + 2 \in 7..73 /\ (p + 2) % 2 = 1
      BY <1>0, <1>6, <2>3
    <3>2. s[p + 3] = 1
      BY <1>0, <1>5, <2>3, <3>1
    <3>3. Lasts(s, p) = 1 /\ Lasts(s, p + 1) = 2
      BY <1>1, <1>4, <1>5, <2>1, <2>3, <3>2
    <3> WITNESS 1 \in {1, 2}, 2 \in {1, 2}
    <3> QED BY <2>1, <2>3, <3>1, <3>2, <3>3
  <2>4. s[p + 2] = 0 \/ s[p + 2] = 1
    BY <1>0, <1>5
  <2> QED BY <2>2, <2>3, <2>4
<1>7. CASE p % 2 # 1
  <2>1. p + 1 \in 7..73 /\ (p + 1) % 2 = 1 /\ p <= 72
    BY <1>7
  <2>2. s[p + 1] # s[p + 2]
    BY <1>0, <1>5, <2>1
  <2>3. CASE s[p + 1] = 0
    <3>1. s[p + 2] = 1
      BY <1>0, <1>5, <2>2, <2>3
    <3>2. Lasts(s, p) = 1 /\ Lasts(s, p + 1) = 1
      BY <1>1, <1>2, <1>5, <2>3, <3>1
    <3> WITNESS 1 \in {1, 2}, 1 \in {1, 2}
    <3> QED BY <2>1, <2>3, <3>1, <3>2
  <2>4. CASE s[p + 1] = 1
    <3>1. s[p + 2] = 0
      BY <1>0, <1>5, <2>2, <2>4
    <3>2. Lasts(s, p) = 2
      BY <1>3, <1>5, <2>4, <3>1
    <3>3. CASE s[p + 3] = 1
      <4>1. Lasts(s, p + 2) = 1
        BY <1>2, <1>5, <3>1, <3>3
      <4> WITNESS 2 \in {1, 2}, 1 \in {1, 2}
      <4> QED BY <2>1, <2>4, <3>1, <3>2, <3>3, <4>1
    <3>4. CASE s[p + 3] = 0
      <4>1. p + 3 \in 7..73 /\ (p + 3) % 2 = 1 /\ (p + 3) + 1 = p + 4
        BY <1>0, <1>7, <2>1, <3>4
      <4>2. s[p + 4] = 1
        BY <1>0, <1>5, <3>4, <4>1
      <4>3. Lasts(s, p + 2) = 2
        BY <1>4, <1>5, <3>1, <3>4, <4>2
      <4> WITNESS 2 \in {1, 2}, 2 \in {1, 2}
      <4> QED BY <2>1, <2>4, <3>1, <3>2, <3>4, <4>1, <4>2, <4>3
    <3> QED BY <1>0, <1>5, <3>3, <3>4
  <2>5. s[p + 1] = 0 \/ s[p + 1] = 1
    BY <1>0, <1>5
  <2> QED BY <2>3, <2>4, <2>5
<1> QED BY <1>6, <1>7

(* After i symbols: at least two halves for each, or all of them; they are    *)
(* those of the signal, and until the end a new mark is about to be read.    *)
Prefix(s, r, i) ==
  \E n \in Nat :
    /\ r.bits \in [1..n -> Bit]
    /\ \A j \in 1..68 : j <= n => r.bits[j] = s[6 + j]
    /\ n >= 2 * i \/ n >= 68
    /\ n < 68 => r.at = 7 + n /\ s[r.at] = 1 /\ s[r.at - 1] = 0

LEMMA LeadingPrefix ==
  ASSUME NEW w \in Word
  PROVE  Prefix(Signal(w), ReadLeading(Signal(w)), 0)
<1> DEFINE s == Signal(w)
<1>1. /\ s[1] = 1 /\ s[2] = 1 /\ s[3] = 1 /\ s[4] = 0 /\ s[5] = 0 /\ s[6] = 0
      /\ s \in [1..226 -> Bit]
  BY SignalShape
<1>2. s[7] # s[8] /\ (s[7] = 0 \/ s[7] = 1) /\ (s[8] = 0 \/ s[8] = 1)
  <2>1. Coded(s)
    BY SignalCoded
  <2> HIDE DEF s
  <2>2. 7 \in 7..73 /\ 7 % 2 = 1 /\ 7 + 1 = 8
    OBVIOUS
  <2> QED BY <1>1, <2>1, <2>2 DEF Coded, Bit
<1> HIDE DEF s
<1>3. Lasts(s, 1) = 3
  <2>1. Run(s, 1, 3)
    BY <1>1 DEF Run
  <2>2. 1 \in 1..226 /\ 3 \in 1..226 /\ 1 + 3 <= 226 /\ 226 \in Nat
    OBVIOUS
  <2> QED BY <1>1, <2>1, <2>2, RunLasts
<1>4. CASE s[7] = 1
  <2>1. Lasts(s, 4) = 3
    <3>1. Run(s, 4, 3)
      BY <1>1, <1>4 DEF Run
    <3>2. 4 \in 1..226 /\ 3 \in 1..226 /\ 4 + 3 <= 226 /\ 226 \in Nat
      OBVIOUS
    <3> QED BY <1>1, <3>1, <3>2, RunLasts
  <2>2. ReadLeading(s) = [bits |-> <<>>, at |-> 7]
    BY <1>3, <2>1 DEF ReadLeading, LeadingHalf
  <2>3. <<>> \in [1..0 -> Bit]
    OBVIOUS
  <2>4. /\ \A j \in 1..68 : j <= 0 => ReadLeading(s).bits[j] = s[6 + j]
        /\ 0 >= 2 * 0 /\ ReadLeading(s).at = 7 + 0 /\ s[7] = 1 /\ s[7 - 1] = 0
        /\ ReadLeading(s).bits \in [1..0 -> Bit]
    BY <1>1, <1>4, <2>2, <2>3
  <2>5. Prefix(s, ReadLeading(s), 0)
    <3> USE DEF Prefix
    <3> WITNESS 0 \in Nat
    <3> QED BY <2>4
  <2> QED BY <2>5 DEF s
<1>5. CASE s[7] = 0
  <2>1. Lasts(s, 4) = 4
    <3>1. Run(s, 4, 4)
      BY <1>1, <1>2, <1>5 DEF Run
    <3>2. 4 \in 1..226 /\ 4 + 4 <= 226 /\ 226 \in Nat
      OBVIOUS
    <3> QED BY <1>1, <3>1, <3>2, RunLasts
  <2>2. ReadLeading(s) = [bits |-> <<0>>, at |-> 8]
    BY <1>3, <2>1 DEF ReadLeading, LeadingHalf
  <2>3. <<0>> \in [1..1 -> Bit] /\ <<0>>[1] = 0
    BY DEF Bit
  <2> QED BY <1>1, <1>2, <1>5, <2>2, <2>3 DEF Prefix, s
<1> QED BY <1>2, <1>4, <1>5

(* One unit is one half, two are two. *)
LEMMA HalvesShape ==
  ASSUME NEW level \in Bit, NEW d
  PROVE  \E n \in {1, 2} : /\ Halves(level, d) \in [1..n -> Bit]
                           /\ \A j \in 1..n : Halves(level, d)[j] = level
                           /\ d \in {1, 2} => n = d
<1>1. CASE d = 2
  <2>1. <<level, level>> \in [1..2 -> Bit] /\ \A j \in 1..2 : <<level, level>>[j] = level
    OBVIOUS
  <2> QED BY <1>1, <2>1 DEF Halves
<1>2. CASE d # 2
  <2>1. <<level>> \in [1..1 -> Bit] /\ \A j \in 1..1 : <<level>>[j] = level
    OBVIOUS
  <2> QED BY <1>2, <2>1 DEF Halves
<1> QED BY <1>1, <1>2

LEMMA SymbolPrefix ==
  ASSUME NEW s, Coded(s), NEW r, NEW i \in Nat, Prefix(s, r, i)
  PROVE  Prefix(s, ReadSymbol(s, r), i + 1)
<1>1. PICK n \in Nat :
        /\ r.bits \in [1..n -> Bit]
        /\ \A j \in 1..68 : j <= n => r.bits[j] = s[6 + j]
        /\ n >= 2 * i \/ n >= 68
        /\ n < 68 => r.at = 7 + n /\ s[r.at] = 1 /\ s[r.at - 1] = 0
  BY DEF Prefix
<1>2. Len(r.bits) = n
  BY <1>1, FunctionIsSequence
<1>3. CASE n >= 68
  <2>1. ReadSymbol(s, r) = r
    BY <1>2, <1>3 DEF ReadSymbol, DATA_BITS
  <2>2. n >= 2 * (i + 1) \/ n >= 68
    BY <1>3
  <2>3. n < 68 => r.at = 7 + n /\ s[r.at] = 1 /\ s[r.at - 1] = 0
    BY <1>3
  <2> QED BY <1>1, <2>1, <2>2, <2>3 DEF Prefix
<1>4. CASE n < 68
  <2> DEFINE p == r.at
             d0 == Lasts(s, p)
             d1 == Lasts(s, p + d0)
             a == Halves(1, d0)
             b == Halves(0, d1)
             c == r.bits \o a
             c2 == c \o b
             r2 == ReadSymbol(s, r)
  <2>1. r2 = [bits |-> c2, at |-> p + d0 + d1]
    BY <1>2, <1>4 DEF ReadSymbol, DATA_BITS
  <2>2. PICK n0 \in {1, 2} : /\ a \in [1..n0 -> Bit]
                             /\ \A j \in 1..n0 : a[j] = 1
                             /\ d0 \in {1, 2} => n0 = d0
    BY HalvesShape DEF Bit
  <2>3. PICK n1 \in {1, 2} : /\ b \in [1..n1 -> Bit]
                             /\ \A j \in 1..n1 : b[j] = 0
                             /\ d1 \in {1, 2} => n1 = d1
    BY HalvesShape DEF Bit
  <2>4. c = r.bits \o a /\ c2 = c \o b
    OBVIOUS
  <2> HIDE DEF a, b, c, c2, d0, d1
  <2>5. Joins(c, n + n0, r.bits, n, a, n0)
    <3>1. n \in Nat /\ n0 \in Nat /\ n + n0 \in Nat
      OBVIOUS
    <3>2. r.bits \in [1..n -> Bit]
      BY <1>1
    <3> QED BY <2>2, <2>4, <3>1, <3>2, Concat
  <2>6. c \in [1..(n + n0) -> Bit]
    BY <2>5 DEF Joins
  <2> DEFINE m == n + n0
             m2 == m + n1
  <2>7. m \in Nat /\ m2 \in Nat /\ n1 \in Nat
    OBVIOUS
  <2>8. Joins(c2, m2, c, m, b, n1)
    <3>1. c \in [1..m -> Bit] /\ m2 = m + n1
      BY <2>6
    <3> HIDE DEF m, m2
    <3> QED BY <2>3, <2>4, <2>7, <3>1, Concat
  <2>9. c2 \in [1..m2 -> Bit]
    BY <2>8 DEF Joins
  <2>10. /\ \A j \in 1..n : c2[j] = r.bits[j]
         /\ \A j \in 1..n0 : c2[n + j] = 1
         /\ \A j \in 1..n1 : c2[m + j] = 0
    <3>1. \A j \in 1..n : c[j] = r.bits[j] /\ j \in 1..m
      BY <2>5 DEF Joins
    <3>2. \A j \in 1..n0 : c[n + j] = 1 /\ n + j \in 1..m
      BY <2>2, <2>5 DEF Joins
    <3> HIDE DEF m, m2
    <3>3. \A j \in 1..m : c2[j] = c[j]
      BY <2>8 DEF Joins
    <3>4. \A j \in 1..n1 : c2[m + j] = 0
      BY <2>3, <2>8 DEF Joins
    <3> QED BY <3>1, <3>2, <3>3, <3>4
  <2>11. p = 7 + n /\ s[p] = 1 /\ s[p - 1] = 0
    BY <1>1, <1>4
  <2>12. m2 >= 2 * (i + 1) \/ m2 >= 68
    BY <1>1, <1>4
  <2>13. CASE n = 67
    <3>1. \A j \in 1..68 : j <= m2 => c2[j] = s[6 + j]
      <4> TAKE j \in 1..68
      <4>1. CASE j = 68
        <5>1. 68 = n + 1 /\ 1 \in 1..n0 /\ 6 + 68 = p
          BY <2>11, <2>13
        <5> QED BY <2>10, <2>11, <4>1, <5>1
      <4>2. CASE j # 68
        <5>1. j \in 1..n /\ j <= n
          BY <2>13, <4>2
        <5> QED BY <1>1, <2>10, <5>1
      <4> QED BY <4>1, <4>2
    <3>2. ~(m2 < 68)
      BY <2>13
    <3>3. r2.bits = c2
      BY <2>1
    <3> HIDE DEF m2, r2
    <3>4. Prefix(s, r2, i + 1)
      BY <2>7, <2>9, <2>12, <3>1, <3>2, <3>3 DEF Prefix
    <3> QED BY <3>4 DEF r2
  <2>14. CASE n # 67
    <3>1. p \in 7..73
      BY <1>4, <2>11, <2>14
    <3>2. /\ d0 \in {1, 2} /\ d1 \in {1, 2}
          /\ \A k \in p..(p + d0 - 1) : s[k] = 1
          /\ \A k \in (p + d0)..(p + d0 + d1 - 1) : s[k] = 0
          /\ p + d0 + d1 <= 75 /\ s[p + d0 + d1] = 1
      BY <2>11, <3>1, MarkAndSpace DEF d0, d1
    <3>3. n0 = d0 /\ n1 = d1
      BY <2>2, <2>3, <3>2
    <3>4. \A j \in 1..68 : j <= m2 => c2[j] = s[6 + j]
      <4> TAKE j \in 1..68
      <4> HAVE j <= m2
      <4>1. CASE j <= n
        <5>1. j \in 1..n
          BY <4>1
        <5> QED BY <1>1, <2>10, <4>1, <5>1
      <4>2. CASE n < j /\ j <= n + n0
        <5>1. j - n \in 1..n0 /\ n + (j - n) = j
          BY <4>2
        <5>2. c2[j] = 1
          BY <2>10, <5>1
        <5>3. 6 + j \in p..(p + d0 - 1)
          BY <2>11, <3>3, <4>2
        <5> QED BY <3>2, <5>2, <5>3
      <4>3. CASE n + n0 < j
        <5>1. j - m \in 1..n1 /\ m + (j - m) = j
          BY <4>3
        <5>2. c2[j] = 0
          <6> HIDE DEF m
          <6> QED BY <2>10, <5>1
        <5>3. 6 + j \in (p + d0)..(p + d0 + d1 - 1)
          BY <2>11, <3>3, <4>3
        <5> QED BY <3>2, <5>2, <5>3
      <4> QED BY <4>1, <4>2, <4>3
    <3>5. p + d0 + d1 = 7 + m2
      BY <2>11, <3>3
    <3>6. (7 + m2) - 1 \in (p + d0)..(p + d0 + d1 - 1)
      BY <2>11, <3>2, <3>3
    <3>7. r2.at = 7 + m2 /\ s[7 + m2] = 1 /\ s[(7 + m2) - 1] = 0 /\ r2.bits = c2
      BY <2>1, <3>2, <3>5, <3>6
    <3> HIDE DEF m2, r2
    <3>8. Prefix(s, r2, i + 1)
      BY <2>7, <2>9, <2>12, <3>4, <3>7 DEF Prefix
    <3> QED BY <3>8 DEF r2
  <2> QED BY <2>13, <2>14
<1> QED BY <1>1, <1>3, <1>4

(* The recursion of Reading defines a function. *)
LEMMA ReadingSteps ==
  ASSUME NEW s
  PROVE  /\ Reading(s)[0] = ReadLeading(s)
         /\ \A i \in 1..34 : Reading(s)[i] = ReadSymbol(s, Reading(s)[i - 1])
<1> DEFINE F(n, f) ==
             f = [i \in 0..n |-> IF i = 0 THEN ReadLeading(s) ELSE ReadSymbol(s, f[i - 1])]
           T == {n \in Nat : ~\E f : F(n, f)}
<1>1. T = {}
  <2> SUFFICES ASSUME T # {} PROVE FALSE
    OBVIOUS
  <2>1. PICK n \in T : \A m \in T : n <= m
    <3>1. T \subseteq Nat
      OBVIOUS
    <3> HIDE DEF T
    <3> QED BY <3>1, LeastNatural
  <2>2. n \in Nat /\ ~\E f : F(n, f)
    OBVIOUS
  <2>3. CASE n = 0
    <3> DEFINE f == [i \in 0..0 |-> ReadLeading(s)]
    <3>1. F(0, f)
      OBVIOUS
    <3> QED BY <2>2, <2>3, <3>1
  <2>4. CASE n # 0
    <3>1. n - 1 \in Nat /\ ~(n <= n - 1)
      BY <2>2, <2>4
    <3>2. PICK f : F(n - 1, f)
      BY <2>1, <3>1
    <3> DEFINE g == [i \in 0..n |-> IF i = n THEN ReadSymbol(s, f[n - 1]) ELSE f[i]]
    <3>3. \A i \in 0..n : i = n \/ i \in 0..(n - 1)
      BY <2>2
    <3>4. \A i \in 0..(n - 1) :
            f[i] = IF i = 0 THEN ReadLeading(s) ELSE ReadSymbol(s, f[i - 1])
      BY <3>2
    <3>5. \A i \in 0..n : g[i] = IF i = 0 THEN ReadLeading(s) ELSE ReadSymbol(s, g[i - 1])
      <4> TAKE i \in 0..n
      <4>1. CASE i = 0
        BY <2>2, <2>4, <3>4, <4>1
      <4>2. CASE i # 0
        <5>1. i - 1 \in 0..(n - 1) /\ i - 1 \in 0..n /\ i - 1 # n
          BY <2>2, <4>2
        <5>2. g[i - 1] = f[i - 1]
          BY <5>1
        <5>3. g[i] = ReadSymbol(s, f[i - 1])
          BY <3>3, <3>4, <4>2
        <5> QED BY <4>2, <5>2, <5>3
      <4> QED BY <4>1, <4>2
    <3>6. F(n, g)
      <4>1. g = [i \in 0..n |-> g[i]]
        OBVIOUS
      <4> HIDE DEF g
      <4> QED BY <3>5, <4>1
    <3> QED BY <2>2, <3>6
  <2> QED BY <2>3, <2>4
<1>2. \E f : F(34, f)
  <2>1. 34 \in Nat
    OBVIOUS
  <2> QED BY <1>1, <2>1
<1>3. Reading(s) = CHOOSE f : F(34, f)
  BY DEF Reading, DATA_BITS
<1>4. F(34, Reading(s))
  <2> HIDE DEF F
  <2> QED BY <1>2, <1>3
<1> DEFINE g == Reading(s)
<1>5. g = [i \in 0..34 |-> IF i = 0 THEN ReadLeading(s) ELSE ReadSymbol(s, g[i - 1])]
  BY <1>4
<1> HIDE DEF g
<1>6. \A i \in 0..34 : g[i] = IF i = 0 THEN ReadLeading(s) ELSE ReadSymbol(s, g[i - 1])
  BY <1>5
<1>7. g[0] = ReadLeading(s) /\ \A i \in 1..34 : g[i] = ReadSymbol(s, g[i - 1])
  BY <1>6
<1> QED BY <1>7 DEF g

(* rmt_decode_manchester (ir_codec.c:219) reads of the signal of a word its     *)
(* complement, wherever runs of equal halves fall.                          *)
THEOREM DecodeComplements ==
  ASSUME NEW w \in Word
  PROVE  Decode(Signal(w)) = Complement(w)
<1> DEFINE s == Signal(w)
           g == Reading(s)
           T == {i \in 0..34 : ~Prefix(s, g[i], i)}
<1>1. Coded(s) /\ Prefix(s, ReadLeading(s), 0)
  BY SignalCoded, LeadingPrefix
<1>2. g[0] = ReadLeading(s) /\ \A i \in 1..34 : g[i] = ReadSymbol(s, g[i - 1])
  BY ReadingSteps
<1>s. \A j \in 1..34 : s[2 * j + 5] = 1 - w[j]
  BY SignalShape
<1> HIDE DEF s, g
<1>3. T = {}
  <2> SUFFICES ASSUME T # {} PROVE FALSE
    OBVIOUS
  <2>1. PICK n \in T : \A m \in T : n <= m
    <3>1. T \subseteq Nat
      OBVIOUS
    <3> HIDE DEF T
    <3> QED BY <3>1, LeastNatural
  <2>2. n \in 0..34 /\ ~Prefix(s, g[n], n)
    OBVIOUS
  <2>3. n # 0
    BY <1>1, <1>2, <2>2
  <2>4. n \in 1..34 /\ n - 1 \in 0..34 /\ n - 1 \in Nat /\ ~(n <= n - 1) /\ (n - 1) + 1 = n
    BY <2>2, <2>3
  <2>5. Prefix(s, g[n - 1], n - 1)
    BY <2>1, <2>4
  <2>6. Prefix(s, ReadSymbol(s, g[n - 1]), (n - 1) + 1)
    BY <1>1, <2>4, <2>5, SymbolPrefix
  <2> QED BY <1>2, <2>2, <2>4, <2>6
<1>4. PICK n \in Nat : /\ n >= 68
                       /\ \A j \in 1..68 : j <= n => g[34].bits[j] = s[6 + j]
  <2>1. Prefix(s, g[34], 34)
    BY <1>3
  <2>2. PICK n \in Nat : /\ n >= 2 * 34 \/ n >= 68
                         /\ \A j \in 1..68 : j <= n => g[34].bits[j] = s[6 + j]
    BY <2>1 DEF Prefix
  <2>3. n >= 68
    BY <2>2
  <2> QED BY <2>2, <2>3
<1>5. \A j \in 1..34 : g[34].bits[2 * j - 1] = 1 - w[j]
  <2> TAKE j \in 1..34
  <2>1. 2 * j - 1 \in 1..68 /\ 2 * j - 1 <= n /\ 6 + (2 * j - 1) = 2 * j + 5
    BY <1>4
  <2>2. g[34].bits[2 * j - 1] = s[6 + (2 * j - 1)]
    BY <1>4, <2>1
  <2> QED BY <1>s, <2>1, <2>2
<1>6. Decode(s) = [j \in 1..34 |-> g[34].bits[2 * j - 1]]
  BY DEF Decode, DATA_BITS, g
<1>7. Complement(w) = [j \in 1..34 |-> 1 - w[j]]
  BY DEF Complement, DATA_BITS
<1> QED BY <1>5, <1>6, <1>7 DEF s

(* The fields of a word fill its 34 bits. *)
LEMMA BinaryType ==
  ASSUME NEW x \in Int
  PROVE  Binary(x, 2) \in [1..2 -> Bit] /\ Binary(x, 3) \in [1..3 -> Bit]
         /\ Binary(x, 4) \in [1..4 -> Bit]
BY DEF Binary, Bit

LEMMA SettingsWordType ==
  ASSUME NEW s \in SettingsRange, NEW reserved_bits \in Bit
  PROVE  SettingsWord(s, reserved_bits) \in Word
<1> DEFINE zeros(n) == [i \in 1..n |-> reserved_bits]
           w1 == <<s.power>>
           w4 == w1 \o Binary(s.mode, 3)
           w6 == w4 \o Binary(s.fan, 2)
           w8 == w6 \o zeros(2)
           w9 == w8 \o <<s.swing>>
           w11 == w9 \o zeros(2)
           w15 == w11 \o Binary(s.temperature - 16, 4)
           w16 == w15 \o <<s.sleep>>
           w32 == w16 \o zeros(16)
           w33 == w32 \o <<1>>
           w34 == w33 \o zeros(1)
<1>1. /\ s.power \in Bit /\ s.swing \in Bit /\ s.sleep \in Bit
      /\ s.mode \in Int /\ s.fan \in Int /\ s.temperature - 16 \in Int
  BY DEF SettingsRange, Bit
<1>2. \A x \in Bit : <<x>> \in [1..1 -> Bit]
  OBVIOUS
<1>3. /\ zeros(1) \in [1..1 -> Bit] /\ zeros(2) \in [1..2 -> Bit]
      /\ zeros(16) \in [1..16 -> Bit] /\ 1 \in Bit
  BY DEF Bit
<1>4. SettingsWord(s, reserved_bits) = w34
  BY DEF SettingsWord
<1>5. w1 \in [1..1 -> Bit]
  BY <1>1, <1>2
<1>6. /\ Binary(s.mode, 3) \in [1..3 -> Bit] /\ Binary(s.fan, 2) \in [1..2 -> Bit]
      /\ Binary(s.temperature - 16, 4) \in [1..4 -> Bit]
  BY <1>1, BinaryType
<1>7. <<s.swing>> \in [1..1 -> Bit] /\ <<s.sleep>> \in [1..1 -> Bit] /\ <<1>> \in [1..1 -> Bit]
  BY <1>1, <1>2, <1>3
<1> HIDE DEF zeros, w1, w4, w6, w8, w9, w11, w15, w16, w32, w33, w34
<1>8. w4 \in [1..4 -> Bit]
  <2>1. w4 = w1 \o Binary(s.mode, 3) /\ 4 = 1 + 3
    BY DEF w4
  <2>2. w1 \in [1..1 -> Bit] /\ Binary(s.mode, 3) \in [1..3 -> Bit]
    BY <1>5, <1>6
  <2>3. Joins(w4, 4, w1, 1, Binary(s.mode, 3), 3)
    BY <2>1, <2>2, Concat
  <2> QED BY <2>3 DEF Joins
<1>9. w6 \in [1..6 -> Bit]
  <2>1. w6 = w4 \o Binary(s.fan, 2) /\ 6 = 4 + 2
    BY DEF w6
  <2>2. w4 \in [1..4 -> Bit] /\ Binary(s.fan, 2) \in [1..2 -> Bit]
    BY <1>6, <1>8
  <2>3. Joins(w6, 6, w4, 4, Binary(s.fan, 2), 2)
    BY <2>1, <2>2, Concat
  <2> QED BY <2>3 DEF Joins
<1>10. w8 \in [1..8 -> Bit]
  <2>1. w8 = w6 \o zeros(2) /\ 8 = 6 + 2
    BY DEF w8
  <2>2. w6 \in [1..6 -> Bit] /\ zeros(2) \in [1..2 -> Bit]
    BY <1>3, <1>9
  <2>3. Joins(w8, 8, w6, 6, zeros(2), 2)
    BY <2>1, <2>2, Concat
  <2> QED BY <2>3 DEF Joins
<1>11. w9 \in [1..9 -> Bit]
  <2>1. w9 = w8 \o <<s.swing>> /\ 9 = 8 + 1
    BY DEF w9
  <2>2. w8 \in [1..8 -> Bit] /\ <<s.swing>> \in [1..1 -> Bit]
    BY <1>7, <1>10
  <2>3. Joins(w9, 9, w8, 8, <<s.swing>>, 1)
    BY <2>1, <2>2, Concat
  <2> QED BY <2>3 DEF Joins
<1>12. w11 \in [1..11 -> Bit]
  <2>1. w11 = w9 \o zeros(2) /\ 11 = 9 + 2
    BY DEF w11
  <2>2. w9 \in [1..9 -> Bit] /\ zeros(2) \in [1..2 -> Bit]
    BY <1>3, <1>11
  <2>3. Joins(w11, 11, w9, 9, zeros(2), 2)
    BY <2>1, <2>2, Concat
  <2> QED BY <2>3 DEF Joins
<1>13. w15 \in [1..15 -> Bit]
  <2>1. w15 = w11 \o Binary(s.temperature - 16, 4) /\ 15 = 11 + 4
    BY DEF w15
  <2>2. w11 \in [1..11 -> Bit] /\ Binary(s.temperature - 16, 4) \in [1..4 -> Bit]
    BY <1>6, <1>12
  <2>3. Joins(w15, 15, w11, 11, Binary(s.temperature - 16, 4), 4)
    BY <2>1, <2>2, Concat
  <2> QED BY <2>3 DEF Joins
<1>14. w16 \in [1..16 -> Bit]
  <2>1. w16 = w15 \o <<s.sleep>> /\ 16 = 15 + 1
    BY DEF w16
  <2>2. w15 \in [1..15 -> Bit] /\ <<s.sleep>> \in [1..1 -> Bit]
    BY <1>7, <1>13
  <2>3. Joins(w16, 16, w15, 15, <<s.sleep>>, 1)
    BY <2>1, <2>2, Concat
  <2> QED BY <2>3 DEF Joins
<1>15. w32 \in [1..32 -> Bit]
  <2>1. w32 = w16 \o zeros(16) /\ 32 = 16 + 16
    BY DEF w32
  <2>2. w16 \in [1..16 -> Bit] /\ zeros(16) \in [1..16 -> Bit]
    BY <1>3, <1>14
  <2>3. Joins(w32, 32, w16, 16, zeros(16), 16)
    BY <2>1, <2>2, Concat
  <2> QED BY <2>3 DEF Joins
<1>16. w33 \in [1..33 -> Bit]
  <2>1. w33 = w32 \o <<1>> /\ 33 = 32 + 1
    BY DEF w33
  <2>2. w32 \in [1..32 -> Bit] /\ <<1>> \in [1..1 -> Bit]
    BY <1>7, <1>15
  <2>3. Joins(w33, 33, w32, 32, <<1>>, 1)
    BY <2>1, <2>2, Concat
  <2> QED BY <2>3 DEF Joins
<1>17. w34 \in [1..34 -> Bit]
  <2>1. w34 = w33 \o zeros(1) /\ 34 = 33 + 1
    BY DEF w34
  <2>2. w33 \in [1..33 -> Bit] /\ zeros(1) \in [1..1 -> Bit]
    BY <1>3, <1>16
  <2>3. Joins(w34, 34, w33, 33, zeros(1), 1)
    BY <2>1, <2>2, Concat
  <2> QED BY <2>3 DEF Joins
<1> QED BY <1>4, <1>17 DEF Word, DATA_BITS, Bit

-----------------------------------------------------------------------------
(* What is on the air.                                                     *)

LightInv ==
  /\ arrived[1] = "set" => arrived[2] \in Settings
  /\ settings \in Settings \cup {InitialSettings}
  /\ reserved \in StackBits \cup {0}
  /\ buffer # NoFrame => buffer \in Frames

LEMMA FramesAreWords == Frames \subseteq Word
<1>1. InitialSettings \in SettingsRange
  BY DEF InitialSettings, SettingsRange
<1>2. \A g \in StackBits \cup {0} : g \in Bit
  BY ReceiverAssumption DEF Bit
<1>3. \A s \in Settings \cup OtherRemote \cup {InitialSettings}, g \in StackBits \cup {0} :
        Sent(s, g) \in Word
  BY <1>1, <1>2, SettingsAssumption, SettingsWordType DEF Sent
<1> QED BY <1>3 DEF Frames

LEMMA AbortLight ==
  ASSUME Abort
  PROVE  LightInv'
BY DEF Abort, LightInv, Nothing

LEMMA CaptureLight ==
  ASSUME LightInv, UNCHANGED <<arrived, settings, reserved>>,
         \/ UNCHANGED buffer
         \/ buffer' = Sent(settings, reserved)
         \/ \E s \in OtherRemote : buffer' = Sent(s, 0)
  PROVE  LightInv'
<1>1. Sent(settings, reserved) \in Frames
  BY DEF LightInv, Frames
<1>2. \A s \in OtherRemote : Sent(s, 0) \in Frames
  BY DEF Frames
<1> QED BY <1>1, <1>2 DEF LightInv

LEMMA NextLight ==
  ASSUME LightInv, [Next]_vars
  PROVE  LightInv'
<1>1. CASE UNCHANGED <<arrived, settings, reserved, buffer>>
  BY <1>1 DEF LightInv
<1>2. CASE /\ UNCHANGED <<settings, reserved, buffer>>
           /\ arrived' = Nothing \/ \E c \in Commands : arrived' = Joined(arrived, c)
  <2>1. CASE arrived' = Nothing
    BY <1>2, <2>1 DEF LightInv, Nothing
  <2>2. ASSUME NEW c \in Commands, arrived' = Joined(arrived, c)
        PROVE  arrived'[1] = "set" => arrived'[2] \in Settings
    <3>1. Joined(arrived, c) \in {c, <<"rxtx">>, arrived, <<"unknown">>}
      BY DEF Joined
    <3>2. <<"rxtx">>[1] # "set" /\ <<"unknown">>[1] # "set"
      OBVIOUS
    <3>3. c[1] = "set" => c[2] \in Settings
      BY SettingsAssumption
    <3>4. arrived[1] = "set" => arrived[2] \in Settings
      BY DEF LightInv
    <3> QED BY <2>2, <3>1, <3>2, <3>3, <3>4
  <2> QED BY <1>2, <2>1, <2>2 DEF LightInv
<1>3. CASE Abort
  BY <1>3, AbortLight
<1>4. CASE Accept
  BY <1>4 DEF Accept, LightInv, rx_vars
<1>5. CASE EndOfStream \/ EndOfError
  BY <1>5 DEF EndOfStream, EndOfError, Return, LightInv
<1>6. CASE Set
  BY <1>6 DEF Set, Taking, Arrived, LightInv, Nothing
<1>7. CASE SendDone
  BY <1>7, CaptureLight DEF SendDone, Capture, rx_vars, settings_vars
<1>8. CASE OtherFrame \/ StrayFrame
  BY <1>8, CaptureLight DEF OtherFrame, StrayFrame, Capture, settings_vars
<1>9. ASSUME Wifi \/ Client
      PROVE  LightInv'
  BY <1>1, <1>2, <1>9
     DEF Wifi, Client, AccessPoint, HandleEvent, ConnectSta, Connect, Deliver, Hangup,
         server_vars, network_vars, settings_vars, rx_vars
<1>10. ASSUME Listen \/ AcceptFails \/ Filter \/ Restart \/ TakeFrame \/ Timeout
       PROVE  LightInv'
  BY <1>1, <1>2, <1>10
     DEF Listen, AcceptFails, Filter, Restart, TakeFrame, Timeout, settings_vars, rx_vars
<1>11. ASSUME Freq \/ Unknown \/ Tx \/ Rx \/ RxTx
       PROVE  LightInv'
  BY <1>2, <1>11 DEF Freq, Unknown, Tx, Rx, RxTx, Taking, ReceiveIR
<1>12. CASE AcceptAborts \/ FreqAborts \/ ReceiveAborts \/ TimeoutAborts \/ StrayAborts
  BY <1>3, <1>12 DEF AcceptAborts, FreqAborts, ReceiveAborts, TimeoutAborts, StrayAborts
<1>13. CASE UNCHANGED vars
  BY <1>1, <1>13 DEF vars
<1> QED
  BY <1>4, <1>5, <1>6, <1>7, <1>8, <1>9, <1>10, <1>11, <1>12, <1>13
     DEF Next, Server, TimesOut

(* Whatever frame waits in raw_symbols is printed as the complement of the word  *)
(* that was sent, for all settings and all that may lie on the stack.         *)
THEOREM DecodesComplements == Spec => []DecodedIsComplement
<1>1. Init => LightInv
  <2> SUFFICES ASSUME Init PROVE LightInv
    OBVIOUS
  <2>1. /\ arrived = Nothing /\ settings = InitialSettings /\ reserved = 0
        /\ buffer = NoFrame
    BY DEF Init
  <2> QED BY <2>1 DEF LightInv, Nothing
<1>2. LightInv => DecodedIsComplement
  BY FramesAreWords, DecodeComplements DEF LightInv, DecodedIsComplement, Decoded
<1>3. LightInv /\ [Next]_vars => LightInv'
  BY NextLight
<1> QED BY <1>1, <1>2, <1>3, PTL DEF Spec
-----------------------------------------------------------------------------
(* The link and the types.                                                 *)

(* The events of a station that is idle end with the one that will make it    *)
(* connect or give up.                                                     *)
Roused ==
  station = "idle" =>
    \/ "FAIL" \in bits
    \/ /\ Len(events) > 0
       /\ events[Len(events)] \in {"START", "DISCONNECTED"}

(* There is room to give back what a connection has taken. *)
Room == pc \in Inside => blocks + Taken <= RMT_BLOCKS

LinkInv == L!TypeOK /\ Roused

(* The driver and the handlers, in a program without a web server. *)
LEMMA LinkStep ==
  ASSUME LinkInv, UNCHANGED firmware, L!Attempt \/ L!LoseLink \/ L!Handle \/ L!Connected
  PROVE  LinkInv'
<1>0. /\ station \in {"idle", "connecting", "up"} /\ outage \in 0..MaxOutage
      /\ events \in Seq(L!Events) /\ s_retry_num \in 0..ESP_MAXIMUM_RETRY
      /\ bits \subseteq L!Bits /\ main \in {"connect", "start", "watch", "lost"}
      /\ MaxOutage \in Nat /\ ESP_MAXIMUM_RETRY \in Nat
      /\ L!Events = {"START", "DISCONNECTED", "GOT_IP"} /\ L!Bits = {"CONNECTED", "FAIL"}
  BY ReceiverAssumption DEF LinkInv, L!TypeOK, L!Events, L!Bits
<1>1. HasWebServer' \in BOOLEAN
  BY DEF HasWebServer
<1>2. ASSUME /\ station' \in {"idle", "connecting", "up"} /\ outage' \in 0..MaxOutage
             /\ events' \in Seq(L!Events) /\ s_retry_num' \in 0..ESP_MAXIMUM_RETRY
             /\ bits' \subseteq L!Bits /\ main' \in {"connect", "start", "watch", "lost"}
      PROVE  L!TypeOK'
  BY <1>1, <1>2 DEF L!TypeOK
<1> USE DEF LinkInv, Roused, L!driver_vars
<1>3. CASE L!Attempt \/ L!LoseLink
  <2>1. PICK e \in {"DISCONNECTED", "GOT_IP"} :
             events' = Append(events, e) /\ (e = "GOT_IP" => station' = "up")
    BY <1>3 DEF L!Attempt, L!LoseLink
  <2>2. /\ events' \in Seq(L!Events) /\ Len(events') = Len(events) + 1
        /\ events'[Len(events')] = e
    BY <1>0, <2>1
  <2>3. outage' \in 0..MaxOutage /\ station' \in {"idle", "up"}
    BY <1>0, <1>3 DEF L!Attempt, L!LoseLink
  <2>4. UNCHANGED <<s_retry_num, bits, main>>
    BY <1>3 DEF L!Attempt, L!LoseLink
  <2>5. L!TypeOK'
    BY <1>0, <1>2, <2>2, <2>3, <2>4
  <2>6. Roused'
    BY <1>0, <2>1, <2>2
  <2> QED BY <2>5, <2>6
<1>4. CASE L!Handle
  <2>1. events # <<>> /\ events' = Tail(events) /\ UNCHANGED <<outage, main>>
    BY <1>4 DEF L!Handle, L!HandleStart, L!HandleDisconnected, L!HandleGotIp
  <2>2. /\ events' \in Seq(L!Events) /\ Len(events) > 0 /\ Head(events) = events[1]
        /\ Len(events') = Len(events) - 1
        /\ Len(events) > 1 => events'[Len(events')] = events[Len(events)]
    BY <1>0, <2>1
  <2>3. /\ station' \in {station, "connecting"} /\ s_retry_num' \in 0..ESP_MAXIMUM_RETRY
        /\ bits \subseteq bits' /\ bits' \subseteq L!Bits
    <3>1. CASE L!HandleStart
      BY <1>0, <3>1 DEF L!HandleStart
    <3>2. CASE L!HandleDisconnected
      <4>1. \/ /\ s_retry_num < ESP_MAXIMUM_RETRY /\ station' = "connecting"
               /\ s_retry_num' = s_retry_num + 1 /\ bits' = bits
            \/ bits' = bits \cup {"FAIL"} /\ UNCHANGED <<station, s_retry_num>>
        BY <3>2 DEF L!HandleDisconnected, L!MayRetry, L!GiveUp
      <4>2. s_retry_num' \in 0..ESP_MAXIMUM_RETRY
        BY <1>0, <4>1
      <4>3. bits \subseteq bits' /\ bits' \subseteq L!Bits
        <5>1. bits \subseteq {"CONNECTED", "FAIL"} /\ L!Bits = {"CONNECTED", "FAIL"}
          BY <1>0
        <5>2. bits' = bits \/ bits' = bits \cup {"FAIL"}
          BY <4>1
        <5> QED BY <5>1, <5>2
      <4> QED BY <4>1, <4>2, <4>3
    <3>3. CASE L!HandleGotIp
      BY <1>0, <3>3 DEF L!HandleGotIp, L!RetriesReset
    <3> QED BY <1>4, <3>1, <3>2, <3>3 DEF L!Handle
  <2>4. L!TypeOK'
    BY <1>0, <1>2, <2>1, <2>2, <2>3
  <2>5. CASE L!HandleStart \/ L!HandleDisconnected
    <3>1. station' = "connecting" \/ "FAIL" \in bits'
      BY <2>5 DEF L!HandleStart, L!HandleDisconnected, L!GiveUp
    <3> QED BY <2>4, <3>1
  <2>6. CASE L!HandleGotIp
    <3>1. Head(events) = "GOT_IP" /\ station' = station
      BY <2>6 DEF L!HandleGotIp
    <3>2. Roused'
      BY <2>2, <2>3, <3>1
    <3> QED BY <2>4, <3>2
  <2> QED BY <1>4, <2>5, <2>6 DEF L!Handle
<1>5. CASE L!Connected
  <2>1. main' = "start" /\ UNCHANGED <<station, outage, events, s_retry_num, bits>>
    BY <1>5 DEF L!Connected
  <2>2. L!TypeOK'
    BY <1>0, <1>2, <2>1
  <2> QED BY <2>1, <2>2
<1> QED BY <1>3, <1>4, <1>5

(* The chip starts with the event that begins it all; so does a restart. *)
LEMMA LinkStarts ==
  /\ L!Init => LinkInv
  /\ Abort /\ LinkInv => LinkInv'
<1>1. <<"START">> \in Seq(L!Events) /\ Len(<<"START">>) = 1 /\ <<"START">>[1] = "START"
  BY DEF L!Events
<1>2. L!Init => LinkInv
  <2>1. HasWebServer \in BOOLEAN
    BY DEF HasWebServer
  <2> QED BY <1>1, <2>1, ReceiverAssumption DEF L!Init, LinkInv, L!TypeOK, Roused, L!Bits
<1>3. Abort => LinkInv'
  <2>1. HasWebServer' \in BOOLEAN
    BY DEF HasWebServer
  <2> QED BY <1>1, <2>1, ReceiverAssumption DEF Abort, LinkInv, L!TypeOK, Roused, L!Bits
<1> QED BY <1>2, <1>3

(* Steps of the server, the client and the light leave the link alone. *)
LEMMA LinkKept == LinkInv /\ [Next]_vars => LinkInv'
<1> SUFFICES ASSUME LinkInv, [Next]_vars PROVE LinkInv'
  OBVIOUS
<1>1. CASE UNCHANGED <<wifi_vars, firmware>>
  <2>1. UNCHANGED <<station, outage, events, s_retry_num, bits, main, HasWebServer>>
    BY <1>1 DEF wifi_vars, HasWebServer
  <2> QED BY <2>1 DEF LinkInv, L!TypeOK, Roused
<1>2. CASE Abort
  BY <1>2, LinkStarts
<1>3. CASE Wifi
  BY <1>3, LinkStep DEF Wifi, AccessPoint, HandleEvent, ConnectSta, server_vars
<1>4. CASE Client
  BY <1>1, <1>4 DEF Client, Connect, Deliver, Hangup, network_vars
<1>5. CASE Listen \/ AcceptFails \/ Accept \/ Filter \/ EndOfStream \/ EndOfError \/ Restart
  BY <1>1, <1>5
     DEF Listen, AcceptFails, Accept, Filter, EndOfStream, EndOfError, Restart
<1>6. CASE Set \/ Freq \/ Unknown \/ Tx \/ Rx \/ RxTx
  BY <1>1, <1>6 DEF Set, Freq, Unknown, Tx, Rx, RxTx, Taking
<1>7. CASE SendDone \/ OtherFrame \/ StrayFrame \/ TakeFrame \/ Timeout
  BY <1>1, <1>7 DEF SendDone, OtherFrame, StrayFrame, TakeFrame, Timeout
<1>8. CASE AcceptAborts \/ FreqAborts \/ ReceiveAborts \/ TimeoutAborts \/ StrayAborts
  BY <1>2, <1>8 DEF AcceptAborts, FreqAborts, ReceiveAborts, TimeoutAborts, StrayAborts
<1>9. CASE UNCHANGED vars
  BY <1>1, <1>9 DEF vars, wifi_vars
<1> QED BY <1>3, <1>4, <1>5, <1>6, <1>7, <1>8, <1>9 DEF Next, Server, TimesOut

(* The station of the receiver and of the variant is never stranded, either,    *)
(* whatever its server does, and after a restart in the middle of it: they      *)
(* have the handlers of the remote's wifi.c and more steps around them.       *)
THEOREM LinkUnstranded == Spec => []L!NeverStranded
<1>1. Init => LinkInv
  BY LinkStarts DEF Init
<1>2. LinkInv => L!NeverStranded
  BY DEF LinkInv, L!TypeOK, Roused, L!NeverStranded
<1> QED BY <1>1, <1>2, LinkKept, PTL DEF Spec

-----------------------------------------------------------------------------
(* The types of the server. *)
ServerTypes ==
  /\ firmware \in {"receiver", "variant"}
  /\ pc \in {"off", "open", "accept", "deleted", "crashed"} \cup Inside
  /\ stream \in {"none", "open", "fin", "dead"}
  /\ arrived \in Commands \cup {Nothing, <<"rxtx">>, <<"unknown">>}
  /\ blocks \in 0..RMT_BLOCKS /\ heap \in 0..HEAP
  /\ armed \in BOOLEAN /\ stray \in BOOLEAN /\ fresh \in BOOLEAN /\ late \in BOOLEAN
  /\ rx_data \in {"unset", "raw"}
  /\ provoked \subseteq {"heap", "error", "freq", "late"}

LEMMA InitServerTypes == Init => ServerTypes /\ Room
<1> SUFFICES ASSUME Init PROVE ServerTypes /\ Room
  OBVIOUS
<1>1. heap \in 0..HEAP /\ blocks \in 0..RMT_BLOCKS
  BY ReceiverAssumption DEF Init, RMT_BLOCKS
<1>2. /\ armed \in BOOLEAN /\ stray \in BOOLEAN /\ fresh \in BOOLEAN /\ late \in BOOLEAN
      /\ arrived = Nothing /\ provoked = {} /\ pc = "off"
  BY DEF Init
<1> QED BY <1>1, <1>2 DEF Init, ServerTypes, Room, Inside

LEMMA AbortServerTypes ==
  ASSUME ServerTypes, Abort, provoked' \subseteq {"heap", "error", "freq", "late"}
  PROVE  ServerTypes' /\ Room'
<1>1. heap' \in 0..HEAP /\ blocks' \in 0..RMT_BLOCKS
  BY ReceiverAssumption DEF Abort, RMT_BLOCKS
<1>2. /\ armed' \in BOOLEAN /\ stray' \in BOOLEAN /\ fresh' \in BOOLEAN /\ late' \in BOOLEAN
      /\ arrived' = Nothing /\ pc' = "crashed"
  BY DEF Abort
<1> QED BY <1>1, <1>2 DEF Abort, ServerTypes, Room, Inside

(* A connection takes at most half the blocks. *)
LEMMA TakenType == Taken \in {2, 4} /\ (firmware' = firmware => Taken' = Taken)
BY DEF Taken, TxBlocks, RxBlocks

LEMMA ServerTypesKept ==
  ServerTypes /\ Room /\ [Next]_vars => ServerTypes' /\ Room'
<1> SUFFICES ASSUME ServerTypes, Room, [Next]_vars PROVE ServerTypes' /\ Room'
  OBVIOUS
<1> USE TakenType DEF ServerTypes, Room, Inside, RMT_BLOCKS
<1>1. CASE AccessPoint \/ HandleEvent \/ ConnectSta
  <2>1. /\ pc' = pc \/ pc' = "open"
        /\ UNCHANGED <<firmware, stream, arrived, blocks, heap, armed, stray, fresh, rx_data,
                       late, provoked>>
    BY <1>1 DEF AccessPoint, HandleEvent, ConnectSta, server_vars, rmt_vars, rx_vars
  <2> QED BY <2>1
<1>2. CASE Connect \/ Hangup
  <2>1. UNCHANGED <<pc, firmware, arrived, blocks, heap, armed, stray, fresh, rx_data, late, provoked>>
    BY <1>2 DEF Connect, Hangup, network_vars, rmt_vars, rx_vars
  <2>2. stream' \in {"none", "open", "fin", "dead"}
    BY <1>2 DEF Connect, Hangup
  <2> QED BY <2>1, <2>2
<1>3. CASE Deliver
  <2>1. PICK c \in Commands : arrived' = Joined(arrived, c)
    BY <1>3 DEF Deliver
  <2>2. arrived' \in Commands \cup {Nothing, <<"rxtx">>, <<"unknown">>}
    BY <2>1 DEF Joined
  <2> QED BY <1>3, <2>2 DEF Deliver, network_vars, rmt_vars, rx_vars
<1>4. CASE Listen \/ AcceptFails \/ Filter \/ Restart
  <2>1. UNCHANGED <<firmware, blocks, heap, armed, stray, fresh, rx_data, late>>
    BY <1>4 DEF Listen, AcceptFails, Filter, Restart, rmt_vars, rx_vars
  <2>2. /\ provoked' \in {provoked, {}}
        /\ stream' \in {stream, "none"} /\ arrived' \in {arrived, Nothing}
    BY <1>4 DEF Listen, AcceptFails, Filter, Restart
  <2>3. \/ pc \notin Inside /\ pc' \in {"off", "accept", "deleted"}
        \/ pc \in Inside /\ pc' \in {"filter2", "recv"}
    BY <1>4 DEF Listen, AcceptFails, Filter, Restart, At
  <2> QED BY <2>1, <2>2, <2>3
<1>5. CASE Accept
  <2>1. /\ blocks' = blocks - Taken /\ blocks >= Taken /\ heap > 0 /\ heap' = heap - 1
        /\ pc' = "filter1" /\ firmware' = firmware
    BY <1>5 DEF Accept, NewEncoder, At
  <2>2. blocks' \in 0..8 /\ heap' \in 0..HEAP /\ blocks' + Taken <= 8
    BY <2>1, ReceiverAssumption
  <2> QED BY <1>5, <2>1, <2>2 DEF Accept, rx_vars
<1>6. CASE EndOfStream
  <2>1. /\ pc = "recv" /\ pc' = "accept" /\ blocks' = blocks + Taken
    BY <1>6 DEF EndOfStream, At, Freed
  <2>2. blocks' \in 0..8
    BY <2>1
  <2> QED BY <1>6, <2>1, <2>2 DEF EndOfStream, Return
<1>7. CASE EndOfError
  BY <1>7 DEF EndOfError, Return, At, rmt_vars
<1>8. CASE Set \/ Freq \/ Unknown \/ Tx \/ Rx \/ RxTx
  BY <1>8 DEF Set, Freq, Unknown, Tx, Rx, RxTx, Taking, Arrived, ReceiveIR, rmt_vars
<1>9. CASE SendDone \/ OtherFrame \/ StrayFrame
  <2>1. UNCHANGED <<firmware, stream, arrived, blocks, heap, rx_data, late, provoked>>
    BY <1>9 DEF SendDone, OtherFrame, StrayFrame, Capture, rmt_vars, rx_vars
  <2>2. pc' = pc \/ (pc \in Inside /\ pc' \in Inside)
    BY <1>9 DEF SendDone, OtherFrame, StrayFrame, At
  <2>3. ASSUME NEW word, Capture(word)
        PROVE  armed' = FALSE /\ stray' = stray /\ fresh' \in BOOLEAN
    BY <2>3 DEF Capture
  <2>4. \/ UNCHANGED <<armed, stray, fresh>>
        \/ armed' = FALSE /\ stray' = stray /\ fresh' \in BOOLEAN
        \/ stray' = FALSE /\ UNCHANGED <<armed, fresh>>
    BY <1>9, <2>3 DEF SendDone, OtherFrame, StrayFrame, rx_vars
  <2>5. armed' \in BOOLEAN /\ stray' \in BOOLEAN /\ fresh' \in BOOLEAN
    BY <2>4
  <2> QED BY <2>1, <2>2, <2>5
<1>10. CASE TakeFrame \/ Timeout
  BY <1>10 DEF TakeFrame, Timeout, Expired, At, rmt_vars, rx_vars
<1>11. CASE AcceptAborts \/ FreqAborts \/ ReceiveAborts \/ TimeoutAborts \/ StrayAborts
  <2>1. Abort /\ provoked' \subseteq {"heap", "error", "freq", "late"}
    BY <1>11
    DEF AcceptAborts, FreqAborts, ReceiveAborts, TimeoutAborts, StrayAborts, Expired
  <2> QED BY <2>1, AbortServerTypes
<1>12. CASE UNCHANGED vars
  BY <1>12 DEF vars
<1> QED BY <1>1, <1>2, <1>3, <1>4, <1>5, <1>6, <1>7, <1>8, <1>9, <1>10, <1>11, <1>12
        DEF Next, Wifi, Client, Server, TimesOut

(* Every variable keeps its type, the free RMT memory its bounds, and what is    *)
(* sent, captured and decoded is a frame somebody has set.                    *)
THEOREM TypeCorrect == Spec => []TypeOK
<1>1. Init => LinkInv /\ LightInv
  <2> SUFFICES ASSUME Init PROVE LinkInv /\ LightInv
    OBVIOUS
  <2>1. /\ arrived = Nothing /\ settings = InitialSettings /\ reserved = 0
        /\ buffer = NoFrame
    BY DEF Init
  <2>2. LightInv
    BY <2>1 DEF LightInv, Nothing
  <2> QED BY <2>2, LinkStarts DEF Init
<1>2. LightInv /\ [Next]_vars => LightInv'
  BY NextLight
<1>3. LinkInv /\ LightInv /\ ServerTypes /\ IInv => TypeOK
  BY DEF LinkInv, LightInv, ServerTypes, IInv, ChannelInv, TypeOK
<1> QED BY <1>1, <1>2, <1>3, LinkKept, InitServerTypes, ServerTypesKept, Invariance, PTL
        DEF Spec
=============================================================================
