--------------------------- MODULE WifiLinkProofs ---------------------------
(***************************************************************************)
(* Proofs about WifiLink, for any number of retries and any outages: the     *)
(* types, and that the station never lies idle without an event on its way   *)
(* or the FAIL bit set.                                                     *)
(***************************************************************************)
EXTENDS WifiLink, TLAPS

(* The events of a station that is idle end with the one that will make it    *)
(* connect or give up.                                                     *)
Roused ==
  station = "idle" =>
    \/ "FAIL" \in bits
    \/ /\ Len(events) > 0
       /\ events[Len(events)] \in {"START", "DISCONNECTED"}

IInv == TypeOK /\ Roused

(* The last element of a sequence is that of its tail, if there is more than  *)
(* one.                                                                     *)
LEMMA LastOfTail ==
  ASSUME NEW s \in Seq(Events), Len(s) > 1
  PROVE  /\ Tail(s) \in Seq(Events)
         /\ Len(Tail(s)) = Len(s) - 1
         /\ Tail(s)[Len(s) - 1] = s[Len(s)]
  OBVIOUS

(* Initially START is on its way. *)
LEMMA InitInvariant == Init => IInv
<1> SUFFICES ASSUME Init PROVE IInv
  OBVIOUS
<1>1. events = <<"START">> /\ "START" \in Events
  BY DEF Init, Events
<1>2. events \in Seq(Events) /\ Len(events) = 1 /\ events[1] = "START"
  BY <1>1, SMT
<1>3. TypeOK
  <2>1. httpd \in BOOLEAN /\ registered \in BOOLEAN
    BY DEF Init
  <2>2. s_retry_num \in 0..ESP_MAXIMUM_RETRY /\ bits \subseteq Bits
    BY WifiAssumption DEF Init
  <2> QED BY <1>2, <2>1, <2>2 DEF Init, TypeOK
<1> QED BY <1>2, <1>3 DEF IInv, Roused

(* Every step keeps the types, and ends or keeps what rouses the station. *)
LEMMA NextInvariant == IInv /\ [Next]_vars => IInv'
<1> SUFFICES ASSUME IInv, [Next]_vars PROVE IInv'
  OBVIOUS
<1> USE WifiAssumption DEF IInv
<1>1. CASE Attempt
  <2>1. events' \in Seq(Events) /\ Len(events') = Len(events) + 1
    BY <1>1 DEF Attempt, TypeOK, Events
  <2>2. TypeOK'
    BY <1>1, <2>1 DEF Attempt, TypeOK, Events, Bits, server_vars
  <2>3. Roused'
    BY <1>1, <2>1 DEF Attempt, TypeOK, Roused, Events, server_vars
  <2> QED BY <2>2, <2>3
<1>2. CASE LoseLink
  <2>1. events' = Append(events, "DISCONNECTED") /\ events' \in Seq(Events)
    BY <1>2 DEF LoseLink, TypeOK, Events
  <2>2. TypeOK'
    BY <1>2, <2>1 DEF LoseLink, TypeOK, Bits, server_vars
  <2>3. Len(events') = Len(events) + 1 /\ events'[Len(events')] = "DISCONNECTED"
    BY <2>1 DEF TypeOK
  <2> QED BY <2>2, <2>3 DEF Roused, TypeOK
<1>3. CASE HandleStart
  <2>1. events' \in Seq(Events)
    BY <1>3 DEF HandleStart, TypeOK
  <2> QED BY <1>3, <2>1 DEF HandleStart, TypeOK, Roused, Bits, server_vars
<1>4. CASE HandleDisconnected
  <2>1. events' \in Seq(Events)
    BY <1>4 DEF HandleDisconnected, TypeOK
  <2>2. httpd' \in BOOLEAN
    <3>1. httpd' = FALSE \/ httpd' = httpd
      BY <1>4 DEF HandleDisconnected, StopServer
    <3> QED BY <3>1 DEF TypeOK
  <2>3. /\ station' \in {"idle", "connecting", "up"}
        /\ s_retry_num' \in 0..ESP_MAXIMUM_RETRY
        /\ bits' \subseteq Bits
    <3>1. CASE MayRetry /\ station' = "connecting" /\ s_retry_num' = s_retry_num + 1
               /\ UNCHANGED bits
      BY <3>1 DEF MayRetry, TypeOK
    <3>2. CASE GiveUp /\ UNCHANGED <<station, s_retry_num>>
      BY <3>2 DEF GiveUp, TypeOK, Bits
    <3> QED BY <1>4, <3>1, <3>2 DEF HandleDisconnected
  <2>4. TypeOK'
    BY <1>4, <2>1, <2>2, <2>3 DEF HandleDisconnected, TypeOK
  <2>5. Roused'
    BY <1>4 DEF HandleDisconnected, GiveUp, Roused
  <2> QED BY <2>4, <2>5
<1>5. CASE HandleGotIp
  <2>1. events' = Tail(events) /\ events' \in Seq(Events)
    BY <1>5 DEF HandleGotIp, TypeOK
  <2>2. /\ s_retry_num' \in 0..ESP_MAXIMUM_RETRY
        /\ bits' \subseteq Bits
    BY <1>5 DEF HandleGotIp, RetriesReset, TypeOK, Bits
  <2>6. httpd' \in BOOLEAN
    <3>1. httpd' = TRUE \/ httpd' = httpd
      BY <1>5 DEF HandleGotIp, StartServer
    <3> QED BY <3>1 DEF TypeOK
  <2>3. TypeOK'
    BY <1>5, <2>1, <2>2, <2>6 DEF HandleGotIp, TypeOK, driver_vars
  <2>4. ASSUME station = "idle", "FAIL" \notin bits
        PROVE  Len(events') > 0 /\ events'[Len(events')] = events[Len(events)]
    <3>1. events[1] = "GOT_IP" /\ Len(events) > 0
      BY <1>5, <2>4 DEF HandleGotIp, TypeOK, Roused
    <3>2. Len(events) > 1
      BY <2>4, <3>1 DEF TypeOK, Roused
    <3> QED BY <2>1, <3>2, LastOfTail DEF TypeOK
  <2>5. Roused'
    BY <1>5, <2>4 DEF HandleGotIp, Roused, driver_vars
  <2> QED BY <2>3, <2>5
<1>6. CASE Connected \/ StartWebserver \/ RegisterHandlers \/ Poll
  BY <1>6
  DEF Connected, StartWebserver, RegisterHandlers, Poll, TypeOK, Roused, driver_vars,
      server_vars
<1>7. CASE UNCHANGED vars
  BY <1>7 DEF vars, TypeOK, Roused
<1> QED BY <1>1, <1>2, <1>3, <1>4, <1>5, <1>6, <1>7 DEF Next, Handle

(* Every state of the specification has the types of TypeOK. *)
THEOREM TypeCorrect == Spec => []TypeOK
<1>1. IInv => TypeOK
  BY DEF IInv
<1> QED BY <1>1, InitInvariant, NextInvariant, PTL DEF Spec

(* The station is never stranded: idle, with nothing left to rouse it and     *)
(* without the FAIL bit to tell (wifi.c:27-36), however losses, attempts and   *)
(* the handling of earlier events fall.                                      *)
THEOREM Unstranded == Spec => []NeverStranded
<1>1. IInv => NeverStranded
  BY DEF IInv, TypeOK, Roused, NeverStranded
<1> QED BY <1>1, InitInvariant, NextInvariant, PTL DEF Spec
=============================================================================
