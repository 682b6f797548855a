-------------------------- MODULE FpgaServerProofs --------------------------
(***************************************************************************)
(* Proofs about FpgaServer, for any number of clients and any heap, window    *)
(* and limit: the address the application starts with, what it takes for the *)
(* server to hang, and the types.                                           *)
(***************************************************************************)
EXTENDS FpgaServer, FiniteSetTheorems, SequenceTheorems, TLAPS

(* Only the two programs call i2c_access.c. *)
CallsEnd == pc \in {"clock", "phy"} \/ call = "setup"

LEMMA ProgramNames == Programs = {"clock", "phy"}
BY DEF Programs, Program

(* A step of the programs stays in them, or goes on to init_platform. *)
LEMMA BringUpGoesOn ==
  ASSUME CallsEnd, I2cNext
  PROVE  pc \in {"clock", "phy"} /\ pc' \in {"clock", "phy", "platform"} /\ CallsEnd'
<1>1. CASE I2cSetupHardware
  BY <1>1, ProgramNames DEF I2cSetupHardware, Return, CallsEnd
<1>2. CASE MasterSend
  BY <1>2, ProgramNames DEF MasterSend, CallsEnd
<1>3. CASE SpinEnds
  BY <1>3 DEF SpinEnds, Completed, CallsEnd
<1>4. CASE SpinFails
  BY <1>4 DEF SpinFails, Result, Return, CallsEnd
<1>5. CASE MasterRecv
  BY <1>5 DEF MasterRecv, CallsEnd
<1>6. CASE Written
  BY <1>6 DEF Written, Result, Return, CallsEnd
<1>7. CASE Read
  BY <1>7 DEF Read, Result, Return, CallsEnd
<1> QED BY <1>1, <1>2, <1>3, <1>4, <1>5, <1>6, <1>7 DEF I2cNext

-----------------------------------------------------------------------------
(* The address: while no lease has been bound there is none, and none at the   *)
(* end of the wait means that the time has run out, which the interrupt cannot  *)
(* undo.                                                                   *)
Addressed ==
  /\ dhcp_timoutcntr \in Nat
  /\ bound = "held" => ip = "lease"
  /\ bound = "never" => ip \in {"none", "default"}
  /\ bound \in {"never", "held", "expired"}
  /\ pc = "fallback" /\ bound = "never" => ip = "default" \/ dhcp_timoutcntr = 0
  /\ pc = "start" /\ bound = "never" => ip = "default"

AddressInv == CallsEnd /\ Addressed

LEMMA InitAddressed == Init => AddressInv
BY ServerAssumption DEF Init, AddressInv, CallsEnd, Addressed

LEMMA TickAddressed ==
  ASSUME AddressInv, TimerCallback
  PROVE  AddressInv'
<1> USE DEF AddressInv, Addressed, CallsEnd
<1>1. pc' = pc /\ call' = call
  BY DEF TimerCallback, i2c_vars
<1>2. /\ dhcp_timoutcntr' \in Nat
      /\ dhcp_timoutcntr = 0 => dhcp_timoutcntr' = 0
  BY DEF TimerCallback, CountDown
<1>3. \/ ip = "lease" /\ ip' = "none" /\ bound' = "expired"
      \/ ip' = ip /\ bound' = bound
  BY DEF TimerCallback
<1> QED BY <1>1, <1>2, <1>3

LEMMA NextAddressed == AddressInv /\ [Next]_vars => AddressInv'
<1> SUFFICES ASSUME AddressInv, [Next]_vars PROVE AddressInv'
  OBVIOUS
<1> USE DEF AddressInv, Addressed, CallsEnd
<1>1. CASE BringUp
  BY <1>1, BringUpGoesOn DEF BringUp, board_vars, tick_vars, net_vars
<1>2. CASE IicPhyReset \/ InitPlatform \/ AddInterface
  BY <1>2 DEF IicPhyReset, InitPlatform, AddInterface, Goto, i2c_vars, board_vars,
              tick_vars, net_vars
<1>3. CASE EnableInterrupts
  BY <1>3, ServerAssumption DEF EnableInterrupts, Goto, i2c_vars, net_vars
<1>4. CASE DhcpTest \/ DhcpInput
  BY <1>4 DEF DhcpTest, DhcpInput, Goto, i2c_vars, board_vars, tick_vars, net_vars
<1>5. CASE DhcpWaited
  BY <1>5 DEF DhcpWaited, Waiting, Goto, i2c_vars, board_vars, tick_vars, net_vars
<1>6. CASE Fallback
  BY <1>6 DEF Fallback, DefaultAddress, Goto, i2c_vars, tick_vars
<1>7. CASE StartApplication
  BY <1>7 DEF StartApplication, Goto, i2c_vars, tick_vars
<1>8. CASE I2cInterrupt
  BY <1>8 DEF I2cInterrupt, ControllerReports, board_vars, tick_vars, net_vars
<1>9. CASE TimerCallback
  BY <1>9, TickAddressed
<1>10. CASE Loop
  <2>1. CASE LateOffer
    BY <2>1 DEF LateOffer, Goto, i2c_vars, tick_vars
  <2>2. CASE FastTimer \/ FastTimerDone \/ SlowIdle \/ SlowTimerDone \/ Idle
    BY <2>2 DEF FastTimer, FastTimerDone, SlowIdle, SlowTimerDone, Idle, Goto, i2c_vars,
                board_vars, tick_vars, net_vars
  <2>3. CASE \E arrives \in SUBSET Clients : SendAgain(arrives)
    BY <2>3 DEF SendAgain, SlowTimer, Goto, i2c_vars, tick_vars, net_vars
  <2>4. ASSUME NEW c \in Clients,
               GiveUp(c) \/ CloseCallback(c) \/ Reset(c) \/ Acked(c) \/ AcceptCallback(c)
        PROVE  AddressInv'
    BY <2>4 DEF GiveUp, CloseCallback, Reset, Acked, AcceptCallback, SlowTimer, Input, Goto,
                input_vars, i2c_vars, tick_vars, net_vars
  <2>5. ASSUME NEW c \in Clients, RecvCallback(c) PROVE AddressInv'
    BY <2>5 DEF RecvCallback, Goto, i2c_vars, tick_vars
  <2> QED BY <1>10, <2>1, <2>2, <2>3, <2>4, <2>5 DEF Loop
<1>11. ASSUME NEW c \in Clients, Send(c) PROVE AddressInv'
  BY <1>11 DEF Send, outside_vars, input_vars, i2c_vars, tick_vars, net_vars
<1>12. CASE UNCHANGED vars
  BY <1>12 DEF vars, i2c_vars, board_vars, tick_vars, net_vars
<1> QED BY <1>1, <1>2, <1>3, <1>4, <1>5, <1>6, <1>7, <1>8, <1>9, <1>10, <1>11, <1>12
        DEF Next, Start

(* The application never starts without an address, nor with the default one   *)
(* in place of a lease.                                                     *)
THEOREM AddressAlwaysSettled == Spec => []AddressSettled
<1>1. AddressInv => AddressSettled
  BY DEF AddressInv, Addressed, AddressSettled
<1> QED BY <1>1, InitAddressed, NextAddressed, PTL DEF Spec

-----------------------------------------------------------------------------
(* The heap: what is not free is held by an open connection, two blocks each,    *)
(* or was left, one block or two, by one that ended without a callback or by an  *)
(* accept that failed.                                                     *)
IsConnection(r) == r = [f \in DOMAIN r |-> r[f]] /\ "open" \in DOMAIN r

Shaped ==
  /\ conn = [c \in Clients |-> conn[c]]
  /\ \A c \in Clients : IsConnection(conn[c])

Accounted ==
  /\ heap \in Nat /\ leaks \in Nat
  /\ heap + 2 * (leaks + Cardinality(Open)) >= HEAP
  /\ heap + 2 * Cardinality(Open) + leaks <= HEAP
  /\ pc = "hung" => timer = "unready" \/ heap = 0

HeapInv == CallsEnd /\ Shaped /\ Accounted

LEMMA OpenFinite == IsFiniteSet(Open) /\ Cardinality(Open) \in Nat
<1>1. IsFiniteSet(Open)
  BY ServerAssumption, FS_Subset DEF Open
<1> QED BY <1>1, FS_CardinalityType

LEMMA ClosedShaped == IsConnection(Closed) /\ ~Closed.open
BY DEF IsConnection, Closed

LEMMA InitHeap == Init => HeapInv
<1> SUFFICES ASSUME Init PROVE HeapInv
  OBVIOUS
<1>1. Shaped /\ Open = {}
  BY ClosedShaped DEF Init, Shaped, Open
<1>2. Cardinality(Open) = 0
  BY <1>1, FS_EmptySet
<1> QED BY <1>1, <1>2, ServerAssumption DEF Init, HeapInv, Accounted, CallsEnd

(* Abandoned connections become leaks, one for each.                         *)
LEMMA AbandonAccounted ==
  ASSUME Shaped, heap \in Nat, leaks \in Nat, NEW S, Abandon(S)
  PROVE  /\ Shaped' /\ heap' = heap /\ leaks' \in Nat /\ Cardinality(Open') \in Nat
         /\ leaks' + Cardinality(Open') = leaks + Cardinality(Open)
         /\ leaks' + 2 * Cardinality(Open') <= leaks + 2 * Cardinality(Open)
<1>1. Shaped'
  BY ClosedShaped DEF Abandon, Shaped
<1>2. Open' = Open \ (S \cap Open)
  BY ClosedShaped DEF Abandon, Open
<1>3. /\ Cardinality(Open \ (S \cap Open))
           = Cardinality(Open) - Cardinality(Open \cap (S \cap Open))
      /\ IsFiniteSet(S \cap Open)
  BY OpenFinite, FS_Difference, FS_Subset
<1>4. Open \cap (S \cap Open) = S \cap Open
  OBVIOUS
<1>5. Cardinality(S \cap Open) \in Nat
  BY <1>3, FS_CardinalityType
<1>6. leaks' = leaks + Cardinality(S \cap Open) /\ heap' = heap
  BY DEF Abandon
<1>7. Cardinality(Open') = Cardinality(Open) - Cardinality(S \cap Open)
  BY <1>2, <1>3, <1>4
<1>8. Cardinality(Open') \in Nat
  <2>1. IsFiniteSet(Open')
    BY <1>2, OpenFinite, FS_Subset
  <2> QED BY <2>1, FS_CardinalityType
<1>9. /\ leaks' \in Nat /\ Cardinality(Open') \in Nat
      /\ leaks' + Cardinality(Open') = leaks + Cardinality(Open)
      /\ leaks' + 2 * Cardinality(Open') <= leaks + 2 * Cardinality(Open)
  BY <1>5, <1>6, <1>7, <1>8, OpenFinite
<1> QED BY <1>1, <1>6, <1>9

(* A step that changes one connection and leaves it open as it was.           *)
LEMMA SameOpen ==
  ASSUME Shaped, NEW c \in Clients, NEW r, conn' = [conn EXCEPT ![c] = r],
         IsConnection(r), r.open = conn[c].open
  PROVE  Shaped' /\ Open' = Open
<1>1. Shaped'
  BY DEF Shaped
<1>2. \A d \in Clients : conn'[d].open = conn[d].open
  BY DEF Shaped
<1> QED BY <1>1, <1>2 DEF Open

(* A change of another component of a connection.                            *)
LEMMA OtherField ==
  ASSUME NEW r, IsConnection(r), NEW f, f # "open", NEW v
  PROVE  /\ IsConnection([r EXCEPT ![f] = v])
         /\ [r EXCEPT ![f] = v].open = r.open
BY DEF IsConnection

LEMMA ReceivedShaped ==
  ASSUME NEW r, IsConnection(r), NEW chain, NEW echoed, NEW lost
  PROVE  /\ IsConnection(Received(r, chain, echoed, lost))
         /\ Received(r, chain, echoed, lost).open = r.open
<1>1. \E v1, v2, v3, v4, v5 :
        Received(r, chain, echoed, lost) =
          [r EXCEPT !["unsent"] = v1, !["window"] = v2, !["unacked"] = v3,
                    !["lost"] = v4, !["missed"] = v5]
  BY Zenon DEF Received
<1> QED BY <1>1 DEF IsConnection

LEMMA AcceptAccounted ==
  ASSUME HeapInv, NEW c \in Clients, AcceptCallback(c)
  PROVE  Shaped' /\ Accounted'
<1> USE DEF HeapInv, Accounted
<1>1. CASE heap = 0 /\ UNCHANGED <<conn, heap, leaks>>
  BY <1>1 DEF Shaped, Open
<1>2. CASE heap = 1 /\ Input /\ heap' = 0 /\ leaks' = leaks + 1 /\ UNCHANGED conn
  <2>1. Shaped' /\ Open' = Open /\ pc' # "hung"
    BY <1>2 DEF Shaped, Open, Input, Goto
  <2>2. Cardinality(Open') = Cardinality(Open)
    BY <2>1
  <2>3. /\ heap' + 2 * (leaks' + Cardinality(Open')) >= HEAP /\ heap' \in Nat /\ leaks' \in Nat /\ Cardinality(Open') \in Nat
        /\ heap' + 2 * Cardinality(Open') + leaks' <= HEAP
    BY <1>2, <2>2, OpenFinite, ServerAssumption
  <2> QED BY <2>1, <2>3
<1>3. CASE /\ heap >= 2 /\ Input /\ heap' = heap - 2
           /\ conn' = [conn EXCEPT ![c] = [Closed EXCEPT !.open = TRUE]]
           /\ UNCHANGED leaks
  <2>1. /\ [Closed EXCEPT !.open = TRUE].open
        /\ IsConnection([Closed EXCEPT !.open = TRUE])
    BY DEF Closed, IsConnection
  <2>2. Shaped'
    BY <1>3, <2>1 DEF Shaped
  <2>3. Open' = Open \cup {c} /\ c \notin Open /\ pc' # "hung"
    BY <1>3, <2>1 DEF Shaped, Open, AcceptCallback, Input, Goto
  <2>4. Cardinality(Open \cup {c}) = Cardinality(Open) + 1
    BY <2>3, OpenFinite, FS_AddElement
  <2> QED BY <1>3, <2>2, <2>3, <2>4, OpenFinite
<1> QED BY <1>1, <1>2, <1>3 DEF AcceptCallback, tcp_vars

LEMMA CloseAccounted ==
  ASSUME HeapInv, NEW c \in Clients, CloseCallback(c)
  PROVE  Shaped' /\ Accounted'
<1> USE DEF HeapInv, Accounted
<1>1. /\ conn[c].open /\ conn' = [conn EXCEPT ![c] = Closed]
      /\ heap' = heap + 2 /\ leaks' = leaks /\ pc' # "hung"
  BY DEF CloseCallback, Freed, Input, Goto
<1>2. Shaped'
  BY <1>1, ClosedShaped DEF Shaped
<1>3. Open' = Open \ {c} /\ c \in Open
  BY <1>1, ClosedShaped DEF Shaped, Open
<1>4. Cardinality(Open \ {c}) = Cardinality(Open) - 1
  BY <1>3, OpenFinite, FS_RemoveElement
<1> QED BY <1>1, <1>2, <1>3, <1>4, OpenFinite

(* A step that leaves the heap alone and every connection as open as it was.  *)
LEMMA SameAccounted ==
  ASSUME HeapInv, Shaped', Open' = Open, UNCHANGED <<heap, leaks>>,
         pc' = "hung" => timer' = "unready" \/ (pc = "hung" /\ timer' = timer)
  PROVE  Shaped' /\ Accounted'
BY DEF HeapInv, Accounted

LEMMA LoopAccounted ==
  ASSUME HeapInv, Loop
  PROVE  Shaped' /\ Accounted'
<1> USE DEF HeapInv
<1>1. CASE FastTimer \/ FastTimerDone \/ SlowIdle \/ SlowTimerDone \/ Idle
  <2>1. UNCHANGED <<conn, heap, leaks>> /\ pc' # "hung"
    BY <1>1 DEF FastTimer, FastTimerDone, SlowIdle, SlowTimerDone, Idle, Goto, board_vars,
                tcp_vars
  <2>2. Shaped' /\ Open' = Open
    BY <2>1 DEF Shaped, Open
  <2> QED BY <2>1, <2>2, SameAccounted
<1>2. CASE LateOffer
  <2>1. Abandon(Open) /\ pc' # "hung"
    BY <1>2 DEF LateOffer, Goto
  <2>2. /\ Shaped' /\ heap' = heap /\ leaks' \in Nat /\ Cardinality(Open') \in Nat
        /\ leaks' + Cardinality(Open') = leaks + Cardinality(Open)
        /\ leaks' + 2 * Cardinality(Open') <= leaks + 2 * Cardinality(Open)
    BY <2>1, AbandonAccounted DEF Accounted
  <2> QED BY <2>1, <2>2, OpenFinite, ServerAssumption DEF Accounted
<1>3. ASSUME NEW arrives \in SUBSET Clients, SendAgain(arrives)
      PROVE  Shaped' /\ Accounted'
  <2>1. /\ conn' = [c \in Clients |-> [conn[c] EXCEPT !.lost = @ /\ c \notin arrives]]
        /\ UNCHANGED <<heap, leaks>> /\ pc' # "hung"
    BY <1>3, Zenon DEF SendAgain, SlowTimer, Goto
  <2>2. \A c \in Clients : IsConnection(conn'[c]) /\ conn'[c].open = conn[c].open
    <3> SUFFICES ASSUME NEW c \in Clients
                 PROVE  IsConnection(conn'[c]) /\ conn'[c].open = conn[c].open
      OBVIOUS
    <3>1. PICK v : conn'[c] = [conn[c] EXCEPT !["lost"] = v]
      BY <2>1, Zenon
    <3> QED BY <3>1, OtherField DEF Shaped
  <2>3. conn' = [c \in Clients |-> conn'[c]]
    BY <2>1, Zenon
  <2>4. Shaped' /\ Open' = Open
    BY <2>2, <2>3 DEF Shaped, Open
  <2> QED BY <2>1, <2>4, SameAccounted
<1>4. ASSUME NEW c \in Clients, GiveUp(c) \/ Reset(c)
      PROVE  Shaped' /\ Accounted'
  <2>1. Abandon({c}) /\ pc' # "hung"
    BY <1>4 DEF GiveUp, SlowTimer, Reset, Input, Goto
  <2>2. /\ Shaped' /\ heap' = heap /\ leaks' \in Nat /\ Cardinality(Open') \in Nat
        /\ leaks' + Cardinality(Open') = leaks + Cardinality(Open)
        /\ leaks' + 2 * Cardinality(Open') <= leaks + 2 * Cardinality(Open)
    BY <2>1, AbandonAccounted DEF Accounted
  <2> QED BY <2>1, <2>2, OpenFinite, ServerAssumption DEF Accounted
<1>5. ASSUME NEW c \in Clients, AcceptCallback(c) PROVE Shaped' /\ Accounted'
  BY <1>5, AcceptAccounted
<1>6. ASSUME NEW c \in Clients, CloseCallback(c) PROVE Shaped' /\ Accounted'
  BY <1>6, CloseAccounted
<1>7. ASSUME NEW c \in Clients, RecvCallback(c) PROVE Shaped' /\ Accounted'
  <2>1. pc' # "hung" /\ UNCHANGED <<heap, leaks>>
    BY <1>7 DEF RecvCallback, Goto
  <2>2. \E chain, echoed, lost :
          conn' = [conn EXCEPT ![c] = Received(conn[c], chain, echoed, lost)]
    BY <1>7, Zenon DEF RecvCallback
  <2>3. PICK chain, echoed, lost :
          conn' = [conn EXCEPT ![c] = Received(conn[c], chain, echoed, lost)]
    BY <2>2
  <2> DEFINE r == Received(conn[c], chain, echoed, lost)
  <2>4. IsConnection(r) /\ r.open = conn[c].open
    BY ReceivedShaped DEF Shaped
  <2>5. Shaped' /\ Open' = Open
    BY <2>3, <2>4, SameOpen
  <2> QED BY <2>1, <2>5, SameAccounted
<1>8. ASSUME NEW c \in Clients, Acked(c) PROVE Shaped' /\ Accounted'
  <2>1. /\ pc' # "hung" /\ UNCHANGED <<heap, leaks>>
        /\ \E v1, v2 : conn' = [conn EXCEPT ![c].unacked = v1, ![c].owed = v2]
    BY <1>8, Zenon DEF Acked, Input, Goto
  <2>2. PICK v1, v2 : conn' = [conn EXCEPT ![c].unacked = v1, ![c].owed = v2]
    BY <2>1
  <2> DEFINE r == [conn[c] EXCEPT !["unacked"] = v1, !["owed"] = v2]
  <2>3. conn' = [conn EXCEPT ![c] = r]
    BY <2>2 DEF Shaped
  <2>4. IsConnection(r) /\ r.open = conn[c].open
    BY DEF IsConnection, Shaped
  <2> HIDE DEF r
  <2> QED BY <2>1, <2>3, <2>4, SameOpen, SameAccounted
<1> QED BY <1>1, <1>2, <1>3, <1>4, <1>5, <1>6, <1>7, <1>8 DEF Loop

LEMMA NextHeap == HeapInv /\ [Next]_vars => HeapInv'
<1> SUFFICES ASSUME HeapInv, [Next]_vars PROVE HeapInv'
  OBVIOUS
<1> USE DEF HeapInv
<1>1. CallsEnd' /\ Shaped' /\ Accounted'
  <2>1. CASE BringUp
    <3>1. UNCHANGED <<conn, heap, leaks>> /\ CallsEnd' /\ pc' # "hung"
      BY <2>1, BringUpGoesOn DEF BringUp, board_vars, tcp_vars
    <3>2. Shaped' /\ Open' = Open
      BY <3>1 DEF Shaped, Open
    <3> QED BY <3>1, <3>2, SameAccounted
  <2>2. CASE \/ IicPhyReset \/ InitPlatform \/ AddInterface \/ EnableInterrupts \/ DhcpTest
             \/ DhcpInput \/ DhcpWaited \/ Fallback \/ StartApplication
    <3>1. UNCHANGED <<conn, heap, leaks>> /\ CallsEnd'
      BY <2>2 DEF IicPhyReset, InitPlatform, AddInterface, EnableInterrupts, DhcpTest, DhcpInput,
                  DhcpWaited, Fallback, StartApplication, Goto, i2c_vars, board_vars, tcp_vars,
                  CallsEnd
    <3>2. pc' = "hung" => timer' = "unready"
      BY <2>2 DEF IicPhyReset, InitPlatform, AddInterface, EnableInterrupts, DhcpTest, DhcpInput,
                  DhcpWaited, Fallback, StartApplication, Goto
    <3>3. Shaped' /\ Open' = Open
      BY <3>1 DEF Shaped, Open
    <3> QED BY <3>1, <3>2, <3>3, SameAccounted
  <2>3. CASE I2cInterrupt \/ UNCHANGED vars
    <3>1. UNCHANGED <<conn, heap, leaks, pc, call, timer>>
      BY <2>3 DEF I2cInterrupt, ControllerReports, vars, i2c_vars, board_vars, tcp_vars
    <3>2. Shaped' /\ Open' = Open
      BY <3>1 DEF Shaped, Open
    <3> QED BY <3>1, <3>2, SameAccounted DEF CallsEnd
  <2>4. CASE TimerCallback
    <3>1. UNCHANGED <<pc, call>> /\ timer # "unready"
      BY <2>4 DEF TimerCallback, i2c_vars
    <3>2. CASE UNCHANGED <<conn, heap, leaks>>
      <4>1. Shaped' /\ Open' = Open
        BY <3>2 DEF Shaped, Open
      <4>2. Accounted'
        BY <3>1, <3>2, <4>1 DEF Accounted
      <4> QED BY <3>1, <4>1, <4>2 DEF CallsEnd
    <3>3. CASE Abandon(Open)
      <4>1. /\ Shaped' /\ heap' = heap /\ leaks' \in Nat /\ Cardinality(Open') \in Nat
            /\ leaks' + Cardinality(Open') = leaks + Cardinality(Open)
            /\ leaks' + 2 * Cardinality(Open') <= leaks + 2 * Cardinality(Open)
        BY <3>3, AbandonAccounted DEF Accounted
      <4> QED BY <3>1, <4>1, OpenFinite, ServerAssumption DEF Accounted, CallsEnd
    <3> QED BY <2>4, <3>2, <3>3 DEF TimerCallback, tcp_vars
  <2>5. CASE Loop
    <3>1. call' = call /\ pc \notin {"clock", "phy"}
      BY <2>5 DEF Loop, FastTimer, FastTimerDone, SlowIdle, SlowTimerDone, Idle, LateOffer,
                  SendAgain, GiveUp, SlowTimer, AcceptCallback, RecvCallback, CloseCallback,
                  Reset, Acked, Input, Goto, input_vars, i2c_vars
    <3> QED BY <2>5, <3>1, LoopAccounted DEF CallsEnd
  <2>6. ASSUME NEW c \in Clients, Send(c)
        PROVE  CallsEnd' /\ Shaped' /\ Accounted'
    <3>1. /\ UNCHANGED <<heap, leaks, pc, call, timer>>
          /\ \E v1, v2 : conn' = [conn EXCEPT ![c].owed = v1, ![c].unsent = v2]
      BY <2>6, Zenon DEF Send, outside_vars, input_vars, i2c_vars
    <3>2. PICK v1, v2 : conn' = [conn EXCEPT ![c].owed = v1, ![c].unsent = v2]
      BY <3>1
    <3> DEFINE r == [conn[c] EXCEPT !["owed"] = v1, !["unsent"] = v2]
    <3>3. conn' = [conn EXCEPT ![c] = r]
      BY <3>2 DEF Shaped
    <3>4. IsConnection(r) /\ r.open = conn[c].open
      BY DEF IsConnection, Shaped
    <3> HIDE DEF r
    <3>5. Shaped' /\ Open' = Open
      BY <3>3, <3>4, SameOpen
    <3> QED BY <3>1, <3>5, SameAccounted DEF CallsEnd
  <2> QED BY <2>1, <2>2, <2>3, <2>4, <2>5, <2>6 DEF Next, Start
<1> QED BY <1>1

(* The server never hangs while every connection that has ended was closed, as *)
(* long as those open leave room on the heap.                                *)
THEOREM HangsNeedLeaks == Spec => []HangsOnlyAfterLeaks
<1>1. HeapInv => HangsOnlyAfterLeaks
  BY OpenFinite DEF HeapInv, Accounted, HangsOnlyAfterLeaks
<1> QED BY <1>1, InitHeap, NextHeap, PTL DEF Spec
-----------------------------------------------------------------------------
(* The types. *)
Places == {"clock", "phy", "reset", "platform", "netif", "enable", "dhcp", "dhcp input",
           "fallback", "start", "returned", "hung"} \cup Serving

I2cTypes ==
  /\ pc \in Places
  /\ call \in {"setup", "next", "send", "sent", "recv", "received"}
  /\ pc \in Programs => at \in 1..Len(Program[pc])
  /\ TransmitComplete \in BOOLEAN /\ ReceiveComplete \in BOOLEAN /\ errors \in BOOLEAN
  /\ transfer \in {"none", "send", "recv"} /\ clean \in BOOLEAN /\ partner \in BOOLEAN

Transfers == {"must", "write", "read", "poll"}

LEMMA Behind ==
  ASSUME NEW a \in Seq(Transfers), NEW b \in Seq(Transfers)
  PROVE  /\ a \o b \in Seq(Transfers) /\ Len(a \o b) = Len(a) + Len(b)
         /\ Len(b) > 0 => (a \o b)[Len(a) + Len(b)] = b[Len(b)]
<1>1. /\ a \o b \in Seq(Transfers) /\ Len(a \o b) = Len(a) + Len(b)
      /\ \A i \in 1 .. Len(a) + Len(b) :
           (a \o b)[i] = IF i <= Len(a) THEN a[i] ELSE b[i - Len(a)]
  BY ConcatProperties
<1>2. Len(a) \in Nat /\ Len(b) \in Nat
  BY LenProperties
<1>3. ASSUME Len(b) > 0 PROVE (a \o b)[Len(a) + Len(b)] = b[Len(b)]
  <2> DEFINE k == Len(a) + Len(b)
  <2>1. k \in 1..k /\ ~(k <= Len(a)) /\ k - Len(a) = Len(b)
    BY <1>2, <1>3
  <2>2. (a \o b)[k] = b[k - Len(a)]
    BY <1>1, <2>1
  <2> QED BY <2>1, <2>2, Zenon
<1> QED BY <1>1, <1>3

(* Both programs have a first transfer, and neither ends with a poll. *)
LEMMA ProgramShape ==
  /\ \A p \in {"clock", "phy"} : Len(Program[p]) \in Nat /\ Len(Program[p]) > 0
  /\ \A p \in {"clock", "phy"} : Program[p][Len(Program[p])] # "poll"
<1> DEFINE two == <<"must", "must">>
           writes == [i \in 1..13 |-> "write"]
           poll == <<"poll">>
           rest == <<"write", "read", "write", "write", "write", "write">>
<1>1. two \in Seq(Transfers) /\ Len(two) = 2
  BY DEF Transfers
<1>2. writes \in Seq(Transfers) /\ Len(writes) = 13
  BY DEF Transfers
<1>3. poll \in Seq(Transfers) /\ Len(poll) = 1
  BY DEF Transfers
<1>4. rest \in Seq(Transfers) /\ Len(rest) = 6 /\ rest[6] = "write"
  BY DEF Transfers
<1>5. ProgramSfpPhy = two \o writes \o poll \o rest
  BY DEF ProgramSfpPhy
<1> HIDE DEF two, writes, poll, rest
<1>6. two \o writes \in Seq(Transfers) /\ Len(two \o writes) = 15
  <2>1. two \o writes \in Seq(Transfers) /\ Len(two \o writes) = Len(two) + Len(writes)
    BY <1>1, <1>2, Behind
  <2> QED BY <1>1, <1>2, <2>1
<1>7. two \o writes \o poll \in Seq(Transfers) /\ Len(two \o writes \o poll) = 16
  <2>1. /\ (two \o writes) \o poll \in Seq(Transfers)
        /\ Len((two \o writes) \o poll) = Len(two \o writes) + Len(poll)
    BY <1>3, <1>6, Behind
  <2> QED BY <1>3, <1>6, <2>1
<1>8. Len(ProgramSfpPhy) = 22 /\ ProgramSfpPhy[22] = "write"
  <2> DEFINE first == two \o writes \o poll
  <2>1. first \in Seq(Transfers) /\ Len(first) = 16 /\ ProgramSfpPhy = first \o rest
    BY <1>5, <1>7
  <2> HIDE DEF first
  <2>2. Len(rest) > 0
    BY <1>4
  <2>3. /\ Len(first \o rest) = Len(first) + Len(rest)
        /\ (first \o rest)[Len(first) + Len(rest)] = rest[Len(rest)]
    BY <1>4, <2>1, <2>2, Behind
  <2>4. Len(first) + Len(rest) = 22
    BY <1>4, <2>1
  <2> QED BY <1>4, <2>1, <2>3, <2>4
<1>9. /\ Len(ProgramSi5324) = 1 + REGISTERS /\ REGISTERS \in Nat
      /\ ProgramSi5324[1 + REGISTERS] = "must"
  BY BoardAssumption DEF ProgramSi5324
<1>10. Program["clock"] = ProgramSi5324 /\ Program["phy"] = ProgramSfpPhy
  BY DEF Program
<1>11. /\ Len(Program["clock"]) \in Nat /\ Len(Program["clock"]) > 0
       /\ Program["clock"][Len(Program["clock"])] # "poll"
  BY <1>9, <1>10
<1>12. /\ Len(Program["phy"]) \in Nat /\ Len(Program["phy"]) > 0
       /\ Program["phy"][Len(Program["phy"])] # "poll"
  <2>1. Len(Program["phy"]) = 22 /\ Program["phy"][22] = "write"
    BY <1>8, <1>10, Zenon
  <2>2. Program["phy"][Len(Program["phy"])] = "write"
    BY <2>1, Zenon
  <2> QED BY <2>1, <2>2
<1> QED BY <1>11, <1>12

LEMMA ReturnTypes ==
  ASSUME I2cTypes, Return, partner' = partner
  PROVE  I2cTypes'
<1>1. /\ pc' \in {"phy", "platform"} /\ at' = 1 /\ Len(Program["phy"]) \in Nat
      /\ Len(Program["phy"]) > 0
  BY ProgramShape DEF Return
<1>2. pc' \in Programs => at' \in 1..Len(Program[pc'])
  BY <1>1, ProgramNames
<1>3. pc' \in Places
  BY <1>1 DEF Places
<1>4. /\ TransmitComplete' \in BOOLEAN /\ ReceiveComplete' \in BOOLEAN /\ errors' \in BOOLEAN
      /\ clean' \in BOOLEAN
  BY DEF Return
<1> QED BY <1>2, <1>3, <1>4 DEF Return, I2cTypes

LEMMA ResultTypes ==
  ASSUME I2cTypes, pc \in Programs, NEW ok \in BOOLEAN, Result(ok), partner' = partner
  PROVE  I2cTypes'
<1> DEFINE n == Len(Program[pc])
<1>0. at \in 1..n /\ n \in Nat /\ n > 0 /\ pc \in {"clock", "phy"}
  BY ProgramNames, ProgramShape DEF I2cTypes
<1>1. CASE Return
  BY <1>1, ReturnTypes
<1>2. CASE UNCHANGED <<pc, at, flags, transfer, clean>> /\ call' = "next"
  BY <1>2 DEF I2cTypes, flags
<1>3. CASE at' = at + 1 /\ at # n /\ call' = "next" /\ UNCHANGED <<pc, flags, transfer, clean>>
  <2>1. at' \in 1..n
    BY <1>0, <1>3
  <2> QED BY <1>3, <2>1 DEF I2cTypes, flags
<1> QED BY <1>1, <1>2, <1>3 DEF Result

LEMMA BringUpTypes ==
  ASSUME CallsEnd, I2cTypes, I2cNext
  PROVE  I2cTypes'
<1>0. pc \in Programs
  BY BringUpGoesOn, ProgramNames
<1>1. CASE I2cSetupHardware
  <2>1. CASE Return
    BY <1>1, <2>1, ReturnTypes DEF I2cSetupHardware
  <2>2. CASE ~Return
    BY <1>1, <2>2 DEF I2cSetupHardware, I2cTypes
  <2> QED BY <2>1, <2>2
<1>2. CASE MasterSend
  BY <1>2 DEF MasterSend, I2cTypes
<1>3. CASE SpinEnds
  BY <1>3 DEF SpinEnds, I2cTypes, flags
<1>4. CASE SpinFails
  BY <1>0, <1>4, ResultTypes DEF SpinFails
<1>5. CASE MasterRecv
  BY <1>5 DEF MasterRecv, I2cTypes
<1>6. CASE Written
  BY <1>0, <1>6, ResultTypes DEF Written
<1>7. CASE Read
  <2>1. CASE Result(TRUE)
    BY <1>0, <1>7, <2>1, ResultTypes DEF Read
  <2>2. CASE /\ Step = "poll" /\ at' = at + 1 /\ call' = "next"
             /\ UNCHANGED <<pc, flags, transfer, clean>>
    <3>1. at \in 1..Len(Program[pc]) /\ Len(Program[pc]) \in Nat /\ at # Len(Program[pc])
      BY <1>0, <2>2, ProgramNames, ProgramShape DEF I2cTypes, Step
    <3>2. at' \in 1..Len(Program[pc])
      BY <2>2, <3>1
    <3> QED BY <1>7, <2>2, <3>2 DEF Read, I2cTypes, flags
  <2> QED BY <1>7, <2>1, <2>2 DEF Read
<1> QED BY <1>1, <1>2, <1>3, <1>4, <1>5, <1>6, <1>7 DEF I2cNext

LEMMA ReportTypes ==
  ASSUME I2cTypes, ControllerReports
  PROVE  I2cTypes'
<1>1. /\ TransmitComplete' \in BOOLEAN /\ ReceiveComplete' \in BOOLEAN /\ errors' \in BOOLEAN
  BY DEF ControllerReports, StatusHandler
<1>2. transfer' \in {"none", transfer} /\ clean' \in BOOLEAN
  BY DEF ControllerReports
<1>3. UNCHANGED <<pc, call, at, partner>>
  BY DEF ControllerReports
<1> QED BY <1>1, <1>2, <1>3 DEF I2cTypes

LEMMA I2cTypesKept == CallsEnd /\ I2cTypes /\ [Next]_vars => I2cTypes'
<1> SUFFICES ASSUME CallsEnd, I2cTypes, [Next]_vars PROVE I2cTypes'
  OBVIOUS
<1>1. CASE BringUp
  BY <1>1, BringUpTypes DEF BringUp
<1>2. CASE I2cInterrupt
  BY <1>2, ReportTypes DEF I2cInterrupt
<1>3. ASSUME UNCHANGED i2c_vars, pc' \in Places \ {"clock", "phy"} \/ pc' = pc
      PROVE  I2cTypes'
  BY <1>3, ProgramNames DEF I2cTypes, i2c_vars, flags
<1>4. CASE \/ IicPhyReset \/ InitPlatform \/ AddInterface \/ EnableInterrupts \/ DhcpTest
           \/ DhcpInput \/ DhcpWaited \/ Fallback \/ StartApplication
  <2>1. pc' \in Places \ {"clock", "phy"} /\ UNCHANGED i2c_vars
    BY <1>4 DEF IicPhyReset, InitPlatform, AddInterface, EnableInterrupts, DhcpTest, DhcpInput,
                DhcpWaited, Fallback, StartApplication, Goto, Places, Serving
  <2> QED BY <1>3, <2>1
<1>5. CASE Loop
  <2>1. pc' \in Places \ {"clock", "phy"} /\ UNCHANGED i2c_vars
    BY <1>5 DEF Loop, FastTimer, FastTimerDone, SlowIdle, SlowTimerDone, Idle, LateOffer,
                SendAgain, GiveUp, SlowTimer, AcceptCallback, RecvCallback, CloseCallback,
                Reset, Acked, Input, Goto, input_vars, Places, Serving
  <2> QED BY <1>3, <2>1
<1>6. CASE TimerCallback \/ UNCHANGED vars \/ \E c \in Clients : Send(c)
  <2>1. pc' = pc /\ UNCHANGED i2c_vars
    BY <1>6 DEF TimerCallback, vars, Send, outside_vars, input_vars
  <2> QED BY <1>3, <2>1
<1> QED BY <1>1, <1>2, <1>4, <1>5, <1>6 DEF Next, Start

LEMMA I2cAlways == Spec => [](CallsEnd /\ I2cTypes)
<1>1. Init => CallsEnd /\ I2cTypes
  <2> SUFFICES ASSUME Init PROVE CallsEnd /\ I2cTypes
    OBVIOUS
  <2>1. /\ pc \in Places \ {"phy"} /\ call = "setup" /\ at = 1
        /\ Len(Program["clock"]) \in Nat /\ Len(Program["clock"]) > 0
    BY ProgramShape DEF Init, Places
  <2>2. pc \in Programs => at \in 1..Len(Program[pc])
    BY <2>1, ProgramNames
  <2>3. /\ TransmitComplete \in BOOLEAN /\ ReceiveComplete \in BOOLEAN /\ errors \in BOOLEAN
        /\ clean \in BOOLEAN /\ partner \in BOOLEAN
    BY DEF Init
  <2> QED BY <2>1, <2>2, <2>3 DEF Init, CallsEnd, I2cTypes
<1>2. AddressInv => CallsEnd
  BY DEF AddressInv
<1> QED BY <1>1, <1>2, InitAddressed, NextAddressed, I2cTypesKept, PTL DEF Spec

(* The counters of the timer and the state of the interface. *)
BoardTypes ==
  /\ board \in {"cora", "zc706", "zcu102"} /\ platform \in {"zynq", "sdt"}
  /\ timer \in {"off", "loaded", "once", "unready", "runs", "single", "stopped"}
  /\ TcpFastTmrFlag \in BOOLEAN /\ TcpSlowTmrFlag \in BOOLEAN /\ odd \in BOOLEAN
  /\ dhcp_timer \in 0..DHCP_COARSE /\ dhcp_timoutcntr \in 0..DHCP_TRIES
  /\ ResetRxCntr \in 0..RESET_RX_CNTR_LIMIT
  /\ ip \in {"none", "lease", "default"} /\ bound \in {"never", "held", "expired"}
  /\ rx_stuck \in BOOLEAN /\ listening \in BOOLEAN

LEMMA InitBoard == Init => BoardTypes
<1> SUFFICES ASSUME Init PROVE BoardTypes
  OBVIOUS
<1>1. /\ dhcp_timer \in 0..DHCP_COARSE /\ dhcp_timoutcntr \in 0..DHCP_TRIES
      /\ ResetRxCntr \in 0..RESET_RX_CNTR_LIMIT
  BY ServerAssumption DEF Init
<1>2. /\ TcpFastTmrFlag \in BOOLEAN /\ TcpSlowTmrFlag \in BOOLEAN /\ odd \in BOOLEAN
      /\ rx_stuck \in BOOLEAN /\ listening \in BOOLEAN
      /\ board \in {"cora", "zc706", "zcu102"} /\ platform \in {"zynq", "sdt"}
  BY DEF Init
<1> QED BY <1>1, <1>2 DEF Init, BoardTypes

LEMMA TickBoard ==
  ASSUME BoardTypes, TimerCallback
  PROVE  BoardTypes'
<1>1. dhcp_timoutcntr' \in 0..DHCP_TRIES
  BY ServerAssumption DEF BoardTypes, TimerCallback, CountDown
<1>2. dhcp_timer' \in 0..DHCP_COARSE
  <2>1. dhcp_timer' \in {0, dhcp_timer} \/ (dhcp_timer' = dhcp_timer + 1 /\ ~Coarse /\ Slow)
    BY DEF TimerCallback
  <2>2. dhcp_timer' = dhcp_timer + 1 /\ ~Coarse /\ Slow => dhcp_timer' <= DHCP_COARSE
    BY ServerAssumption DEF BoardTypes, Coarse
  <2> QED BY <2>1, <2>2, ServerAssumption DEF BoardTypes
<1>3. ResetRxCntr' \in 0..RESET_RX_CNTR_LIMIT
  <2>1. \/ ResetRxCntr' = 0
        \/ ResetRxCntr' = ResetRxCntr + 1 /\ ~(ResetRxCntr + 1 >= RESET_RX_CNTR_LIMIT)
    BY DEF TimerCallback
  <2> QED BY <2>1, ServerAssumption DEF BoardTypes
<1>4. /\ TcpFastTmrFlag' \in BOOLEAN /\ TcpSlowTmrFlag' \in BOOLEAN /\ odd' \in BOOLEAN
      /\ rx_stuck' \in {FALSE, rx_stuck}
  BY DEF TimerCallback
<1>5. /\ timer' \in {"runs", "stopped"}
      /\ ip' \in {ip, "none"} /\ bound' \in {bound, "expired"}
      /\ UNCHANGED <<board, platform, listening>>
  BY DEF TimerCallback, main_vars
<1> QED BY <1>1, <1>2, <1>3, <1>4, <1>5 DEF BoardTypes

LEMMA BoardKept == BoardTypes /\ [Next]_vars => BoardTypes'
<1> SUFFICES ASSUME BoardTypes, [Next]_vars PROVE BoardTypes'
  OBVIOUS
<1>1. CASE UNCHANGED <<main_vars, timer, flag_vars, tick_vars, net_vars>>
  BY <1>1 DEF BoardTypes, main_vars, flag_vars, tick_vars, net_vars
<1>2. CASE TimerCallback
  BY <1>2, TickBoard
<1>3. CASE BringUp \/ IicPhyReset \/ AddInterface \/ DhcpTest \/ DhcpWaited
  BY <1>1, <1>3 DEF BringUp, IicPhyReset, AddInterface, DhcpTest, DhcpWaited, board_vars
<1>4. CASE InitPlatform \/ EnableInterrupts
  <2>1. /\ timer' \in {timer, "loaded", "once", "unready", "runs", "single"}
        /\ UNCHANGED <<main_vars, flag_vars, odd, dhcp_timer, ResetRxCntr, net_vars>>
        /\ dhcp_timoutcntr' \in {dhcp_timoutcntr, DHCP_TRIES}
    BY <1>4 DEF InitPlatform, EnableInterrupts, tick_vars
  <2> QED BY <2>1, ServerAssumption DEF BoardTypes, main_vars, flag_vars, net_vars
<1>5. CASE DhcpInput \/ Fallback \/ StartApplication
  <2>1. /\ UNCHANGED <<main_vars, timer, flag_vars, tick_vars, rx_stuck>>
        /\ ip' \in {ip, "lease", "default"} /\ bound' \in {bound, "held"}
    BY <1>5 DEF DhcpInput, Fallback, StartApplication, DefaultAddress
  <2>2. listening' \in BOOLEAN
    BY <1>5 DEF DhcpInput, Fallback, StartApplication, BoardTypes
  <2> QED BY <2>1, <2>2 DEF BoardTypes, main_vars, flag_vars, tick_vars
<1>6. CASE FastTimer \/ SlowIdle \/ Idle
  BY <1>1, <1>6 DEF FastTimer, SlowIdle, Idle, board_vars
<1>7. CASE FastTimerDone \/ SlowTimerDone
  <2>1. /\ UNCHANGED <<main_vars, timer, tick_vars, net_vars>>
        /\ TcpFastTmrFlag' \in BOOLEAN /\ TcpSlowTmrFlag' \in BOOLEAN
    BY <1>7 DEF FastTimerDone, SlowTimerDone, BoardTypes
  <2> QED BY <2>1 DEF BoardTypes, main_vars, tick_vars, net_vars
<1>8. CASE LateOffer
  BY <1>8 DEF LateOffer, BoardTypes, main_vars, flag_vars, tick_vars
<1>9. CASE \/ \E arrives \in SUBSET Clients : SendAgain(arrives)
           \/ \E c \in Clients : GiveUp(c) \/ CloseCallback(c) \/ Reset(c) \/ Acked(c) \/ Send(c)
                                 \/ AcceptCallback(c)
  BY <1>1, <1>9 DEF SendAgain, GiveUp, SlowTimer, CloseCallback, Reset, Acked, Send,
                    AcceptCallback, Input, input_vars, outside_vars
<1>10. CASE \E c \in Clients : RecvCallback(c)
  BY <1>10 DEF RecvCallback, BoardTypes, main_vars, flag_vars, tick_vars
<1>11. CASE I2cInterrupt \/ UNCHANGED vars
  BY <1>1, <1>11 DEF I2cInterrupt, vars, board_vars
<1> QED BY <1>2, <1>3, <1>4, <1>5, <1>6, <1>7, <1>8, <1>9, <1>10, <1>11
        DEF Next, Start, Loop

(* The connections and the LEDs. *)
ConnTypes == conn \in [Clients -> Connection] /\ leds \in 0..LED_COUNT

LEMMA ClosedType == Closed \in Connection /\ [Closed EXCEPT !.open = TRUE] \in Connection
<1>1. 0 \in 0..Burst /\ TCP_WND \in 0..TCP_WND /\ 0 \in 0..TCP_SND_BUF
  BY ServerAssumption
<1>2. ASSUME NEW b \in BOOLEAN
      PROVE  [open |-> b, owed |-> 0, unsent |-> 0, window |-> TCP_WND, unacked |-> 0,
              lost |-> FALSE, missed |-> FALSE] \in Connection
  <2> DEFINE no == FALSE
  <2>1. no \in BOOLEAN
    OBVIOUS
  <2> HIDE DEF no
  <2>2. [open |-> b, owed |-> 0, unsent |-> 0, window |-> TCP_WND, unacked |-> 0,
         lost |-> no, missed |-> no] \in Connection
    BY <1>1, <2>1 DEF Connection
  <2> QED BY <2>2 DEF no
<1>3. ASSUME NEW p, p = [Closed EXCEPT !.open = TRUE]
      PROVE  p \in Connection
  <2> DEFINE no == FALSE
             yes == TRUE
  <2>1. no \in BOOLEAN /\ yes \in BOOLEAN
    OBVIOUS
  <2>2. PICK q : q = [open |-> no, owed |-> 0, unsent |-> 0, window |-> TCP_WND,
                      unacked |-> 0, lost |-> no, missed |-> no]
    OBVIOUS
  <2>3. p = [q EXCEPT !.open = yes]
    BY <1>3, <2>2 DEF Closed
  <2> HIDE DEF no, yes
  <2>4. p = [open |-> yes, owed |-> 0, unsent |-> 0, window |-> TCP_WND,
             unacked |-> 0, lost |-> no, missed |-> no]
    BY <2>1, <2>2, <2>3
  <2> QED BY <1>2, <2>4 DEF no, yes
<1>4. Closed \in Connection
  BY <1>2 DEF Closed
<1>5. [Closed EXCEPT !.open = TRUE] \in Connection
  BY <1>2, <1>3
<1> QED BY <1>4, <1>5

(* The echoes a client has received, and the packets it sends. *)
LEMMA ClientTypes ==
  ASSUME NEW r \in Connection
  PROVE  /\ \A n \in 1..r.unacked :
              [r EXCEPT !.unacked = r.unacked - n, !.owed = r.owed - n] \in Connection
         /\ \A n \in 1..Burst :
              r.owed = 0 => [r EXCEPT !.owed = n, !.unsent = n] \in Connection
<1>1. /\ r.open \in BOOLEAN /\ r.owed \in 0..Burst /\ r.unsent \in 0..Burst
      /\ r.window \in 0..TCP_WND /\ r.unacked \in 0..TCP_SND_BUF
      /\ r.lost \in BOOLEAN /\ r.missed \in BOOLEAN /\ r.unsent + r.unacked <= r.owed
      /\ r = [open |-> r.open, owed |-> r.owed, unsent |-> r.unsent, window |-> r.window,
              unacked |-> r.unacked, lost |-> r.lost, missed |-> r.missed]
  BY DEF Connection
<1>2. ASSUME NEW o \in 0..Burst, NEW u \in 0..Burst, NEW k \in 0..TCP_SND_BUF, u + k <= o
      PROVE  [open |-> r.open, owed |-> o, unsent |-> u, window |-> r.window,
              unacked |-> k, lost |-> r.lost, missed |-> r.missed] \in Connection
  BY <1>1, <1>2 DEF Connection
<1>3. ASSUME NEW n \in 1..r.unacked, NEW q,
             q = [r EXCEPT !.unacked = r.unacked - n, !.owed = r.owed - n]
      PROVE  q \in Connection
  <2>1. /\ r.owed - n \in 0..Burst /\ r.unacked - n \in 0..TCP_SND_BUF
        /\ r.unsent + (r.unacked - n) <= r.owed - n
    BY <1>1, ServerAssumption
  <2>2. q = [open |-> r.open, owed |-> r.owed - n, unsent |-> r.unsent, window |-> r.window,
             unacked |-> r.unacked - n, lost |-> r.lost, missed |-> r.missed]
    BY <1>1, <1>3
  <2> QED BY <1>1, <1>2, <2>1, <2>2
<1>4. ASSUME NEW n \in 1..Burst, r.owed = 0, NEW q, q = [r EXCEPT !.owed = n, !.unsent = n]
      PROVE  q \in Connection
  <2>1. n \in 0..Burst /\ n + r.unacked <= n
    BY <1>1, <1>4, ServerAssumption
  <2>2. q = [open |-> r.open, owed |-> n, unsent |-> n, window |-> r.window,
             unacked |-> r.unacked, lost |-> r.lost, missed |-> r.missed]
    BY <1>1, <1>4
  <2> QED BY <1>1, <1>2, <2>1, <2>2
<1> QED BY <1>3, <1>4

LEMMA AbandonTypes ==
  ASSUME ConnTypes, NEW S, Abandon(S)
  PROVE  ConnTypes'
<1>1. \A c \in Clients : (IF c \in S THEN Closed ELSE conn[c]) \in Connection
  BY ClosedType DEF ConnTypes
<1> QED BY <1>1 DEF Abandon, ConnTypes

(* recv_callback takes what is there and fits the window, and writes an echo    *)
(* only when there is room for it.                                          *)
LEMMA ReceivedTypes ==
  ASSUME NEW r \in Connection, NEW chain \in 1..r.unsent, chain <= r.window,
         NEW echoed \in BOOLEAN, NEW lost \in BOOLEAN,
         echoed => TCP_SND_BUF - r.unacked > 1
  PROVE  Received(r, chain, echoed, lost) \in Connection
<1> DEFINE unacked == IF echoed THEN r.unacked + 1 ELSE r.unacked
           isLost == r.lost \/ (echoed /\ lost)
           isMissed == r.missed \/ ~echoed \/ chain > 1
           q == [open |-> r.open, owed |-> r.owed, unsent |-> r.unsent - chain,
                 window |-> Window(r.window, chain), unacked |-> unacked, lost |-> isLost,
                 missed |-> isMissed]
<1>1. /\ r = [open |-> r.open, owed |-> r.owed, unsent |-> r.unsent, window |-> r.window,
              unacked |-> r.unacked, lost |-> r.lost, missed |-> r.missed]
      /\ r.open \in BOOLEAN /\ r.owed \in 0..Burst /\ r.unsent \in 0..Burst
      /\ r.window \in 0..TCP_WND /\ r.unacked \in 0..TCP_SND_BUF
      /\ r.lost \in BOOLEAN /\ r.missed \in BOOLEAN /\ r.unsent + r.unacked <= r.owed
  BY DEF Connection
<1>2. /\ r.unsent - chain \in 0..Burst /\ Window(r.window, chain) \in 0..TCP_WND
      /\ unacked \in 0..TCP_SND_BUF /\ r.unsent - chain + unacked <= r.owed
  BY <1>1, ServerAssumption DEF Window
<1>3. isLost \in BOOLEAN /\ isMissed \in BOOLEAN
  OBVIOUS
<1>4. Received(r, chain, echoed, lost) = q
  <2>1. Received(r, chain, echoed, lost) =
          [r EXCEPT !.unsent = r.unsent - chain, !.window = Window(r.window, chain),
                    !.unacked = unacked, !.lost = isLost, !.missed = isMissed]
    BY Zenon DEF Received
  <2> HIDE DEF isLost, isMissed, unacked
  <2> QED BY <1>1, <2>1
<1> HIDE DEF unacked, isLost, isMissed
<1>5. q \in Connection
  BY <1>1, <1>2, <1>3 DEF Connection
<1> QED BY <1>4, <1>5

LEMMA ConnKept == ConnTypes /\ [Next]_vars => ConnTypes'
<1> SUFFICES ASSUME ConnTypes, [Next]_vars PROVE ConnTypes'
  OBVIOUS
<1>0. LED_COUNT \in Nat /\ conn \in [Clients -> Connection] /\ leds \in 0..LED_COUNT
  BY ServerAssumption DEF ConnTypes
<1>1. CASE UNCHANGED <<conn, leds>>
  BY <1>1 DEF ConnTypes
<1>2. ASSUME NEW c \in Clients, NEW r \in Connection, conn' = [conn EXCEPT ![c] = r],
             leds' = leds
      PROVE  ConnTypes'
  BY <1>0, <1>2 DEF ConnTypes
<1>3. CASE Start \/ I2cInterrupt \/ UNCHANGED vars
  BY <1>1, <1>3
  DEF Start, BringUp, IicPhyReset, InitPlatform, AddInterface, EnableInterrupts, DhcpTest,
      DhcpInput, DhcpWaited, Fallback, StartApplication, I2cInterrupt, vars, board_vars,
      tcp_vars
<1>4. CASE TimerCallback
  BY <1>1, <1>4, AbandonTypes DEF TimerCallback, tcp_vars
<1>5. CASE FastTimer \/ FastTimerDone \/ SlowIdle \/ SlowTimerDone \/ Idle
  BY <1>1, <1>5 DEF FastTimer, FastTimerDone, SlowIdle, SlowTimerDone, Idle, board_vars,
                    tcp_vars
<1>6. CASE LateOffer \/ \E c \in Clients : GiveUp(c) \/ Reset(c)
  BY <1>6, AbandonTypes DEF LateOffer, GiveUp, SlowTimer, Reset
<1>7. ASSUME NEW arrives \in SUBSET Clients, SendAgain(arrives)
      PROVE  ConnTypes'
  <2>1. /\ conn' = [c \in Clients |-> [conn[c] EXCEPT !.lost = @ /\ c \notin arrives]]
        /\ UNCHANGED leds
    BY <1>7, Zenon DEF SendAgain, SlowTimer
  <2>2. ASSUME NEW r \in Connection, NEW b \in BOOLEAN
        PROVE  [r EXCEPT !.lost = b] \in Connection
    BY DEF Connection
  <2>3. ASSUME NEW c \in Clients PROVE conn'[c] \in Connection
    <3> DEFINE b == conn[c].lost /\ c \notin arrives
    <3>1. conn'[c] = [conn[c] EXCEPT !.lost = b]
      BY <2>1, Zenon
    <3>2. b \in BOOLEAN
      BY Zenon
    <3> HIDE DEF b
    <3> QED BY <1>0, <2>2, <3>1, <3>2
  <2>4. conn' = [c \in Clients |-> conn'[c]]
    BY <2>1, Zenon
  <2> QED BY <1>0, <2>1, <2>3, <2>4 DEF ConnTypes
<1>8. ASSUME NEW c \in Clients, AcceptCallback(c) \/ CloseCallback(c)
      PROVE  ConnTypes'
  BY <1>1, <1>2, <1>8, ClosedType DEF AcceptCallback, CloseCallback, tcp_vars
<1>9. ASSUME NEW c \in Clients, RecvCallback(c)
      PROVE  ConnTypes'
  <2> DEFINE room == TCP_SND_BUF - conn[c].unacked > 1
  <2>1. PICK chain \in 1..conn[c].unsent, written \in BOOLEAN, lost \in BOOLEAN :
           /\ chain <= conn[c].window
           /\ conn' = [conn EXCEPT ![c] = Received(conn[c], chain, room /\ written, lost)]
           /\ leds' = IF room THEN switch_leds ELSE leds
    BY <1>9, Zenon DEF RecvCallback
  <2> DEFINE echoed == room /\ written
  <2>2. echoed \in BOOLEAN /\ (echoed => room)
    OBVIOUS
  <2>3. Received(conn[c], chain, echoed, lost) \in Connection
    <3> HIDE DEF echoed
    <3> QED BY <1>0, <2>1, <2>2, ReceivedTypes
  <2>4. leds' \in 0..LED_COUNT
    BY <1>0, <2>1 DEF switch_leds
  <2>5. conn' \in [Clients -> Connection]
    BY <1>0, <2>1, <2>3, Zenon
  <2> QED BY <2>4, <2>5 DEF ConnTypes
<1>10. ASSUME NEW c \in Clients, Acked(c)
       PROVE  ConnTypes'
  <2> DEFINE r == conn[c]
  <2>1. PICK n \in 1..r.unacked :
           conn' = [conn EXCEPT ![c].unacked = @ - n, ![c].owed = @ - n]
    BY <1>10, Zenon DEF Acked
  <2>2. leds' = leds
    BY <1>10 DEF Acked
  <2>3. conn' = [conn EXCEPT ![c] = [r EXCEPT !.unacked = r.unacked - n, !.owed = r.owed - n]]
    BY <1>0, <2>1
  <2>4. [r EXCEPT !.unacked = r.unacked - n, !.owed = r.owed - n] \in Connection
    BY <1>0, <2>1, ClientTypes
  <2> QED BY <1>2, <2>2, <2>3, <2>4
<1>11. ASSUME NEW c \in Clients, Send(c)
       PROVE  ConnTypes'
  <2> DEFINE r == conn[c]
  <2>1. PICK n \in 1..Burst : conn' = [conn EXCEPT ![c].owed = n, ![c].unsent = n]
    BY <1>11, Zenon DEF Send
  <2>2. leds' = leds /\ r.owed = 0
    BY <1>11 DEF Send, outside_vars
  <2>3. conn' = [conn EXCEPT ![c] = [r EXCEPT !.owed = n, !.unsent = n]]
    BY <1>0, <2>1
  <2>4. [r EXCEPT !.owed = n, !.unsent = n] \in Connection
    BY <1>0, <2>1, <2>2, ClientTypes
  <2> QED BY <1>2, <2>2, <2>3, <2>4
<1> QED BY <1>3, <1>4, <1>5, <1>6, <1>7, <1>8, <1>9, <1>10, <1>11 DEF Next, Loop

(* Every variable keeps its type: no callback overfills the send buffer or       *)
(* shrinks the window below nothing, no echo comes back that nobody waits for,    *)
(* no connection frees what it has not taken, and the transfers of a board's      *)
(* start stay in their programs, whatever the interrupt reports.              *)
THEOREM TypeCorrect == Spec => []TypeOK
<1>1. Init => ConnTypes
  BY ClosedType, ServerAssumption DEF Init, ConnTypes
<1>2. HeapInv => heap \in 0..HEAP /\ leaks \in 0..HEAP
  BY OpenFinite, ServerAssumption DEF HeapInv, Accounted
<1>3. I2cTypes /\ BoardTypes /\ ConnTypes /\ HeapInv => TypeOK
  BY <1>2 DEF I2cTypes, BoardTypes, ConnTypes, TypeOK, Places
<1> QED BY <1>1, <1>3, I2cAlways, InitBoard, BoardKept, ConnKept, InitHeap, NextHeap, PTL
        DEF Spec
=============================================================================
