----------------------------- MODULE FpgaServer -----------------------------
(***************************************************************************)
(* The TCP server of the FPGA board: main.c from the programming of the       *)
(* board (I2cAccess) to its endless loop, the timer interrupt of             *)
(* platform_zynq.c or platform.c, the callbacks of tcp_server.c and the LEDs   *)
(* of io_control.c.                                                        *)
(*                                                                         *)
(* The environment: the vendor's drivers, which may fail to initialise; a     *)
(* DHCP server; lwIP, which calls the callbacks from xemacif_input and sends   *)
(* what they write; clients, who send packets and wait for their echoes; and   *)
(* a network that loses, reorders and resets.  A packet is one pbuf; packets   *)
(* that arrive out of order are handed over as one chain of pbufs.           *)
(***************************************************************************)
EXTENDS I2cAccess, FiniteSets

CONSTANTS Clients,
          DHCP_TRIES,       \* dhcp_timoutcntr at first; bound: the code has 24
          DHCP_COARSE,      \* half seconds; bound: the code has 120
          RESET_RX_CNTR_LIMIT,  \* bound: the code has 400
          LED_COUNT,        \* bound: the code has 6
          TCP_WND, TCP_SND_BUF,     \* in packets
          HEAP,             \* blocks of the C heap
          Burst             \* bound: packets a client sends before it waits

ASSUME ServerAssumption ==
  /\ DHCP_TRIES \in Nat /\ DHCP_COARSE \in Nat /\ RESET_RX_CNTR_LIMIT \in Nat
  /\ LED_COUNT \in Nat /\ TCP_WND \in Nat /\ TCP_SND_BUF \in Nat
  /\ HEAP \in Nat /\ Burst \in Nat
  /\ IsFiniteSet(Clients)

VARIABLES
  board,                    \* the macros of the build: "cora", "zc706" or "zcu102"
  platform,                 \* the file that has timer_callback: "zynq" or "sdt"
  timer,                    \* "off", as it is set up, "runs", "single" or "stopped"
  TcpFastTmrFlag, TcpSlowTmrFlag, odd,
  dhcp_timer, dhcp_timoutcntr, ResetRxCntr,
  ip,                       \* the interface's address: "none", "lease" or "default"
  bound,                    \* history: "never", "held" or "expired", the lease's
  rx_stuck,                 \* the receive path is unresponsive (SI #692601)
  listening,
  conn,                     \* of each client
  leds,                     \* which LED is lit, 0 for none
  heap,                     \* free blocks
  leaks                     \* history: connections that ended without a callback, and
                            \* accepts that failed

main_vars == <<board, platform>>
flag_vars == <<TcpFastTmrFlag, TcpSlowTmrFlag>>
tick_vars == <<odd, dhcp_timer, dhcp_timoutcntr, ResetRxCntr>>
net_vars == <<ip, bound, rx_stuck, listening>>
tcp_vars == <<conn, leds, heap, leaks>>
board_vars == <<main_vars, timer, flag_vars, tick_vars, net_vars, tcp_vars>>
vars == <<pc, i2c_vars, board_vars>>

(* A connection: the echoes its client waits for, the packets the server has    *)
(* not received yet, rcv_wnd, the echoes in the send buffer and whether they     *)
(* are on their way; and, as history, whether one was not written. *)
Closed == [open |-> FALSE, owed |-> 0, unsent |-> 0, window |-> TCP_WND,
           unacked |-> 0, lost |-> FALSE, missed |-> FALSE]

Open == {c \in Clients : conn[c].open}
-----------------------------------------------------------------------------
(* main, until it serves.                                                  *)

Init ==
  /\ board \in {"cora", "zc706", "zcu102"}
  /\ platform \in IF board = "zcu102" THEN {"sdt"} ELSE {"zynq", "sdt"}
  /\ pc = CASE board = "zc706" -> "clock" [] board = "zcu102" -> "reset"
            [] OTHER -> "platform"
  /\ call = "setup" /\ at = 1 /\ transfer = "none" /\ clean = TRUE
  /\ TransmitComplete = FALSE /\ ReceiveComplete = FALSE /\ errors = FALSE
  /\ partner \in BOOLEAN
  /\ timer = "off" /\ TcpFastTmrFlag = FALSE /\ TcpSlowTmrFlag = FALSE /\ odd = TRUE
  /\ dhcp_timer = 0 /\ dhcp_timoutcntr = DHCP_TRIES /\ ResetRxCntr = 0
  /\ ip = "none" /\ bound = "never" /\ rx_stuck = FALSE /\ listening = FALSE
  /\ conn = [c \in Clients |-> Closed]
  /\ leds = 0 /\ heap = HEAP /\ leaks = 0

Goto(from, to) == pc = from /\ pc' = to

BringUp == I2cNext /\ UNCHANGED board_vars

I2cInterrupt == ControllerReports /\ UNCHANGED board_vars

(* A failure ends main. *)
IicPhyReset ==
  /\ Goto("reset", "platform") \/ Goto("reset", "returned")
  /\ UNCHANGED <<i2c_vars, board_vars>>

(* init_platform.  A timer that cannot be initialised, or whose test fails       *)
(* before it is set to reload, is only printed. *)
InitPlatform ==
  /\ Goto("platform", "netif")
  /\ \/ platform = "zynq" /\ timer' \in {"loaded", "once", "unready"}
     \/ platform = "sdt" /\ timer' = "runs"
  /\ UNCHANGED <<i2c_vars, main_vars, flag_vars, tick_vars, net_vars, tcp_vars>>

(* lwip_init and xemac_add. *)
AddInterface ==
  /\ Goto("netif", "enable") \/ Goto("netif", "returned")
  /\ UNCHANGED <<i2c_vars, board_vars>>

(* platform_enable_interrupts, which asserts that the timer is ready;          *)
(* dhcp_start. *)
EnableInterrupts ==
  /\ \/ timer = "unready" /\ Goto("enable", "hung") /\ UNCHANGED timer
     \/ timer = "loaded" /\ Goto("enable", "dhcp") /\ timer' = "runs"
     \/ timer = "once" /\ Goto("enable", "dhcp") /\ timer' = "single"
     \/ platform = "sdt" /\ Goto("enable", "dhcp") /\ UNCHANGED timer
  /\ dhcp_timoutcntr' = DHCP_TRIES
  /\ UNCHANGED <<i2c_vars, main_vars, flag_vars, odd, dhcp_timer, ResetRxCntr,
                 net_vars, tcp_vars>>

(* A plausible slip: the countdown is not looked at. *)
WaitingForLease == ip = "none"

Waiting == ip = "none" /\ dhcp_timoutcntr > 0

(* One round of the wait: the test, then a packet, which may be the offer. *)
DhcpTest ==
  /\ Goto("dhcp", "dhcp input") /\ Waiting
  /\ UNCHANGED <<i2c_vars, board_vars>>

DhcpInput ==
  /\ Goto("dhcp input", "dhcp")
  /\ \/ ip' = "lease" /\ bound' = "held"
     \/ UNCHANGED <<ip, bound>>
  /\ UNCHANGED <<i2c_vars, main_vars, timer, flag_vars, tick_vars, rx_stuck,
                 listening, tcp_vars>>

DhcpWaited ==
  /\ Goto("dhcp", "fallback") /\ ~Waiting
  /\ UNCHANGED <<i2c_vars, board_vars>>

(* A plausible slip: the address is not looked at. *)
DefaultAlways == IF dhcp_timoutcntr = 0 THEN "default" ELSE ip

DefaultAddress ==
  IF dhcp_timoutcntr = 0 /\ ip = "none" THEN "default" ELSE ip

Fallback ==
  /\ Goto("fallback", "start")
  /\ ip' = DefaultAddress
  /\ UNCHANGED <<i2c_vars, main_vars, timer, flag_vars, tick_vars, bound, rx_stuck,
                 listening, tcp_vars>>

(* start_application: main ignores that it failed. *)
StartApplication ==
  /\ Goto("start", "fast")
  /\ listening' \in BOOLEAN
  /\ UNCHANGED <<i2c_vars, main_vars, timer, flag_vars, tick_vars, ip, bound,
                 rx_stuck, tcp_vars>>
-----------------------------------------------------------------------------
(* The connections in S end without a callback: tcp_err is commented out. *)
Abandon(S) ==
  /\ conn' = [c \in Clients |-> IF c \in S THEN Closed ELSE conn[c]]
  /\ leaks' = leaks + Cardinality(S \cap Open)
  /\ UNCHANGED <<leds, heap>>

(* timer_callback.  The counter is counted down no further than 0, which is all  *)
(* main compares it with.  A lease that dhcp_coarse_tmr finds expired takes     *)
(* the connections made over it along. *)
Slow == ~odd

CountDown == IF Slow /\ dhcp_timoutcntr > 0 THEN dhcp_timoutcntr - 1 ELSE dhcp_timoutcntr

Coarse == Slow /\ dhcp_timer + 1 >= DHCP_COARSE

TimerCallback ==
  /\ timer \in {"runs", "single"}
  /\ timer' = IF timer = "runs" THEN "runs" ELSE "stopped"
  /\ TcpFastTmrFlag' = TRUE
  /\ TcpSlowTmrFlag' = (TcpSlowTmrFlag \/ Slow)
  /\ odd' = ~odd
  /\ dhcp_timoutcntr' = CountDown
  /\ dhcp_timer' = CASE Coarse -> 0 [] Slow /\ ~Coarse -> dhcp_timer + 1
                     [] OTHER -> dhcp_timer
  /\ \/ /\ Coarse /\ ip = "lease"
        /\ ip' = "none" /\ bound' = "expired"
        /\ Abandon(Open)
     \/ UNCHANGED <<ip, bound, tcp_vars>>
  /\ IF platform = "zynq" /\ ResetRxCntr + 1 >= RESET_RX_CNTR_LIMIT
     THEN ResetRxCntr' = 0 /\ rx_stuck' = FALSE
     ELSE /\ ResetRxCntr' = IF platform = "zynq" THEN ResetRxCntr + 1 ELSE 0
          /\ UNCHANGED rx_stuck
  /\ UNCHANGED <<pc, i2c_vars, main_vars, listening>>

(* The endless loop: test and call, then clear; the interrupt may come between.  *)
FastTimer ==
  /\ IF TcpFastTmrFlag THEN Goto("fast", "fast over") ELSE Goto("fast", "slow")
  /\ UNCHANGED <<i2c_vars, board_vars>>

(* A plausible slip: both flags are cleared behind the first test. *)
ClearBothFlags ==
  /\ Goto("fast over", "slow")
  /\ TcpFastTmrFlag' = FALSE /\ TcpSlowTmrFlag' = FALSE
  /\ UNCHANGED <<i2c_vars, main_vars, timer, tick_vars, net_vars, tcp_vars>>

FastTimerDone ==
  /\ Goto("fast over", "slow")
  /\ TcpFastTmrFlag' = FALSE
  /\ UNCHANGED <<i2c_vars, main_vars, timer, TcpSlowTmrFlag, tick_vars, net_vars,
                 tcp_vars>>

(* tcp_slowtmr sends again what was lost, which may be lost again, or gives the  *)
(* connection up. *)
SlowIdle ==
  /\ Goto("slow", "input") /\ ~TcpSlowTmrFlag
  /\ UNCHANGED <<i2c_vars, board_vars>>

SlowTimer(GaveUp) ==
  /\ Goto("slow", "slow over") /\ TcpSlowTmrFlag
  /\ GaveUp
  /\ UNCHANGED <<i2c_vars, main_vars, timer, flag_vars, tick_vars, net_vars>>

SendAgain(arrives) ==
  SlowTimer(/\ conn' = [c \in Clients |-> [conn[c] EXCEPT !.lost = @ /\ c \notin arrives]]
            /\ UNCHANGED <<leds, heap, leaks>>)

GiveUp(c) == SlowTimer(conn[c].lost /\ Abandon({c}))

SlowTimerDone ==
  /\ Goto("slow over", "input")
  /\ TcpSlowTmrFlag' = FALSE
  /\ UNCHANGED <<i2c_vars, main_vars, timer, TcpFastTmrFlag, tick_vars, net_vars,
                 tcp_vars>>
-----------------------------------------------------------------------------
(* xemacif_input: at most one packet, and what lwIP does with it.            *)

input_vars == <<i2c_vars, main_vars, timer, flag_vars, tick_vars, net_vars>>

Input == Goto("input", "fast") /\ ~rx_stuck /\ UNCHANGED input_vars

Idle == Goto("input", "fast") /\ UNCHANGED <<i2c_vars, board_vars>>

(* A lease in place of the default address, or of none, ends what was open. *)
LateOffer ==
  /\ Goto("input", "fast") /\ ~rx_stuck
  /\ ip # "lease" /\ ip' = "lease" /\ bound' = "held"
  /\ Abandon(Open)
  /\ UNCHANGED <<i2c_vars, main_vars, timer, flag_vars, tick_vars, rx_stuck, listening>>

(* accept_callback: init_xgpio asserts that malloc has succeeded; the second    *)
(* block is the only one that is checked for. *)
AcceptCallback(c) ==
  /\ listening /\ ip # "none" /\ ~conn[c].open
  /\ \/ /\ heap = 0
        /\ pc = "input" /\ pc' = "hung" /\ ~rx_stuck
        /\ UNCHANGED <<input_vars, tcp_vars>>
     \/ /\ heap = 1 /\ Input
        /\ heap' = 0 /\ leaks' = leaks + 1
        /\ UNCHANGED <<conn, leds>>
     \/ /\ heap >= 2 /\ Input
        /\ heap' = heap - 2
        /\ conn' = [conn EXCEPT ![c] = [Closed EXCEPT !.open = TRUE]]
        /\ UNCHANGED <<leds, leaks>>

(* tcp_recved is told of the first pbuf of the chain only. *)
Window(window, chain) == window - chain + 1

switch_leds == IF leds = LED_COUNT THEN 0 ELSE leds + 1

Received(r, chain, echoed, lost) ==
  [r EXCEPT !.unsent = @ - chain,
            !.window = Window(@, chain),
            !.unacked = IF echoed THEN @ + 1 ELSE @,
            !.lost = @ \/ (echoed /\ lost),
            !.missed = @ \/ ~echoed \/ chain > 1]

(* recv_callback with a chain of pbufs.  The first is echoed if there is room,  *)
(* and if tcp_write, whose result is ignored, succeeds; the echo may be lost on  *)
(* its way.  The packet may be the last that the receive path takes. *)
RecvCallback(c) ==
  /\ Goto("input", "fast") /\ ~rx_stuck /\ rx_stuck' \in BOOLEAN
  /\ \E chain \in 1..conn[c].unsent, written, lost \in BOOLEAN :
       LET room == TCP_SND_BUF - conn[c].unacked > 1 IN
       /\ chain <= conn[c].window
       /\ conn' = [conn EXCEPT ![c] = Received(@, chain, room /\ written, lost)]
       /\ leds' = IF room THEN switch_leds ELSE leds
  /\ UNCHANGED <<i2c_vars, main_vars, timer, flag_vars, tick_vars, ip, bound,
                 listening, heap, leaks>>

(* A plausible slip: the XGpio behind the arguments is not freed. *)
FreedArgsOnly == 1

(* recv_callback without a packet: free both blocks, tcp_close. *)
Freed == 2

CloseCallback(c) ==
  /\ Input
  /\ conn[c].open /\ conn[c].unsent = 0
  /\ conn' = [conn EXCEPT ![c] = Closed]
  /\ heap' = heap + Freed
  /\ UNCHANGED <<leds, leaks>>

(* A reset by the client: lwIP frees the connection. *)
Reset(c) == conn[c].open /\ Input /\ Abandon({c})

(* The client has received echoes, and acknowledges them. *)
Acked(c) ==
  /\ Input
  /\ ~conn[c].lost
  /\ \E n \in 1..conn[c].unacked :
       conn' = [conn EXCEPT ![c].unacked = @ - n, ![c].owed = @ - n]
  /\ UNCHANGED <<leds, heap, leaks>>
-----------------------------------------------------------------------------
(* The clients and the network.                                            *)

outside_vars == <<pc, input_vars, leds, heap, leaks>>

Send(c) ==
  /\ conn[c].open /\ conn[c].owed = 0
  /\ \E n \in 1..Burst :
       conn' = [conn EXCEPT ![c].owed = n, ![c].unsent = n]
  /\ UNCHANGED outside_vars

Loop ==
  \/ FastTimer \/ FastTimerDone \/ SlowIdle \/ SlowTimerDone
  \/ \E arrives \in SUBSET Clients : SendAgain(arrives)
  \/ Idle \/ LateOffer
  \/ \E c \in Clients : \/ GiveUp(c) \/ AcceptCallback(c) \/ RecvCallback(c) \/ CloseCallback(c)
                        \/ Reset(c) \/ Acked(c)

Start ==
  \/ BringUp \/ IicPhyReset \/ InitPlatform \/ AddInterface \/ EnableInterrupts
  \/ DhcpTest \/ DhcpInput \/ DhcpWaited \/ Fallback \/ StartApplication

Next ==
  \/ Start \/ Loop \/ I2cInterrupt \/ TimerCallback
  \/ \E c \in Clients : Send(c)

Spec == Init /\ [][Next]_vars

(* main goes on, the controller reports on every transfer and the timer runs;   *)
(* packets that are sent again and again arrive in the end, and so do echoes. *)
FairSpec ==
  /\ Spec
  /\ WF_vars(Start) /\ WF_vars(Loop) /\ WF_vars(I2cInterrupt) /\ WF_vars(TimerCallback)
  /\ \A c \in Clients : /\ SF_vars(RecvCallback(c)) /\ SF_vars(Acked(c))
                        /\ SF_vars(conn[c].lost /\ SendAgain({c}))
-----------------------------------------------------------------------------
Serving == {"fast", "fast over", "slow", "slow over", "input"}

(* The packets a client waits for, has not got through, or has in the send       *)
(* buffer. *)
Connection ==
  {r \in [open : BOOLEAN, owed : 0..Burst, unsent : 0..Burst, window : 0..TCP_WND,
          unacked : 0..TCP_SND_BUF, lost : BOOLEAN, missed : BOOLEAN] :
     r.unsent + r.unacked <= r.owed}

(* No counter leaves its range: the transfers stay in their program, the send     *)
(* buffer is never overfilled, the window never negative, no echo is             *)
(* acknowledged that nobody waits for, and no block is freed twice.             *)
TypeOK ==
  /\ board \in {"cora", "zc706", "zcu102"} /\ platform \in {"zynq", "sdt"}
  /\ pc \in {"clock", "phy", "reset", "platform", "netif", "enable", "dhcp", "dhcp input",
             "fallback", "start", "returned", "hung"} \cup Serving
  /\ call \in {"setup", "next", "send", "sent", "recv", "received"}
  /\ pc \in Programs => at \in 1..Len(Program[pc])
  /\ TransmitComplete \in BOOLEAN /\ ReceiveComplete \in BOOLEAN /\ errors \in BOOLEAN
  /\ transfer \in {"none", "send", "recv"} /\ clean \in BOOLEAN /\ partner \in BOOLEAN
  /\ timer \in {"off", "loaded", "once", "unready", "runs", "single", "stopped"}
  /\ TcpFastTmrFlag \in BOOLEAN /\ TcpSlowTmrFlag \in BOOLEAN /\ odd \in BOOLEAN
  /\ dhcp_timer \in 0..DHCP_COARSE /\ dhcp_timoutcntr \in 0..DHCP_TRIES
  /\ ResetRxCntr \in 0..RESET_RX_CNTR_LIMIT
  /\ ip \in {"none", "lease", "default"} /\ bound \in {"never", "held", "expired"}
  /\ rx_stuck \in BOOLEAN /\ listening \in BOOLEAN
  /\ conn \in [Clients -> Connection]
  /\ leds \in 0..LED_COUNT
  /\ heap \in 0..HEAP /\ leaks \in 0..HEAP

(* The application starts with the lease if there was one, and with the default *)
(* address if there was none, although the interrupt counts the time down       *)
(* between the end of the wait and the test after it (main.c:210-222).        *)
AddressSettled ==
  pc = "start" => /\ bound = "never" => ip = "default"
                  /\ bound = "held" => ip = "lease"

(* The board starts up to the point of serving, unless it cannot: a driver that  *)
(* fails, a PHY that answers with errors or has no partner (sfp.c:175 waits for  *)
(* one for good), a timer that does not run (main.c:210 waits for it).         *)
BringUpEnds ==
  <>(\/ pc \in Serving \cup {"returned", "hung"}
     \/ pc = "phy" /\ (errors \/ ~clean \/ ~partner)
     \/ timer = "stopped")

(* A client that waits for an echo gets it, however often packets are lost and   *)
(* ticks of the timer fall between a call and the clearing of its flag          *)
(* (main.c:236-246), as long as the connection lasts, unless what it sent came   *)
(* out of order or found no room (tcp_server.c:80-91).  On the platform without  *)
(* the workaround for the receive path, or without a timer, it may not. *)
EchoArrives ==
  \A c \in Clients :
    conn[c].owed > 0 ~>
      \/ conn[c].owed = 0 \/ conn[c].missed
      \/ pc = "hung"
      \/ timer \in {"single", "stopped"}
      \/ rx_stuck /\ platform = "sdt"

(* The server hangs in an accept only when connections that ended without a      *)
(* callback, and those still open, hold the whole heap (tcp_server.c:129 leaves  *)
(* tcp_err out): connections that close leave nothing behind. *)
HangsOnlyAfterLeaks ==
  pc = "hung" => timer = "unready" \/ 2 * (leaks + Cardinality(Open)) >= HEAP
=============================================================================
