----------------------------- MODULE IrReceiver -----------------------------
(***************************************************************************)
(* A TCP server in front of the RMT peripheral: "ESP32 - IR Receiver", and    *)
(* the "TCP server variant" of the remote, which is the same program without  *)
(* the receiving channel.  One task serves one client after the other; the    *)
(* commands are plain words in a byte stream.  WifiLink has the link; here    *)
(* it has no web server hanging on it.                                      *)
(*                                                                         *)
(* The environment: a client, who types whether or not he is asked to; the    *)
(* network, which may break the connection; another remote, which anyone may  *)
(* point at the receiver at any time; and a receive channel that hands a       *)
(* captured frame to the callback of rxtx.c from an interrupt.               *)
(***************************************************************************)
EXTENDS IrCodec

CONSTANTS ESP_MAXIMUM_RETRY, MaxOutage,
          Commands,         \* what clients send
          Settings,         \* what they set
          OtherRemote,      \* what the other remote sends
          StackBits,        \* what a structure on the stack may hold at first: 0, 1
          HEAP              \* connections until the heap is used up

RMT_BLOCKS == 8             \* of the ESP32; a channel of 128 symbols takes two

(* Numbers for the fields of ir_jetpoint_settings; those of one bit hold a bit. *)
SettingsRange ==
  [power : {0, 1}, mode : Int, fan : Int, temperature : Int, swing : {0, 1}, sleep : {0, 1}]

ASSUME ReceiverAssumption ==
  /\ ESP_MAXIMUM_RETRY \in Nat /\ MaxOutage \in Nat
  /\ HEAP \in Nat
  /\ StackBits \subseteq {0, 1} /\ StackBits # {}

ASSUME SettingsAssumption ==
  /\ Settings \subseteq SettingsRange /\ OtherRemote \subseteq SettingsRange
  /\ \A c \in Commands : c[1] = "set" => c[2] \in Settings

VARIABLES
  station, outage, events, s_retry_num, bits, main,     \* as in WifiLink
  firmware,                 \* "receiver" or "variant": "remote" is WifiLink's
  pc,                       \* where tcp_server_task is
  stream, arrived,          \* the connection, and what recv would return
  blocks, heap,             \* free RMT memory; free heap, in encoders with their queue
  settings, reserved,       \* the settings sent; the stack bits around them
  armed, stray,             \* the receive channel waits for a frame; a leaked one does
  buffer, fresh,            \* raw_symbols; written since the command began that waits
  queue, rx_data,           \* receive_queue; whether rx_data points to raw_symbols
  late,                     \* history: a wait of this connection has timed out
  provoked                  \* history: what has gone wrong since the start

wifi_vars == <<station, outage, events, s_retry_num, bits, main>>
rmt_vars == <<blocks, heap>>
settings_vars == <<settings, reserved>>
rx_vars == <<armed, stray, buffer, fresh, queue, rx_data>>
vars == <<station, outage, events, s_retry_num, bits, main, firmware, pc, stream,
          arrived, blocks, heap, settings, reserved, armed, stray, buffer, fresh,
          queue, rx_data, late, provoked>>

(* set_jetpoint_settings(&settings, 1, 1, 1, 25, 0, 0) *)
InitialSettings ==
  [power |-> 1, mode |-> 1, fan |-> 1, temperature |-> 25, swing |-> 0, sleep |-> 0]

(* The frames on the air, as words, and what is decoded and printed of each. *)
Sent(s, garbage) == SettingsWord(s, garbage)

Frames == {Sent(s, garbage) : s \in Settings \cup OtherRemote \cup {InitialSettings},
                              garbage \in StackBits \cup {0}}

Decoded == [word \in Frames |-> Decode(Signal(word))]

NoFrame == <<>>
Nothing == <<"">>
-----------------------------------------------------------------------------
(* The Wi-Fi link: wifi.c, and app_main around it.                          *)

HasWebServer == firmware = "remote"

L == INSTANCE WifiLink WITH
       server <- "address", httpd <- HasWebServer, registered <- HasWebServer

server_vars == <<firmware, pc, stream, arrived, rmt_vars, settings_vars, rx_vars,
                 late, provoked>>

Running == pc # "crashed"

(* event_handler *)
HandleEvent == Running /\ UNCHANGED server_vars /\ L!Handle

AccessPoint == Running /\ UNCHANGED server_vars /\ (L!Attempt \/ L!LoseLink)

(* wifi_connect_sta returns, whichever bit is set; xTaskCreate.  From then on   *)
(* app_main only watches the bits. *)
ConnectSta ==
  /\ pc = "off" /\ pc' = "open"
  /\ UNCHANGED <<firmware, stream, arrived, rmt_vars, settings_vars, rx_vars,
                 late, provoked>>
  /\ L!Connected

(* What a start of the chip finds; abort() restarts it. *)
Init ==
  /\ firmware \in {"receiver", "variant"}
  /\ L!Init
  /\ pc = "off"
  /\ stream = "none" /\ arrived = Nothing
  /\ blocks = RMT_BLOCKS /\ heap = HEAP
  /\ settings = InitialSettings /\ reserved = 0
  /\ armed = FALSE /\ stray = FALSE
  /\ buffer = NoFrame /\ fresh = FALSE
  /\ queue = 0 /\ rx_data = "unset"
  /\ late = FALSE /\ provoked = {}

Abort ==
  /\ station' = "idle" /\ outage' \in 0..MaxOutage
  /\ events' = <<"START">> /\ s_retry_num' = 0 /\ bits' = {}
  /\ main' = "connect"
  /\ pc' = "crashed"
  /\ stream' = "none" /\ arrived' = Nothing
  /\ blocks' = RMT_BLOCKS /\ heap' = HEAP
  /\ settings' = InitialSettings /\ reserved' = 0
  /\ armed' = FALSE /\ stray' = FALSE
  /\ buffer' = NoFrame /\ fresh' = FALSE
  /\ queue' = 0 /\ rx_data' = "unset"
  /\ late' = FALSE
  /\ UNCHANGED firmware

Restart ==
  /\ pc = "crashed"
  /\ pc' = "off"
  /\ provoked' = {}
  /\ UNCHANGED <<wifi_vars, firmware, stream, arrived, rmt_vars, settings_vars,
                 rx_vars, late>>
-----------------------------------------------------------------------------
(* The client and the network.                                             *)

network_vars == <<wifi_vars, firmware, pc, rmt_vars, settings_vars, rx_vars,
                  late, provoked>>

Connect ==
  /\ pc \notin {"off", "open", "deleted", "crashed"}
  /\ station = "up"
  /\ stream = "none"
  /\ stream' = "open"
  /\ UNCHANGED <<network_vars, arrived>>

(* Commands that arrive together are one: "rx" and "tx" make "rxtx", "set" and *)
(* "freq" do not see what follows them, and the rest is invalid. *)
Joined(a, c) ==
  CASE a = Nothing -> c
    [] a = <<"rx">> /\ c = <<"tx">> -> <<"rxtx">>
    [] a[1] \in {"set", "freq"} -> a
    [] OTHER -> <<"unknown">>

Deliver ==
  /\ stream = "open" /\ station = "up"
  /\ \E c \in Commands : arrived' = Joined(arrived, c)
  /\ UNCHANGED <<network_vars, stream>>

(* The client closes; or the keepalive or a reset ends the connection. *)
Hangup ==
  /\ stream = "open"
  /\ \/ station = "up" /\ stream' = "fin"
     \/ stream' = "dead"
  /\ UNCHANGED <<network_vars, arrived>>
-----------------------------------------------------------------------------
(* tcp_server_task                                                         *)

Inside == {"filter1", "filter2", "recv", "sending", "echo", "wait"}

At(here, there) == pc = here /\ pc' = there

(* The task deletes itself; its sockets are closed. *)
Listen ==
  /\ pc = "open"
  /\ pc' \in {"accept", "deleted"}
  /\ UNCHANGED <<wifi_vars, firmware, stream, arrived, rmt_vars, settings_vars,
                 rx_vars, late, provoked>>

AcceptFails ==
  /\ At("accept", "deleted")
  /\ stream # "none"
  /\ stream' = "none" /\ arrived' = Nothing
  /\ UNCHANGED <<wifi_vars, firmware, rmt_vars, settings_vars, rx_vars,
                 late, provoked>>

(* init_tx_channel and, in the receiver, init_rx_channel. *)
TxBlocks == 2
RxBlocks == 2
Taken == IF firmware = "receiver" THEN TxBlocks + RxBlocks ELSE TxBlocks

(* A plausible slip: the channels are disabled and not deleted. *)
FreedNot == 0

Freed == Taken

(* rmt_new_jetpoint_encoder, which does not look at what the allocation        *)
(* returned.  Nobody frees the encoder, nor the queue allocated before it.     *)
NewEncoder == heap > 0 /\ heap' = heap - 1

(* ir_server from its first line to the first recv.  Every failure before it  *)
(* ends in abort(). *)
Accept ==
  /\ At("accept", "filter1")
  /\ stream # "none"
  /\ blocks >= Taken /\ blocks' = blocks - Taken
  /\ NewEncoder
  /\ reserved' \in StackBits
  /\ UNCHANGED <<wifi_vars, firmware, stream, arrived, settings, rx_vars, late, provoked>>

AcceptAborts ==
  /\ pc = "accept" /\ stream # "none"
  /\ blocks < Taken \/ heap = 0
  /\ provoked' = IF heap = 0 THEN provoked \cup {"heap"} ELSE provoked
  /\ Abort

(* recv returns: with all that has arrived, or with 0 or -1.  The first two   *)
(* are for what terminal programs say of themselves.                        *)
Received == arrived # Nothing \/ stream \in {"fin", "dead"}

Filter ==
  /\ \/ At("filter1", "filter2")
     \/ At("filter2", "recv")
  /\ Received
  /\ arrived' = Nothing
  /\ UNCHANGED <<wifi_vars, firmware, stream, rmt_vars, settings_vars, rx_vars,
                 late, provoked>>

(* ir_server returns, and what lies on its stack is gone. *)
Return ==
  /\ settings' = InitialSettings /\ reserved' = 0
  /\ armed' = FALSE
  /\ buffer' = NoFrame /\ fresh' = FALSE
  /\ queue' = 0 /\ rx_data' = "unset"
  /\ late' = FALSE

(* len = 0: the channels are disabled and deleted. *)
EndOfStream ==
  /\ At("recv", "accept")
  /\ arrived = Nothing /\ stream = "fin"
  /\ blocks' = blocks + Freed
  /\ stream' = "none"
  /\ Return
  /\ UNCHANGED <<wifi_vars, firmware, arrived, heap, stray, provoked>>

(* len < 0: ir_server returns and forgets its channels, armed or not. *)
EndOfError ==
  /\ At("recv", "accept")
  /\ arrived = Nothing /\ stream = "dead"
  /\ provoked' = provoked \cup {"error"}
  /\ stray' = (stray \/ armed)
  /\ stream' = "none"
  /\ Return
  /\ UNCHANGED <<wifi_vars, firmware, arrived, rmt_vars>>
-----------------------------------------------------------------------------
(* The commands.                                                           *)

ReceiverOnly == {"rx", "rxtx"}

Arrived(name) == pc = "recv" /\ arrived # Nothing /\ arrived[1] = name

Taking(name) ==
  /\ Arrived(name)
  /\ arrived' = Nothing
  /\ UNCHANGED <<wifi_vars, firmware, stream, rmt_vars, reserved, stray, buffer,
                 queue, rx_data, late, provoked>>

Set ==
  /\ Taking("set")
  /\ settings' = arrived[2]
  /\ UNCHANGED <<pc, armed, fresh>>

(* Without a number sscanf returns EOF, which is not 0: an uninitialized       *)
(* frequency goes to rmt_apply_carrier, and its complaint to abort().        *)
Freq == Taking("freq") /\ UNCHANGED <<pc, settings, armed, fresh>>

FreqAborts ==
  /\ Arrived("freq")
  /\ provoked' = provoked \cup {"freq"}
  /\ Abort

Unknown ==
  /\ \/ Taking("unknown")
     \/ firmware = "variant" /\ \E c \in ReceiverOnly : Taking(c)
  /\ UNCHANGED <<pc, settings, armed, fresh>>

Tx ==
  /\ Taking("tx")
  /\ pc' = "sending"
  /\ UNCHANGED <<settings, armed, fresh>>

(* receiveIR: rmt_receive refuses a channel that is still waiting. *)
ReceiveIR ==
  /\ firmware = "receiver"
  /\ ~armed
  /\ armed' = TRUE /\ fresh' = FALSE
  /\ UNCHANGED settings

Rx == Taking("rx") /\ ReceiveIR /\ pc' = "wait"

RxTx == Taking("rxtx") /\ ReceiveIR /\ pc' = "echo"

ReceiveAborts ==
  /\ firmware = "receiver" /\ armed
  /\ \E c \in ReceiverOnly : Arrived(c)
  /\ Abort
  /\ UNCHANGED provoked
-----------------------------------------------------------------------------
(* Frames.                                                                 *)

(* The callback, with the driver around it: the symbols are in raw_symbols,    *)
(* and the event goes to the queue of one, or nowhere. *)
Capture(word) ==
  /\ buffer' = word
  /\ fresh' = (pc \in {"echo", "wait"})
  /\ armed' = FALSE
  /\ queue' = 1
  /\ UNCHANGED <<stray, rx_data>>

(* rmt_tx_wait_all_done returns.  The receiver may see its own light. *)
SendDone ==
  /\ \/ At("sending", "recv")
     \/ At("echo", "wait")
  /\ \/ armed /\ Capture(Sent(settings, reserved))
     \/ UNCHANGED rx_vars
  /\ UNCHANGED <<wifi_vars, firmware, stream, arrived, rmt_vars, settings_vars,
                 late, provoked>>

OtherFrame ==
  /\ armed
  /\ \E s \in OtherRemote : Capture(Sent(s, 0))
  /\ UNCHANGED <<wifi_vars, firmware, pc, stream, arrived, rmt_vars, settings_vars,
                 late, provoked>>

(* A channel that was left armed writes to the stack of an ir_server that has   *)
(* returned: to the raw_symbols of the next one, which lie at the same place,   *)
(* or to whatever else is there. *)
StrayFrame ==
  /\ stray
  /\ stray' = FALSE
  /\ \/ pc \in Inside /\ \E s \in OtherRemote : buffer' = Sent(s, 0)
     \/ UNCHANGED buffer
  /\ UNCHANGED <<wifi_vars, firmware, pc, stream, arrived, rmt_vars, settings_vars,
                 armed, fresh, queue, rx_data, late, provoked>>

StrayAborts == stray /\ Abort /\ UNCHANGED provoked

(* A plausible slip: the event is looked at and left in the queue. *)
PeekEvent == UNCHANGED queue

TakeEvent == queue' = 0

(* xQueueReceive returns with an event, and raw_symbols is decoded.          *)
TakeFrame ==
  /\ At("wait", "recv")
  /\ queue = 1
  /\ TakeEvent
  /\ rx_data' = "raw"
  /\ fresh' = FALSE
  /\ UNCHANGED <<wifi_vars, firmware, stream, arrived, rmt_vars, settings_vars,
                 armed, stray, buffer, late, provoked>>

(* It returns without one after ten seconds, and nobody looks: what rx_data    *)
(* points to is decoded, and if it has never been set that may end the program.   *)
Expired == pc = "wait" /\ queue = 0 /\ provoked' = provoked \cup {"late"}

Timeout ==
  /\ Expired
  /\ pc' = "recv"
  /\ late' = TRUE
  /\ UNCHANGED <<wifi_vars, firmware, stream, arrived, rmt_vars, settings_vars, rx_vars>>

TimeoutAborts == Expired /\ rx_data = "unset" /\ Abort

(* A plausible slip: xQueueReceive with portMAX_DELAY. *)
WaitForever == FALSE

TimesOut == Timeout \/ TimeoutAborts

Wifi == AccessPoint \/ HandleEvent \/ ConnectSta

Client == Connect \/ Deliver \/ Hangup

Server ==
  \/ Listen \/ AcceptFails \/ Accept \/ AcceptAborts
  \/ Filter \/ EndOfStream \/ EndOfError
  \/ Set \/ Freq \/ FreqAborts \/ Unknown \/ Tx \/ Rx \/ RxTx \/ ReceiveAborts
  \/ SendDone \/ TakeFrame \/ TimesOut \/ Restart

Next == Wifi \/ Client \/ Server \/ OtherFrame \/ StrayFrame \/ StrayAborts

Spec == Init /\ [][Next]_vars

(* The task runs, transmissions end and waits time out.  Nobody need come,     *)
(* type or point a remote.                                                   *)
FairSpec == Spec /\ WF_vars(Server)
-----------------------------------------------------------------------------
(* Properties.                                                             *)

(* The RMT memory never holds more blocks than the chip has, nor does the       *)
(* server send or decode what nobody has set: IrCodec is asked for words only.  *)
TypeOK ==
  /\ L!TypeOK
  /\ firmware \in {"receiver", "variant"}
  /\ pc \in {"off", "open", "accept", "deleted", "crashed"} \cup Inside
  /\ stream \in {"none", "open", "fin", "dead"}
  /\ arrived \in Commands \cup {Nothing, <<"rxtx">>, <<"unknown">>}
  /\ blocks \in 0..RMT_BLOCKS /\ heap \in 0..HEAP
  /\ settings \in Settings \cup {InitialSettings} /\ reserved \in StackBits \cup {0}
  /\ armed \in BOOLEAN /\ stray \in BOOLEAN /\ fresh \in BOOLEAN /\ late \in BOOLEAN
  /\ buffer \in Frames \cup {NoFrame}
  /\ queue \in {0, 1} /\ rx_data \in {"unset", "raw"}
  /\ provoked \subseteq {"heap", "error", "freq", "late"}

(* The server reboots (the ESP_ERROR_CHECKs of ir_server and rxtx.c, main.c:56) *)
(* only after a connection that broke, a wait that timed out, a frequency      *)
(* without a number or the last of the heap: what a connection takes and a      *)
(* clean end gives back are the same, and no channel is armed twice.          *)
NoCrashUnprovoked == pc = "crashed" => provoked # {}

(* What "rx" and "rxtx" print (main.c:87, main.c:110) was received since the    *)
(* command began, unless a wait of this connection has timed out before.      *)
FreshDecode == [][pc = "wait" /\ pc' = "recv" => fresh \/ late']_vars

(* A decoded message is the complement of the word that was sent, bit for bit,  *)
(* wherever runs of equal halves fall: ir_codec.c:48 and ir_codec.c:219 take    *)
(* the two halves of a bit for opposite values.                              *)
DecodedIsComplement ==
  pc = "wait" /\ buffer # NoFrame => Decoded[buffer] = Complement(buffer)

(* Whatever a client sends is read: no command waits for infrared light for    *)
(* good (main.c:84, 107), nor does a broken one stop the server for the rest.  *)
CommandsConsumed == arrived # Nothing ~> arrived = Nothing
=============================================================================
