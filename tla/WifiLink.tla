------------------------------ MODULE WifiLink ------------------------------
(***************************************************************************)
(* The remote's Wi-Fi link and what hangs on it: the event handlers of       *)
(* wifi.c, app_main of main.c, and the handlers with which ir_http_server.c   *)
(* means to stop the web server when the link is lost and to start it when    *)
(* it is back.                                                             *)
(*                                                                         *)
(* The Wi-Fi driver and the access point are the environment: an attempt to   *)
(* connect ends with an event, GOT_IP or DISCONNECTED, and a link that is up  *)
(* may be lost at any time.  Events are handled in order by one task.        *)
(***************************************************************************)
EXTENDS Integers, Sequences

CONSTANTS ESP_MAXIMUM_RETRY,
          MaxOutage         \* bound: attempts in a row that find no access point

ASSUME WifiAssumption == ESP_MAXIMUM_RETRY \in Nat /\ MaxOutage \in Nat

VARIABLES
  station,                  \* of the driver: "idle", "connecting" or "up"
  outage,                   \* attempts that are still to fail
  events,                   \* posted to the event loop and not handled
  s_retry_num,
  bits,                     \* wifi_event_group
  main,                     \* where app_main is
  server,                   \* server_ctx.server: "NULL", or the address it is made with
  httpd,                    \* whether the web server runs
  registered                \* whether the connect and disconnect handlers are

driver_vars == <<station, outage>>
server_vars == <<server, httpd, registered>>
vars == <<station, outage, events, s_retry_num, bits, main, server, httpd, registered>>

Bits == {"CONNECTED", "FAIL"}

Events == {"START", "DISCONNECTED", "GOT_IP"}

(* esp_wifi_start has been called; server_ctx.server = &server. *)
Init ==
  /\ station = "idle"
  /\ outage \in 0..MaxOutage
  /\ events = <<"START">>
  /\ s_retry_num = 0
  /\ bits = {}
  /\ main = "connect"
  /\ server = "address" /\ httpd = FALSE /\ registered = FALSE
-----------------------------------------------------------------------------
(* The driver and the access point.                                         *)

Attempt ==
  /\ station = "connecting"
  /\ \/ /\ outage > 0
        /\ outage' = outage - 1
        /\ station' = "idle"
        /\ events' = Append(events, "DISCONNECTED")
     \/ /\ outage = 0
        /\ station' = "up"
        /\ events' = Append(events, "GOT_IP")
        /\ UNCHANGED outage
  /\ UNCHANGED <<s_retry_num, bits, main, server_vars>>

LoseLink ==
  /\ station = "up"
  /\ station' = "idle"
  /\ outage' \in 0..MaxOutage
  /\ events' = Append(events, "DISCONNECTED")
  /\ UNCHANGED <<s_retry_num, bits, main, server_vars>>
-----------------------------------------------------------------------------
(* The handlers, network_event_handler first.                               *)

(* A plausible slip: the retries of one outage count for the next. *)
RetriesKept(n) == n

RetriesReset(n) == 0

MayRetry == s_retry_num < ESP_MAXIMUM_RETRY

(* A plausible slip: a station that has given up tells nobody. *)
GiveUpSilently == UNCHANGED bits

GiveUp == bits' = bits \cup {"FAIL"}

(* disconnect_handler: stops the server if the pointer is NULL. *)
StopServer ==
  IF registered /\ server = "NULL" THEN httpd' = FALSE ELSE UNCHANGED httpd

(* connect_handler: likewise starts it. *)
StartServer ==
  IF registered /\ server = "NULL" THEN httpd' = TRUE ELSE UNCHANGED httpd

HandleStart ==
  /\ events # <<>> /\ Head(events) = "START"
  /\ events' = Tail(events)
  /\ station' = "connecting"
  /\ UNCHANGED <<outage, s_retry_num, bits, main, server_vars>>

HandleDisconnected ==
  /\ events # <<>> /\ Head(events) = "DISCONNECTED"
  /\ events' = Tail(events)
  /\ \/ /\ MayRetry
        /\ station' = "connecting"
        /\ s_retry_num' = s_retry_num + 1
        /\ UNCHANGED bits
     \/ /\ ~MayRetry
        /\ GiveUp
        /\ UNCHANGED <<station, s_retry_num>>
  /\ StopServer
  /\ UNCHANGED <<outage, main, server, registered>>

HandleGotIp ==
  /\ events # <<>> /\ Head(events) = "GOT_IP"
  /\ events' = Tail(events)
  /\ s_retry_num' = RetriesReset(s_retry_num)
  /\ bits' = bits \cup {"CONNECTED"}
  /\ StartServer
  /\ UNCHANGED <<driver_vars, main, server, registered>>
-----------------------------------------------------------------------------
(* app_main, and the server task it creates.                                 *)

(* wifi_connect_sta returns, whichever bit is set; sntp_sync gives up after   *)
(* four timeouts; xTaskCreate(ir_http_server_task).                          *)
Connected ==
  /\ main = "connect"
  /\ bits # {}
  /\ main' = "start"
  /\ UNCHANGED <<driver_vars, events, s_retry_num, bits, server_vars>>

(* ir_http_server_task: start_ir_webserver, then the handlers. *)
StartWebserver ==
  /\ main # "connect" /\ ~httpd /\ ~registered
  /\ httpd' = TRUE
  /\ UNCHANGED <<driver_vars, events, s_retry_num, bits, main, server, registered>>

RegisterHandlers ==
  /\ httpd /\ ~registered
  /\ registered' = TRUE
  /\ UNCHANGED <<driver_vars, events, s_retry_num, bits, main, server, httpd>>

(* The loop of app_main, every ten seconds. *)
Poll ==
  /\ main \in {"start", "watch"}
  /\ main' = IF "CONNECTED" \in bits THEN "watch" ELSE "lost"
  /\ UNCHANGED <<driver_vars, events, s_retry_num, bits, server_vars>>

Handle == HandleStart \/ HandleDisconnected \/ HandleGotIp

Next == Attempt \/ LoseLink \/ Handle
        \/ Connected \/ StartWebserver \/ RegisterHandlers \/ Poll

Spec == Init /\ [][Next]_vars

(* Attempts end, events are handled, tasks run; links need not be lost. *)
FairSpec ==
  /\ Spec
  /\ WF_vars(Attempt) /\ WF_vars(Handle)
  /\ WF_vars(Connected) /\ WF_vars(StartWebserver) /\ WF_vars(RegisterHandlers)
  /\ WF_vars(Poll)
-----------------------------------------------------------------------------
(* Properties.                                                             *)

TypeOK ==
  /\ station \in {"idle", "connecting", "up"}
  /\ outage \in 0..MaxOutage
  /\ events \in Seq(Events)
  /\ s_retry_num \in 0..ESP_MAXIMUM_RETRY
  /\ bits \subseteq Bits
  /\ main \in {"connect", "start", "watch", "lost"}
  /\ server \in {"NULL", "address"}
  /\ httpd \in BOOLEAN /\ registered \in BOOLEAN

(* A station that is not up has an attempt or an event on its way, or has set *)
(* the FAIL bit (wifi.c:27-36): it never just lies there.                     *)
NeverStranded ==
  station = "idle" => events # <<>> \/ "FAIL" \in bits

(* Outages shorter than the retries (wifi.c:30) are survived, however many     *)
(* there are: the link is up again and again.                                *)
Reconnects == []<>(station = "up") \/ <>(outage >= ESP_MAXIMUM_RETRY)
=============================================================================
