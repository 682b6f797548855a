--------------------------- MODULE MCAcControlApp ---------------------------
(***************************************************************************)
(* Small instances of AcControlApp: a server in its initial state, and one   *)
(* that other clients have left at the highest temperature, where the order   *)
(* of TEMP_UP and TEMP_DOWN matters.                                        *)
(***************************************************************************)
EXTENDS AcControlApp

InitialServer == [power |-> 0, fields |-> InitialFields]

HotServer == [power |-> 1, fields |-> [InitialFields EXCEPT !.temperature = MAX_TEMP_VAL]]

MCServers == {InitialServer, HotServer}
=============================================================================
