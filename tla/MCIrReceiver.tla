---------------------------- MODULE MCIrReceiver ----------------------------
(***************************************************************************)
(* A small instance of IrReceiver.                                         *)
(***************************************************************************)
EXTENDS IrReceiver

MCSettings ==
  {[power |-> 0, mode |-> 5, fan |-> 2, temperature |-> 30, swing |-> 1, sleep |-> 1]}

MCOtherRemote ==
  {[power |-> 1, mode |-> 2, fan |-> 3, temperature |-> 21, swing |-> 0, sleep |-> 0]}

(* "rx" and "tx" that arrive together are also "rxtx". *)
MCCommands ==
  {<<"rx">>, <<"tx">>, <<"freq">>} \cup {<<"set", s>> : s \in MCSettings}
=============================================================================
