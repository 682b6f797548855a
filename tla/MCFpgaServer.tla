---------------------------- MODULE MCFpgaServer ----------------------------
(***************************************************************************)
(* FpgaServer with the bounds of its configuration: one client, who comes     *)
(* back as often as he likes, and counters cut down so that each of their       *)
(* limits is passed several times.                                         *)
(***************************************************************************)
EXTENDS FpgaServer
=============================================================================
