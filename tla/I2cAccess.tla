----------------------------- MODULE I2cAccess -----------------------------
(***************************************************************************)
(* The clock and the PHY of a Xilinx board, programmed over I2C before the    *)
(* network is used: i2c_access.c and its callers si5324.c and sfp.c.  A call   *)
(* starts a transfer and spins on flags that StatusHandler sets from the      *)
(* interrupt of the controller.                                            *)
(*                                                                         *)
(* The controller and the devices are the environment.  What is written to    *)
(* the registers is left out; which transfers follow which, and what each     *)
(* caller does with a failure, is not.                                      *)
(***************************************************************************)
EXTENDS Integers, Sequences

CONSTANT REGISTERS          \* of InitTable; bound: the code has 43

ASSUME BoardAssumption == REGISTERS \in Nat

VARIABLES
  pc,                       \* where main is
  call,                     \* where the call it makes is, within i2c_access.c
  at,                       \* the transfer of the program it is at
  TransmitComplete, ReceiveComplete,
  errors,                   \* TotalErrorCount # 0: the code only compares it with 0
  transfer,                 \* what the controller is doing: "none", "send" or "recv"
  clean,                    \* that transfer has met no error
  partner                   \* whether the PHY finds a link partner

flags == <<TransmitComplete, ReceiveComplete, errors>>
i2c_vars == <<call, at, flags, transfer, clean, partner>>

(* The transfers of ProgramSi5324 and of ProgramSfpPhy, the channel of the MUX  *)
(* first.  The failure of one that must succeed ends the function, the others'  *)
(* results are ignored, and the poll is repeated until the PHY has a link. *)
ProgramSi5324 == [i \in 1..(1 + REGISTERS) |-> "must"]

ProgramSfpPhy ==
  <<"must", "must">> \o [i \in 1..13 |-> "write"] \o <<"poll">>
  \o <<"write", "read", "write", "write", "write", "write">>

Program == [clock |-> ProgramSi5324, phy |-> ProgramSfpPhy]

I2cPhyRead == {"read", "poll"}          \* a write of the register's number, and a read

Programs == DOMAIN Program

Step == Program[pc][at]
-----------------------------------------------------------------------------
(* The functions' returns: main ignores the result of both. *)
Return ==
  /\ pc' = IF pc = "clock" THEN "phy" ELSE "platform"
  /\ call' = "setup" /\ at' = 1
  /\ TransmitComplete' = FALSE /\ ReceiveComplete' = FALSE /\ errors' = FALSE
  /\ transfer' = "none" /\ clean' = TRUE

(* I2cSetupHardware and SetupInterruptSystem, on an instance of the caller's;   *)
(* an event of the last caller's that is late here hits nothing.             *)
I2cSetupHardware ==
  /\ pc \in Programs /\ call = "setup"
  /\ \/ /\ call' = "next"
        /\ errors' = FALSE /\ TransmitComplete' = FALSE /\ ReceiveComplete' = FALSE
        /\ UNCHANGED <<pc, at, transfer, clean>>
     \/ Return
  /\ UNCHANGED partner

(* The step after a call that has returned ok. *)
Result(ok) ==
  IF \/ Step = "must" /\ ~ok
     \/ Step # "poll" /\ at = Len(Program[pc])
  THEN Return
  ELSE /\ \/ Step = "poll" /\ UNCHANGED at
          \/ Step # "poll" /\ at' = at + 1
       /\ call' = "next"
       /\ UNCHANGED <<pc, flags, transfer, clean>>

(* I2cWriteData, which I2cPhyWrite and I2cPhyRead begin with: the flag is       *)
(* cleared and XIicPs_MasterSend started, whatever the controller is doing. *)
MasterSend ==
  /\ pc \in Programs /\ call = "next"
  /\ TransmitComplete' = FALSE
  /\ transfer' = "send" /\ clean' = TRUE
  /\ call' = "send"
  /\ UNCHANGED <<pc, at, ReceiveComplete, errors, partner>>

(* The loops on the flags: completion is looked at before the errors are. *)
Completed == \/ call = "send" /\ TransmitComplete
             \/ call = "recv" /\ ReceiveComplete

SpinEnds ==
  /\ Completed
  /\ call' = IF call = "send" THEN "sent" ELSE "received"
  /\ UNCHANGED <<pc, at, flags, transfer, clean, partner>>

SpinFails ==
  /\ call \in {"send", "recv"} /\ ~Completed /\ errors
  /\ Result(FALSE)
  /\ UNCHANGED partner

(* XIicPs_BusIsBusy no longer; then I2cReadData, or the call returns. *)
MasterRecv ==
  /\ call = "sent" /\ transfer = "none" /\ Step \in I2cPhyRead
  /\ ReceiveComplete' = FALSE
  /\ transfer' = "recv" /\ clean' = TRUE
  /\ call' = "recv"
  /\ UNCHANGED <<pc, at, TransmitComplete, errors, partner>>

Written ==
  /\ call = "sent" /\ transfer = "none" /\ Step \notin I2cPhyRead
  /\ Result(TRUE)
  /\ UNCHANGED partner

(* A read that has met an error leaves anything in *Data. *)
Read ==
  /\ call = "received" /\ transfer = "none"
  /\ \E linked \in IF clean THEN {partner} ELSE BOOLEAN :
       IF Step = "poll" /\ linked
       THEN /\ at' = at + 1 /\ call' = "next"
            /\ UNCHANGED <<pc, flags, transfer, clean>>
       ELSE Result(TRUE)
  /\ UNCHANGED partner
-----------------------------------------------------------------------------
(* The interrupt. *)
StatusHandler(Event) ==
  /\ ReceiveComplete' = (ReceiveComplete \/ "COMPLETE_RECV" \in Event)
  /\ TransmitComplete' =
       (\/ TransmitComplete
        \/ "COMPLETE_SEND" \in Event /\ "COMPLETE_RECV" \notin Event)
  /\ errors' =
       (errors \/ Event \cap {"COMPLETE_RECV", "COMPLETE_SEND", "SLAVE_RDY"} = {})

Completion == {IF transfer = "send" THEN "COMPLETE_SEND" ELSE "COMPLETE_RECV"}

(* A transfer completes, with an error or without; or an error is all that is   *)
(* reported, and ends it or not.  After an error, what is reported complete    *)
(* may be the transfer before. *)
ControllerReports ==
  /\ transfer # "none"
  /\ \/ \E error \in {{}, {"ERROR"}} :
          /\ StatusHandler(Completion \cup error)
          /\ transfer' = "none"
          /\ clean' = (clean /\ error = {})
     \/ /\ StatusHandler({"ERROR"})
        /\ transfer' \in {"none", transfer}
        /\ clean' = FALSE
     \/ /\ errors
        /\ StatusHandler(Completion)
        /\ clean' = FALSE
        /\ UNCHANGED transfer
  /\ UNCHANGED <<pc, call, at, partner>>

I2cNext ==
  \/ I2cSetupHardware \/ MasterSend \/ SpinEnds \/ SpinFails
  \/ MasterRecv \/ Written \/ Read
=============================================================================
