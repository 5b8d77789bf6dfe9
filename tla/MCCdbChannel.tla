----------------------------- MODULE MCCdbChannel -----------------------------
(* Instances of CdbChannel for TLC. *)
EXTENDS CdbChannel

(* Commands with the sums of their header bytes: 0001h, 0100h, 0104h. *)
MCHeaderSum == [EnterPassword |-> 1, GetFwInfo |-> 1, WriteEpl |-> 5]

(* A block of an image, and one message of each other kind. *)
MCMsgs == {[cmd |-> c, arg |-> 0] : c \in DOMAIN MCHeaderSum}
===============================================================================
