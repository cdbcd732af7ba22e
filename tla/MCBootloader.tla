---------------------------- MODULE MCBootloader ----------------------------
(***************************************************************************)
(* Bounds for Bootloader: BankA of one cell and BankB of two, so that an   *)
(* image of two packets runs over the end of BankA; counters that wrap     *)
(* after two values; a host that sends anything at any time.               *)
(***************************************************************************)
EXTENDS Bootloader

CONSTANT d       \* the payload of an intact packet

MCData == {d}

Packet(n) == [hdr |-> "SOH", num |-> n, data |-> d, ok |-> TRUE]
Byte(c) == [hdr |-> c, num |-> 0, data |-> Junk, ok |-> FALSE]

MCBatches ==
  {Packet(1), Packet(2), Byte("EOT"), Byte("CAN"), Byte("junk")}
=============================================================================
