---------------------------- MODULE MCMemoryRing ----------------------------
(***************************************************************************)
(* A ring of four bytes shared by two clients, a stream of up to nine      *)
(* bytes: the ring is filled more than twice.  Reads ask for fewer bytes   *)
(* than a lap and for more than the ring has.                              *)
(***************************************************************************)
EXTENDS MemoryRing
=============================================================================
