------------------------------- MODULE Heads --------------------------------
(***************************************************************************)
(* Where the head of a client stands in the ring it reads, as far as the   *)
(* rest of the store is concerned: nowhere (-1), at the tail, or at        *)
(* another position; and what the operations on the ring make of that.     *)
(* RingHeads says so of one ring, MemoryStore uses it for many.            *)
(***************************************************************************)
HeadPlaces == {"none", "behind", "tail"}

(* The constructor of ClientHandle copies the tail.                        *)
Sampled(full) == IF full THEN "tail" ELSE "none"

(* Read goes up to the tail at most, if the ring has one.                  *)
Copied(full) == {"behind"} \union IF full THEN {"tail"} ELSE {}

(* GetAVData gives a client it finds a head, or leaves bytes to read before*)
(* the one it has; past other clients the tail moves as it may.            *)
AfterFill(registered, place) ==
    CASE registered /\ place # "none"  -> {"behind"}
      [] ~registered /\ place = "none" -> {"none"}
      [] OTHER                         -> {"behind", "tail"}
=============================================================================
