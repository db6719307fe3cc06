----------------------------- MODULE RingHeads ------------------------------
(***************************************************************************)
(* What MemoryStore takes a ring for: whether it was ever filled, and      *)
(* where the head of each client stands in it.                             *)
(***************************************************************************)
EXTENDS Heads

CONSTANT Clients

VARIABLES full,     \* the ring was filled
          stage,    \* stage[c]: "out", "joining" or "in"
          place     \* place[c]: where the head of client c stands

vars == <<full, stage, place>>

Init == /\ full = FALSE
        /\ stage = [c \in Clients |-> "out"]
        /\ place = [c \in Clients |-> "none"]

Sample(c) == /\ stage[c] = "out"
             /\ stage' = [stage EXCEPT ![c] = "joining"]
             /\ place' = [place EXCEPT ![c] = Sampled(full)]
             /\ UNCHANGED full

Register(c) == /\ stage[c] = "joining"
               /\ stage' = [stage EXCEPT ![c] = "in"]
               /\ UNCHANGED <<full, place>>

FillData == /\ full' = TRUE
            /\ place' \in [Clients -> HeadPlaces]
            /\ \A c \in Clients : place'[c] \in AfterFill(stage[c] = "in", place[c])
            /\ UNCHANGED stage

(* GetAVData of another ring of the stream moves the heads of the clients  *)
(* it finds by the positions of that ring, to anywhere in this one.        *)
FillOther == /\ place' \in [Clients -> HeadPlaces]
             /\ \A c \in Clients : place'[c] \in IF stage[c] = "in"
                                              THEN Copied(full) ELSE {place[c]}
             /\ UNCHANGED <<full, stage>>

(* A client copies bytes only when it is behind the tail.                  *)
ReadCopies(c) == /\ stage[c] = "in" /\ place[c] = "behind"
                 /\ \E h \in Copied(full) : place' = [place EXCEPT ![c] = h]
                 /\ UNCHANGED <<full, stage>>

Destroy(c) == /\ stage[c] = "in"
              /\ stage' = [stage EXCEPT ![c] = "out"]
              /\ place' = [place EXCEPT ![c] = "none"]
              /\ UNCHANGED full

Next == \/ FillData
        \/ FillOther
        \/ \E c \in Clients : Sample(c) \/ Register(c) \/ ReadCopies(c) \/ Destroy(c)

Spec == Init /\ [][Next]_vars
=============================================================================
