------------------------------ MODULE LiveLog ------------------------------
(***************************************************************************)
(* What the memory store promises of one stream: a log of bytes that only  *)
(* ever grows, of which the newest Retained bytes can be read, and a place *)
(* in it for every client.  Bytes are numbered from 0 as the stream        *)
(* produces them.  A client reads consecutive bytes from its place on; it  *)
(* loses bytes only by falling out of the retained window, and it is then  *)
(* moved to the oldest byte the window still has.  A client that is still  *)
(* joining has no such guarantee: it enters somewhere in the window.  The  *)
(* log may give up a client: it promises nothing of what that client reads *)
(* from then on.                                                           *)
(***************************************************************************)
EXTENDS Integers

CONSTANTS Clients,     \* the clients of the stream
          Retained,    \* the number of bytes the log retains
          MaxWritten   \* bound: the number of bytes the stream produces

NoByte == -1
NoBytes == [i \in {} |-> NoByte]

VARIABLES written,     \* how many bytes the stream has produced
          stage,       \* stage[c]: "out", "joining", "in" or "astray"
          place,       \* place[c]: the byte client c is at, or NoByte
          chunk        \* chunk[c]: the bytes copied out for c, in order

vars == <<written, stage, place, chunk>>

Oldest(w) == IF w < Retained THEN 0 ELSE w - Retained
Window(w) == Oldest(w) .. w - 1

Init == /\ written = 0
        /\ stage = [c \in Clients |-> "out"]
        /\ place = [c \in Clients |-> NoByte]
        /\ chunk = [c \in Clients |-> NoBytes]

(* A client that joins starts at the newest byte there is.                 *)
Join(c) == /\ stage[c] = "out"
           /\ stage' = [stage EXCEPT ![c] = "joining"]
           /\ place' = [place EXCEPT ![c] = written - 1]
           /\ UNCHANGED <<written, chunk>>

Enter(c) == /\ stage[c] = "joining"
            /\ stage' = [stage EXCEPT ![c] = "in"]
            /\ UNCHANGED <<written, place, chunk>>

(* Where an append that leaves w bytes in the log may move client c.       *)
Moved(c, w) ==
    IF stage[c] = "astray" THEN {NoByte}
    ELSE IF place[c] \in Window(w) THEN {place[c]}
    ELSE IF place[c] = NoByte
         THEN Window(w) \union (IF stage[c] = "in" THEN {} ELSE {NoByte})
         ELSE IF stage[c] = "in" THEN {Oldest(w)} ELSE Window(w)

Append(n) == /\ written + n =< MaxWritten
             /\ written' = written + n
             /\ place' \in [Clients -> Window(written + n) \union {NoByte}]
             /\ \A c \in Clients : place'[c] \in Moved(c, written + n)
             /\ UNCHANGED <<stage, chunk>>

(* Client c is handed the next k bytes; the newest byte is never handed    *)
(* out, the client stays at it until a newer one exists.                   *)
Deliver(c, k) == /\ stage[c] = "in"
                 /\ place[c] # NoByte
                 /\ place[c] + k < written
                 /\ place' = [place EXCEPT ![c] = @ + k]
                 /\ chunk' = [chunk EXCEPT ![c] =
                                [i \in 0 .. k - 1 |-> place[c] + i]]
                 /\ UNCHANGED <<written, stage>>

(* The caller takes the bytes it was handed.                               *)
Take(c) == /\ chunk' = [chunk EXCEPT ![c] = NoBytes]
           /\ UNCHANGED <<written, stage, place>>

(* The log gives up the clients of S.                                      *)
GiveUp(S) ==
    /\ stage' = [c \in Clients |-> IF c \in S THEN "astray" ELSE stage[c]]
    /\ place' = [c \in Clients |-> IF c \in S THEN NoByte ELSE place[c]]
    /\ chunk' = [c \in Clients |-> IF c \in S THEN NoBytes ELSE chunk[c]]
    /\ UNCHANGED written

Leave(c) == /\ stage[c] \in {"in", "astray"}
            /\ stage' = [stage EXCEPT ![c] = "out"]
            /\ place' = [place EXCEPT ![c] = NoByte]
            /\ chunk' = [chunk EXCEPT ![c] = NoBytes]
            /\ UNCHANGED written

Next == \/ \E n \in 1 .. Retained : Append(n)
        \/ \E S \in SUBSET {c \in Clients : stage[c] = "in"} : GiveUp(S)
        \/ \E c \in Clients : \/ Join(c)
                              \/ Enter(c)
                              \/ Take(c)
                              \/ Leave(c)
                              \/ \E k \in 1 .. Retained : Deliver(c, k)

Spec == Init /\ [][Next]_vars
=============================================================================
