----------------------------- MODULE MemoryRing -----------------------------
(***************************************************************************)
(* One StreamHandle of the memory store and the ClientHandles that read    *)
(* it: the ring buffer of len bytes, the position tail of the newest byte, *)
(* and for every client the position head.  The heartbeat thread fills the *)
(* ring in GetAVData under the exclusive side of rw_mutex and moves the    *)
(* heads whose bytes it overwrote; server threads copy bytes out in Read   *)
(* under the shared side.  Bytes are numbered in the order in which the    *)
(* stream produced them, so that buf[p] says which byte position p holds.  *)
(* A stream may have a second StreamHandle (MemoryStore has how), and      *)
(* GetAVData finds clients by the name of the stream: what it does for the *)
(* other ring moves heads in this one (OtherGetAVData), as GetAVData here  *)
(* moves heads of clients that read the other.                             *)
(***************************************************************************)
EXTENDS Integers

CONSTANTS Clients,      \* client handles
          len,          \* size of the ring
          ReadLens,     \* the buffer sizes a server thread reads with
          MaxWritten    \* bound: the number of bytes the stream produces

ASSUME LenAssumption == len \in Nat \ {0}
ASSUME ReadLensAssumption == ReadLens \subseteq Nat
ASSUME MaxWrittenAssumption == MaxWritten \in Nat

VARIABLES buf,        \* buf[p]: the byte at position p of buf_start
          tail,       \* position of the newest byte, -1 before the first
          written,    \* how many bytes were put into the ring so far
          finished,   \* the heartbeat has given up on the stream
          head,       \* head[c]: position of client c, -1 if it has none
          phase,      \* phase[c]: "none", "made", "idle" or "reading"
          want,       \* want[c]: bytes the Read of c may still copy
          chunk,      \* chunk[c]: the bytes the last memcpy for c copied
          strayed     \* history: the clients whose head another ring moved

vars == <<buf, tail, written, finished, head, phase, want, chunk, strayed>>

Positions == 0 .. len - 1
NoByte    == -1
Bytes     == Nat \union {NoByte}
NoBytes   == [i \in {} |-> NoByte]

(* Client handles in clientHandles, under the name of the stream: those    *)
(* that GetAVData finds, for this ring and for every other of the stream.  *)
Registered == {c \in Clients : phase[c] \in {"idle", "reading"}}

(* The shared side of rw_mutex is held by the clients that are reading.    *)
RingLockFree == \A c \in Clients : phase[c] # "reading"

-----------------------------------------------------------------------------
Init == /\ buf = [p \in Positions |-> NoByte]
        /\ tail = -1
        /\ written = 0
        /\ finished = FALSE
        /\ head = [c \in Clients |-> -1]
        /\ phase = [c \in Clients |-> "none"]
        /\ want = [c \in Clients |-> 0]
        /\ chunk = [c \in Clients |-> NoBytes]
        /\ strayed = {}

(* ClientHandle::ClientHandle: the head starts at the tail.                *)
MakeClient(c) == /\ phase[c] = "none"
                 /\ phase' = [phase EXCEPT ![c] = "made"]
                 /\ head' = [head EXCEPT ![c] = tail]
                 /\ UNCHANGED <<buf, tail, written, finished, want, chunk, strayed>>

(* The second locked section of CreateHandle: clientHandles.insert.        *)
RegisterClient(c) ==
    /\ phase[c] = "made"
    /\ phase' = [phase EXCEPT ![c] = "idle"]
    /\ UNCHANGED <<buf, tail, written, finished, head, want, chunk, strayed>>

(* A mutant: the next write begins at the newest byte.                     *)
WriteStartAtTail == IF tail = -1 THEN 0 ELSE tail

WriteStart == (tail + 1) % len

(* Mutants: the moved head does not wrap; the head at the tail counts as   *)
(* overwritten; every head from start on does; no head is moved.           *)
MovedHeadUnwrapped(h, start, next_tail) ==
    IF h = -1 THEN 0
    ELSE IF h >= start /\ h =< next_tail THEN next_tail + 1 ELSE h
MovedHeadFromTail(h, start, next_tail) ==
    IF h = -1 THEN 0
    ELSE IF h >= start - 1 /\ h =< next_tail THEN (next_tail + 1) % len ELSE h
MovedHeadAhead(h, start, next_tail) ==
    IF h = -1 THEN 0 ELSE IF h >= start THEN (next_tail + 1) % len ELSE h
MovedHeadNever(h, start, next_tail) == IF h = -1 THEN 0 ELSE h

(* Where GetAVData moves head h after it filled start .. next_tail.        *)
MovedHead(h, start, next_tail) ==
    IF h = -1 THEN 0
    ELSE IF h >= start /\ h =< next_tail THEN (next_tail + 1) % len
    ELSE h

(* GetAVData when stream->Read returned n bytes, 0 < n =< num_bytes.       *)
GetAVData(n) ==
    LET start     == WriteStart
        next_tail == (tail + n) % len
    IN  /\ ~finished
        /\ RingLockFree
        /\ n =< len - start
        /\ written + n =< MaxWritten
        /\ buf' = [p \in Positions |->
                     IF p \in start .. start + n - 1
                     THEN written + (p - start) ELSE buf[p]]
        /\ written' = written + n
        /\ head' = [c \in Clients |->
                      IF c \in Registered
                      THEN MovedHead(head[c], start, next_tail) ELSE head[c]]
        /\ tail' = next_tail
        /\ UNCHANGED <<finished, phase, want, chunk, strayed>>

(* GetAVData threw: Heartbeat sets finished, without rw_mutex, and never   *)
(* fills this ring again.  Readers may be inside Read meanwhile.           *)
Finish == /\ ~finished
          /\ finished' = TRUE
          /\ UNCHANGED <<buf, tail, written, head, phase, want, chunk, strayed>>

(* GetAVData of another ring of the stream, which has the same len, filled *)
(* start .. next_tail there.  It holds the rw_mutex of that ring: clients  *)
(* may be reading this one, and then their head is written by two threads  *)
(* at once: a Read that stores it as well may undo the move (lost).        *)
OtherGetAVData(start, next_tail) ==
    /\ \E lost \in SUBSET {c \in Clients : phase[c] = "reading"} :
         head' = [c \in Clients |->
                    IF c \in Registered \ lost
                    THEN MovedHead(head[c], start, next_tail) ELSE head[c]]
    /\ strayed' = strayed \union {c \in Clients : head'[c] # head[c]}
    /\ UNCHANGED <<buf, tail, written, finished, phase, want, chunk>>

-----------------------------------------------------------------------------
(* Read: the shared lock is taken, and the call gets to the copy loop only *)
(* when the client has a head that is not at the tail.                     *)
ReadBegin(c, n) == /\ phase[c] = "idle"
                   /\ head[c] # -1
                   /\ head[c] # tail
                   /\ phase' = [phase EXCEPT ![c] = "reading"]
                   /\ want' = [want EXCEPT ![c] = n]
                   /\ UNCHANGED <<buf, tail, written, finished, head, chunk,
                                  strayed>>

(* Mutants: the newest byte is copied too; the tail does not stop a copy.  *)
ReadTargetWithTail(c) ==
    LET target == IF head[c] + want[c] > len THEN len ELSE head[c] + want[c]
    IN  IF tail > head[c] /\ tail < target THEN tail + 1 ELSE target
ReadTargetPastTail(c) ==
    IF head[c] + want[c] > len THEN len ELSE head[c] + want[c]

(* One past the last position that a memcpy of client c from h on copies.  *)
TargetFrom(c, h) ==
    LET target == IF h + want[c] > len THEN len ELSE h + want[c]
    IN  IF tail > h /\ tail < target THEN tail ELSE target

ReadTarget(c) == TargetFrom(c, head[c])

(* A mutant: the loop does not look at what is left to copy.               *)
MoreToCopyUnasked(c) == head[c] # tail

MoreToCopy(c) == want[c] > 0 /\ head[c] # tail

(* One iteration of the copy loop of Read.                                 *)
ReadChunk(c) ==
    LET num_bytes == ReadTarget(c) - head[c]
    IN  /\ phase[c] = "reading"
        /\ MoreToCopy(c)
        /\ chunk' = [chunk EXCEPT ![c] =
                       [i \in 0 .. num_bytes - 1 |-> buf[head[c] + i]]]
        /\ want' = [want EXCEPT ![c] = @ - num_bytes]
        /\ head' = [head EXCEPT ![c] = (@ + num_bytes) % len]
        /\ UNCHANGED <<buf, tail, written, finished, phase, strayed>>

(* The same, when the other ring's GetAVData moves the head meanwhile.  The*)
(* iteration loads the head for the copy and again for the sum it stores:  *)
(* the move comes before the one, before the other, or over what it stored.*)
ReadChunkRaced(c, start, next_tail) ==
    LET moved == MovedHead(head[c], start, next_tail)
    IN  /\ phase[c] = "reading"
        /\ MoreToCopy(c)
        /\ moved # head[c]
        /\ \E from \in {head[c], moved} :
             LET num_bytes == TargetFrom(c, from) - from
             IN  /\ chunk' = [chunk EXCEPT ![c] =
                                [i \in 0 .. num_bytes - 1 |-> buf[from + i]]]
                 /\ want' = [want EXCEPT ![c] = @ - num_bytes]
                 /\ \/ head' = [head EXCEPT ![c] = (moved + num_bytes) % len]
                    \/ from # moved /\ head' = [head EXCEPT ![c] = moved]
        /\ strayed' = strayed \union {c}
        /\ UNCHANGED <<buf, tail, written, finished, phase>>

(* Read returns bytes_written and releases the shared lock.                *)
ReadReturn(c) == /\ phase[c] = "reading"
                 /\ ~MoreToCopy(c)
                 /\ phase' = [phase EXCEPT ![c] = "idle"]
                 /\ want' = [want EXCEPT ![c] = 0]
                 /\ chunk' = [chunk EXCEPT ![c] = NoBytes]
                 /\ UNCHANGED <<buf, tail, written, finished, head, strayed>>

(* DestroyHandle: the client handle leaves clientHandles and is freed.     *)
DestroyHandle(c) ==
    /\ phase[c] = "idle"
    /\ phase' = [phase EXCEPT ![c] = "none"]
    /\ head' = [head EXCEPT ![c] = -1]
    /\ chunk' = [chunk EXCEPT ![c] = NoBytes]
    /\ strayed' = strayed \ {c}
    /\ UNCHANGED <<buf, tail, written, finished, want>>

Next == \/ \E n \in 1 .. len : GetAVData(n)
        \/ Finish
        \/ \E c \in Clients : \/ MakeClient(c)
                              \/ RegisterClient(c)
                              \/ \E n \in ReadLens : ReadBegin(c, n)
                              \/ ReadChunk(c)
                              \/ ReadReturn(c)
                              \/ DestroyHandle(c)
        \/ \E start \in Positions : \E next_tail \in start .. len - 1 :
             \/ OtherGetAVData(start, next_tail)
             \/ \E c \in Clients : ReadChunkRaced(c, start, next_tail)

Spec == Init /\ [][Next]_vars

(* A thread inside Read never waits: it holds the lock it needs.           *)
FairSpec == Spec /\ \A c \in Clients : WF_vars(ReadChunk(c) \/ ReadReturn(c))

-----------------------------------------------------------------------------
TypeOK == /\ buf \in [Positions -> Bytes]
          /\ tail \in Positions \union {-1}
          /\ written \in 0 .. MaxWritten
          /\ finished \in BOOLEAN
          /\ head \in [Clients -> Positions \union {-1}]
          /\ phase \in [Clients -> {"none", "made", "idle", "reading"}]
          /\ want \in [Clients -> Nat]
          /\ chunk = [c \in Clients |-> chunk[c]]
          /\ \A c \in Clients :
               chunk[c] = NoBytes \/ \E k \in 1 .. len :
                                       chunk[c] \in [0 .. k - 1 -> Bytes]
          /\ strayed \subseteq Clients

(* The ring holds exactly the newest len bytes of the stream, each at one  *)
(* position, in the order of the ring behind the tail: GetAVData never     *)
(* leaves a gap, a stale byte behind a newer one, or a tail that is not at *)
(* the newest byte, however the writes split at the end of the buffer.     *)
RingHoldsNewest ==
    LET lap == written - 1 - tail
    IN  \A p \in Positions :
          buf[p] = IF p =< tail THEN lap + p
                   ELSE IF lap >= len THEN lap - len + p ELSE NoByte

(* What follows is about the clients whose head no other ring of their     *)
(* stream has moved since they were opened.  Of the others nothing is said:*)
(* such a client may copy memory that was never filled, and lose or repeat *)
(* bytes.                                                                  *)
Loyal == Clients \ strayed

(* A client that has a head is at a byte the stream produced: Read never   *)
(* copies memory that GetAVData did not fill, not for a client registered  *)
(* long after its head was sampled either.                                 *)
HeadsAtWrittenBytes ==
    \A c \in Loyal : head[c] # -1 => buf[head[c]] # NoByte

Place(c) == IF head[c] = -1 THEN NoByte ELSE buf[head[c]]

Oldest(w) == IF w < len THEN 0 ELSE w - len

(* What the step hands to client c, in bytes.                              *)
Handed(c) == IF phase[c] = "reading" /\ phase'[c] = "reading"
             THEN want[c] - want'[c] ELSE 0

(* No step takes from a registered client a byte that is still in the      *)
(* ring: its place moves on by what it is handed, unless the byte there    *)
(* was overwritten, and then to the oldest byte left.                      *)
LosesOnlyOverrun ==
    [][\A c \in Registered \ strayed' :
         (phase'[c] # "none" /\ Place(c) # NoByte) =>
            Place(c)' = IF Place(c) < Oldest(written')
                        THEN Oldest(written') ELSE Place(c) + Handed(c)]_vars

(* A client never goes back in the stream while it is open, whatever the   *)
(* writes and reads of its ring interleave: no byte is delivered twice.    *)
NeverGoesBack ==
    [][\A c \in Clients \ strayed' :
         (phase[c] # "none" /\ phase'[c] # "none") => Place(c)' >= Place(c)]_vars

(* The bytes a Read hands out continue where the client was: each memcpy   *)
(* of the loop copies consecutive bytes of the stream, the first being the *)
(* one the client is at, and ends before the newest byte.                  *)
CopiesInOrder ==
    [][\A c \in Clients \ strayed' :
         (chunk'[c] # chunk[c] /\ chunk'[c] # NoBytes) =>
            /\ \A i \in DOMAIN chunk'[c] : chunk'[c][i] = Place(c) + i
            /\ Place(c)' < written]_vars

(* The copy loop ends: a Read that has taken the shared lock gives it      *)
(* back, so that readers alone cannot keep the heartbeat out.              *)
ReadsReturn == \A c \in Clients : phase[c] = "reading" ~> phase[c] # "reading"

(* The ring implements the log the store promises: to every client until   *)
(* another ring of the stream moves its head.                              *)
Stage(c) == CASE phase[c] = "none" -> "out"
              [] phase[c] = "made" -> "joining"
              [] OTHER             -> "in"

Log == INSTANCE LiveLog WITH
         Retained <- len,
         stage <- [c \in Clients |-> IF c \in strayed THEN "astray" ELSE Stage(c)],
         place <- [c \in Clients |-> IF c \in strayed THEN NoByte ELSE Place(c)],
         chunk <- [c \in Clients |-> IF c \in strayed THEN NoBytes ELSE chunk[c]]
ImplementsLiveLog == Log!Spec

(* A ring of more than one byte is what MemoryStore takes it for.          *)
HeadPlace(c) == IF head[c] = -1 THEN "none" ELSE IF head[c] = tail THEN "tail" ELSE "behind"

Abstract == INSTANCE RingHeads WITH full <- tail # -1,
                                    stage <- [c \in Clients |-> Stage(c)],
                                    place <- [c \in Clients |-> HeadPlace(c)]
ImplementsRingHeads == Abstract!Spec
=============================================================================
