------------------------- MODULE MemoryRing_proof --------------------------
(***************************************************************************)
(* Proofs about the ring buffer of the memory store, for every ring size,  *)
(* every set of clients, every read size and every length of stream.  The  *)
(* only fact about modular arithmetic that the proofs need is where the    *)
(* next write goes (WriteSplits): the rest is linear.                      *)
(***************************************************************************)
EXTENDS MemoryRing, TLAPS

Lap == written - 1 - tail

(* The strengthening: the ring is either on its first lap or has been      *)
(* filled completely, and a client whose head no other ring has moved is   *)
(* at a filled position, if it has a head.                                 *)
IInv == /\ TypeOK
        /\ (tail = -1) <=> (written = 0)
        /\ Lap = 0 \/ Lap >= len
        /\ RingHoldsNewest
        /\ \A c \in Loyal : head[c] # -1 =>
              tail # -1 /\ (Lap = 0 => head[c] =< tail)
        /\ \A c \in Clients : /\ phase[c] = "none" => head[c] = -1
                              /\ phase[c] = "reading" => head[c] # -1
        /\ strayed \subseteq Registered

USE LenAssumption, ReadLensAssumption, MaxWrittenAssumption

(* The position behind p, as GetAVData computes it.                        *)
LEMMA NextPosition ==
  ASSUME NEW p \in 0 .. len - 1
  PROVE  (p + 1) % len = IF p + 1 = len THEN 0 ELSE p + 1
<1>1. CASE p + 1 = len
  <2>1. (p + 1) % len = 0
    BY <1>1
  <2>. QED
    BY <1>1, <2>1
<1>2. CASE p + 1 # len
  <2>1. (p + 1) % len = p + 1
    BY <1>2
  <2>. QED
    BY <1>2, <2>1
<1>. QED
  BY <1>1, <1>2

(* GetAVData writes either right behind the tail, up to the end of the     *)
(* buffer, or, when the tail is at the end, from the front.                *)
LEMMA WriteSplits ==
  ASSUME TypeOK, NEW n \in 1 .. len, n =< len - WriteStart
  PROVE  \/ /\ tail + 1 < len
            /\ WriteStart = tail + 1
            /\ (tail + n) % len = tail + n
            /\ tail + n < len
         \/ /\ tail + 1 = len
            /\ WriteStart = 0
            /\ (tail + n) % len = n - 1
<1>1. tail \in -1 .. len - 1
  BY DEF TypeOK, Positions
<1>2. CASE tail + 1 < len
  <2>1. WriteStart = tail + 1
    BY <1>1, <1>2 DEF WriteStart
  <2>2. tail + n < len /\ tail + n >= 0
    BY <1>1, <1>2, <2>1
  <2>. QED
    BY <1>1, <1>2, <2>1, <2>2
<1>3. CASE tail + 1 = len
  <2>1. WriteStart = 0
    BY <1>3 DEF WriteStart
  <2>2. tail + n = len + (n - 1)
    BY <1>3, <1>1
  <2>3. (tail + n) % len = n - 1
    BY <2>2
  <2>. QED
    BY <1>3, <2>1, <2>3
<1>. QED
  BY <1>1, <1>2, <1>3

(* One memcpy of Read copies at least one byte, no more than was asked     *)
(* for, stays inside the buffer and does not run past the tail.            *)
LEMMA CopyBounds ==
  ASSUME TypeOK, NEW c \in Clients, head[c] # -1, MoreToCopy(c)
  PROVE  /\ ReadTarget(c) \in head[c] + 1 .. len
         /\ ReadTarget(c) =< head[c] + want[c]
         /\ tail > head[c] => ReadTarget(c) =< tail
         /\ ReadTarget(c) < len =>
              (head[c] + (ReadTarget(c) - head[c])) % len = ReadTarget(c)
         /\ ReadTarget(c) = len =>
              (head[c] + (ReadTarget(c) - head[c])) % len = 0
<1>1. /\ head[c] \in 0 .. len - 1
      /\ want[c] \in Nat
      /\ want[c] > 0
      /\ tail \in -1 .. len - 1
  BY DEF TypeOK, Positions, MoreToCopy
<1>2. /\ ReadTarget(c) \in head[c] + 1 .. len
      /\ ReadTarget(c) =< head[c] + want[c]
      /\ tail > head[c] => ReadTarget(c) =< tail
  BY <1>1 DEF ReadTarget, TargetFrom
<1>3. head[c] + (ReadTarget(c) - head[c]) = ReadTarget(c)
  BY <1>1, <1>2
<1>. QED
  BY <1>1, <1>2, <1>3

-----------------------------------------------------------------------------
LEMMA InitIInv == Init => IInv
<1>. SUFFICES ASSUME Init PROVE IInv
  OBVIOUS
<1>1. TypeOK
  <2>1. strayed \subseteq Clients
    BY DEF Init
  <2>2. chunk = [c \in Clients |-> chunk[c]]
    BY DEF Init
  <2>. QED
    BY <2>1, <2>2 DEF Init, TypeOK, NoByte, NoBytes, Bytes, Positions
<1>2. Lap = 0
  BY DEF Init, Lap
<1>3. RingHoldsNewest
  BY DEF Init, RingHoldsNewest, Positions, NoByte
<1>. QED
  BY <1>1, <1>2, <1>3 DEF IInv, Init, Loyal

(* What a write does to every position and every head, by the two cases of *)
(* WriteSplits.                                                            *)
LEMMA WriteStep ==
  ASSUME IInv, NEW n \in 1 .. len, GetAVData(n)
  PROVE  IInv'
<1>1. TypeOK /\ n =< len - WriteStart
  BY DEF IInv, GetAVData
<1>2. /\ tail \in -1 .. len - 1
      /\ written \in Nat
      /\ written + n \in 0 .. MaxWritten
      /\ len \in Nat /\ len > 0
      /\ n \in 1 .. len
  BY <1>1 DEF TypeOK, Positions, GetAVData
<1>3. \/ /\ tail + 1 < len
         /\ WriteStart = tail + 1
         /\ (tail + n) % len = tail + n
         /\ tail + n < len
      \/ /\ tail + 1 = len
         /\ WriteStart = 0
         /\ (tail + n) % len = n - 1
  BY <1>1, WriteSplits
<1>4. tail' = (tail + n) % len /\ written' = written + n
  BY DEF GetAVData
<1>5. /\ tail' \in 0 .. len - 1
      /\ written' \in Nat
      /\ tail' =< written' - 1
      /\ WriteStart \in 0 .. len - 1
  <2>1. tail =< written - 1
    BY <1>2 DEF IInv, Lap
  <2>. QED
    BY <1>2, <1>3, <1>4, <2>1
<1>6. Lap' = 0 \/ Lap' >= len
  <2>1. CASE tail + 1 < len
    BY <1>2, <1>3, <1>4, <2>1 DEF IInv, Lap
  <2>2. CASE tail + 1 = len
    BY <1>2, <1>3, <1>4, <2>2 DEF IInv, Lap
  <2>. QED
    BY <1>2, <2>1, <2>2
<1>7. \A p \in Positions :
        buf'[p] = IF p \in WriteStart .. WriteStart + n - 1
                  THEN written + (p - WriteStart) ELSE buf[p]
  BY DEF GetAVData
<1>8. RingHoldsNewest'
  <2>. SUFFICES ASSUME NEW p \in Positions
                PROVE  buf'[p] = IF p =< tail' THEN Lap' + p
                                 ELSE IF Lap' >= len THEN Lap' - len + p
                                      ELSE NoByte
    BY DEF RingHoldsNewest, Lap
  <2>1. p \in 0 .. len - 1
    BY DEF Positions
  <2>2. buf[p] = IF p =< tail THEN Lap + p
                 ELSE IF Lap >= len THEN Lap - len + p ELSE NoByte
    BY DEF IInv, RingHoldsNewest, Lap
  <2>3. CASE tail + 1 < len
    <3>1. Lap' = Lap /\ Lap = written - 1 - tail /\ tail' = tail + n
      BY <1>2, <1>3, <1>4, <2>3 DEF Lap
    <3>. QED
      BY <1>2, <1>3, <1>7, <2>1, <2>2, <2>3, <3>1
  <2>4. CASE tail + 1 = len
    <3>1. Lap' = written /\ Lap = written - len /\ tail' = n - 1
      BY <1>2, <1>3, <1>4, <2>4 DEF Lap
    <3>2. written >= len
      BY <1>2, <2>4, <3>1 DEF IInv, Lap
    <3>. QED
      BY <1>2, <1>3, <1>7, <2>1, <2>2, <2>4, <3>1, <3>2
  <2>. QED
    BY <1>2, <2>3, <2>4
<1>9. ASSUME NEW c \in Clients
      PROVE  /\ head'[c] \in Positions \union {-1}
             /\ (c \notin strayed /\ head'[c] # -1 /\ Lap' = 0) =>
                  head'[c] =< tail'
             /\ phase'[c] = "none" => head'[c] = -1
             /\ phase'[c] = "reading" => head'[c] # -1
  <2>1. /\ head[c] \in -1 .. len - 1
        /\ (c \notin strayed /\ head[c] # -1 /\ Lap = 0) => head[c] =< tail
        /\ phase[c] = "none" => head[c] = -1
        /\ phase[c] # "reading"
        /\ phase'[c] = phase[c]
    BY <1>1 DEF IInv, Loyal, TypeOK, Positions, GetAVData, RingLockFree
  <2>2. head'[c] = IF c \in Registered
                   THEN MovedHead(head[c], WriteStart, tail') ELSE head[c]
    BY <1>4 DEF GetAVData
  <2>3. (tail' + 1) % len = IF tail' + 1 = len THEN 0 ELSE tail' + 1
    BY <1>5, NextPosition
  <2>4. Lap' = 0 => tail + 1 < len /\ Lap = 0
    BY <1>2, <1>3, <1>4 DEF IInv, Lap
  <2>5. tail + 1 < len => tail < WriteStart /\ tail =< tail'
    BY <1>2, <1>3, <1>4
  <2>6. CASE c \in Registered
    <3>1. phase[c] # "none"
      BY <2>6 DEF Registered
    <3>2. head'[c] = IF head[c] = -1 THEN 0
                     ELSE IF head[c] >= WriteStart /\ head[c] =< tail'
                          THEN IF tail' + 1 = len THEN 0 ELSE tail' + 1
                          ELSE head[c]
      BY <2>2, <2>3, <2>6 DEF MovedHead
    <3>3. head'[c] \in 0 .. len - 1
      <4>1. CASE head[c] = -1
        BY <1>2, <3>2, <4>1
      <4>2. CASE head[c] # -1 /\ head[c] >= WriteStart /\ head[c] =< tail'
        <5>. DEFINE t == tail'
        <5>1. head'[c] = IF t + 1 = len THEN 0 ELSE t + 1
          BY <3>2, <4>2
        <5>2. t \in 0 .. len - 1 /\ len \in Nat /\ len > 0
          BY <1>2, <1>5
        <5>. HIDE DEF t
        <5>. QED
          BY <5>1, <5>2
      <4>3. CASE head[c] # -1 /\ ~(head[c] >= WriteStart /\ head[c] =< tail')
        <5>1. head'[c] = head[c] /\ head[c] \in -1 .. len - 1
          BY <2>1, <3>2, <4>3
        <5>. QED
          BY <1>2, <4>3, <5>1
      <4>. QED
        BY <4>1, <4>2, <4>3
    <3>4. ASSUME c \notin strayed, Lap' = 0 PROVE head'[c] =< tail'
      <4>1. head[c] # -1 => head[c] =< tail /\ head[c] < WriteStart
        BY <1>2, <1>5, <2>1, <2>4, <2>5, <3>4
      <4>2. CASE head[c] = -1
        BY <1>5, <3>2, <4>2
      <4>3. CASE head[c] # -1
        <5>1. ~(head[c] >= WriteStart)
          BY <1>5, <2>1, <4>1, <4>3
        <5>2. head'[c] = head[c]
          BY <3>2, <4>3, <5>1
        <5>. QED
          BY <1>2, <1>5, <2>1, <2>4, <2>5, <3>4, <4>1, <4>3, <5>2
      <4>. QED
        BY <4>2, <4>3
    <3>. QED
      BY <2>1, <3>1, <3>3, <3>4 DEF Positions
  <2>7. CASE c \notin Registered
    <3>1. head'[c] = head[c]
      BY <2>2, <2>7
    <3>2. (c \notin strayed /\ head[c] # -1 /\ Lap' = 0) => head[c] =< tail'
      BY <1>2, <1>5, <2>1, <2>4, <2>5
    <3>. QED
      BY <2>1, <3>1, <3>2 DEF Positions
  <2>. QED
    BY <2>6, <2>7
<1>10. TypeOK'
  <2>1. ASSUME NEW p \in Positions PROVE buf'[p] \in Bytes
    <3>1. buf[p] \in Bytes /\ p \in 0 .. len - 1
      BY <1>1 DEF TypeOK, Positions
    <3>2. CASE p \in WriteStart .. WriteStart + n - 1
      <4>1. buf'[p] = written + (p - WriteStart)
        BY <1>7, <3>2
      <4>2. written + (p - WriteStart) \in Nat
        BY <1>2, <1>5, <3>1, <3>2
      <4>. QED
        BY <4>1, <4>2 DEF Bytes
    <3>3. CASE p \notin WriteStart .. WriteStart + n - 1
      BY <1>7, <3>1, <3>3
    <3>. QED
      BY <3>2, <3>3
  <2>2. /\ buf' \in [Positions -> Bytes]
        /\ head' \in [Clients -> Positions \union {-1}]
    BY <2>1, <1>9 DEF GetAVData
  <2>. QED
    BY <1>1, <1>2, <1>4, <1>5, <2>2 DEF TypeOK, GetAVData, Positions
<1>11. strayed' = strayed /\ Registered' = Registered
  BY DEF GetAVData, Registered
<1>. QED
  BY <1>2, <1>4, <1>5, <1>6, <1>8, <1>9, <1>10, <1>11 DEF IInv, Loyal

(* One memcpy of Read leaves the client at a filled position.              *)
LEMMA ChunkStep ==
  ASSUME IInv, NEW c \in Clients, ReadChunk(c)
  PROVE  IInv'
<1>. DEFINE target == ReadTarget(c)
            k      == target - head[c]
<1>1. /\ TypeOK
      /\ head[c] # -1
      /\ MoreToCopy(c)
      /\ phase[c] = "reading"
  BY DEF IInv, ReadChunk
<1>2. /\ head[c] \in 0 .. len - 1
      /\ want[c] \in Nat
      /\ tail \in -1 .. len - 1
      /\ len \in Nat
      /\ c \notin strayed => tail # -1 /\ (Lap = 0 => head[c] =< tail)
      /\ head[c] # tail
  BY <1>1 DEF IInv, Loyal, TypeOK, Positions, MoreToCopy
<1>3. /\ target \in head[c] + 1 .. len
      /\ target =< head[c] + want[c]
      /\ tail > head[c] => target =< tail
      /\ target < len => (head[c] + k) % len = target
      /\ target = len => (head[c] + k) % len = 0
  BY <1>1, CopyBounds
<1>4. k \in 1 .. len /\ want[c] - k \in Nat
  BY <1>2, <1>3
<1>5. /\ (head[c] + k) % len \in 0 .. len - 1
      /\ (c \notin strayed /\ Lap = 0) => (head[c] + k) % len =< tail
  BY <1>2, <1>3
<1>6. /\ head' = [head EXCEPT ![c] = (head[c] + k) % len]
      /\ want' = [want EXCEPT ![c] = want[c] - k]
      /\ chunk' = [chunk EXCEPT ![c] = [i \in 0 .. k - 1 |-> buf[head[c] + i]]]
      /\ UNCHANGED <<buf, tail, written, finished, phase, strayed>>
  BY DEF ReadChunk
<1>7. [i \in 0 .. k - 1 |-> buf[head[c] + i]] \in [0 .. k - 1 -> Bytes]
  <2>1. ASSUME NEW i \in 0 .. k - 1 PROVE buf[head[c] + i] \in Bytes
    <3>1. head[c] + i \in Positions
      BY <1>2, <1>3, <1>4 DEF Positions
    <3>. QED
      BY <1>1, <3>1 DEF TypeOK
  <2>. QED
    BY <2>1
<1>8. TypeOK'
  <2>1. head' \in [Clients -> Positions \union {-1}]
    BY <1>1, <1>5, <1>6 DEF TypeOK, Positions
  <2>2. want' \in [Clients -> Nat]
    BY <1>1, <1>4, <1>6 DEF TypeOK
  <2>3. chunk' = [d \in Clients |-> chunk'[d]]
    BY <1>1, <1>6 DEF TypeOK
  <2>4. ASSUME NEW d \in Clients
        PROVE  chunk'[d] = NoBytes \/ \E j \in 1 .. len :
                                         chunk'[d] \in [0 .. j - 1 -> Bytes]
    <3>1. CASE d = c
      <4>1. chunk'[d] = [i \in 0 .. k - 1 |-> buf[head[c] + i]]
        BY <1>1, <1>6, <3>1 DEF TypeOK
      <4>. QED
        BY <1>4, <1>7, <4>1
    <3>2. CASE d # c
      <4>1. chunk'[d] = chunk[d]
        BY <1>1, <1>6, <3>2 DEF TypeOK
      <4>. QED
        BY <1>1, <4>1 DEF TypeOK
    <3>. QED
      BY <3>1, <3>2
  <2>. QED
    BY <1>1, <1>6, <2>1, <2>2, <2>3, <2>4 DEF TypeOK
<1>9. Lap' = Lap /\ RingHoldsNewest'
  BY <1>6 DEF IInv, Lap, RingHoldsNewest
<1>10. ASSUME NEW d \in Clients
       PROVE  /\ (d \notin strayed /\ head'[d] # -1) =>
                   tail # -1 /\ (Lap = 0 => head'[d] =< tail)
              /\ phase[d] = "none" => head'[d] = -1
              /\ phase[d] = "reading" => head'[d] # -1
  <2>1. CASE d = c
    <3>1. head'[d] = (head[c] + k) % len
      BY <1>1, <1>6, <2>1 DEF TypeOK
    <3>2. phase[d] # "none"
      BY <1>1, <2>1
    <3>3. (head[c] + k) % len # -1
      BY <1>2, <1>5
    <3>4. c \notin strayed => tail # -1 /\ (Lap = 0 => (head[c] + k) % len =< tail)
      BY <1>2, <1>5
    <3>. HIDE DEF k
    <3>. QED
      BY <2>1, <3>1, <3>2, <3>3, <3>4
  <2>2. CASE d # c
    <3>1. head'[d] = head[d]
      BY <1>1, <1>6, <2>2 DEF TypeOK
    <3>. QED
      BY <3>1 DEF IInv, Loyal
  <2>. QED
    BY <2>1, <2>2
<1>11. Registered' = Registered
  BY <1>6 DEF Registered
<1>. QED
  BY <1>6, <1>8, <1>9, <1>10, <1>11 DEF IInv, Loyal

(* GetAVData of another ring of the stream, and a memcpy that it races     *)
(* with: what they do to clients whose head they do not move is nothing.   *)
ForeignStep ==
  \E start \in Positions : \E next_tail \in start .. len - 1 :
     \/ OtherGetAVData(start, next_tail)
     \/ \E c \in Clients : ReadChunkRaced(c, start, next_tail)

ForeignFacts ==
  /\ UNCHANGED <<buf, tail, written, phase>>
  /\ strayed \subseteq strayed' /\ strayed' \subseteq Registered
  /\ \A c \in Clients :
       /\ head'[c] = head[c] \/ head'[c] \in Positions
       /\ c \notin strayed' => head'[c] = head[c] /\ chunk'[c] = chunk[c]

LEMMA MovedHeadInRing ==
  ASSUME NEW h \in Positions \union {-1}, NEW start \in Positions,
         NEW next_tail \in start .. len - 1
  PROVE  MovedHead(h, start, next_tail) \in Positions
<1>1. next_tail \in 0 .. len - 1 /\ len \in Nat
  BY DEF Positions
<1>2. (next_tail + 1) % len = IF next_tail + 1 = len THEN 0 ELSE next_tail + 1
  BY <1>1, NextPosition
<1>. QED
  BY <1>1, <1>2 DEF MovedHead, Positions

(* A memcpy from any position of the ring stays inside it.                 *)
LEMMA CopyFromAnywhere ==
  ASSUME TypeOK, NEW c \in Clients, NEW from \in Positions, want[c] > 0
  PROVE  /\ TargetFrom(c, from) - from \in 1 .. len
         /\ TargetFrom(c, from) =< len
         /\ want[c] - (TargetFrom(c, from) - from) \in Nat
<1>1. /\ from \in 0 .. len - 1
      /\ want[c] \in Nat
      /\ tail \in -1 .. len - 1
  BY DEF TypeOK, Positions
<1>. QED
  BY <1>1 DEF TargetFrom

(* A position of the ring and a distance make a position of the ring.      *)
LEMMA AroundTheRing ==
  ASSUME NEW h \in Positions, NEW k \in 1 .. len
  PROVE  (h + k) % len \in Positions
<1>1. h + k \in Nat /\ len \in Nat \ {0}
  BY DEF Positions
<1>2. (h + k) % len \in 0 .. len - 1
  BY <1>1
<1>. QED
  BY <1>2 DEF Positions

LEMMA ForeignStepFacts ==
  ASSUME IInv, ForeignStep
  PROVE  TypeOK' /\ ForeignFacts
<1>. USE DEF Registered
<1>1. TypeOK /\ strayed \subseteq Registered
  BY DEF IInv
<1>2. ASSUME NEW start \in Positions, NEW next_tail \in start .. len - 1,
             OtherGetAVData(start, next_tail)
      PROVE  TypeOK' /\ ForeignFacts
  <2>1. PICK lost \in SUBSET {c \in Clients : phase[c] = "reading"} :
           head' = [c \in Clients |->
                      IF c \in Registered \ lost
                      THEN MovedHead(head[c], start, next_tail) ELSE head[c]]
    BY <1>2 DEF OtherGetAVData
  <2>2. ASSUME NEW c \in Clients
        PROVE  /\ head'[c] \in Positions \union {-1}
               /\ head'[c] = head[c] \/ (c \in Registered /\ head'[c] \in Positions)
    <3>1. head[c] \in Positions \union {-1}
      BY <1>1 DEF TypeOK
    <3>2. MovedHead(head[c], start, next_tail) \in Positions
      BY <3>1, MovedHeadInRing
    <3>. QED
      BY <2>1, <3>1, <3>2
  <2>3. /\ UNCHANGED <<buf, tail, written, finished, phase, want, chunk>>
        /\ strayed' = strayed \union {c \in Clients : head'[c] # head[c]}
    BY <1>2 DEF OtherGetAVData
  <2>4. TypeOK'
    BY <1>1, <2>1, <2>2, <2>3 DEF TypeOK
  <2>. QED
    BY <1>1, <2>2, <2>3, <2>4 DEF ForeignFacts
<1>3. ASSUME NEW start \in Positions, NEW next_tail \in start .. len - 1,
             NEW c \in Clients, ReadChunkRaced(c, start, next_tail)
      PROVE  TypeOK' /\ ForeignFacts
  <2>. DEFINE moved == MovedHead(head[c], start, next_tail)
  <2>1. /\ phase[c] = "reading" /\ want[c] > 0 /\ head[c] # -1
        /\ UNCHANGED <<buf, tail, written, finished, phase>>
        /\ strayed' = strayed \union {c}
    BY <1>3 DEF ReadChunkRaced, MoreToCopy, IInv
  <2>2. head[c] \in Positions /\ moved \in Positions
    BY <1>1, <2>1, MovedHeadInRing DEF TypeOK
  <2>3. PICK from \in {head[c], moved} :
           LET k == TargetFrom(c, from) - from
           IN  /\ chunk' = [chunk EXCEPT ![c] =
                              [i \in 0 .. k - 1 |-> buf[from + i]]]
               /\ want' = [want EXCEPT ![c] = @ - k]
               /\ \/ head' = [head EXCEPT ![c] = (moved + k) % len]
                  \/ head' = [head EXCEPT ![c] = moved]
    BY <1>3 DEF ReadChunkRaced
  <2>. DEFINE k == TargetFrom(c, from) - from
  <2>4. from \in Positions
    BY <2>2, <2>3
  <2>5. k \in 1 .. len /\ from + k =< len /\ want[c] - k \in Nat
    <3>1. /\ k \in 1 .. len
          /\ TargetFrom(c, from) =< len
          /\ want[c] - k \in Nat
      BY <1>1, <2>1, <2>4, CopyFromAnywhere
    <3>2. TargetFrom(c, from) \in Int
      <4>1. want[c] \in Nat /\ tail \in Int /\ from \in Int
        BY <1>1, <2>4 DEF TypeOK, Positions
      <4>. QED
        BY <4>1 DEF TargetFrom
    <3>3. from \in Int
      BY <2>4 DEF Positions
    <3>. QED
      BY <3>1, <3>2, <3>3
  <2>. HIDE DEF moved, k
  <2>6. (moved + k) % len \in Positions
    BY <2>2, <2>5, AroundTheRing
  <2>7. /\ head'[c] \in Positions
        /\ head' \in [Clients -> Positions \union {-1}]
        /\ \A d \in Clients : d # c => head'[d] = head[d]
    BY <1>1, <2>2, <2>3, <2>6 DEF TypeOK, k
  <2>8. want' = [want EXCEPT ![c] = want[c] - k]
    BY <2>3 DEF k
  <2>9. want' \in [Clients -> Nat]
    BY <1>1, <2>5, <2>8 DEF TypeOK
  <2>10. chunk' = [chunk EXCEPT ![c] = [i \in 0 .. k - 1 |-> buf[from + i]]]
    BY <2>3 DEF k
  <2>11. [i \in 0 .. k - 1 |-> buf[from + i]] \in [0 .. k - 1 -> Bytes]
    <3>1. ASSUME NEW i \in 0 .. k - 1 PROVE buf[from + i] \in Bytes
      <4>1. from + i \in Positions
        BY <2>4, <2>5 DEF Positions
      <4>. QED
        BY <1>1, <4>1 DEF TypeOK
    <3>. QED
      BY <3>1
  <2>12. /\ chunk' = [d \in Clients |-> chunk'[d]]
         /\ \A d \in Clients : d # c => chunk'[d] = chunk[d]
         /\ chunk'[c] \in [0 .. k - 1 -> Bytes]
    <3>1. chunk = [d \in Clients |-> chunk[d]]
      BY <1>1 DEF TypeOK
    <3>. QED
      BY <2>10, <2>11, <3>1
  <2>13. \A d \in Clients :
            chunk'[d] = NoBytes \/ \E j \in 1 .. len : chunk'[d] \in [0 .. j - 1 -> Bytes]
    BY <1>1, <2>5, <2>12 DEF TypeOK
  <2>14. TypeOK'
    BY <1>1, <2>1, <2>7, <2>9, <2>12, <2>13 DEF TypeOK
  <2>15. c \in Registered
    BY <2>1
  <2>. QED
    BY <1>1, <2>1, <2>7, <2>12, <2>14, <2>15 DEF ForeignFacts
<1>. QED
  BY <1>2, <1>3 DEF ForeignStep

LEMMA ForeignStepKeeps ==
  ASSUME IInv, ForeignStep
  PROVE  IInv'
<1>1. TypeOK' /\ ForeignFacts
  BY ForeignStepFacts
<1>2. UNCHANGED <<buf, tail, written, phase>> /\ Registered' = Registered
  BY <1>1 DEF ForeignFacts, Registered
<1>3. Lap' = Lap /\ RingHoldsNewest'
  BY <1>2 DEF IInv, Lap, RingHoldsNewest
<1>4. ASSUME NEW d \in Clients
      PROVE  /\ (d \notin strayed' /\ head'[d] # -1) =>
                  tail # -1 /\ (Lap = 0 => head'[d] =< tail)
             /\ phase[d] = "none" => head'[d] = -1
             /\ phase[d] = "reading" => head'[d] # -1
  <2>1. -1 \notin Positions
    BY DEF Positions
  <2>2. d \notin strayed' => head'[d] = head[d] /\ d \in Loyal
    BY <1>1 DEF ForeignFacts, Loyal
  <2>3. d \in strayed' => phase[d] # "none"
    BY <1>1 DEF ForeignFacts, Registered
  <2>4. head'[d] = head[d] \/ head'[d] \in Positions
    BY <1>1 DEF ForeignFacts
  <2>. QED
    BY <2>1, <2>2, <2>3, <2>4 DEF IInv, Loyal
<1>. QED
  BY <1>1, <1>2, <1>3, <1>4 DEF IInv, Loyal, ForeignFacts

LEMMA NextIInv == ASSUME IInv, [Next]_vars PROVE IInv'
<1>1. ASSUME NEW n \in 1 .. len, GetAVData(n) PROVE IInv'
  BY <1>1, WriteStep
<1>2. ASSUME NEW c \in Clients, ReadChunk(c) PROVE IInv'
  BY <1>2, ChunkStep
<1>3. ASSUME \/ Finish
             \/ \E c \in Clients : \/ MakeClient(c)
                                   \/ RegisterClient(c)
                                   \/ \E n \in ReadLens : ReadBegin(c, n)
                                   \/ ReadReturn(c)
                                   \/ DestroyHandle(c)
             \/ UNCHANGED vars
      PROVE  IInv'
  <2>1. UNCHANGED <<buf, tail, written>>
    BY <1>3 DEF Finish, MakeClient, RegisterClient, ReadBegin, ReadReturn,
                DestroyHandle, vars
  <2>2. Lap' = Lap /\ RingHoldsNewest'
    BY <2>1 DEF IInv, Lap, RingHoldsNewest
  <2>3. TypeOK'
    <3>. USE DEF IInv, TypeOK
    <3>1. CASE Finish \/ UNCHANGED vars
      BY <3>1 DEF Finish, vars
    <3>2. ASSUME NEW c \in Clients, MakeClient(c) PROVE TypeOK'
      BY <3>2 DEF MakeClient
    <3>3. ASSUME NEW c \in Clients, RegisterClient(c) PROVE TypeOK'
      BY <3>3 DEF RegisterClient
    <3>4. ASSUME NEW c \in Clients, NEW n \in ReadLens, ReadBegin(c, n)
          PROVE  TypeOK'
      BY <3>4 DEF ReadBegin
    <3>5. ASSUME NEW c \in Clients, ReadReturn(c) PROVE TypeOK'
      BY <3>5 DEF ReadReturn
    <3>6. ASSUME NEW c \in Clients, DestroyHandle(c) PROVE TypeOK'
      BY <3>6 DEF DestroyHandle
    <3>. QED
      BY <1>3, <3>1, <3>2, <3>3, <3>4, <3>5, <3>6
  <2>4. ASSUME NEW d \in Clients
        PROVE  /\ (d \notin strayed' /\ head'[d] # -1) =>
                    tail # -1 /\ (Lap = 0 => head'[d] =< tail)
               /\ d \in strayed' => phase'[d] \in {"idle", "reading"}
               /\ phase'[d] = "none" => head'[d] = -1
               /\ phase'[d] = "reading" => head'[d] # -1
    <3>1. Lap = 0 \/ Lap >= len
      BY DEF IInv
    <3>. QED
      BY <1>3 DEF IInv, Loyal, Registered, TypeOK, Positions, Finish,
                  MakeClient, RegisterClient, ReadBegin, ReadReturn,
                  DestroyHandle, vars
  <2>. QED
    BY <2>1, <2>2, <2>3, <2>4 DEF IInv, Loyal, Registered, TypeOK
<1>4. ASSUME ForeignStep PROVE IInv'
  BY <1>4, ForeignStepKeeps
<1>. QED
  BY <1>1, <1>2, <1>3, <1>4 DEF Next, ForeignStep

(* The strengthening is an invariant of the ring.                          *)
THEOREM RingInvariant == Spec => []IInv
<1>1. Init => IInv
  BY InitIInv
<1>2. IInv /\ [Next]_vars => IInv'
  BY NextIInv
<1>. QED
  BY <1>1, <1>2, PTL DEF Spec

-----------------------------------------------------------------------------
(* The byte at position h of a ring that w bytes were written to and whose *)
(* tail is t.                                                              *)
ByteAt(w, t, h) == IF h =< t THEN w - 1 - t + h ELSE w - 1 - t - len + h

(* The ring of w bytes with tail t is on its first lap or has been filled. *)
Filled(w, t) == /\ t \in -1 .. len - 1
                /\ t =< w - 1
                /\ w - 1 - t = 0 \/ w - 1 - t >= len

LEMMA ByteAtInWindow ==
  ASSUME NEW w \in Nat, NEW t \in Int, Filled(w, t),
         NEW h \in 0 .. len - 1, w - 1 - t = 0 => h =< t
  PROVE  ByteAt(w, t, h) \in Oldest(w) .. w - 1
BY DEF ByteAt, Filled, Oldest

(* What a write of n bytes, from position s to position u, does to a head  *)
(* h: GetAVData moves it exactly when its byte is gone, and the position   *)
(* it moves it to holds the oldest byte left.                              *)
LEMMA MovedPlace ==
  ASSUME NEW w \in Nat, NEW t \in Int, Filled(w, t), NEW n \in 1 .. len,
         NEW s \in Int, NEW u \in Int,
         \/ t + 1 < len /\ s = t + 1 /\ u = t + n /\ u < len
         \/ t + 1 = len /\ s = 0 /\ u = n - 1,
         NEW h \in 0 .. len - 1, w - 1 - t = 0 => h =< t,
         NEW g \in Int,
         \/ h >= s /\ h =< u /\ u + 1 = len /\ g = 0
         \/ h >= s /\ h =< u /\ u + 1 # len /\ g = u + 1
         \/ ~(h >= s /\ h =< u) /\ g = h
  PROVE  ByteAt(w + n, u, g) = IF ByteAt(w, t, h) < Oldest(w + n)
                               THEN Oldest(w + n) ELSE ByteAt(w, t, h)
<1>1. CASE h >= s /\ h =< u
  <2>1. g = IF u + 1 = len THEN 0 ELSE u + 1
    BY <1>1
  <2>2. ByteAt(w, t, h) < Oldest(w + n)
    BY <1>1 DEF ByteAt, Filled, Oldest
  <2>3. ByteAt(w + n, u, g) = Oldest(w + n)
    <3>1. CASE u + 1 = len
      BY <1>1, <2>1, <3>1 DEF ByteAt, Filled, Oldest
    <3>2. CASE u + 1 # len
      BY <1>1, <2>1, <3>2 DEF ByteAt, Filled, Oldest
    <3>. QED
      BY <3>1, <3>2
  <2>. QED
    BY <2>2, <2>3
<1>2. CASE ~(h >= s /\ h =< u)
  <2>1. g = h
    BY <1>2
  <2>2. ByteAt(w + n, u, h) = ByteAt(w, t, h)
    BY <1>2 DEF ByteAt, Filled
  <2>3. ~(ByteAt(w, t, h) < Oldest(w + n))
    BY <1>2 DEF ByteAt, Filled, Oldest
  <2>. QED
    BY <2>1, <2>2, <2>3
<1>. QED
  BY <1>1, <1>2

(* A head the write does not move points to the same byte or, when that    *)
(* byte was overwritten, to a newer one.                                   *)
LEMMA UnmovedPlace ==
  ASSUME NEW w \in Nat, NEW t \in Int, Filled(w, t), NEW n \in 1 .. len,
         NEW u \in Int,
         \/ t + 1 < len /\ u = t + n /\ u < len
         \/ t + 1 = len /\ u = n - 1,
         NEW h \in 0 .. len - 1, w - 1 - t = 0 => h =< t
  PROVE  \/ ByteAt(w + n, u, h) = ByteAt(w, t, h)
         \/ /\ ByteAt(w, t, h) < Oldest(w + n)
            /\ ByteAt(w + n, u, h) > ByteAt(w, t, h)
BY DEF ByteAt, Filled, Oldest

(* What the invariant says of a client's place, in one state and in the    *)
(* next one.                                                               *)
PlaceFacts(c) ==
  (c \notin strayed /\ head[c] # -1) =>
     /\ head[c] \in 0 .. len - 1
     /\ written \in Nat /\ tail \in Int /\ Filled(written, tail)
     /\ written - 1 - tail = 0 => head[c] =< tail
     /\ Place(c) = ByteAt(written, tail, head[c])
     /\ Place(c) \in Oldest(written) .. written - 1
     /\ Place(c) \in Nat

LEMMA PlaceIsByteAt == IInv => \A c \in Clients : PlaceFacts(c)
<1>. SUFFICES ASSUME IInv, NEW c \in Clients, c \notin strayed, head[c] # -1
              PROVE  PlaceFacts(c)
  BY DEF PlaceFacts
<1>1. /\ head[c] \in 0 .. len - 1
      /\ head[c] \in Positions
      /\ written \in Nat
      /\ tail \in -1 .. len - 1
      /\ written - 1 - tail = 0 => head[c] =< tail
      /\ written - 1 - tail = 0 \/ written - 1 - tail >= len
  BY DEF IInv, Loyal, TypeOK, Positions, Lap
<1>2. Filled(written, tail)
  BY <1>1 DEF Filled
<1>3. buf[head[c]] = ByteAt(written, tail, head[c])
  BY <1>1 DEF IInv, RingHoldsNewest, ByteAt
<1>4. ByteAt(written, tail, head[c]) \in Oldest(written) .. written - 1
  BY <1>1, <1>2, ByteAtInWindow
<1>5. Oldest(written) \in Nat
  BY <1>1 DEF Oldest
<1>. QED
  BY <1>1, <1>2, <1>3, <1>4, <1>5 DEF Place, PlaceFacts

LEMMA NextPlaceIsByteAt == (IInv => \A c \in Clients : PlaceFacts(c))'
  BY PlaceIsByteAt, PTL

-----------------------------------------------------------------------------
(* Where a write leaves the clients.                                       *)
LEMMA WritePlaces ==
  ASSUME IInv, NEW n \in 1 .. len, GetAVData(n),
         NEW c \in Clients, c \notin strayed
  PROVE  /\ (c \in Registered /\ head[c] # -1) =>
              /\ head'[c] # -1
              /\ Place(c)' = IF Place(c) < Oldest(written')
                             THEN Oldest(written') ELSE Place(c)
         /\ (c \in Registered /\ head[c] = -1) =>
              Place(c)' \in Oldest(written') .. written' - 1
         /\ c \notin Registered =>
              \/ Place(c)' = Place(c)
              \/ /\ Place(c) # NoByte
                 /\ Place(c) < Oldest(written')
                 /\ Place(c)' > Place(c)
                 /\ Place(c)' \in Oldest(written') .. written' - 1
<1>1. IInv'
  BY WriteStep
<1>2. TypeOK /\ n =< len - WriteStart
  BY DEF IInv, GetAVData
<1>3. \/ /\ tail + 1 < len
         /\ WriteStart = tail + 1
         /\ (tail + n) % len = tail + n
         /\ tail + n < len
      \/ /\ tail + 1 = len
         /\ WriteStart = 0
         /\ (tail + n) % len = n - 1
  BY <1>2, WriteSplits
<1>4. /\ tail' = (tail + n) % len
      /\ written' = written + n
      /\ head'[c] = IF c \in Registered
                    THEN MovedHead(head[c], WriteStart, tail') ELSE head[c]
  BY DEF GetAVData
<1>5. /\ tail \in -1 .. len - 1
      /\ written \in Nat
      /\ tail' \in 0 .. len - 1
      /\ WriteStart \in 0 .. len - 1
  <2>1. tail \in -1 .. len - 1 /\ written \in Nat
    BY <1>2 DEF TypeOK, Positions
  <2>. QED
    BY <1>3, <1>4, <2>1
<1>6. (tail' + 1) % len = IF tail' + 1 = len THEN 0 ELSE tail' + 1
  BY <1>5, NextPosition
<1>7. head'[c] # -1 => /\ Place(c)' = ByteAt(written + n, tail', head'[c])
                       /\ Place(c)' \in Oldest(written') .. written' - 1
  <2>1. PlaceFacts(c)' /\ strayed' = strayed
    BY <1>1, NextPlaceIsByteAt DEF GetAVData
  <2>. QED
    BY <1>4, <2>1 DEF PlaceFacts
<1>8. ASSUME c \in Registered, head[c] # -1
      PROVE  /\ head'[c] # -1
             /\ Place(c)' = IF Place(c) < Oldest(written')
                            THEN Oldest(written') ELSE Place(c)
  <2>1. /\ head[c] \in 0 .. len - 1
        /\ Filled(written, tail)
        /\ written - 1 - tail = 0 => head[c] =< tail
        /\ Place(c) = ByteAt(written, tail, head[c])
    BY <1>8, PlaceIsByteAt DEF PlaceFacts
  <2>2. \/ /\ head[c] >= WriteStart /\ head[c] =< tail'
           /\ tail' + 1 = len /\ head'[c] = 0
        \/ /\ head[c] >= WriteStart /\ head[c] =< tail'
           /\ tail' + 1 # len /\ head'[c] = tail' + 1
        \/ /\ ~(head[c] >= WriteStart /\ head[c] =< tail')
           /\ head'[c] = head[c]
    BY <1>4, <1>6, <1>8 DEF MovedHead
  <2>3. head'[c] \in 0 .. len - 1
    <3>1. head[c] \in 0 .. len - 1
      BY <2>1
    <3>. QED
      BY <1>5, <2>2, <3>1
  <2>4. ByteAt(written + n, tail', head'[c]) =
          IF ByteAt(written, tail, head[c]) < Oldest(written + n)
          THEN Oldest(written + n) ELSE ByteAt(written, tail, head[c])
    <3>. DEFINE g == head'[c]
                u == tail'
    <3>1. g \in Int /\ u \in Int /\ WriteStart \in Int /\ tail \in Int
      BY <1>3, <1>5, <2>3
    <3>2. \/ tail + 1 < len /\ WriteStart = tail + 1 /\ u = tail + n /\ u < len
          \/ tail + 1 = len /\ WriteStart = 0 /\ u = n - 1
      BY <1>3, <1>4
    <3>3. \/ head[c] >= WriteStart /\ head[c] =< u /\ u + 1 = len /\ g = 0
          \/ head[c] >= WriteStart /\ head[c] =< u /\ u + 1 # len /\ g = u + 1
          \/ ~(head[c] >= WriteStart /\ head[c] =< u) /\ g = head[c]
      BY <2>2
    <3>. HIDE DEF g, u
    <3>4. ByteAt(written + n, u, g) =
            IF ByteAt(written, tail, head[c]) < Oldest(written + n)
            THEN Oldest(written + n) ELSE ByteAt(written, tail, head[c])
      BY <1>5, <2>1, <3>1, <3>2, <3>3, MovedPlace
    <3>. QED
      BY <3>4 DEF g, u
  <2>. QED
    BY <1>4, <1>7, <2>1, <2>3, <2>4
<1>9. ASSUME c \in Registered, head[c] = -1
      PROVE  Place(c)' \in Oldest(written') .. written' - 1
  <2>1. head'[c] = 0
    BY <1>4, <1>9 DEF MovedHead
  <2>. QED
    BY <1>7, <2>1
<1>10. ASSUME c \notin Registered
       PROVE  \/ Place(c)' = Place(c)
              \/ /\ Place(c) # NoByte
                 /\ Place(c) < Oldest(written')
                 /\ Place(c)' > Place(c)
                 /\ Place(c)' \in Oldest(written') .. written' - 1
  <2>1. head'[c] = head[c]
    BY <1>4, <1>10
  <2>2. CASE head[c] = -1
    BY <2>1, <2>2 DEF Place
  <2>3. CASE head[c] # -1
    <3>1. /\ head[c] \in 0 .. len - 1
          /\ Filled(written, tail)
          /\ written - 1 - tail = 0 => head[c] =< tail
          /\ Place(c) = ByteAt(written, tail, head[c])
          /\ Place(c) \in Nat
      BY <2>3, PlaceIsByteAt DEF PlaceFacts
    <3>2. \/ ByteAt(written + n, tail', head[c]) = ByteAt(written, tail, head[c])
          \/ /\ ByteAt(written, tail, head[c]) < Oldest(written + n)
             /\ ByteAt(written + n, tail', head[c]) >
                  ByteAt(written, tail, head[c])
      <4>. DEFINE u == tail'
      <4>1. u \in Int /\ tail \in Int
        BY <1>5
      <4>2. \/ tail + 1 < len /\ u = tail + n /\ u < len
            \/ tail + 1 = len /\ u = n - 1
        BY <1>3, <1>4
      <4>. HIDE DEF u
      <4>3. \/ ByteAt(written + n, u, head[c]) = ByteAt(written, tail, head[c])
            \/ /\ ByteAt(written, tail, head[c]) < Oldest(written + n)
               /\ ByteAt(written + n, u, head[c]) >
                    ByteAt(written, tail, head[c])
        BY <1>5, <3>1, <4>1, <4>2, UnmovedPlace
      <4>. QED
        BY <4>3 DEF u
    <3>3. Place(c) # NoByte
      BY <3>1 DEF NoByte
    <3>. QED
      BY <1>4, <1>7, <2>1, <2>3, <3>1, <3>2, <3>3
  <2>. QED
    BY <2>2, <2>3
<1>. QED
  BY <1>8, <1>9, <1>10

(* What one memcpy of Read hands out and where it leaves the client.       *)
LEMMA ChunkPlaces ==
  ASSUME IInv, NEW c \in Clients, ReadChunk(c), c \notin strayed
  PROVE  LET k == ReadTarget(c) - head[c]
         IN  /\ k \in 1 .. len
             /\ Place(c) \in Nat
             /\ chunk' = [chunk EXCEPT ![c] = [i \in 0 .. k - 1 |-> Place(c) + i]]
             /\ Place(c)' = Place(c) + k
             /\ Place(c) + k < written
             /\ want'[c] = want[c] - k
<1>. DEFINE target == ReadTarget(c)
            k      == target - head[c]
<1>1. /\ TypeOK
      /\ head[c] # -1
      /\ MoreToCopy(c)
  BY DEF IInv, ReadChunk
<1>2. PlaceFacts(c)
  BY PlaceIsByteAt
<1>3. /\ head[c] \in 0 .. len - 1
      /\ tail \in 0 .. len - 1
      /\ written \in Nat
      /\ want[c] \in Nat
      /\ head[c] # tail
      /\ written - 1 - tail = 0 => head[c] =< tail
      /\ Place(c) = ByteAt(written, tail, head[c])
      /\ Place(c) \in Nat
  <2>1. tail # -1 /\ tail \in -1 .. len - 1
    BY <1>1 DEF IInv, Loyal, TypeOK, Positions
  <2>2. want[c] \in Nat /\ head[c] # tail
    BY <1>1 DEF TypeOK, MoreToCopy
  <2>. QED
    BY <1>1, <1>2, <2>1, <2>2 DEF PlaceFacts
<1>4. /\ target \in head[c] + 1 .. len
      /\ target =< head[c] + want[c]
      /\ tail > head[c] => target =< tail
      /\ target < len => (head[c] + k) % len = target
      /\ target = len => (head[c] + k) % len = 0
  BY <1>1, CopyBounds
<1>5. k \in 1 .. len
  BY <1>3, <1>4
<1>6. /\ head' = [head EXCEPT ![c] = (head[c] + k) % len]
      /\ want' = [want EXCEPT ![c] = want[c] - k]
      /\ chunk' = [chunk EXCEPT ![c] = [i \in 0 .. k - 1 |-> buf[head[c] + i]]]
      /\ UNCHANGED <<buf, tail, written, strayed>>
  BY DEF ReadChunk
<1>7. written - 1 - tail = 0 \/ written - 1 - tail >= len
  BY DEF IInv, Lap
<1>8. ASSUME NEW i \in 0 .. k - 1 PROVE buf[head[c] + i] = Place(c) + i
  <2>1. head[c] + i \in Positions /\ head[c] + i \in 0 .. len - 1
        /\ head[c] + i < target
    BY <1>3, <1>4, <1>5 DEF Positions
  <2>2. buf[head[c] + i] =
          IF head[c] + i =< tail THEN written - 1 - tail + (head[c] + i)
          ELSE IF written - 1 - tail >= len
               THEN written - 1 - tail - len + (head[c] + i) ELSE NoByte
    BY <2>1 DEF IInv, RingHoldsNewest
  <2>3. CASE head[c] < tail
    BY <1>3, <1>4, <2>1, <2>2, <2>3 DEF ByteAt
  <2>4. CASE head[c] > tail
    BY <1>3, <1>4, <1>7, <2>1, <2>2, <2>4 DEF ByteAt
  <2>. QED
    BY <1>3, <2>3, <2>4
<1>9. [i \in 0 .. k - 1 |-> buf[head[c] + i]] = [i \in 0 .. k - 1 |-> Place(c) + i]
  BY <1>8
<1>10. head'[c] = (head[c] + k) % len /\ head'[c] # -1
  <2>1. head'[c] = (head[c] + k) % len
    BY <1>1, <1>6 DEF TypeOK
  <2>2. (head[c] + k) % len # -1
    BY <1>3, <1>4
  <2>. QED
    BY <2>1, <2>2
<1>11. /\ Place(c)' = ByteAt(written, tail, (head[c] + k) % len)
       /\ Place(c)' < written
  <2>1. PlaceFacts(c)'
    BY ChunkStep, NextPlaceIsByteAt
  <2>2. /\ Place(c)' = ByteAt(written', tail', head'[c])
        /\ Place(c)' \in Oldest(written') .. written' - 1
    BY <1>6, <1>10, <2>1 DEF PlaceFacts
  <2>3. Oldest(written) \in Nat
    BY <1>3 DEF Oldest
  <2>. QED
    BY <1>3, <1>6, <1>10, <2>2, <2>3
<1>12. ByteAt(written, tail, (head[c] + k) % len) = Place(c) + k
  <2>1. CASE target < len
    <3>1. CASE head[c] < tail
      BY <1>3, <1>4, <2>1, <3>1 DEF ByteAt
    <3>2. CASE head[c] > tail
      BY <1>3, <1>4, <2>1, <3>2 DEF ByteAt
    <3>. QED
      BY <1>3, <3>1, <3>2
  <2>2. CASE target = len
    BY <1>3, <1>4, <2>2 DEF ByteAt
  <2>. QED
    BY <1>3, <1>4, <2>1, <2>2
<1>13. want'[c] = want[c] - k
  BY <1>1, <1>6 DEF TypeOK
<1>. QED
  BY <1>3, <1>5, <1>6, <1>9, <1>11, <1>12, <1>13

(* A memcpy moves no other client, whoever copies.                         *)
LEMMA ChunkLeavesOthers ==
  ASSUME IInv, NEW c \in Clients, ReadChunk(c), NEW d \in Clients, d # c
  PROVE  Place(d)' = Place(d)
<1>1. head \in [Clients -> Positions \union {-1}]
  BY DEF IInv, TypeOK
<1>2. head'[d] = head[d] /\ buf' = buf
  BY <1>1 DEF ReadChunk
<1>. QED
  BY <1>2 DEF Place

(* A step that neither writes nor copies moves no client that stays open.  *)
LEMMA OtherPlaces ==
  ASSUME IInv, NEW c \in Clients,
         \/ Finish
         \/ \E d \in Clients : \/ MakeClient(d)
                               \/ RegisterClient(d)
                               \/ \E n \in ReadLens : ReadBegin(d, n)
                               \/ ReadReturn(d)
                               \/ DestroyHandle(d)
         \/ UNCHANGED vars
  PROVE  /\ written' = written
         /\ chunk'[c] = chunk[c] \/ chunk'[c] = NoBytes
         /\ (phase[c] # "none" /\ phase'[c] # "none") => Place(c)' = Place(c)
<1>. USE DEF IInv, TypeOK
<1>1. CASE Finish \/ UNCHANGED vars
  BY <1>1 DEF Finish, vars, Place
<1>2. ASSUME NEW d \in Clients, MakeClient(d)
      PROVE  /\ written' = written
             /\ chunk'[c] = chunk[c] \/ chunk'[c] = NoBytes
             /\ (phase[c] # "none" /\ phase'[c] # "none") =>
                  Place(c)' = Place(c)
  <2>1. CASE c = d
    BY <1>2, <2>1 DEF MakeClient
  <2>2. CASE c # d
    BY <1>2, <2>2 DEF MakeClient, Place
  <2>. QED
    BY <2>1, <2>2
<1>3. ASSUME NEW d \in Clients, RegisterClient(d)
      PROVE  written' = written /\ Place(c)' = Place(c) /\ chunk'[c] = chunk[c]
  BY <1>3 DEF RegisterClient, Place
<1>4. ASSUME NEW d \in Clients, NEW n \in ReadLens, ReadBegin(d, n)
      PROVE  written' = written /\ Place(c)' = Place(c) /\ chunk'[c] = chunk[c]
  BY <1>4 DEF ReadBegin, Place
<1>5. ASSUME NEW d \in Clients, ReadReturn(d)
      PROVE  /\ written' = written /\ Place(c)' = Place(c)
             /\ chunk'[c] = chunk[c] \/ chunk'[c] = NoBytes
  BY <1>5 DEF ReadReturn, Place
<1>6. ASSUME NEW d \in Clients, DestroyHandle(d)
      PROVE  /\ written' = written
             /\ chunk'[c] = chunk[c] \/ chunk'[c] = NoBytes
             /\ (phase[c] # "none" /\ phase'[c] # "none") =>
                  Place(c)' = Place(c)
  <2>1. CASE c = d
    BY <1>6, <2>1 DEF DestroyHandle
  <2>2. CASE c # d
    BY <1>6, <2>2 DEF DestroyHandle, Place
  <2>. QED
    BY <2>1, <2>2
<1>. QED
  BY <1>1, <1>2, <1>3, <1>4, <1>5, <1>6

-----------------------------------------------------------------------------
(* The variables keep their types.                                         *)
THEOREM TypeCorrect == Spec => []TypeOK
<1>1. IInv => TypeOK
  BY DEF IInv
<1>. QED
  BY <1>1, RingInvariant, PTL

(* GetAVData keeps the newest len bytes of the stream in the ring, in      *)
(* order, whatever the sizes of the reads from the stream.                 *)
THEOREM RingCorrect == Spec => []RingHoldsNewest
<1>1. IInv => RingHoldsNewest
  BY DEF IInv
<1>. QED
  BY <1>1, RingInvariant, PTL

(* No client is ever at a position GetAVData did not fill, unless another  *)
(* ring of the stream moved it there.                                      *)
THEOREM HeadsCorrect == Spec => []HeadsAtWrittenBytes
<1>1. IInv => HeadsAtWrittenBytes
  <2>. SUFFICES ASSUME IInv, NEW c \in Loyal, head[c] # -1
                PROVE  buf[head[c]] # NoByte
    BY DEF HeadsAtWrittenBytes
  <2>0. c \in Clients /\ c \notin strayed
    BY DEF Loyal
  <2>1. Place(c) \in Nat /\ Place(c) = buf[head[c]]
    BY <2>0, PlaceIsByteAt DEF PlaceFacts, Place
  <2>. QED
    BY <2>1 DEF NoByte
<1>. QED
  BY <1>1, RingInvariant, PTL

(* Every step is a write, a memcpy, one for another ring of the stream or  *)
(* one of the others.                                                      *)
OtherStep ==
  \/ Finish
  \/ \E d \in Clients : \/ MakeClient(d)
                        \/ RegisterClient(d)
                        \/ \E n \in ReadLens : ReadBegin(d, n)
                        \/ ReadReturn(d)
                        \/ DestroyHandle(d)
  \/ UNCHANGED vars

LEMMA StepKinds ==
  [Next]_vars => \/ \E n \in 1 .. len : GetAVData(n)
                 \/ \E c \in Clients : ReadChunk(c)
                 \/ ForeignStep
                 \/ OtherStep
BY DEF Next, OtherStep, ForeignStep

(* A step for another ring leaves the clients alone whose head it does not *)
(* move.                                                                   *)
LEMMA ForeignPlaces ==
  ASSUME IInv, ForeignStep, NEW c \in Clients, c \notin strayed'
  PROVE  /\ UNCHANGED <<written, phase>>
         /\ c \notin strayed
         /\ chunk'[c] = chunk[c]
         /\ Place(c)' = Place(c)
BY ForeignStepFacts DEF ForeignFacts, Place

(* A client another ring has moved has left its place for good: only the   *)
(* end of the client takes it out of strayed.                              *)
LEMMA StrayedStays ==
  ASSUME [Next]_vars, NEW c \in Clients, c \notin strayed', phase'[c] # "none",
         TypeOK
  PROVE  c \notin strayed
<1>1. ASSUME NEW d \in Clients, DestroyHandle(d) PROVE c \notin strayed
  BY <1>1 DEF DestroyHandle, TypeOK
<1>2. ASSUME NEW d \in Clients,
             \/ MakeClient(d) \/ RegisterClient(d) \/ ReadChunk(d) \/ ReadReturn(d)
             \/ \E n \in ReadLens : ReadBegin(d, n)
      PROVE  c \notin strayed
  BY <1>2 DEF MakeClient, RegisterClient, ReadChunk, ReadReturn, ReadBegin
<1>3. ASSUME (\E n \in 1 .. len : GetAVData(n)) \/ Finish \/ UNCHANGED vars
      PROVE  c \notin strayed
  BY <1>3 DEF GetAVData, Finish, vars
<1>4. ASSUME ForeignStep PROVE c \notin strayed
  BY <1>4 DEF ForeignStep, OtherGetAVData, ReadChunkRaced
<1>. QED
  BY <1>1, <1>2, <1>3, <1>4 DEF Next, ForeignStep

(* A registered client loses a byte only to a write that overwrites it.    *)
THEOREM LossOnlyByOverrun == Spec => LosesOnlyOverrun
<1>1. ASSUME IInv, [Next]_vars
      PROVE  \A c \in Registered \ strayed' :
               (phase'[c] # "none" /\ Place(c) # NoByte) =>
                  Place(c)' = IF Place(c) < Oldest(written')
                              THEN Oldest(written') ELSE Place(c) + Handed(c)
  <2>. SUFFICES ASSUME NEW c \in Registered \ strayed', phase'[c] # "none",
                       Place(c) # NoByte
                PROVE  Place(c)' = IF Place(c) < Oldest(written')
                                   THEN Oldest(written')
                                   ELSE Place(c) + Handed(c)
    OBVIOUS
  <2>1. c \in Clients /\ head[c] # -1 /\ c \notin strayed /\ phase[c] # "none"
    BY <1>1, StrayedStays DEF Registered, Place, IInv
  <2>2. /\ Place(c) \in Nat /\ written \in Nat
        /\ Place(c) \in Oldest(written) .. written - 1
        /\ want[c] \in Nat /\ want \in [Clients -> Nat]
        /\ Oldest(written) \in Nat
    <3>1. PlaceFacts(c) /\ want \in [Clients -> Nat]
      BY <1>1, <2>1, PlaceIsByteAt DEF IInv, TypeOK
    <3>. QED
      BY <2>1, <3>1 DEF PlaceFacts, Oldest
  <2>3. ASSUME NEW n \in 1 .. len, GetAVData(n)
        PROVE  Place(c)' = IF Place(c) < Oldest(written')
                           THEN Oldest(written') ELSE Place(c) + Handed(c)
    <3>1. phase[c] # "reading"
      BY <2>1, <2>3 DEF GetAVData, RingLockFree
    <3>2. Handed(c) = 0
      BY <3>1 DEF Handed
    <3>3. Place(c)' = IF Place(c) < Oldest(written')
                      THEN Oldest(written') ELSE Place(c)
      BY <1>1, <2>1, <2>3, WritePlaces
    <3>. QED
      BY <2>2, <3>2, <3>3
  <2>4. ASSUME written' = written, Place(c)' = Place(c) + Handed(c)
        PROVE  Place(c)' = IF Place(c) < Oldest(written')
                           THEN Oldest(written') ELSE Place(c) + Handed(c)
    <3>1. Oldest(written') = Oldest(written)
      BY <2>4
    <3>2. ~(Place(c) < Oldest(written))
      BY <2>2
    <3>. QED
      BY <2>4, <3>1, <3>2
  <2>5. ASSUME written' = written, Place(c)' = Place(c), Handed(c) = 0
        PROVE  Place(c)' = IF Place(c) < Oldest(written')
                           THEN Oldest(written') ELSE Place(c) + Handed(c)
    <3>1. Place(c)' = Place(c) + Handed(c)
      BY <2>2, <2>5
    <3>. QED
      BY <2>4, <2>5, <3>1
  <2>6. ASSUME NEW d \in Clients, ReadChunk(d)
        PROVE  Place(c)' = IF Place(c) < Oldest(written')
                           THEN Oldest(written') ELSE Place(c) + Handed(c)
    <3>0. written' = written /\ phase' = phase /\ phase[d] = "reading"
      BY <2>6 DEF ReadChunk
    <3>1. CASE c = d
      <4>. DEFINE k == ReadTarget(c) - head[c]
      <4>1. k \in 1 .. len /\ Place(c)' = Place(c) + k /\ want'[c] = want[c] - k
        BY <1>1, <2>1, <2>6, <3>1, ChunkPlaces
      <4>. HIDE DEF k
      <4>2. Handed(c) = k
        BY <2>2, <3>0, <3>1, <4>1 DEF Handed
      <4>. QED
        BY <2>4, <3>0, <4>1, <4>2
    <3>2. CASE c # d
      <4>1. Place(c)' = Place(c)
        BY <1>1, <2>1, <2>6, <3>2, ChunkLeavesOthers
      <4>2. want'[c] = want[c]
        BY <2>1, <2>2, <2>6, <3>2 DEF ReadChunk
      <4>3. Handed(c) = 0
        BY <2>2, <4>2 DEF Handed
      <4>. QED
        BY <2>5, <3>0, <4>1, <4>3
    <3>. QED
      BY <3>1, <3>2
  <2>7. ASSUME ForeignStep
        PROVE  Place(c)' = IF Place(c) < Oldest(written')
                           THEN Oldest(written') ELSE Place(c) + Handed(c)
    <3>1. written' = written /\ Place(c)' = Place(c)
      BY <1>1, <2>1, <2>7, ForeignPlaces
    <3>2. Handed(c) = 0
      <4>1. CASE want'[c] = want[c]
        BY <2>2, <4>1 DEF Handed
      <4>2. CASE want'[c] # want[c]
        <5>1. PICK start \in Positions : \E next_tail \in start .. len - 1 :
                 \E d \in Clients : ReadChunkRaced(d, start, next_tail)
          BY <2>7, <4>2 DEF ForeignStep, OtherGetAVData
        <5>2. PICK next_tail \in start .. len - 1, d \in Clients :
                 ReadChunkRaced(d, start, next_tail)
          BY <5>1
        <5>3. d # c
          BY <5>2 DEF ReadChunkRaced
        <5>4. want'[c] = want[c]
          BY <2>1, <2>2, <5>2, <5>3 DEF ReadChunkRaced
        <5>. QED
          BY <4>2, <5>4
      <4>. QED
        BY <4>1, <4>2
    <3>. QED
      BY <2>5, <3>1, <3>2
  <2>8. ASSUME OtherStep
        PROVE  Place(c)' = IF Place(c) < Oldest(written')
                           THEN Oldest(written') ELSE Place(c) + Handed(c)
    <3>1. written' = written /\ Place(c)' = Place(c)
      BY <1>1, <2>1, <2>8, OtherPlaces DEF OtherStep
    <3>2. (phase[c] = "reading" /\ phase'[c] = "reading") => want'[c] = want[c]
      BY <1>1, <2>1, <2>2, <2>8
         DEF OtherStep, Finish, MakeClient, RegisterClient, ReadBegin, ReadReturn,
             DestroyHandle, vars, IInv, TypeOK
    <3>3. Handed(c) = 0
      BY <2>2, <3>2 DEF Handed
    <3>. QED
      BY <2>5, <3>1, <3>3
  <2>. QED
    BY <1>1, <2>3, <2>6, <2>7, <2>8, StepKinds
<1>. QED
  BY <1>1, RingInvariant, PTL DEF Spec, LosesOnlyOverrun

(* Nothing is delivered twice: a client's place never moves back.          *)
THEOREM PlacesNeverGoBack == Spec => NeverGoesBack
<1>1. ASSUME IInv, [Next]_vars
      PROVE  \A c \in Clients \ strayed' :
               (phase[c] # "none" /\ phase'[c] # "none") => Place(c)' >= Place(c)
  <2>. SUFFICES ASSUME NEW c \in Clients, c \notin strayed',
                       phase[c] # "none", phase'[c] # "none"
                PROVE  Place(c)' >= Place(c)
    OBVIOUS
  <2>0. c \notin strayed
    BY <1>1, StrayedStays DEF IInv
  <2>1. Place(c) \in Int /\ (head[c] # -1 => Place(c) \in Nat)
    <3>1. CASE head[c] = -1
      BY <3>1 DEF Place, NoByte
    <3>2. CASE head[c] # -1
      BY <1>1, <2>0, <3>2, PlaceIsByteAt DEF PlaceFacts
    <3>. QED
      BY <3>1, <3>2
  <2>2. ASSUME NEW n \in 1 .. len, GetAVData(n) PROVE Place(c)' >= Place(c)
    <3>1. written' \in Nat /\ Oldest(written') \in Nat
      <4>1. written' \in 0 .. MaxWritten
        BY <1>1, <2>2, WriteStep DEF IInv, TypeOK
      <4>. QED
        BY <4>1 DEF Oldest
    <3>2. CASE c \in Registered /\ head[c] # -1
      <4>1. Place(c)' = IF Place(c) < Oldest(written')
                        THEN Oldest(written') ELSE Place(c)
        BY <1>1, <2>0, <2>2, <3>2, WritePlaces
      <4>. QED
        BY <2>1, <3>1, <4>1
    <3>3. CASE c \in Registered /\ head[c] = -1
      <4>1. Place(c)' \in Oldest(written') .. written' - 1
        BY <1>1, <2>0, <2>2, <3>3, WritePlaces
      <4>2. Place(c) = -1
        BY <3>3 DEF Place, NoByte
      <4>. QED
        BY <3>1, <4>1, <4>2
    <3>4. CASE c \notin Registered
      <4>1. \/ Place(c)' = Place(c)
            \/ Place(c)' > Place(c) /\ Place(c)' \in Oldest(written') .. written' - 1
        BY <1>1, <2>0, <2>2, <3>4, WritePlaces
      <4>. QED
        BY <2>1, <3>1, <4>1
    <3>. QED
      BY <3>2, <3>3, <3>4
  <2>3. ASSUME NEW d \in Clients, ReadChunk(d) PROVE Place(c)' >= Place(c)
    <3>1. CASE c = d
      <4>. DEFINE k == ReadTarget(c) - head[c]
      <4>1. k \in 1 .. len /\ Place(c)' = Place(c) + k
        BY <1>1, <2>0, <2>3, <3>1, ChunkPlaces
      <4>. QED
        BY <2>1, <4>1
    <3>2. CASE c # d
      <4>1. Place(c)' = Place(c)
        BY <1>1, <2>3, <3>2, ChunkLeavesOthers
      <4>. QED
        BY <2>1, <4>1
    <3>. QED
      BY <3>1, <3>2
  <2>4. ASSUME OtherStep PROVE Place(c)' >= Place(c)
    <3>1. Place(c)' = Place(c)
      BY <1>1, <2>4, OtherPlaces DEF OtherStep
    <3>. QED
      BY <2>1, <3>1
  <2>5. ASSUME ForeignStep PROVE Place(c)' >= Place(c)
    <3>1. Place(c)' = Place(c)
      BY <1>1, <2>5, ForeignPlaces
    <3>. QED
      BY <2>1, <3>1
  <2>. QED
    BY <1>1, <2>2, <2>3, <2>4, <2>5, StepKinds
<1>. QED
  BY <1>1, RingInvariant, PTL DEF Spec, NeverGoesBack

(* Read hands out consecutive bytes, from the client's place on.           *)
THEOREM ReadsInOrder == Spec => CopiesInOrder
<1>1. ASSUME IInv, [Next]_vars
      PROVE  \A c \in Clients \ strayed' :
               (chunk'[c] # chunk[c] /\ chunk'[c] # NoBytes) =>
                  /\ \A i \in DOMAIN chunk'[c] : chunk'[c][i] = Place(c) + i
                  /\ Place(c)' < written
  <2>. SUFFICES ASSUME NEW c \in Clients, c \notin strayed',
                       chunk'[c] # chunk[c], chunk'[c] # NoBytes
                PROVE  /\ \A i \in DOMAIN chunk'[c] :
                             chunk'[c][i] = Place(c) + i
                       /\ Place(c)' < written
    OBVIOUS
  <2>0. chunk = [d \in Clients |-> chunk[d]] /\ want[c] \in Nat
    BY <1>1 DEF IInv, TypeOK
  <2>1. ASSUME NEW n \in 1 .. len, GetAVData(n) PROVE FALSE
    BY <2>1 DEF GetAVData
  <2>2. ASSUME NEW d \in Clients, ReadChunk(d)
        PROVE  /\ \A i \in DOMAIN chunk'[c] : chunk'[c][i] = Place(c) + i
               /\ Place(c)' < written
    <3>1. d = c /\ c \notin strayed
      BY <2>0, <2>2 DEF ReadChunk
    <3>. DEFINE k == ReadTarget(c) - head[c]
    <3>2. /\ k \in 1 .. len
          /\ Place(c) \in Nat
          /\ chunk' = [chunk EXCEPT ![c] = [i \in 0 .. k - 1 |-> Place(c) + i]]
          /\ Place(c)' = Place(c) + k
          /\ Place(c) + k < written
          /\ want'[c] = want[c] - k
      BY <1>1, <2>2, <3>1, ChunkPlaces
    <3>. HIDE DEF k
    <3>3. chunk'[c] = [i \in 0 .. k - 1 |-> Place(c) + i]
      BY <2>0, <3>2
    <3>. QED
      BY <3>2, <3>3
  <2>3. ASSUME OtherStep PROVE FALSE
    BY <1>1, <2>3, OtherPlaces DEF OtherStep
  <2>4. ASSUME ForeignStep PROVE FALSE
    BY <1>1, <2>4, ForeignPlaces
  <2>. QED
    BY <1>1, <2>1, <2>2, <2>3, <2>4, StepKinds
<1>. QED
  BY <1>1, RingInvariant, PTL DEF Spec, CopiesInOrder

-----------------------------------------------------------------------------
(* The ring implements the log: the next lemmas map the steps of the       *)
(* heartbeat, of a memcpy, those for another ring of the stream and the    *)
(* others to steps of LiveLog.                                             *)
StageOf == [c \in Clients |-> IF c \in strayed THEN "astray" ELSE Stage(c)]
PlaceOf == [c \in Clients |-> IF c \in strayed THEN NoByte ELSE Place(c)]
ChunkOf == [c \in Clients |-> IF c \in strayed THEN NoBytes ELSE chunk[c]]

LEMMA WriteRefines ==
  ASSUME IInv, NEW n \in 1 .. len, GetAVData(n)
  PROVE  Log!Append(n)
<1>1. /\ written' = written + n
      /\ written + n =< MaxWritten
      /\ UNCHANGED <<phase, chunk, strayed>>
  BY DEF GetAVData
<1>2. StageOf' = StageOf /\ ChunkOf' = ChunkOf
  BY <1>1 DEF StageOf, Stage, ChunkOf
<1>3. \A c \in Clients \ strayed : Log!Moved(c, written + n) =
        IF Place(c) \in Oldest(written') .. written' - 1 THEN {Place(c)}
        ELSE IF Place(c) = NoByte
             THEN (Oldest(written') .. written' - 1) \union
                     (IF Stage(c) = "in" THEN {} ELSE {NoByte})
             ELSE IF Stage(c) = "in" THEN {Oldest(written')}
                  ELSE Oldest(written') .. written' - 1
  <2>1. \A c \in Clients \ strayed : /\ PlaceOf[c] = Place(c)
                                      /\ StageOf[c] = Stage(c)
                                      /\ Stage(c) # "astray"
    BY DEF PlaceOf, StageOf, Stage
  <2>. QED
    BY <1>1, <2>1 DEF Log!Moved, Log!Window, Log!Oldest, Oldest, Log!NoByte,
                      NoByte, PlaceOf, StageOf
<1>4. written \in Nat /\ written' \in Nat /\ Oldest(written') \in Nat
      /\ Oldest(written') \in Oldest(written') .. written' - 1
  <2>1. written \in 0 .. MaxWritten
    BY DEF IInv, TypeOK
  <2>. QED
    BY <1>1, <2>1 DEF Oldest
<1>5. ASSUME NEW c \in Clients \ strayed
      PROVE  /\ Place(c)' \in Log!Moved(c, written + n)
             /\ Place(c)' \in (Oldest(written') .. written' - 1) \union {NoByte}
  <2>1. c \in Registered <=> Stage(c) = "in"
    BY DEF Registered, Stage, IInv, TypeOK
  <2>2. CASE head[c] = -1
    <3>1. Place(c) = NoByte /\ Place(c) \notin Oldest(written') .. written' - 1
      <4>1. Place(c) = NoByte /\ NoByte = -1
        BY <2>2 DEF Place, NoByte
      <4>2. \A x \in Oldest(written') .. written' - 1 : x # -1
        BY <1>4
      <4>. QED
        BY <4>1, <4>2
    <3>2. Place(c)' = Place(c) \/ Place(c)' \in Oldest(written') .. written' - 1
      BY <2>2, <3>1, WritePlaces
    <3>3. Stage(c) = "in" => Place(c)' \in Oldest(written') .. written' - 1
      BY <2>1, <2>2, WritePlaces
    <3>. QED
      BY <1>3, <3>1, <3>2, <3>3
  <2>3. CASE head[c] # -1
    <3>1. /\ Place(c) \in Nat
          /\ Place(c) \in Oldest(written) .. written - 1
          /\ Place(c) # NoByte
      BY <2>3, PlaceIsByteAt DEF PlaceFacts, NoByte
    <3>2. Place(c) \in Oldest(written') .. written' - 1
            <=> ~(Place(c) < Oldest(written'))
      BY <1>1, <1>4, <3>1
    <3>3. CASE c \in Registered
      <4>1. Place(c)' = IF Place(c) < Oldest(written')
                        THEN Oldest(written') ELSE Place(c)
        BY <2>3, <3>3, WritePlaces
      <4>. QED
        BY <1>3, <1>4, <2>1, <3>1, <3>2, <3>3, <4>1
    <3>4. CASE c \notin Registered
      <4>1. \/ Place(c)' = Place(c)
            \/ /\ Place(c) < Oldest(written')
               /\ Place(c)' \in Oldest(written') .. written' - 1
        BY <3>4, WritePlaces
      <4>2. IInv' /\ head'[c] # -1 /\ c \notin strayed'
        BY <1>1, <2>3, <3>4, WriteStep DEF GetAVData
      <4>3. Place(c)' \in Oldest(written') .. written' - 1
        BY <4>2, NextPlaceIsByteAt DEF PlaceFacts
      <4>. QED
        BY <1>3, <2>1, <3>1, <3>2, <3>4, <4>1, <4>3
    <3>. QED
      BY <3>3, <3>4
  <2>. QED
    BY <2>2, <2>3
<1>6. PlaceOf' \in [Clients -> Log!Window(written + n) \union {Log!NoByte}]
  BY <1>1, <1>5 DEF PlaceOf, Log!Window, Log!Oldest, Oldest, Log!NoByte, NoByte
<1>7. ASSUME NEW c \in Clients PROVE PlaceOf'[c] \in Log!Moved(c, written + n)
  <2>1. CASE c \in strayed
    <3>1. PlaceOf'[c] = NoByte
      BY <1>1, <2>1 DEF PlaceOf
    <3>. QED
      BY <2>1, <3>1 DEF Log!Moved, Log!NoByte, NoByte
  <2>2. CASE c \notin strayed
    BY <1>1, <1>5, <2>2 DEF PlaceOf
  <2>. QED
    BY <2>1, <2>2
<1>. QED
  BY <1>1, <1>2, <1>6, <1>7 DEF Log!Append, StageOf, PlaceOf, ChunkOf

LEMMA ChunkRefines ==
  ASSUME IInv, NEW c \in Clients, ReadChunk(c), c \notin strayed
  PROVE  \E k \in 1 .. len : Log!Deliver(c, k)
<1>. DEFINE k == ReadTarget(c) - head[c]
<1>1. /\ k \in 1 .. len
      /\ Place(c) \in Nat
      /\ chunk' = [chunk EXCEPT ![c] = [i \in 0 .. k - 1 |-> Place(c) + i]]
      /\ Place(c)' = Place(c) + k
      /\ Place(c) + k < written
      /\ \A d \in Clients : d # c => Place(d)' = Place(d)
  BY ChunkPlaces, ChunkLeavesOthers
<1>2. phase[c] = "reading" /\ UNCHANGED <<written, phase, strayed>>
  BY DEF ReadChunk
<1>. HIDE DEF k
<1>3. StageOf' = StageOf /\ StageOf[c] = "in"
  BY <1>2 DEF StageOf, Stage
<1>4. PlaceOf' = [PlaceOf EXCEPT ![c] = PlaceOf[c] + k] /\ PlaceOf[c] = Place(c)
  BY <1>1, <1>2 DEF PlaceOf
<1>7. ChunkOf' = [ChunkOf EXCEPT ![c] = [i \in 0 .. k - 1 |-> PlaceOf[c] + i]]
  <2>1. chunk = [d \in Clients |-> chunk[d]]
    BY DEF IInv, TypeOK
  <2>. QED
    BY <1>1, <1>2, <1>4, <2>1 DEF ChunkOf
<1>5. PlaceOf[c] # Log!NoByte /\ PlaceOf[c] + k < written
  BY <1>1, <1>4 DEF Log!NoByte
<1>6. Log!Deliver(c, k)
  BY <1>2, <1>3, <1>4, <1>5, <1>7, Zenon
     DEF Log!Deliver, StageOf, PlaceOf, ChunkOf
<1>8. k \in 1 .. len
  BY <1>1
<1>. QED
  BY <1>6, <1>8, Zenon DEF Log!Deliver

(* What Read copies for a client the log has given up is not its business. *)
LEMMA StrayedChunkHidden ==
  ASSUME IInv, NEW c \in Clients, ReadChunk(c), c \in strayed
  PROVE  UNCHANGED Log!vars
<1>1. /\ UNCHANGED <<written, phase, strayed>>
      /\ \A d \in Clients : d # c => Place(d)' = Place(d)
  BY ChunkLeavesOthers DEF ReadChunk
<1>2. \A d \in Clients : d # c => chunk'[d] = chunk[d]
  <2>1. chunk = [d \in Clients |-> chunk[d]]
    BY DEF IInv, TypeOK
  <2>. QED
    BY <2>1 DEF ReadChunk
<1>3. StageOf' = StageOf /\ PlaceOf' = PlaceOf /\ ChunkOf' = ChunkOf
  BY <1>1, <1>2 DEF StageOf, Stage, PlaceOf, ChunkOf
<1>. QED
  BY <1>1, <1>3 DEF Log!vars, StageOf, PlaceOf, ChunkOf

LEMMA ForeignGivesUp ==
  ASSUME IInv, ForeignStep
  PROVE  \E S \in SUBSET {c \in Clients : StageOf[c] = "in"} : Log!GiveUp(S)
<1>. DEFINE S == strayed' \ strayed
<1>1. ForeignFacts
  BY ForeignStepFacts
<1>2. UNCHANGED <<written, phase, buf>>
  BY <1>1 DEF ForeignFacts
<1>3. S \in SUBSET {c \in Clients : StageOf[c] = "in"}
  BY <1>1 DEF ForeignFacts, StageOf, Stage, Registered
<1>4. StageOf' = [c \in Clients |-> IF c \in S THEN "astray" ELSE StageOf[c]]
  BY <1>1, <1>2 DEF ForeignFacts, StageOf, Stage
<1>5. PlaceOf' = [c \in Clients |-> IF c \in S THEN Log!NoByte ELSE PlaceOf[c]]
  <2>1. \A c \in Clients : c \notin strayed' => Place(c)' = Place(c)
    BY <1>1, <1>2 DEF ForeignFacts, Place
  <2>. QED
    BY <1>1, <2>1 DEF ForeignFacts, PlaceOf, NoByte, Log!NoByte
<1>6. ChunkOf' = [c \in Clients |-> IF c \in S THEN Log!NoBytes ELSE ChunkOf[c]]
  <2>1. Log!NoBytes = NoBytes
    BY DEF NoByte, Log!NoByte, NoBytes, Log!NoBytes
  <2>. QED
    BY <1>1, <2>1 DEF ForeignFacts, ChunkOf
<1>. HIDE DEF S
<1>7. Log!GiveUp(S)
  BY <1>2, <1>4, <1>5, <1>6, Zenon DEF Log!GiveUp, StageOf, PlaceOf, ChunkOf
<1>. QED
  BY <1>3, <1>7, Zenon DEF Log!GiveUp

LEMMA OtherRefines ==
  ASSUME IInv, OtherStep
  PROVE  Log!Next \/ UNCHANGED Log!vars
<1>. USE DEF IInv, TypeOK
<1>1. CASE Finish \/ UNCHANGED vars
  <2>1. UNCHANGED <<written, phase, buf, head, chunk, strayed>>
    BY <1>1 DEF Finish, vars
  <2>. QED
    BY <2>1 DEF Log!vars, Stage, Place
<1>2. ASSUME NEW c \in Clients, MakeClient(c) PROVE Log!Join(c)
  <2>1. /\ phase' = [phase EXCEPT ![c] = "made"]
        /\ head' = [head EXCEPT ![c] = tail]
        /\ phase[c] = "none"
        /\ UNCHANGED <<buf, written, chunk, tail, strayed>>
        /\ c \notin strayed
    BY <1>2 DEF MakeClient, Registered
  <2>2. StageOf' = [StageOf EXCEPT ![c] = "joining"] /\ StageOf[c] = "out"
    BY <2>1 DEF StageOf, Stage
  <2>3. Place(c)' = written - 1
    <3>1. tail \in Positions \union {-1} /\ written \in Nat /\ head'[c] = tail
      BY <2>1
    <3>2. CASE tail = -1
      BY <2>1, <3>1, <3>2 DEF Place, NoByte
    <3>3. CASE tail # -1
      <4>1. buf[tail] = Lap + tail
        BY <3>1, <3>3 DEF RingHoldsNewest, Lap, Positions
      <4>2. Lap + tail = written - 1
        BY <3>1, <3>3 DEF Lap, Positions
      <4>. QED
        BY <2>1, <3>1, <3>3, <4>1, <4>2 DEF Place
    <3>. QED
      BY <3>2, <3>3
  <2>4. \A d \in Clients : d # c => Place(d)' = Place(d)
    BY <2>1 DEF Place
  <2>5. PlaceOf' = [PlaceOf EXCEPT ![c] = written - 1]
    BY <2>1, <2>3, <2>4 DEF PlaceOf
  <2>6. ChunkOf' = ChunkOf
    BY <2>1 DEF ChunkOf
  <2>. QED
    BY <2>1, <2>2, <2>5, <2>6 DEF Log!Join, StageOf, PlaceOf, ChunkOf
<1>3. ASSUME NEW c \in Clients, RegisterClient(c) PROVE Log!Enter(c)
  <2>1. /\ phase' = [phase EXCEPT ![c] = "idle"]
        /\ phase[c] = "made"
        /\ UNCHANGED <<buf, head, written, chunk, strayed>>
        /\ c \notin strayed
    BY <1>3 DEF RegisterClient, Registered
  <2>2. StageOf' = [StageOf EXCEPT ![c] = "in"] /\ StageOf[c] = "joining"
    BY <2>1 DEF StageOf, Stage
  <2>3. PlaceOf' = PlaceOf /\ ChunkOf' = ChunkOf
    BY <2>1 DEF PlaceOf, Place, ChunkOf
  <2>. QED
    BY <2>1, <2>2, <2>3 DEF Log!Enter, StageOf, PlaceOf, ChunkOf
<1>4. ASSUME NEW c \in Clients, NEW n \in ReadLens, ReadBegin(c, n)
      PROVE  UNCHANGED Log!vars
  <2>1. /\ phase' = [phase EXCEPT ![c] = "reading"]
        /\ phase[c] = "idle"
        /\ UNCHANGED <<buf, head, written, chunk, strayed>>
    BY <1>4 DEF ReadBegin
  <2>2. StageOf' = StageOf
    BY <2>1 DEF StageOf, Stage
  <2>3. PlaceOf' = PlaceOf /\ ChunkOf' = ChunkOf
    BY <2>1 DEF PlaceOf, Place, ChunkOf
  <2>. QED
    BY <2>1, <2>2, <2>3 DEF Log!vars, StageOf, PlaceOf, ChunkOf
<1>5. ASSUME NEW c \in Clients, ReadReturn(c) PROVE Log!Take(c) \/ UNCHANGED Log!vars
  <2>1. /\ phase' = [phase EXCEPT ![c] = "idle"]
        /\ phase[c] = "reading"
        /\ chunk' = [chunk EXCEPT ![c] = NoBytes]
        /\ UNCHANGED <<buf, head, written, strayed>>
    BY <1>5 DEF ReadReturn
  <2>2. StageOf' = StageOf
    BY <2>1 DEF StageOf, Stage
  <2>3. PlaceOf' = PlaceOf
    BY <2>1 DEF PlaceOf, Place
  <2>4. ChunkOf' = [ChunkOf EXCEPT ![c] = NoBytes]
    BY <2>1 DEF ChunkOf
  <2>. QED
    BY <2>1, <2>2, <2>3, <2>4
       DEF Log!Take, StageOf, PlaceOf, ChunkOf, Log!NoBytes, Log!NoByte, NoBytes,
           NoByte
<1>6. ASSUME NEW c \in Clients, DestroyHandle(c) PROVE Log!Leave(c)
  <2>1. /\ phase' = [phase EXCEPT ![c] = "none"]
        /\ phase[c] = "idle"
        /\ head' = [head EXCEPT ![c] = -1]
        /\ chunk' = [chunk EXCEPT ![c] = NoBytes]
        /\ strayed' = strayed \ {c}
        /\ UNCHANGED <<buf, written>>
    BY <1>6 DEF DestroyHandle
  <2>2. StageOf' = [StageOf EXCEPT ![c] = "out"] /\ StageOf[c] \in {"in", "astray"}
    BY <2>1 DEF StageOf, Stage
  <2>3. PlaceOf' = [PlaceOf EXCEPT ![c] = NoByte]
    BY <2>1 DEF PlaceOf, Place
  <2>4. ChunkOf' = [ChunkOf EXCEPT ![c] = NoBytes]
    BY <2>1 DEF ChunkOf
  <2>. QED
    BY <2>1, <2>2, <2>3, <2>4
       DEF Log!Leave, StageOf, PlaceOf, ChunkOf, Log!NoBytes, Log!NoByte, NoBytes,
           NoByte
<1>. QED
  BY <1>1, <1>2, <1>3, <1>4, <1>5, <1>6 DEF OtherStep, Log!Next

(* The ring buffer shared by the clients keeps the promise of LiveLog.     *)
THEOREM RingImplementsLog == Spec => ImplementsLiveLog
<1>1. Init => Log!Init
  BY DEF Init, Log!Init, Stage, Place, Log!NoByte, Log!NoBytes, NoBytes, NoByte
<1>2. ASSUME IInv, [Next]_vars PROVE [Log!Next]_Log!vars
  <2>1. ASSUME NEW n \in 1 .. len, GetAVData(n) PROVE Log!Next
    BY <1>2, <2>1, WriteRefines DEF Log!Next
  <2>2. ASSUME NEW c \in Clients, ReadChunk(c)
        PROVE  Log!Next \/ UNCHANGED Log!vars
    <3>1. CASE c \in strayed
      BY <1>2, <2>2, <3>1, StrayedChunkHidden
    <3>2. CASE c \notin strayed
      BY <1>2, <2>2, <3>2, ChunkRefines DEF Log!Next
    <3>. QED
      BY <3>1, <3>2
  <2>3. ASSUME OtherStep PROVE Log!Next \/ UNCHANGED Log!vars
    BY <1>2, <2>3, OtherRefines
  <2>4. ASSUME ForeignStep PROVE Log!Next
    BY <1>2, <2>4, ForeignGivesUp DEF Log!Next, StageOf
  <2>. QED
    BY <1>2, <2>1, <2>2, <2>3, <2>4, StepKinds
<1>. QED
  BY <1>1, <1>2, RingInvariant, PTL DEF Spec, ImplementsLiveLog, Log!Spec
-----------------------------------------------------------------------------
(* The ring is what MemoryStore takes it for: the heads of the clients that*)
(* GetAVData finds are behind the tail after a write, unless they had none.*)
HeadPlaceOf == [c \in Clients |-> HeadPlace(c)]
Stages      == [c \in Clients |-> Stage(c)]

LEMMA WriteMovesHeads ==
  ASSUME len > 1, IInv, NEW n \in 1 .. len, GetAVData(n), NEW c \in Clients
  PROVE  /\ HeadPlace(c)' \in Abstract!AfterFill(Stage(c) = "in", HeadPlace(c))
         /\ tail' # -1
<1>1. TypeOK /\ n =< len - WriteStart
  BY DEF IInv, GetAVData
<1>2. /\ tail \in -1 .. len - 1 /\ len \in Nat /\ n \in 1 .. len
      /\ head[c] \in -1 .. len - 1
  BY <1>1 DEF TypeOK, Positions
<1>. DEFINE s == WriteStart
            u == (tail + n) % len
<1>3. /\ tail' = u
      /\ head'[c] = IF c \in Registered THEN MovedHead(head[c], s, u) ELSE head[c]
  BY DEF GetAVData
<1>4. \/ tail + 1 < len /\ s = tail + 1 /\ u = tail + n /\ u < len
      \/ tail + 1 = len /\ s = 0 /\ u = n - 1
  BY <1>1, WriteSplits
<1>. HIDE DEF s, u
<1>5. u \in 0 .. len - 1
  BY <1>2, <1>4
<1>6. c \in Registered <=> Stage(c) = "in"
  BY <1>1 DEF Registered, Stage, TypeOK
<1>7. CASE c \in Registered /\ head[c] # -1
  <2>1. CASE head[c] >= s /\ head[c] =< u
    <3>1. head'[c] = (u + 1) % len
      BY <1>3, <1>7, <2>1 DEF MovedHead
    <3>2. (u + 1) % len = IF u + 1 = len THEN 0 ELSE u + 1
      BY <1>5, NextPosition
    <3>3. head'[c] # -1 /\ head'[c] # tail'
      BY <1>2, <1>3, <1>5, <3>1, <3>2
    <3>. QED
      BY <1>3, <1>5, <1>6, <1>7, <3>3 DEF HeadPlace, Abstract!AfterFill
  <2>2. CASE ~(head[c] >= s /\ head[c] =< u)
    <3>1. head'[c] = head[c]
      BY <1>3, <1>7, <2>2 DEF MovedHead
    <3>2. head'[c] # -1 /\ head'[c] # tail'
      BY <1>2, <1>3, <1>4, <1>7, <2>2, <3>1
    <3>. QED
      BY <1>3, <1>5, <1>6, <1>7, <3>2 DEF HeadPlace, Abstract!AfterFill
  <2>. QED
    BY <2>1, <2>2
<1>8. CASE c \in Registered /\ head[c] = -1
  <2>1. head'[c] = 0
    BY <1>3, <1>8 DEF MovedHead
  <2>. QED
    BY <1>3, <1>5, <1>6, <1>8, <2>1 DEF HeadPlace, Abstract!AfterFill
<1>9. CASE c \notin Registered
  <2>1. head'[c] = head[c]
    BY <1>3, <1>9
  <2>. QED
    BY <1>3, <1>5, <1>6, <1>9, <2>1 DEF HeadPlace, Abstract!AfterFill
<1>. QED
  BY <1>7, <1>8, <1>9

LEMMA WriteFills ==
  ASSUME len > 1, IInv, NEW n \in 1 .. len, GetAVData(n)
  PROVE  Abstract!FillData
<1>1. \A c \in Clients : HeadPlaceOf'[c] \in Abstract!AfterFill(Stage(c) = "in", HeadPlaceOf[c])
  BY WriteMovesHeads DEF HeadPlaceOf
<1>2. tail' # -1
  <2>1. tail' = (tail + n) % len /\ TypeOK /\ n =< len - WriteStart
    BY DEF GetAVData, IInv
  <2>2. tail \in -1 .. len - 1
    BY <2>1 DEF TypeOK, Positions
  <2>. QED
    BY <2>1, <2>2, WriteSplits
<1>3. HeadPlaceOf' \in [Clients -> Abstract!HeadPlaces]
  BY DEF HeadPlaceOf, HeadPlace, Abstract!HeadPlaces
<1>4. Stages' = Stages
  BY DEF GetAVData, Stages, Stage
<1>5. \A c \in Clients : Stages[c] = Stage(c)
  BY DEF Stages
<1>. QED
  BY <1>1, <1>2, <1>3, <1>4, <1>5 DEF Abstract!FillData, Stages, HeadPlaceOf

LEMMA ChunkReads ==
  ASSUME IInv, NEW c \in Clients, ReadChunk(c)
  PROVE  Abstract!ReadCopies(c)
<1>1. /\ phase[c] = "reading" /\ MoreToCopy(c) /\ UNCHANGED <<tail, phase>>
      /\ head' = [head EXCEPT ![c] = (@ + (ReadTarget(c) - head[c])) % len]
  BY DEF ReadChunk
<1>2. head \in [Clients -> Positions \union {-1}]
  BY DEF IInv, TypeOK
<1>3. head[c] # -1 /\ head[c] # tail
  BY <1>1 DEF IInv, MoreToCopy
<1>4. head'[c] # -1
  <2>1. head'[c] = (head[c] + (ReadTarget(c) - head[c])) % len
    BY <1>1, <1>2
  <2>2. /\ ReadTarget(c) \in head[c] + 1 .. len
        /\ ReadTarget(c) < len => head'[c] = ReadTarget(c)
        /\ ReadTarget(c) = len => head'[c] = 0
    BY <1>1, <1>3, <2>1, CopyBounds DEF IInv
  <2>3. head[c] \in 0 .. len - 1
    BY <1>2, <1>3 DEF Positions
  <2>. QED
    BY <2>2, <2>3
<1>5. /\ HeadPlaceOf[c] = "behind" /\ HeadPlace(c)' \in {"behind", "tail"}
      /\ \A d \in Clients : d # c => HeadPlace(d)' = HeadPlace(d)
  BY <1>1, <1>2, <1>3, <1>4 DEF HeadPlaceOf, HeadPlace
<1>6. PICK h \in {"behind", "tail"} : h = HeadPlace(c)' /\ (h = "tail" => tail # -1)
  BY <1>1, <1>4, <1>5 DEF HeadPlace
<1>7. HeadPlaceOf' = [HeadPlaceOf EXCEPT ![c] = h]
  BY <1>5, <1>6 DEF HeadPlaceOf
<1>8. h \in Abstract!Copied(tail # -1)
  BY <1>6 DEF Abstract!Copied
<1>9. Stages' = Stages /\ Stages[c] = "in"
  BY <1>1 DEF Stages, Stage
<1>. QED
  BY <1>1, <1>5, <1>7, <1>8, <1>9 DEF Abstract!ReadCopies, Stages, HeadPlaceOf

LEMMA OtherKeepsHeads ==
  ASSUME IInv, OtherStep
  PROVE  Abstract!Next \/ UNCHANGED Abstract!vars
<1>. USE DEF IInv, TypeOK
<1>1. CASE Finish \/ UNCHANGED vars
  <2>1. UNCHANGED <<tail, phase, head>>
    BY <1>1 DEF Finish, vars
  <2>. QED
    BY <2>1 DEF Abstract!vars, Stage, HeadPlace
<1>2. ASSUME NEW c \in Clients, MakeClient(c) PROVE Abstract!Sample(c)
  <2>1. /\ phase' = [phase EXCEPT ![c] = "made"] /\ phase[c] = "none"
        /\ head' = [head EXCEPT ![c] = tail] /\ tail' = tail
    BY <1>2 DEF MakeClient
  <2>2. Stages' = [Stages EXCEPT ![c] = "joining"] /\ Stages[c] = "out"
    BY <2>1 DEF Stages, Stage
  <2>3. HeadPlace(c)' = Abstract!Sampled(tail # -1)
    BY <2>1 DEF HeadPlace, Abstract!Sampled
  <2>4. \A d \in Clients : d # c => HeadPlace(d)' = HeadPlace(d)
    BY <2>1 DEF HeadPlace
  <2>5. HeadPlaceOf' = [HeadPlaceOf EXCEPT ![c] = Abstract!Sampled(tail # -1)]
    BY <2>3, <2>4 DEF HeadPlaceOf
  <2>. QED
    BY <2>1, <2>2, <2>5 DEF Abstract!Sample, Stages, HeadPlaceOf
<1>3. ASSUME NEW c \in Clients, RegisterClient(c) PROVE Abstract!Register(c)
  <2>1. /\ phase' = [phase EXCEPT ![c] = "idle"] /\ phase[c] = "made"
        /\ UNCHANGED <<tail, head>>
    BY <1>3 DEF RegisterClient
  <2>2. Stages' = [Stages EXCEPT ![c] = "in"] /\ Stages[c] = "joining"
    BY <2>1 DEF Stages, Stage
  <2>3. HeadPlaceOf' = HeadPlaceOf
    BY <2>1 DEF HeadPlaceOf, HeadPlace
  <2>. QED
    BY <2>1, <2>2, <2>3 DEF Abstract!Register, Stages, HeadPlaceOf
<1>4. ASSUME NEW c \in Clients, (\E n \in ReadLens : ReadBegin(c, n)) \/ ReadReturn(c)
      PROVE  UNCHANGED Abstract!vars
  <2>1. /\ \/ phase' = [phase EXCEPT ![c] = "reading"] /\ phase[c] = "idle"
           \/ phase' = [phase EXCEPT ![c] = "idle"] /\ phase[c] = "reading"
        /\ UNCHANGED <<tail, head>>
    BY <1>4 DEF ReadBegin, ReadReturn
  <2>2. Stages' = Stages
    BY <2>1 DEF Stages, Stage
  <2>3. HeadPlaceOf' = HeadPlaceOf
    BY <2>1 DEF HeadPlaceOf, HeadPlace
  <2>. QED
    BY <2>1, <2>2, <2>3 DEF Abstract!vars, Stages, HeadPlaceOf
<1>5. ASSUME NEW c \in Clients, DestroyHandle(c) PROVE Abstract!Destroy(c)
  <2>1. /\ phase' = [phase EXCEPT ![c] = "none"] /\ phase[c] = "idle"
        /\ head' = [head EXCEPT ![c] = -1] /\ tail' = tail
    BY <1>5 DEF DestroyHandle
  <2>2. Stages' = [Stages EXCEPT ![c] = "out"] /\ Stages[c] = "in"
    BY <2>1 DEF Stages, Stage
  <2>3. HeadPlaceOf' = [HeadPlaceOf EXCEPT ![c] = "none"]
    BY <2>1 DEF HeadPlaceOf, HeadPlace
  <2>. QED
    BY <2>1, <2>2, <2>3 DEF Abstract!Destroy, Stages, HeadPlaceOf
<1>. QED
  BY <1>1, <1>2, <1>3, <1>4, <1>5 DEF OtherStep, Abstract!Next

(* Another ring of the stream moves heads to anywhere in this one.         *)
LEMMA ForeignMovesHeads ==
  ASSUME IInv, ForeignStep
  PROVE  Abstract!FillOther \/ \E c \in Clients : Abstract!ReadCopies(c)
<1>1. UNCHANGED <<tail, phase>> /\ ForeignFacts
  BY ForeignStepFacts DEF ForeignFacts
<1>2. Stages' = Stages
  BY <1>1 DEF Stages, Stage
<1>3. HeadPlaceOf' \in [Clients -> Abstract!HeadPlaces]
  BY DEF HeadPlaceOf, HeadPlace, Abstract!HeadPlaces
<1>4. -1 \notin Positions
  BY DEF Positions
<1>5. ASSUME NEW start \in Positions, NEW next_tail \in start .. len - 1,
             OtherGetAVData(start, next_tail)
      PROVE  Abstract!FillOther
  <2>1. ASSUME NEW c \in Clients
        PROVE  HeadPlace(c)' \in IF Stage(c) = "in" THEN Abstract!Copied(tail # -1)
                                 ELSE {HeadPlace(c)}
    <3>1. PICK lost \in SUBSET {d \in Clients : phase[d] = "reading"} :
             head' = [d \in Clients |->
                        IF d \in Registered \ lost
                        THEN MovedHead(head[d], start, next_tail) ELSE head[d]]
      BY <1>5 DEF OtherGetAVData
    <3>2. Stage(c) = "in" <=> c \in Registered
      BY DEF Stage, Registered, IInv, TypeOK
    <3>3. CASE c \notin Registered
      <4>1. head'[c] = head[c]
        BY <3>1, <3>3
      <4>. QED
        BY <1>1, <3>2, <3>3, <4>1 DEF HeadPlace
    <3>4. CASE c \in Registered
      <4>1. head'[c] # -1
        <5>1. CASE c \in lost
          BY <3>1, <5>1 DEF IInv
        <5>2. CASE c \notin lost
          BY <1>4, <3>1, <3>4, <5>2, MovedHeadInRing DEF IInv, TypeOK
        <5>. QED
          BY <5>1, <5>2
      <4>. QED
        BY <1>1, <3>2, <3>4, <4>1 DEF HeadPlace, Abstract!Copied
    <3>. QED
      BY <3>3, <3>4
  <2>2. \A c \in Clients : /\ HeadPlaceOf'[c] = HeadPlace(c)'
                            /\ HeadPlaceOf[c] = HeadPlace(c)
                            /\ Stages[c] = Stage(c)
    BY DEF HeadPlaceOf, Stages
  <2>. QED
    BY <1>1, <1>2, <1>3, <2>1, <2>2
       DEF Abstract!FillOther, HeadPlaceOf, Stages
<1>6. ASSUME NEW start \in Positions, NEW next_tail \in start .. len - 1,
             NEW c \in Clients, ReadChunkRaced(c, start, next_tail)
      PROVE  Abstract!ReadCopies(c)
  <2>1. /\ phase[c] = "reading" /\ head[c] # tail /\ head[c] # -1
        /\ \E h : head' = [head EXCEPT ![c] = h]
        /\ strayed' = strayed \union {c}
    BY <1>6 DEF ReadChunkRaced, MoreToCopy, IInv
  <2>2. head \in [Clients -> Positions \union {-1}]
    BY DEF IInv, TypeOK
  <2>3. head'[c] # -1 /\ \A d \in Clients : d # c => head'[d] = head[d]
    BY <1>1, <1>4, <2>1, <2>2 DEF ForeignFacts
  <2>4. PICK h \in {"behind", "tail"} : h = HeadPlace(c)' /\ (h = "tail" => tail # -1)
    BY <1>1, <2>3 DEF HeadPlace
  <2>5. HeadPlaceOf' = [HeadPlaceOf EXCEPT ![c] = h]
    BY <1>1, <2>3, <2>4 DEF HeadPlaceOf, HeadPlace
  <2>6. h \in Abstract!Copied(tail # -1)
    BY <2>4 DEF Abstract!Copied
  <2>7. Stages[c] = "in" /\ HeadPlaceOf[c] = "behind"
    BY <2>1 DEF Stages, Stage, HeadPlaceOf, HeadPlace
  <2>. QED
    BY <1>1, <1>2, <2>5, <2>6, <2>7 DEF Abstract!ReadCopies, Stages, HeadPlaceOf
<1>. QED
  BY <1>5, <1>6 DEF ForeignStep

(* Every step of a ring of more than one byte is one of those MemoryStore  *)
(* allows its heads, for any number of clients and any sizes of writes and *)
(* reads: what is shown of the store with places for heads is true of the  *)
(* positions.  (In a ring of one byte every head is at the tail.)          *)
THEOREM RingImplementsHeads ==
  ASSUME len > 1
  PROVE  Spec => ImplementsRingHeads
<1>1. Init => Abstract!Init
  BY DEF Init, Abstract!Init, Stage, HeadPlace
<1>2. ASSUME IInv, [Next]_vars PROVE [Abstract!Next]_Abstract!vars
  <2>1. ASSUME NEW n \in 1 .. len, GetAVData(n) PROVE Abstract!Next
    BY <1>2, <2>1, WriteFills DEF Abstract!Next
  <2>2. ASSUME NEW c \in Clients, ReadChunk(c) PROVE Abstract!Next
    BY <1>2, <2>2, ChunkReads DEF Abstract!Next
  <2>3. ASSUME OtherStep PROVE Abstract!Next \/ UNCHANGED Abstract!vars
    BY <1>2, <2>3, OtherKeepsHeads
  <2>4. ASSUME ForeignStep PROVE Abstract!Next
    BY <1>2, <2>4, ForeignMovesHeads DEF Abstract!Next
  <2>. QED
    BY <1>2, <2>1, <2>2, <2>3, <2>4, StepKinds
<1>. QED
  BY <1>1, <1>2, RingInvariant, PTL DEF Spec, ImplementsRingHeads, Abstract!Spec
=============================================================================
