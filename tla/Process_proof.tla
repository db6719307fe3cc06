--------------------------- MODULE Process_proof ---------------------------
(***************************************************************************)
(* Proofs about Process and the content directory in it, for every set of  *)
(* streams, files and threads, and every number of signals.                *)
(***************************************************************************)
EXTENDS Process, NaturalSets, SequenceTheorems

(* The items of a list that a walk has met when it is at an item.          *)
Upto(list, item) == {j \in list : j <= item}

(* The items of a page are those from the start on, in their order.        *)
InPlace(list, start, items) ==
    \A i \in 1..Len(items) : /\ items[i] \in list
                             /\ Cardinality(Before(list, items[i])) = start + i - 1

(* What a walk through an undisturbed list has done so far.                *)
WalkOK(list, r, a, w) ==
    /\ a.total = Cardinality(list)
    /\ a.number = Number(r, a.total)
    /\ w.met = Cardinality(Upto(list, w.item))
    /\ Len(a.items) = IF w.met < r.start THEN 0 ELSE w.met - r.start
    /\ Len(a.items) <= Count(r)
    /\ InPlace(list, r.start, a.items)

(* What an answer is that the walk has completed.                          *)
PageOK(list, r, a) ==
    /\ Len(a.items) = a.number
    /\ a.total = Cardinality(list)
    /\ InPlace(list, r.start, a.items)

NotBegun == {"idle", "locked", "managing", "fetching"}
Lists    == {"streams", "files"}

ThreadOK(t) ==
    LET r == ask[t]
        a == answer[t]
        list == List(r.object) IN
    /\ pc[t] \in NotBegun => answer[t] = NoAnswer /\ at[t] = Nowhere
    /\ pc[t] = "walking" => /\ r.flag = "BrowseDirectChildren" /\ r.object \in Lists
                            /\ ~disturbed[t] => WalkOK(list, r, a, at[t])
    /\ pc[t] = "found" => r.flag = "BrowseMetadata"
    /\ pc[t] = "complete" /\ r.flag = "BrowseDirectChildren" =>
         /\ r.object \in Lists \union {"0"}
         /\ r.object = "0" => a.number = Len(a.items)
         /\ r.object # "0" /\ ~disturbed[t] /\ r.start <= a.total => PageOK(list, r, a)

Codes    == {0, 701}
AnswerType == [error : Codes, number : Int, total : Nat, items : Seq(Int)]
AtType     == [list : Lists, item : Items \union {0}, met : Nat]

BrowseTypes ==
    /\ pc \in [Threads -> {"idle", "locked", "walking", "found", "complete", "done",
                           "managing", "fetching"}]
    /\ ask \in [Threads -> Requests]
    /\ answer \in [Threads -> AnswerType]
    /\ \A t \in Threads : answer[t].number \in (-MaxIndex)..answer[t].total
    /\ at \in [Threads -> AtType]
    /\ disturbed \in [Threads -> BOOLEAN]

BrowseInv == BrowseTypes /\ \A t \in Threads : ThreadOK(t)

ListsInv == /\ streams \subseteq Streams /\ IsFiniteSet(streams)
            /\ liveStreams \subseteq streams
            /\ files \subseteq Files /\ IsFiniteSet(files)
            /\ status \in [Streams -> BOOLEAN]
            /\ heartbeat = Asleep \/ heartbeat \subseteq streams

(* The process ends by a signal only when there were enough; the heartbeat *)
(* is joined before the service and then the streams are gone.             *)
MainInv == /\ main \in {"starting", "loading", "registering", "advertising", "unwinding",
                        "streams", "files", "loop", "updating", "deleting", "destroying",
                        "joining", "dropping", "finishing", "ended"}
           /\ change \in Changes \union {NoChange}
           /\ change # NoChange => main \in {"files", "loop", "ended"}
           /\ shutdown_flag \in BOOLEAN /\ shutdown_count \in 0..Patience
           /\ batch \in 0..MaxBatch /\ (batch > 0 => main \in {"loop", "ended"})
           /\ registered \in BOOLEAN /\ heartbeatRunning \in BOOLEAN
           /\ told \subseteq Streams /\ polling \in BOOLEAN
           /\ main # "ended" => shutdown_count < Patience
           /\ main \in {"dropping", "finishing"} => heartbeat = Asleep /\ ~heartbeatRunning

(* The strengthening.                                                      *)
IInv == MainInv /\ ListsInv /\ BrowseInv /\ crashed \in BOOLEAN

-----------------------------------------------------------------------------
(* Lists of items.                                                         *)

Numbers(list) == \A i \in list : i \in Nat \ {0}

LEMMA PartsFinite ==
  ASSUME NEW list, IsFiniteSet(list), NEW item
  PROVE  /\ Cardinality(list) \in Nat
         /\ Cardinality(Upto(list, item)) \in 0..Cardinality(list)
         /\ IsFiniteSet(Upto(list, item))
<1>1. Upto(list, item) \in SUBSET list
  BY DEF Upto
<1>. QED
  BY <1>1, FS_Subset, FS_CardinalityType

(* A walk begins with nothing met.                                         *)
LEMMA NothingMet ==
  ASSUME NEW list, Numbers(list)
  PROVE  Cardinality(Upto(list, 0)) = 0
<1>1. \A i : i \notin Upto(list, 0)
  BY DEF Upto, Numbers
<1>. QED
  BY <1>1, FS_EmptySet

(* One step of a walk meets one item, which has those met so far before it.*)
LEMMA NextItem ==
  ASSUME NEW list, Numbers(list), IsFiniteSet(list), NEW item \in Nat,
         NEW after, after = {i \in list : i > item}, after # {}
  PROVE  /\ Min(after) \in list
         /\ Cardinality(Before(list, Min(after))) = Cardinality(Upto(list, item))
         /\ Cardinality(Upto(list, Min(after))) = Cardinality(Upto(list, item)) + 1
<1>1. after \in SUBSET Nat
  BY DEF Numbers
<1>2. Min(after) \in after /\ \A i \in after : Min(after) <= i
  BY <1>1, LeastNatural
<1>3. PICK m \in Nat : /\ m = Min(after) /\ m \in list /\ m > item
                       /\ \A i \in list : i > item => m <= i
  BY <1>2 DEF Numbers
<1>4. \A i \in list : (i < m <=> i <= item) /\ (i <= m <=> i <= item \/ i = m)
  BY <1>3 DEF Numbers
<1>5. Before(list, m) = Upto(list, item)
  BY <1>4 DEF Before, Upto
<1>6. Upto(list, m) = Upto(list, item) \union {m}
  BY <1>3, <1>4 DEF Upto
<1>7. m \notin Upto(list, item)
  BY <1>3 DEF Upto
<1>. QED
  BY <1>3, <1>5, <1>6, <1>7, PartsFinite, FS_AddElement

(* When nothing comes after an item, the whole list was met.               *)
LEMMA AllMet ==
  ASSUME NEW list, Numbers(list), NEW item \in Nat, {i \in list : i > item} = {}
  PROVE  Cardinality(Upto(list, item)) = Cardinality(list)
<1>1. \A i \in list : i <= item
  BY DEF Numbers
<1>2. Upto(list, item) = list
  BY <1>1 DEF Upto
<1>. QED
  BY <1>2

-----------------------------------------------------------------------------
(* The requests and the lists.                                             *)

RequestType == [flag : {"BrowseDirectChildren", "BrowseMetadata", "neither"},
                object : {"0", "streams", "files", "item"},
                item : Items \union {0}, start : 0..MaxIndex, count : 0..MaxIndex]

LEMMA RequestsTyped == Requests \subseteq RequestType
BY DirectoryAssumption DEF Requests, RequestType, Request, NoRequest, Indices

LEMMA ListsAreNumbers ==
  ASSUME ListsInv, NEW object
  PROVE  Numbers(List(object)) /\ IsFiniteSet(List(object))
<1>1. IsFiniteSet(liveStreams)
  BY FS_Subset DEF ListsInv
<1>. QED
  BY <1>1, DirectoryAssumption DEF ListsInv, List, Numbers

LEMMA PlacesTyped ==
  ASSUME NEW r \in RequestType, NEW a \in AnswerType, NEW w \in AtType
  PROVE  /\ Count(r) \in Nat \ {0} /\ r.start \in Nat
         /\ w.item \in Nat /\ w.met \in Nat
         /\ a.items \in Seq(Int) /\ Len(a.items) \in Nat
<1>1. Count(r) \in Nat \ {0} /\ r.start \in Nat
  BY DirectoryAssumption DEF Count, RequestType
<1>2. w.item \in Items \union {0} /\ w.met \in Nat
  BY DEF AtType
<1>3. a.items \in Seq(Int) /\ Len(a.items) \in Nat
  BY DEF AnswerType
<1>4. \A i \in Items : i \in Nat
  BY DirectoryAssumption DEF Items
<1>. QED
  BY <1>1, <1>2, <1>3, <1>4

LEMMA CountsTyped ==
  ASSUME NEW r \in RequestType, NEW n \in Nat
  PROVE  /\ Count(r) \in Nat \ {0}
         /\ Number(r, n) \in (-MaxIndex)..n
         /\ RootNumber(r) \in 0..2
         /\ RootItems(r) \in Seq(Int)
         /\ Len(RootItems(r)) = RootNumber(r)
<1>1. Count(r) \in Nat \ {0}
  BY DirectoryAssumption DEF Count, RequestType
<1>2. Number(r, n) \in (-MaxIndex)..n
  BY <1>1, DirectoryAssumption DEF Number, RequestType
<1>3. RootNumber(r) \in 0..2
  BY DEF RootNumber
<1>4. RootItems(r) \in Seq(Int)
  BY DEF RootItems
<1>5. Len(RootItems(r)) = RootNumber(r)
  BY <1>1 DEF RootItems, RootNumber, RequestType
<1>. QED
  BY <1>1, <1>2, <1>3, <1>4, <1>5

-----------------------------------------------------------------------------
(* The threads.                                                            *)

(* A step of one thread leaves the others as they were.                    *)
LEMMA OtherThreads ==
  ASSUME BrowseInv, NEW u \in Threads,
         UNCHANGED <<liveStreams, files>>,
         pc'[u] = pc[u], ask'[u] = ask[u], answer'[u] = answer[u], at'[u] = at[u],
         disturbed'[u] = disturbed[u]
  PROVE  ThreadOK(u)' /\ answer'[u].number \in (-MaxIndex)..answer'[u].total
BY DEF BrowseInv, BrowseTypes, ThreadOK, List

(* A list changes only while nobody holds the locks, or somebody knows.    *)
LEMMA ListsChange ==
  ASSUME BrowseInv, UNCHANGED <<pc, ask, answer, at>>,
         disturbed' \in [Threads -> BOOLEAN],
         \A t \in Threads : Holding(t) /\ ~disturbed'[t] =>
            ~disturbed[t] /\ UNCHANGED <<liveStreams, files>>
  PROVE  BrowseInv'
<1>1. BrowseTypes'
  BY DEF BrowseInv, BrowseTypes
<1>2. ASSUME NEW t \in Threads PROVE ThreadOK(t)'
  BY DEF BrowseInv, ThreadOK, Holding, List
<1>. QED
  BY <1>1, <1>2 DEF BrowseInv

(* What a step of thread t has to keep.                                    *)
LEMMA OneThread ==
  ASSUME BrowseInv, NEW t \in Threads, UNCHANGED <<liveStreams, files>>,
         NEW p \in {"idle", "locked", "walking", "found", "complete", "done", "managing",
                    "fetching"},
         NEW r \in Requests, NEW a \in AnswerType, NEW w \in AtType, NEW d \in BOOLEAN,
         pc' = [pc EXCEPT ![t] = p], ask' = [ask EXCEPT ![t] = r],
         answer' = [answer EXCEPT ![t] = a], at' = [at EXCEPT ![t] = w],
         disturbed' = [disturbed EXCEPT ![t] = d],
         a.number \in (-MaxIndex)..a.total,
         ThreadOK(t)'
  PROVE  BrowseInv'
<1>1. /\ pc' \in [Threads -> {"idle", "locked", "walking", "found", "complete", "done",
                              "managing", "fetching"}]
      /\ ask' \in [Threads -> Requests] /\ answer' \in [Threads -> AnswerType]
      /\ at' \in [Threads -> AtType] /\ disturbed' \in [Threads -> BOOLEAN]
      /\ answer'[t] = a
  BY DEF BrowseInv, BrowseTypes
<1>2. ASSUME NEW u \in Threads, u # t
      PROVE  ThreadOK(u)' /\ answer'[u].number \in (-MaxIndex)..answer'[u].total
  <2>1. /\ pc'[u] = pc[u] /\ ask'[u] = ask[u] /\ answer'[u] = answer[u] /\ at'[u] = at[u]
        /\ disturbed'[u] = disturbed[u]
    BY <1>2 DEF BrowseInv, BrowseTypes
  <2>. QED
    BY <2>1, OtherThreads
<1>. QED
  BY <1>1, <1>2 DEF BrowseInv, BrowseTypes

(* What is not assigned keeps its value.                                   *)
LEMMA ThreadTypes ==
  ASSUME BrowseInv, NEW t \in Threads
  PROVE  /\ pc[t] \in {"idle", "locked", "walking", "found", "complete", "done", "managing",
                        "fetching"}
         /\ ask[t] \in Requests /\ ask[t] \in RequestType
         /\ answer[t] \in AnswerType /\ answer[t].number \in (-MaxIndex)..answer[t].total
         /\ at[t] \in AtType /\ disturbed[t] \in BOOLEAN
         /\ pc = [pc EXCEPT ![t] = pc[t]] /\ ask = [ask EXCEPT ![t] = ask[t]]
         /\ answer = [answer EXCEPT ![t] = answer[t]] /\ at = [at EXCEPT ![t] = at[t]]
         /\ disturbed = [disturbed EXCEPT ![t] = disturbed[t]]
         /\ DOMAIN pc = Threads /\ DOMAIN ask = Threads /\ DOMAIN answer = Threads
         /\ DOMAIN at = Threads /\ DOMAIN disturbed = Threads
BY RequestsTyped DEF BrowseInv, BrowseTypes

LEMMA EmptyAnswer ==
  /\ NoAnswer \in AnswerType /\ NoAnswer.number = 0 /\ NoAnswer.total = 0
  /\ \A code \in Codes : [NoAnswer EXCEPT !.error = code]
                           = [error |-> code, number |-> 0, total |-> 0, items |-> <<>>]
<1>1. <<>> \in Seq(Int)
  OBVIOUS
<1>. QED
  BY <1>1 DEF NoAnswer, AnswerType, Codes

LEMMA NoPlace == Nowhere \in AtType /\ NoRequest \in Requests
BY DEF Nowhere, AtType, Lists, Requests

LEMMA RequestStep ==
  ASSUME ListsInv, BrowseInv, NEW t \in Threads,
         \/ Manage(t) \/ ManagerAnswers(t) \/ OpenFile(t) \/ FileReturns(t)
         \/ \E r \in Requests : Browse(t, r)
  PROVE  BrowseInv'
<1>1. ASSUME NEW r \in Requests, NEW p \in {"idle", "locked", "managing", "fetching", "done"},
             UNCHANGED <<dirVars, answer, at, disturbed>>,
             pc[t] \in {"idle", "managing", "fetching"},
             pc' = [pc EXCEPT ![t] = p], ask' = [ask EXCEPT ![t] = r]
      PROVE  BrowseInv'
  <2>1. UNCHANGED <<liveStreams, files>>
    BY <1>1 DEF dirVars
  <2>2. pc'[t] = p /\ answer'[t] = answer[t] /\ at'[t] = at[t]
    BY <1>1, ThreadTypes
  <2>3. answer[t] = NoAnswer /\ at[t] = Nowhere
    BY <1>1 DEF BrowseInv, ThreadOK, NotBegun
  <2>4. ThreadOK(t)'
    BY <1>1, <2>2, <2>3 DEF ThreadOK, NotBegun
  <2>5. /\ answer' = [answer EXCEPT ![t] = answer[t]] /\ at' = [at EXCEPT ![t] = at[t]]
        /\ disturbed' = [disturbed EXCEPT ![t] = disturbed[t]]
        /\ answer[t] \in AnswerType /\ answer[t].number \in (-MaxIndex)..answer[t].total
        /\ at[t] \in AtType /\ disturbed[t] \in BOOLEAN
    BY <1>1, ThreadTypes
  <2>. QED
    BY <1>1, <2>1, <2>4, <2>5, OneThread
<1>2. UNCHANGED ask => ask' = [ask EXCEPT ![t] = ask[t]]
  BY ThreadTypes
<1>. QED
  BY <1>1, <1>2, ThreadTypes DEF Manage, ManagerAnswers, OpenFile, FileReturns, Browse

(* The numbers are of the list as it is now, and nothing of it was met.    *)
LEMMA CountChildrenStep ==
  ASSUME ListsInv, BrowseInv, NEW t \in Threads, CountChildren(t)
  PROVE  BrowseInv'
<1> DEFINE r == ask[t]
           list == List(r.object)
           n == Cardinality(list)
<1>1. /\ pc[t] = "locked" /\ at[t] = Nowhere /\ r.flag = "BrowseDirectChildren"
      /\ UNCHANGED <<dirVars, ask, at, disturbed>>
  BY DEF CountChildren, BrowseInv, ThreadOK, NotBegun
<1>2. /\ UNCHANGED <<liveStreams, files>> /\ list' = list
      /\ ask' = [ask EXCEPT ![t] = r] /\ at' = [at EXCEPT ![t] = Nowhere]
      /\ disturbed' = [disturbed EXCEPT ![t] = disturbed[t]]
      /\ r \in Requests /\ r \in RequestType /\ disturbed[t] \in BOOLEAN
  BY <1>1, ThreadTypes DEF dirVars, List
<1>3. n \in Nat /\ Numbers(list) /\ IsFiniteSet(list)
  BY ListsAreNumbers, FS_CardinalityType
<1>4. ASSUME NEW p \in {"walking", "complete", "done"}, NEW a \in AnswerType,
             pc' = [pc EXCEPT ![t] = p], answer' = [answer EXCEPT ![t] = a],
             a.number \in (-MaxIndex)..a.total,
             p = "walking" => r.object \in Lists /\ WalkOK(list, r, a, Nowhere),
             p = "complete" => r.object = "0" /\ a.number = Len(a.items)
      PROVE  BrowseInv'
  <2>1. /\ pc'[t] = p /\ answer'[t] = a /\ ask'[t] = r /\ at'[t] = Nowhere
        /\ disturbed'[t] = disturbed[t]
    BY <1>1, <1>4, ThreadTypes
  <2>2. ThreadOK(t)'
    BY <1>1, <1>2, <1>4, <2>1 DEF ThreadOK, NotBegun
  <2>. QED
    BY <1>2, <1>4, <2>2, OneThread, NoPlace
<1>5. CASE r.object = "0" /\ Answers(t, RootNumber(r), 2, RootItems(r))
           /\ pc' = [pc EXCEPT ![t] = "complete"]
  <2> DEFINE a == [error |-> 0, number |-> RootNumber(r), total |-> 2, items |-> RootItems(r)]
  <2>1. /\ RootNumber(r) \in 0..2 /\ RootItems(r) \in Seq(Int)
        /\ Len(RootItems(r)) = RootNumber(r)
    BY <1>2, <1>3, CountsTyped
  <2>2. a \in AnswerType /\ a.number = Len(a.items)
    BY <2>1 DEF AnswerType, Codes
  <2>3. a.number \in (-MaxIndex)..a.total
    BY <2>1, DirectoryAssumption
  <2>. QED
    BY <1>4, <1>5, <2>2, <2>3 DEF Answers
<1>6. CASE r.object \in {"streams", "files"} /\ Answers(t, Number(r, n), n, <<>>)
           /\ pc' = [pc EXCEPT ![t] = "walking"]
  <2> DEFINE a == [error |-> 0, number |-> Number(r, n), total |-> n, items |-> <<>>]
  <2>1. Number(r, n) \in (-MaxIndex)..n /\ Count(r) \in Nat \ {0}
    BY <1>2, <1>3, CountsTyped
  <2>2. a \in AnswerType
    BY <2>1, <1>3, DirectoryAssumption DEF AnswerType, Codes
  <2>3. WalkOK(list, r, a, Nowhere)
    <3>1. Nowhere.met = 0 /\ Nowhere.item = 0 /\ Len(a.items) = 0
      BY DEF Nowhere
    <3>2. Cardinality(Upto(list, 0)) = 0
      BY <1>3, NothingMet
    <3>3. r.start \in Nat
      BY <1>2, DirectoryAssumption DEF RequestType
    <3>. QED
      BY <2>1, <3>1, <3>2, <3>3 DEF WalkOK, InPlace
  <2>4. a.number \in (-MaxIndex)..a.total
    BY <2>1
  <2>. QED
    BY <1>4, <1>6, <2>2, <2>3, <2>4 DEF Answers, Lists
<1>7. CASE r.object = "item" /\ Fails(t, 701) /\ pc' = [pc EXCEPT ![t] = "done"]
  <2> DEFINE a == [error |-> 701, number |-> 0, total |-> 0, items |-> <<>>]
  <2>1. a \in AnswerType
    BY DEF AnswerType, Codes
  <2>2. answer' = [answer EXCEPT ![t] = a]
    BY <1>7, EmptyAnswer DEF Fails, Codes
  <2>3. a.number \in (-MaxIndex)..a.total
    BY DirectoryAssumption
  <2>. QED
    BY <1>4, <1>7, <2>1, <2>2, <2>3
<1>. QED
  BY <1>5, <1>6, <1>7 DEF CountChildren

(* A walk that is over has met as many items as the numbers say: either    *)
(* the page is full, or the list has come to its end.                      *)
LEMMA WalkEnds ==
  ASSUME ListsInv, NEW object, NEW r \in RequestType, NEW a \in AnswerType, NEW w \in AtType,
         WalkOK(List(object), r, a, w), r.start <= a.total,
         Len(a.items) = Count(r) \/ {i \in List(object) : i > w.item} = {}
  PROVE  PageOK(List(object), r, a)
<1> DEFINE list == List(object)
           n == Cardinality(list)
<1>1. /\ Numbers(list) /\ IsFiniteSet(list) /\ n \in Nat
      /\ Count(r) \in Nat \ {0} /\ r.start \in Nat
      /\ w.item \in Nat /\ w.met \in Nat /\ Len(a.items) \in Nat
  BY ListsAreNumbers, FS_CardinalityType, PlacesTyped
<1>2. w.met \in 0..n
  BY <1>1, PartsFinite DEF WalkOK
<1>3. ASSUME {i \in list : i > w.item} = {} PROVE w.met = n
  BY <1>1, <1>3, AllMet DEF WalkOK
<1>4. /\ a.total = n
      /\ a.number = IF n - r.start < Count(r) THEN n - r.start ELSE Count(r)
      /\ Len(a.items) = IF w.met < r.start THEN 0 ELSE w.met - r.start
      /\ Len(a.items) <= Count(r)
  BY DEF WalkOK, Number
<1>5. Len(a.items) = a.number
  BY <1>1, <1>2, <1>3, <1>4
<1>. QED
  BY <1>4, <1>5 DEF PageOK, WalkOK

LEMMA AppendInt ==
  ASSUME NEW seq \in Seq(Int), NEW elt \in Int
  PROVE  /\ Len(Append(seq, elt)) = Len(seq) + 1
         /\ \A i \in 1..Len(seq) : Append(seq, elt)[i] = seq[i]
         /\ Append(seq, elt)[Len(seq) + 1] = elt
BY AppendProperties

(* One more item was met.                                                  *)
LEMMA WalkGoesOn ==
  ASSUME ListsInv, NEW object, NEW r \in RequestType, NEW a \in AnswerType, NEW w \in AtType,
         WalkOK(List(object), r, a, w), Len(a.items) # Count(r),
         NEW after, after = {i \in List(object) : i > w.item}, after # {},
         NEW b \in AnswerType, NEW v \in AtType,
         b.total = a.total, b.number = a.number,
         b.items = IF w.met < r.start THEN a.items ELSE Append(a.items, Min(after)),
         v.item = Min(after), v.met = w.met + 1
  PROVE  WalkOK(List(object), r, b, v)
<1> DEFINE list == List(object)
<1>1. /\ Numbers(list) /\ IsFiniteSet(list)
      /\ Count(r) \in Nat \ {0} /\ r.start \in Nat
      /\ w.item \in Nat /\ w.met \in Nat
      /\ Len(a.items) \in Nat /\ a.items \in Seq(Int)
  BY ListsAreNumbers, PlacesTyped
<1> DEFINE m == Min(after)
<1>2. /\ m \in list /\ m \in Int
      /\ Cardinality(Before(list, m)) = Cardinality(Upto(list, w.item))
      /\ Cardinality(Upto(list, m)) = Cardinality(Upto(list, w.item)) + 1
  <2>1. /\ m \in list
        /\ Cardinality(Before(list, m)) = Cardinality(Upto(list, w.item))
        /\ Cardinality(Upto(list, m)) = Cardinality(Upto(list, w.item)) + 1
    <3> DEFINE item == w.item
    <3>1. /\ Numbers(list) /\ IsFiniteSet(list) /\ item \in Nat
          /\ after = {i \in list : i > item} /\ after # {}
      BY <1>1
    <3> HIDE DEF list, item
    <3>2. /\ Min(after) \in list
          /\ Cardinality(Before(list, Min(after))) = Cardinality(Upto(list, item))
          /\ Cardinality(Upto(list, Min(after))) = Cardinality(Upto(list, item)) + 1
      BY ONLY <3>1, NextItem
    <3>. QED
      BY <3>2 DEF item
  <2>. QED
    BY <1>1, <2>1 DEF Numbers
<1>3. /\ w.met = Cardinality(Upto(list, w.item))
      /\ Len(a.items) = IF w.met < r.start THEN 0 ELSE w.met - r.start
      /\ Len(a.items) <= Count(r)
      /\ InPlace(list, r.start, a.items)
      /\ a.total = Cardinality(list) /\ a.number = Number(r, a.total)
  BY DEF WalkOK
<1> HIDE DEF list, m
<1>4. v.met = Cardinality(Upto(list, v.item))
  BY <1>2, <1>3 DEF m
<1>5. CASE w.met < r.start
  <2>1. b.items = a.items
    BY <1>5
  <2>2. Len(b.items) = IF v.met < r.start THEN 0 ELSE v.met - r.start
    BY <1>1, <1>3, <1>5, <2>1
  <2>. QED
    BY <1>3, <1>4, <2>1, <2>2 DEF WalkOK, list
<1>6. CASE ~(w.met < r.start)
  <2>1. b.items = Append(a.items, m)
    BY <1>6 DEF m
  <2>2. /\ Len(b.items) = Len(a.items) + 1
        /\ \A i \in 1..Len(a.items) : b.items[i] = a.items[i]
        /\ b.items[Len(a.items) + 1] = m
    <3> DEFINE items == a.items
    <3>1. items \in Seq(Int) /\ m \in Int
      BY <1>1, <1>2
    <3> HIDE DEF items
    <3>2. /\ Len(Append(items, m)) = Len(items) + 1
          /\ \A i \in 1..Len(items) : Append(items, m)[i] = items[i]
          /\ Append(items, m)[Len(items) + 1] = m
      BY ONLY <3>1, AppendInt
    <3>. QED
      BY ONLY <2>1, <3>2 DEF items
  <2>3. Len(b.items) = (IF v.met < r.start THEN 0 ELSE v.met - r.start)
    BY <1>1, <1>3, <1>6, <2>2
  <2>4. Len(b.items) <= Count(r)
    BY <1>1, <1>3, <2>2
  <2>5. Cardinality(Before(list, m)) = r.start + (Len(a.items) + 1) - 1
    BY <1>1, <1>2, <1>3, <1>6
  <2>6. ASSUME NEW i \in 1..Len(b.items)
        PROVE  b.items[i] \in list /\ Cardinality(Before(list, b.items[i])) = r.start + i - 1
    <3>1. CASE i \in 1..Len(a.items)
      BY <1>3, <2>2, <3>1 DEF InPlace
    <3>2. CASE i = Len(a.items) + 1
      BY <1>2, <2>2, <2>5, <3>2
    <3>. QED
      BY <1>1, <2>2, <3>1, <3>2
  <2>. QED
    BY <1>3, <1>4, <2>3, <2>4, <2>6 DEF WalkOK, InPlace, list
<1>. QED
  BY <1>5, <1>6

LEMMA WalkStep ==
  ASSUME ListsInv, BrowseInv, NEW t \in Threads, Walk(t)
  PROVE  BrowseInv'
<1> DEFINE r == ask[t]
           a == answer[t]
           w == at[t]
           list == List(r.object)
           after == {i \in list : i > w.item}
<1>1. /\ pc[t] = "walking" /\ r.flag = "BrowseDirectChildren" /\ r.object \in Lists
      /\ ~disturbed[t] => WalkOK(list, r, a, w)
      /\ UNCHANGED <<dirVars, ask, disturbed>>
  BY DEF Walk, BrowseInv, ThreadOK
<1>2. /\ r \in Requests /\ r \in RequestType /\ a \in AnswerType /\ w \in AtType
      /\ a.number \in (-MaxIndex)..a.total /\ disturbed[t] \in BOOLEAN
      /\ ask' = [ask EXCEPT ![t] = r] /\ disturbed' = [disturbed EXCEPT ![t] = disturbed[t]]
      /\ UNCHANGED <<liveStreams, files>>
  BY <1>1, ThreadTypes DEF dirVars
<1>3. list' = list
  BY <1>1, <1>2 DEF List
<1>4. CASE /\ Len(a.items) = Count(r) \/ after = {}
           /\ pc' = [pc EXCEPT ![t] = "complete"] /\ UNCHANGED <<answer, at>>
  <2>1. /\ answer' = [answer EXCEPT ![t] = a] /\ at' = [at EXCEPT ![t] = w]
        /\ pc'[t] = "complete" /\ answer'[t] = a /\ ask'[t] = r /\ disturbed'[t] = disturbed[t]
    BY <1>1, <1>4, ThreadTypes
  <2>2. ~disturbed[t] /\ r.start <= a.total => PageOK(list, r, a)
    BY <1>1, <1>2, <1>4, WalkEnds
  <2>3. ThreadOK(t)'
    BY <1>1, <1>2, <1>3, <2>1, <2>2 DEF ThreadOK, NotBegun, Lists
  <2>. QED
    BY <1>2, <1>4, <2>1, <2>3, OneThread
<1>5. CASE /\ Len(a.items) # Count(r) /\ after # {}
           /\ at' = [at EXCEPT ![t] = Met(t, r.object, Min(after))]
           /\ answer' = [answer EXCEPT ![t].items =
                           IF w.met < r.start THEN @ ELSE Append(@, Min(after))]
           /\ UNCHANGED pc
  <2> DEFINE m == Min(after)
             v == [list |-> r.object, item |-> m, met |-> w.met + 1]
             items == IF w.met < r.start THEN a.items ELSE Append(a.items, m)
             b == [a EXCEPT !.items = items]
  <2>1. Numbers(list) /\ list \subseteq Items /\ w.item \in Nat /\ w.met \in Nat
        /\ a.items \in Seq(Int)
    BY <1>2, ListsAreNumbers, PlacesTyped DEF List, ListsInv, Items
  <2>2. m \in list /\ m \in Int /\ m \in Items
    <3>1. after \in SUBSET Nat
      BY <2>1 DEF Numbers
    <3>2. m \in after
      BY <1>5, <3>1, LeastNatural
    <3>. QED
      BY <2>1, <3>2 DEF Numbers
  <2>3. at' = [at EXCEPT ![t] = v] /\ v \in AtType
    BY <1>1, <1>5, <2>1, <2>2 DEF Met, AtType
  <2>4. items \in Seq(Int)
    BY <2>1, <2>2, AppendProperties
  <2>5. b \in AnswerType /\ b.number = a.number /\ b.total = a.total /\ b.items = items
    BY <1>2, <2>4 DEF AnswerType
  <2>6. answer' = [answer EXCEPT ![t] = b]
    BY <1>5
  <2>7. /\ pc' = [pc EXCEPT ![t] = "walking"]
        /\ pc'[t] = "walking" /\ answer'[t] = b /\ at'[t] = v /\ ask'[t] = r
        /\ disturbed'[t] = disturbed[t]
    BY <1>1, <1>5, <2>3, <2>6, ThreadTypes
  <2>8. ~disturbed[t] => WalkOK(list, r, b, v)
    <3>1. after = {i \in List(r.object) : i > w.item} /\ v.item = m /\ v.met = w.met + 1
      OBVIOUS
    <3> HIDE DEF after, b, v
    <3>2. WalkOK(list, r, a, w) => WalkOK(list, r, b, v)
      BY <1>2, <1>5, <2>3, <2>5, <3>1, WalkGoesOn
    <3>. QED
      BY <1>1, <3>2
  <2> HIDE DEF b, v
  <2>9. ThreadOK(t)'
    BY <1>1, <1>2, <1>3, <2>7, <2>8 DEF ThreadOK, NotBegun
  <2>. QED
    BY <1>2, <2>3, <2>5, <2>6, <2>7, <2>9, OneThread
<1>. QED
  BY <1>4, <1>5 DEF Walk

(* The answers about one item are of no list.                              *)
LEMMA MetadataStep ==
  ASSUME ListsInv, BrowseInv, NEW t \in Threads, Metadata(t) \/ CopyItem(t)
  PROVE  BrowseInv'
<1> DEFINE r == ask[t]
<1>1. /\ r \in Requests /\ disturbed[t] \in BOOLEAN
      /\ ask' = [ask EXCEPT ![t] = r] /\ disturbed' = [disturbed EXCEPT ![t] = disturbed[t]]
      /\ UNCHANGED <<liveStreams, files>>
  BY ThreadTypes DEF Metadata, CopyItem, dirVars
<1>2. ASSUME NEW p \in {"found", "complete", "done"}, NEW a \in AnswerType, NEW w \in AtType,
             pc' = [pc EXCEPT ![t] = p], answer' = [answer EXCEPT ![t] = a],
             at' = [at EXCEPT ![t] = w], a.number \in (-MaxIndex)..a.total,
             p = "complete" => r.flag # "BrowseDirectChildren",
             p = "found" => r.flag = "BrowseMetadata"
      PROVE  BrowseInv'
  <2>1. pc'[t] = p /\ ask'[t] = r /\ answer'[t] = a
    BY <1>1, <1>2, ThreadTypes
  <2>2. ThreadOK(t)'
    BY <1>2, <2>1 DEF ThreadOK, NotBegun
  <2>. QED
    BY <1>1, <1>2, <2>2, OneThread
<1>3. /\ answer[t] \in AnswerType /\ answer[t].number \in (-MaxIndex)..answer[t].total
      /\ at[t] \in AtType
      /\ UNCHANGED answer => answer' = [answer EXCEPT ![t] = answer[t]]
      /\ UNCHANGED at => at' = [at EXCEPT ![t] = at[t]]
  BY ThreadTypes
<1>4. ASSUME NEW i \in Int PROVE
        LET a == [error |-> 0, number |-> 1, total |-> 1, items |-> <<i>>]
        IN  a \in AnswerType /\ a.number \in (-MaxIndex)..a.total
  BY <1>4, DirectoryAssumption DEF AnswerType, Codes
<1>5. CASE Metadata(t)
  <2>1. r.flag = "BrowseMetadata"
    BY <1>5 DEF Metadata
  <2>2. CASE /\ Answers(t, 1, 1, <<0>>) /\ pc' = [pc EXCEPT ![t] = "complete"]
             /\ UNCHANGED at
    <3> DEFINE a == [error |-> 0, number |-> 1, total |-> 1, items |-> <<0>>]
    <3>1. a \in AnswerType /\ a.number \in (-MaxIndex)..a.total
      BY <1>4
    <3>2. answer' = [answer EXCEPT ![t] = a]
      BY <2>2 DEF Answers
    <3>. QED
      BY <1>2, <1>3, <2>1, <2>2, <3>1, <3>2
  <2>3. ASSUME NEW l \in Lists, r.item \in liveStreams \union files,
               at' = [at EXCEPT ![t] = [Nowhere EXCEPT !.list = l, !.item = r.item]],
               pc' = [pc EXCEPT ![t] = "found"], UNCHANGED answer
        PROVE  BrowseInv'
    <3>1. r.item \in Items
      BY <2>3 DEF ListsInv, Items
    <3>2. [Nowhere EXCEPT !.list = l, !.item = r.item] \in AtType
      BY <2>3, <3>1 DEF Nowhere, AtType
    <3>. QED
      BY <1>2, <1>3, <2>1, <2>3, <3>2
  <2>4. CASE Fails(t, 701) /\ pc' = [pc EXCEPT ![t] = "done"] /\ UNCHANGED at
    <3> DEFINE a == [error |-> 701, number |-> 0, total |-> 0, items |-> <<>>]
    <3>1. a \in AnswerType
      BY DEF AnswerType, Codes
    <3>2. answer' = [answer EXCEPT ![t] = a]
      BY <2>4, EmptyAnswer DEF Fails, Codes
    <3>3. a.number \in (-MaxIndex)..a.total
      BY DirectoryAssumption
    <3>. QED
      BY <1>2, <1>3, <2>4, <3>1, <3>2, <3>3
  <2>. QED
    BY <1>5, <2>2, <2>3, <2>4 DEF Metadata, Lists
<1>6. CASE CopyItem(t)
  <2>1. at[t].item \in Int
    BY <1>3, DirectoryAssumption DEF AtType, Items
  <2> DEFINE a == [error |-> 0, number |-> 1, total |-> 1, items |-> <<at[t].item>>]
  <2>2. /\ pc' = [pc EXCEPT ![t] = "complete"] /\ answer' = [answer EXCEPT ![t] = a]
        /\ UNCHANGED at
    BY <1>6 DEF CopyItem, Answers
  <2>3. r.flag # "BrowseDirectChildren"
    BY <1>6 DEF CopyItem, BrowseInv, ThreadOK
  <2>. QED
    BY <1>2, <1>3, <1>4, <2>1, <2>2, <2>3
<1>. QED
  BY <1>5, <1>6

LEMMA RespondStep ==
  ASSUME ListsInv, BrowseInv, NEW t \in Threads, Unlock(t) \/ Respond(t)
  PROVE  BrowseInv'
<1>1. UNCHANGED <<liveStreams, files>>
  BY DEF Unlock, Respond, dirVars
<1>2. CASE Unlock(t)
  <2>1. /\ pc' = [pc EXCEPT ![t] = "done"] /\ ask' = [ask EXCEPT ![t] = ask[t]]
        /\ answer' = [answer EXCEPT ![t] = answer[t]] /\ at' = [at EXCEPT ![t] = at[t]]
        /\ disturbed' = [disturbed EXCEPT ![t] = disturbed[t]]
        /\ pc'[t] = "done"
    BY <1>2, ThreadTypes DEF Unlock
  <2>2. ThreadOK(t)'
    BY <2>1 DEF ThreadOK, NotBegun
  <2>. QED
    BY <1>1, <2>1, <2>2, ThreadTypes, OneThread
<1>3. CASE Respond(t)
  <2>1. /\ pc' = [pc EXCEPT ![t] = "idle"] /\ ask' = [ask EXCEPT ![t] = NoRequest]
        /\ answer' = [answer EXCEPT ![t] = NoAnswer] /\ at' = [at EXCEPT ![t] = Nowhere]
        /\ disturbed' = [disturbed EXCEPT ![t] = FALSE]
    BY <1>3 DEF Respond
  <2>2. pc'[t] = "idle" /\ answer'[t] = NoAnswer /\ at'[t] = Nowhere
    BY <2>1, ThreadTypes
  <2>3. ThreadOK(t)'
    BY <2>2 DEF ThreadOK, NotBegun
  <2>4. NoAnswer.number \in (-MaxIndex)..NoAnswer.total
    BY EmptyAnswer, DirectoryAssumption
  <2>. QED
    BY <1>1, <2>1, <2>3, <2>4, EmptyAnswer, NoPlace, OneThread
<1>. QED
  BY <1>2, <1>3

-----------------------------------------------------------------------------
(* The lists.                                                              *)

(* The calls that change a list find nobody inside the locks.              *)
LEMMA CallStep ==
  ASSUME ListsInv, BrowseInv,
         \/ \E s \in Streams : AddStream(s) \/ RemoveStream(s) \/ StatusChanges(s)
         \/ \E f \in Files : AddFile(f) \/ RemoveFile(f)
  PROVE  ListsInv' /\ BrowseInv'
<1>1. UNCHANGED browseVars
  BY DEF AddStream, RemoveStream, AddFile, RemoveFile, StatusChanges
<1>2. BrowseInv'
  <2>1. \A t \in Threads : Holding(t) => UNCHANGED <<liveStreams, files>>
    BY DEF AddStream, RemoveStream, AddFile, RemoveFile, StatusChanges, StreamsFree, FilesFree
  <2>2. disturbed' \in [Threads -> BOOLEAN]
    BY <1>1 DEF browseVars, BrowseInv, BrowseTypes
  <2>. QED
    BY <1>1, <2>1, <2>2, ListsChange DEF browseVars
<1>3. ASSUME NEW s \in Streams, AddStream(s) \/ RemoveStream(s) PROVE ListsInv'
  <2>1. IsFiniteSet(streams \union {s}) /\ IsFiniteSet(streams \ {s})
    BY FS_AddElement, FS_RemoveElement DEF ListsInv
  <2>. QED
    BY <1>3, <2>1 DEF ListsInv, AddStream, RemoveStream, StreamsFree, Asleep
<1>4. ASSUME NEW f \in Files, AddFile(f) \/ RemoveFile(f) PROVE ListsInv'
  <2>1. IsFiniteSet(files \union {f}) /\ IsFiniteSet(files \ {f})
    BY FS_AddElement, FS_RemoveElement DEF ListsInv
  <2>. QED
    BY <1>4, <2>1 DEF ListsInv, AddFile, RemoveFile, Asleep
<1>5. ASSUME NEW s \in Streams, StatusChanges(s) PROVE ListsInv'
  BY <1>5 DEF ListsInv, StatusChanges, Asleep
<1>. QED
  BY <1>2, <1>3, <1>4, <1>5

(* The heartbeat looks at streams there are, and a thread inside the locks *)
(* under which it changes the list is marked as disturbed.                 *)
LEMMA HeartbeatStep ==
  ASSUME ListsInv, BrowseInv, Heartbeats
  PROVE  ListsInv' /\ BrowseInv'
<1>1. CASE HeartbeatBegins \/ HeartbeatEnds
  <2>1. ListsInv'
    BY <1>1 DEF ListsInv, HeartbeatBegins, HeartbeatEnds, Asleep
  <2>2. /\ UNCHANGED <<liveStreams, files, pc, ask, answer, at, disturbed>>
        /\ disturbed \in [Threads -> BOOLEAN]
    BY <1>1 DEF HeartbeatBegins, HeartbeatEnds, browseVars, BrowseInv, BrowseTypes
  <2>. QED
    BY <2>1, <2>2, ListsChange
<1>2. ASSUME NEW s \in Streams, HeartbeatLooks(s)
      PROVE  ListsInv' /\ BrowseInv'
  <2>1. s \in streams /\ heartbeat \subseteq streams
    BY <1>2 DEF HeartbeatLooks, ListsInv, Asleep
  <2>2. ListsInv'
    BY <1>2, <2>1 DEF HeartbeatLooks, ListsInv
  <2>3. \A t \in Threads : Holding(t) /\ ~disturbed'[t] =>
           ~disturbed[t] /\ UNCHANGED <<liveStreams, files>>
    BY <1>2 DEF HeartbeatLooks
  <2>4. disturbed' \in [Threads -> BOOLEAN]
    BY <1>2 DEF HeartbeatLooks, Holding, BrowseInv, BrowseTypes
  <2>. QED
    BY <1>2, <2>2, <2>3, <2>4, ListsChange DEF HeartbeatLooks
<1>. QED
  BY <1>1, <1>2 DEF Heartbeats

-----------------------------------------------------------------------------
(* The process.                                                            *)

LEMMA InitImpliesIInv == Init => IInv
<1>. SUFFICES ASSUME Init PROVE IInv
  OBVIOUS
<1>1. MainInv
  <2>1. 0 \in 0..Patience /\ 0 < Patience /\ 0 \in 0..MaxBatch /\ ~(0 > 0)
    BY ProcessAssumption
  <2>. QED
    BY <2>1 DEF Init, MainInv
<1>2. ListsInv
  BY FS_EmptySet DEF Init, DirectoryInit, ListsInv
<1>3. BrowseTypes
  BY EmptyAnswer, NoPlace, DirectoryAssumption DEF Init, DirectoryInit, BrowseTypes
<1>4. ASSUME NEW t \in Threads PROVE ThreadOK(t)
  BY <1>4 DEF Init, DirectoryInit, ThreadOK, NotBegun
<1>. QED
  BY <1>1, <1>2, <1>3, <1>4 DEF IInv, BrowseInv, Init, DirectoryInit

(* Steps of main and of signals that leave the service alone.              *)
LEMMA DirectoryStays ==
  ASSUME IInv, UNCHANGED directoryVars
  PROVE  ListsInv' /\ BrowseInv' /\ crashed' \in BOOLEAN
<1>1. UNCHANGED <<dirVars, browseVars, crashed>>
  BY DEF directoryVars
<1>2. ListsInv' /\ crashed' \in BOOLEAN
  BY <1>1 DEF IInv, ListsInv, dirVars, Asleep
<1>3. BrowseInv'
  BY <1>1, ListsChange DEF IInv, dirVars, browseVars, BrowseInv, BrowseTypes
<1>. QED
  BY <1>2, <1>3

LEMMA MainStep ==
  ASSUME IInv, Running,
         \/ InitLibrary \/ InitFails \/ loadXml \/ MakeService \/ RegisterDevice
         \/ SendAdvertisement \/ StartFails \/ Unwind \/ BeginLoop \/ Update \/ Updated
         \/ BeginChange \/ Stop \/ PollEnds \/ handle_signal
  PROVE  IInv'
<1>1. UNCHANGED directoryVars
  BY DEF InitLibrary, InitFails, loadXml, MakeService, RegisterDevice, SendAdvertisement,
         StartFails, Unwind, BeginLoop, Update, Updated, BeginChange, Stop, PollEnds,
         handle_signal, LeaveLoop, Shutdown, StopHeartbeat, JoinHeartbeat, DestroyStream,
         StreamsDestroyed, Finish, Only
<1>2. UNCHANGED <<heartbeat, streams>>
  BY <1>1 DEF directoryVars, dirVars
<1>3. ASSUME \/ InitLibrary \/ InitFails \/ loadXml \/ MakeService \/ RegisterDevice
             \/ SendAdvertisement \/ StartFails \/ Unwind \/ BeginLoop \/ Update
      PROVE  MainInv'
  <2>1. CASE \/ InitLibrary \/ InitFails \/ loadXml \/ SendAdvertisement \/ Unwind
             \/ Update
    BY <1>2, <2>1 DEF IInv, MainInv, Goes, Only, Asleep, InitLibrary, InitFails, loadXml,
       SendAdvertisement, Unwind, Update, signalVars, serverVars, streamVars
  <2>2. CASE MakeService \/ RegisterDevice \/ StartFails
    BY <1>2, <2>2 DEF IInv, MainInv, Goes, Asleep, MakeService, RegisterDevice, StartFails,
       signalVars, streamVars
  <2>3. CASE BeginLoop
    BY <1>2, <2>3 DEF IInv, MainInv, Goes, Asleep, BeginLoop, serverVars, streamVars
  <2>. QED
    BY <1>3, <2>1, <2>2, <2>3
<1>4. ASSUME BeginChange \/ Updated PROVE MainInv'
  <2>1. batch \in 0..MaxBatch /\ MaxBatch \in Nat
    BY ProcessAssumption DEF IInv, MainInv
  <2>2. batch' \in 0..MaxBatch /\ (batch' > 0 => main' = "loop" \/ batch' = batch)
    BY <1>4, <2>1 DEF BeginChange, Updated, Goes
  <2>. QED
    BY <1>2, <1>4, <2>2 DEF IInv, MainInv, BeginChange, Updated, Goes, Asleep, signalVars,
       serverVars, streamVars
<1>5. ASSUME Stop \/ PollEnds PROVE MainInv'
  <2>1. CASE LeaveLoop
    BY <1>2, <2>1 DEF IInv, MainInv, Goes, LeaveLoop, serverVars, streamVars
  <2>2. CASE Shutdown \/ StopHeartbeat
    BY <1>2, <2>2 DEF IInv, MainInv, Goes, Shutdown, StopHeartbeat, signalVars, streamVars
  <2>3. CASE JoinHeartbeat
    BY <1>2, <2>3 DEF IInv, MainInv, Goes, Only, JoinHeartbeat, Asleep, signalVars,
       serverVars, streamVars
  <2>4. CASE StreamsDestroyed \/ Finish
    BY <1>2, <2>4 DEF IInv, MainInv, Goes, Only, StreamsDestroyed, Finish, signalVars,
       serverVars, streamVars
  <2>5. CASE DestroyStream \/ PollEnds
    <3>1. told' \subseteq Streams /\ polling' \in BOOLEAN
      BY <2>5 DEF IInv, MainInv, ListsInv, DestroyStream, PollEnds
    <3>. QED
      BY <1>2, <2>5, <3>1 DEF IInv, MainInv, DestroyStream, PollEnds, signalVars, serverVars
  <2>. QED
    BY <1>5, <2>1, <2>2, <2>3, <2>4, <2>5 DEF Stop
<1>6. ASSUME handle_signal PROVE MainInv'
  <2>1. shutdown_count \in Nat /\ shutdown_count < Patience /\ Patience \in Nat
    BY ProcessAssumption DEF IInv, MainInv, Running, Ended
  <2>2. shutdown_count' \in 0..Patience
    BY <1>6, <2>1 DEF handle_signal
  <2>3. main' # "ended" => shutdown_count' < Patience /\ main' = main
    BY <1>6, <2>1, <2>2 DEF handle_signal
  <2>4. main' \in {main, "ended"} /\ shutdown_flag' \in {shutdown_flag, FALSE}
        /\ UNCHANGED <<change, batch, registered, heartbeatRunning, told, polling>>
    BY <1>6 DEF handle_signal, serverVars, streamVars
  <2>. QED
    BY <1>2, <2>2, <2>3, <2>4 DEF IInv, MainInv, Asleep
<1>. QED
  BY <1>1, <1>3, <1>4, <1>5, <1>6, DirectoryStays DEF IInv

(* The calls that main makes: it is in none of them when it ends.          *)
LEMMA MainCallStep ==
  ASSUME IInv, Running, AddStreams \/ ChangeFile \/ DropStream
  PROVE  IInv'
<1>1. CASE AddStreams
  <2>1. CASE Only("streams", "files")
    <3>1. MainInv'
      BY <2>1 DEF IInv, MainInv, Only, Goes, signalVars, serverVars, streamVars
    <3>. QED
      BY <2>1, <3>1, DirectoryStays DEF IInv, Only
  <2>2. ASSUME NEW s \in Streams, AddStream(s), UNCHANGED mainVars PROVE IInv'
    <3>1. MainInv' /\ crashed' = crashed
      BY <2>2 DEF AddStream, IInv, MainInv, mainVars, signalVars, serverVars, streamVars
    <3>. QED
      BY <2>2, <3>1, CallStep DEF IInv
  <2>. QED
    BY <1>1, <2>1, <2>2 DEF AddStreams
<1>2. CASE ChangeFile
  <2>1. change.file \in Files
    BY <1>2 DEF ChangeFile, IInv, MainInv, Changes, NoChange, Goes
  <2>2. ListsInv' /\ BrowseInv' /\ crashed' \in BOOLEAN /\ heartbeat' = heartbeat
    <3>1. CASE UNCHANGED directoryVars
      BY <3>1, DirectoryStays DEF directoryVars, dirVars
    <3>2. CASE AddFile(change.file) \/ RemoveFile(change.file)
      BY <2>1, <3>2, CallStep DEF IInv, AddFile, RemoveFile
    <3>. QED
      BY <1>2, <3>1, <3>2 DEF ChangeFile
  <2>3. MainInv'
    BY <1>2, <2>2 DEF ChangeFile, IInv, MainInv, signalVars, serverVars, streamVars
  <2>. QED
    BY <2>2, <2>3 DEF IInv
<1>3. CASE DropStream
  <2>1. PICK s \in streams : RemoveStream(s)
    BY <1>3 DEF DropStream
  <2>2. s \in Streams
    BY DEF IInv, ListsInv
  <2>3. MainInv' /\ crashed' = crashed
    BY <1>3, <2>1 DEF DropStream, RemoveStream, IInv, MainInv, mainVars, signalVars,
       serverVars, streamVars
  <2>. QED
    BY <2>1, <2>2, <2>3, CallStep DEF IInv
<1>. QED
  BY <1>1, <1>2, <1>3

(* The library's threads.                                                  *)
LEMMA RequestsStep ==
  ASSUME IInv, NEW t \in Threads, IncomingEvent(t) \/ ExecuteAction(t) \/ FileOperation(t)
  PROVE  IInv'
<1>1. UNCHANGED <<mainVars, dirVars>>
  BY DEF IncomingEvent, ExecuteAction, FileOperation, Crashes, OpenFile, FileReturns, Browse,
         Manage, Browses, ManagerAnswers, CountChildren, Walk, Metadata, CopyItem, Unlock,
         Respond
<1>2. MainInv' /\ ListsInv'
  BY <1>1 DEF IInv, MainInv, ListsInv, mainVars, signalVars, serverVars, streamVars, dirVars,
     Asleep
<1>3. crashed' \in BOOLEAN
  BY DEF IInv, IncomingEvent, ExecuteAction, FileOperation, Crashes, OpenFile, FileReturns,
         Browse, Manage, Browses, ManagerAnswers, CountChildren, Walk, Metadata, CopyItem,
         Unlock, Respond, Dangling
<1>4. BrowseInv'
  <2>1. CASE UNCHANGED browseVars
    BY <1>1, <2>1, ListsChange DEF IInv, dirVars, browseVars, BrowseInv, BrowseTypes
  <2>2. CASE \/ Manage(t) \/ ManagerAnswers(t) \/ OpenFile(t) \/ FileReturns(t)
             \/ \E r \in Requests : Browse(t, r)
             \/ CountChildren(t) \/ Walk(t) \/ Metadata(t) \/ CopyItem(t) \/ Unlock(t)
             \/ Respond(t)
    BY <2>2, RequestStep, CountChildrenStep, WalkStep, MetadataStep, RespondStep DEF IInv
  <2>. QED
    BY <2>1, <2>2 DEF IncomingEvent, ExecuteAction, FileOperation, Crashes, Browses
<1>. QED
  BY <1>2, <1>3, <1>4 DEF IInv

(* A heartbeat that was joined does not begin again.                       *)
LEMMA ServiceStep ==
  ASSUME IInv, Heartbeat \/ StreamChanges
  PROVE  IInv'
<1>1. CASE Heartbeat
  <2>1. ListsInv' /\ BrowseInv' /\ crashed' = crashed
    BY <1>1, HeartbeatStep DEF IInv, Heartbeat, Heartbeats, HeartbeatBegins, HeartbeatEnds,
       HeartbeatLooks
  <2>2. main \notin {"dropping", "finishing"}
    BY <1>1 DEF Heartbeat, IInv, MainInv
  <2>3. MainInv'
    BY <1>1, <2>2 DEF Heartbeat, IInv, MainInv, mainVars, signalVars, serverVars, streamVars
  <2>. QED
    BY <2>1, <2>3 DEF IInv
<1>2. CASE StreamChanges
  <2>1. PICK s \in Streams : StatusChanges(s)
    BY <1>2 DEF StreamChanges, IInv, ListsInv
  <2>2. MainInv' /\ crashed' = crashed
    BY <1>2, <2>1 DEF StreamChanges, StatusChanges, IInv, MainInv, mainVars, signalVars,
       serverVars, streamVars
  <2>. QED
    BY <2>1, <2>2, CallStep DEF IInv
<1>. QED
  BY <1>1, <1>2

LEMMA NextKeepsIInv == IInv /\ [Next]_vars => IInv'
<1>. SUFFICES ASSUME IInv, [Next]_vars PROVE IInv'
  OBVIOUS
<1>1. CASE UNCHANGED vars
  <2>1. MainInv'
    BY <1>1 DEF vars, mainVars, signalVars, serverVars, streamVars, directoryVars, dirVars,
       IInv, MainInv
  <2>. QED
    BY <1>1, <2>1, DirectoryStays DEF vars, IInv
<1>2. CASE Next
  BY <1>2, MainStep, MainCallStep, RequestsStep, ServiceStep DEF Next, Start
<1>. QED
  BY <1>1, <1>2

-----------------------------------------------------------------------------
(* What the process, the lists and the Browse actions keep true together:  *)
(* the locks keep a list still under a walk or mark the walk as disturbed, *)
(* and a walk has met as many items as are up to the one it is at.         *)
THEOREM ProcessInvariant == Spec => []IInv
BY InitImpliesIInv, NextKeepsIInv, PTL DEF Spec

(* The variables of the process and of the service have their types, and   *)
(* no signal count exceeds the patience of handle_signal.                  *)
THEOREM ProcessTypes == Spec => []TypeOK
<1>1. IInv => TypeOK
  BY DEF IInv, MainInv, ListsInv, BrowseInv, BrowseTypes, AnswerType, AtType, Codes, Lists,
         TypeOK, DirectoryTypeOK
<1>. QED
  BY <1>1, ProcessInvariant, PTL

(* ContentDirectoryService lists only streams it knows as live.            *)
THEOREM ListedStreamsExist == Spec => []LiveAreStreams
<1>1. IInv => LiveAreStreams
  BY DEF IInv, ListsInv, LiveAreStreams
<1>. QED
  BY <1>1, ProcessInvariant, PTL

(* What browseDirectChildren walks through is what browse has counted.     *)
THEOREM PagesAgree == Spec => []PagesAreSlices
<1>1. IInv => PagesAreSlices
  <2>. SUFFICES ASSUME IInv, NEW t \in Threads,
                       pc[t] = "complete", ask[t].flag = "BrowseDirectChildren"
                PROVE  IF ask[t].object = "0" THEN answer[t].number = Len(answer[t].items)
                       ELSE (~disturbed[t] /\ ask[t].start <= answer[t].total) =>
                               PageOK(List(ask[t].object), ask[t], answer[t])
    BY DEF PagesAreSlices, PageOK, InPlace
  <2>. QED
    BY DEF IInv, BrowseInv, ThreadOK
<1>. QED
  BY <1>1, ProcessInvariant, PTL

(* The destructor of the service joins its heartbeat: from then on, while  *)
(* main destroys the streams and until the process ends, it does not look  *)
(* at the streams that are being freed.                                    *)
NoLook == main \in {"dropping", "finishing"} => heartbeat = Asleep

THEOREM NoHeartbeatAfterJoin == Spec => []NoLook
<1>1. IInv => NoLook
  BY DEF IInv, MainInv, NoLook
<1>. QED
  BY <1>1, ProcessInvariant, PTL
=============================================================================
