------------------------- MODULE ContentDirectory -------------------------
(***************************************************************************)
(* The content directory service: its heartbeat, which copies the status   *)
(* of the streams into the list of those that are live, the calls that add *)
(* and remove streams and files, and the Browse actions of the server      *)
(* threads, which count a list and then walk through it.                   *)
(*                                                                         *)
(* Browse and the heartbeat share streamContainerMutex, and Browse does    *)
(* not take liveContainerMutex, so liveStreams changes under a walk.  The  *)
(* calls that add and remove take the mutexes exclusively and are one step.*)
(* Items are numbers, in the order in which a walk meets them.  Process has*)
(* who calls when, and how the service begins and ends.                    *)
(***************************************************************************)
EXTENDS Integers, SequencesExt

CONSTANTS Streams, Files,  \* items
          Threads,         \* the server threads
          PerCent,         \* items with a per cent sign in their path
          Ampersand,       \* items with an ampersand in their name
          MaxIndex,        \* bounds the numbers in a request
          Everything       \* what RequestedCount 0 is taken for, 999

ASSUME DirectoryAssumption == /\ Streams \subseteq Nat \ {0}
                              /\ Files \subseteq Nat \ {0}
                              /\ PerCent \union Ampersand \subseteq Streams \union Files
                              /\ MaxIndex \in Nat
                              /\ Everything \in Nat \ {0}

VARIABLES streams,      \* the streams the service knows
          status,       \* status[s]: IsLive() of the stream
          liveStreams,
          files,
          heartbeat,    \* the streams this pass has to look at, or {0}: asleep
          pc,           \* pc[t]: where the Browse of t is, or "managing",
                        \* or "fetching" a file
          ask,          \* ask[t]: the request
          answer,       \* answer[t]: the response so far
          at,           \* at[t]: the item t has a reference to, see Nowhere
          disturbed,    \* history: liveStreams changed while t held its locks
          crashed       \* something that was erased or freed was used

dirVars       == <<streams, status, liveStreams, files, heartbeat>>
browseVars    == <<pc, ask, answer, at, disturbed>>
directoryVars == <<dirVars, browseVars, crashed>>

Asleep == {0}

(* The requests; item is the object when object is "item".  The metadata of*)
(* the three containers are made alike.  Bound: StartingIndex and          *)
(* RequestedCount are unsigned, as the service description says they are;  *)
(* the code would take negative numbers as well.                           *)
Request(flag, object, item, start, count) ==
    [flag |-> flag, object |-> object, item |-> item, start |-> start,
     count |-> count]
NoRequest == Request("neither", "0", 0, 0, 0)

Items   == Streams \union Files
Indices == 0..MaxIndex
Requests ==
    {Request("BrowseDirectChildren", o, 0, i, n) :
        o \in {"0", "streams", "files"}, i \in Indices, n \in Indices}
    \union {Request("BrowseMetadata", "item", i, 0, 0) : i \in Items}
    \union {Request("BrowseMetadata", "0", 0, 0, 0),
            Request("BrowseDirectChildren", "item", 0, 0, 0), NoRequest}

(* The list a reference goes into, the item, and how many items the walk   *)
(* has met.                                                                *)
Nowhere == [list |-> "files", item |-> 0, met |-> 0]

NoAnswer == [error |-> 0, number |-> 0, total |-> 0, items |-> <<>>]

(* Browse holds streamContainerMutex and fileContainerMutex, shared.       *)
Holding(t) == pc[t] \in {"locked", "walking", "found", "complete"}

(* Nobody holds streamContainerMutex, or fileContainerMutex.               *)
StreamsFree == heartbeat = Asleep /\ \A t \in Threads : ~Holding(t)

(* A mutant: Browse locks the streams only.                                *)
FilesFreeAlways == TRUE

FilesFree   == \A t \in Threads : ~Holding(t)

DirectoryInit ==
        /\ streams = {} /\ status = [s \in Streams |-> FALSE]
        /\ liveStreams = {} /\ files = {}
        /\ heartbeat = Asleep
        /\ pc = [t \in Threads |-> "idle"]
        /\ ask = [t \in Threads |-> NoRequest]
        /\ answer = [t \in Threads |-> NoAnswer]
        /\ at = [t \in Threads |-> Nowhere]
        /\ disturbed = [t \in Threads |-> FALSE]
        /\ crashed = FALSE

-----------------------------------------------------------------------------
(* The server's calls, and the status of the streams.                      *)

AddStream(s) == /\ StreamsFree
                /\ streams' = streams \union {s}
                /\ UNCHANGED <<status, liveStreams, files, heartbeat, browseVars, crashed>>

(* A mutant: the stream stays in liveStreams.                              *)
RemoveStreamLive(s) == /\ StreamsFree
                       /\ streams' = streams \ {s}
                       /\ UNCHANGED <<status, liveStreams, files, heartbeat,
                                      browseVars, crashed>>

RemoveStream(s) == /\ StreamsFree
                   /\ streams' = streams \ {s}
                   /\ liveStreams' = liveStreams \ {s}
                   /\ UNCHANGED <<status, files, heartbeat, browseVars, crashed>>

(* AddFile throws when the name is there.                                  *)
AddFile(f) == /\ f \notin files
              /\ FilesFree
              /\ files' = files \union {f}
              /\ UNCHANGED <<streams, status, liveStreams, heartbeat, browseVars, crashed>>

RemoveFile(f) == /\ FilesFree
                 /\ files' = files \ {f}
                 /\ UNCHANGED <<streams, status, liveStreams, heartbeat, browseVars, crashed>>

StatusChanges(s) == /\ status' = [status EXCEPT ![s] = ~@]
                    /\ UNCHANGED <<streams, liveStreams, files, heartbeat,
                                   browseVars, crashed>>

-----------------------------------------------------------------------------
(* Heartbeat, with the shared locks from Begins to Ends.                   *)

HeartbeatBegins == /\ heartbeat = Asleep
                   /\ heartbeat' = streams
                   /\ UNCHANGED <<streams, status, liveStreams, files, browseVars, crashed>>

(* A mutant: a stream that is listed is not looked at again.               *)
HeartbeatAdds(s) ==
    /\ s \in heartbeat \ Asleep
    /\ heartbeat' = heartbeat \ {s}
    /\ liveStreams' = IF status[s] THEN liveStreams \union {s} ELSE liveStreams
    /\ disturbed' = [t \in Threads |->
                       disturbed[t] \/ (Holding(t) /\ liveStreams' # liveStreams)]
    /\ UNCHANGED <<streams, status, files, pc, ask, answer, at, crashed>>

HeartbeatLooks(s) ==
    /\ s \in heartbeat \ Asleep
    /\ heartbeat' = heartbeat \ {s}
    /\ liveStreams' = IF status[s] THEN liveStreams \union {s} ELSE liveStreams \ {s}
    /\ disturbed' = [t \in Threads |->
                       disturbed[t] \/ (Holding(t) /\ liveStreams' # liveStreams)]
    /\ UNCHANGED <<streams, status, files, pc, ask, answer, at, crashed>>

HeartbeatEnds == /\ heartbeat = {}
                 /\ heartbeat' = Asleep
                 /\ UNCHANGED <<streams, status, liveStreams, files, browseVars, crashed>>

-----------------------------------------------------------------------------
(* Browse.                                                                 *)

(* ExecuteAction reads the request, and browse takes the locks.  The other *)
(* actions answer constants, like a Browse with neither flag.              *)
Browse(t, request) ==
    /\ pc[t] = "idle"
    /\ ask' = [ask EXCEPT ![t] = request]
    /\ pc' = [pc EXCEPT ![t] = IF request.flag = "neither" THEN "done" ELSE "locked"]
    /\ UNCHANGED <<dirVars, answer, at, disturbed, crashed>>

List(object) == IF object = "streams" THEN liveStreams ELSE files
Count(r)     == IF r.count = 0 THEN Everything ELSE r.count

(* How many browse says there are: for the two containers of "0", and for  *)
(* the items of a list of n.                                               *)
RootNumber(r) == IF r.start = 0 /\ Count(r) > 1 THEN 2
                 ELSE IF r.start <= 1 THEN 1 ELSE 0

(* A mutant: RequestedCount is taken for the number of items.              *)
NumberAsked(r, n) == Count(r)

Number(r, n) == IF n - r.start < Count(r) THEN n - r.start ELSE Count(r)

(* What browseDirectChildren gives for "0": the containers of the streams  *)
(* and of the files.                                                       *)
RootItems(r) == IF r.start = 0 THEN (IF Count(r) > 1 THEN <<-1, -2>> ELSE <<-1>>)
                ELSE IF r.start = 1 THEN <<-2>> ELSE <<>>

Answers(t, number, total, items) ==
    answer' = [answer EXCEPT ![t] = [error |-> 0, number |-> number, total |-> total,
                                     items |-> items]]

Fails(t, code) == answer' = [answer EXCEPT ![t] = [NoAnswer EXCEPT !.error = code]]

(* The first half of BrowseDirectChildren: the numbers.                    *)
CountChildren(t) ==
    /\ pc[t] = "locked" /\ ask[t].flag = "BrowseDirectChildren"
    /\ LET r == ask[t]
           n == Cardinality(List(r.object))
       IN \/ /\ r.object = "0"
             /\ Answers(t, RootNumber(r), 2, RootItems(r))
             /\ pc' = [pc EXCEPT ![t] = "complete"]
          \/ /\ r.object \in {"streams", "files"}
             /\ Answers(t, Number(r, n), n, <<>>)
             /\ pc' = [pc EXCEPT ![t] = "walking"]
          \/ /\ r.object = "item"
             /\ Fails(t, 701)
             /\ pc' = [pc EXCEPT ![t] = "done"]
    /\ UNCHANGED <<dirVars, ask, at, disturbed, crashed>>

(* The item a reference is to was erased, or the map may have been rehashed*)
(* by an insertion.                                                        *)
Dangling(t) == /\ at[t].item # 0
               /\ \/ at[t].item \notin List(at[t].list)
                  \/ at[t].list = "streams" /\ disturbed[t]

(* EscapeURI replaces a per cent sign by a text that begins with one, and  *)
(* EscapeXML an ampersand likewise: they go on for ever, the first with the*)
(* locks held.                                                             *)
Shows(t, items)  == \E i \in DOMAIN answer[t].items : answer[t].items[i] \in items
EscapesURI(t) == \/ pc[t] = "walking" /\ Shows(t, PerCent)
                 \/ pc[t] = "found" /\ at[t].item \in PerCent
EscapesXML(t) == pc[t] = "done" /\ Shows(t, Ampersand)
Hangs(t)      == EscapesURI(t) \/ EscapesXML(t)

(* A mutant: an item that is passed over is met again.                     *)
StaysPut(t, list, item) == IF at[t].met < ask[t].start THEN at[t]
                           ELSE [list |-> list, item |-> item, met |-> at[t].met + 1]

Met(t, list, item) == [list |-> list, item |-> item, met |-> at[t].met + 1]

(* The walk of browseDirectChildren, one item at a time.  The first        *)
(* StartingIndex are passed over.  If the list has changed there is no     *)
(* telling whether it goes on from where it is.                            *)
Walk(t) ==
    /\ pc[t] = "walking" /\ ~Hangs(t)
    /\ LET r     == ask[t]
           after == {i \in List(r.object) : i > at[t].item}
           full  == Len(answer[t].items) = Count(r)
       IN IF full \/ after = {}
          THEN /\ pc' = [pc EXCEPT ![t] = "complete"]
               /\ UNCHANGED <<answer, at>>
          ELSE /\ at' = [at EXCEPT ![t] = Met(t, r.object, Min(after))]
               /\ answer' = [answer EXCEPT ![t].items =
                     IF at[t].met < r.start THEN @ ELSE Append(@, Min(after))]
               /\ UNCHANGED pc
    /\ crashed' \in {FALSE, Dangling(t)}
    /\ UNCHANGED <<dirVars, ask, disturbed>>

(* BrowseMetadata, and GetItemXML, which finds the item among the streams  *)
(* or else among the files and copies it after that.                       *)
Metadata(t) ==
    /\ pc[t] = "locked" /\ ask[t].flag = "BrowseMetadata"
    /\ LET i == ask[t].item
           in(list) == at' = [at EXCEPT ![t] = [Nowhere EXCEPT !.list = list, !.item = i]]
       IN \/ /\ ask[t].object # "item"
             /\ Answers(t, 1, 1, <<0>>)
             /\ pc' = [pc EXCEPT ![t] = "complete"]
             /\ UNCHANGED at
          \/ /\ ask[t].object = "item" /\ i \in liveStreams \union files
             /\ in(IF i \in liveStreams THEN "streams" ELSE "files")
             /\ pc' = [pc EXCEPT ![t] = "found"]
             /\ UNCHANGED answer
          \/ /\ ask[t].object = "item" /\ i \notin liveStreams \union files
             /\ Fails(t, 701)
             /\ pc' = [pc EXCEPT ![t] = "done"]
             /\ UNCHANGED at
    /\ UNCHANGED <<dirVars, ask, disturbed, crashed>>

CopyItem(t) ==
    /\ pc[t] = "found" /\ ~Hangs(t)
    /\ Answers(t, 1, 1, <<at[t].item>>)
    /\ pc' = [pc EXCEPT ![t] = "complete"]
    /\ crashed' \in {FALSE, Dangling(t)}
    /\ UNCHANGED <<dirVars, ask, at, disturbed>>

(* The locks are given back, and the answer is escaped and sent.           *)
Unlock(t) == /\ pc[t] = "complete"
             /\ pc' = [pc EXCEPT ![t] = "done"]
             /\ UNCHANGED <<dirVars, ask, answer, at, disturbed, crashed>>

Respond(t) == /\ pc[t] = "done" /\ ~Hangs(t)
              /\ pc' = [pc EXCEPT ![t] = "idle"]
              /\ ask' = [ask EXCEPT ![t] = NoRequest]
              /\ answer' = [answer EXCEPT ![t] = NoAnswer]
              /\ at' = [at EXCEPT ![t] = Nowhere]
              /\ disturbed' = [disturbed EXCEPT ![t] = FALSE]
              /\ UNCHANGED <<dirVars, crashed>>

Heartbeats == HeartbeatBegins \/ HeartbeatEnds \/ \E s \in Streams : HeartbeatLooks(s)
Browses(t) == CountChildren(t) \/ Walk(t) \/ Metadata(t) \/ CopyItem(t) \/ Unlock(t)
                \/ Respond(t)

-----------------------------------------------------------------------------
DirectoryTypeOK ==
          /\ streams \subseteq Streams /\ liveStreams \subseteq Streams
          /\ status \in [Streams -> BOOLEAN]
          /\ files \subseteq Files
          /\ heartbeat = Asleep \/ heartbeat \subseteq streams
          /\ pc \in [Threads -> {"idle", "locked", "walking", "found",
                                 "complete", "done", "managing", "fetching"}]
          /\ ask \in [Threads -> Requests]
          /\ answer \in [Threads -> [error : {0, 701}, number : Int, total : Nat,
                                     items : Seq(Int)]]
          /\ \A t \in Threads : answer[t].number \in (-MaxIndex)..answer[t].total
          /\ at \in [Threads -> [list : {"streams", "files"}, item : Items \union {0},
                                 met : Nat]]
          /\ disturbed \in [Threads -> BOOLEAN]
          /\ crashed \in BOOLEAN

(* What is listed as live can be played: a stream that was removed is not  *)
(* in the list and does not come back, though the heartbeat may have been  *)
(* about to add it.                                                        *)
LiveAreStreams == liveStreams \subseteq streams

Before(list, item) == {j \in list : j < item}

(* The numbers of an answer, which browse computes, and its items, which   *)
(* browseDirectChildren walks through, are of one list and agree: the      *)
(* items are those from StartingIndex on and as many as NumberReturned     *)
(* says.  (The i-th item has StartingIndex + i - 1 items of the list before*)
(* it.)  That is so whatever is added and removed meanwhile, unless the    *)
(* heartbeat changed liveStreams, or the page begins after the last item.  *)
PagesAreSlices ==
    \A t \in Threads : LET r == ask[t]
                           a == answer[t] IN
       (pc[t] = "complete" /\ r.flag = "BrowseDirectChildren") =>
          IF r.object = "0" THEN a.number = Len(a.items)
          ELSE (~disturbed[t] /\ r.start <= a.total) =>
                  /\ Len(a.items) = a.number
                  /\ a.total = Cardinality(List(r.object))
                  /\ \A i \in 1..a.number :
                        /\ a.items[i] \in List(r.object)
                        /\ Cardinality(Before(List(r.object), a.items[i])) = r.start + i - 1
=============================================================================
