---------------------------- MODULE MemoryStore ----------------------------
(***************************************************************************)
(* The server's file operations Open, Read and Close on top of the memory  *)
(* store: server threads that come and go, the heartbeat thread that fills *)
(* the buffers, and the two containers between them.  A StreamHandle (a    *)
(* buffer) is shared through streamHandles by everyone who opens the       *)
(* stream; a client handle is found in clientHandles by the stream's name. *)
(* What a buffer holds is abstracted to whether it was ever filled, and a  *)
(* head to where it stands in its own buffer; MemoryRing has the bytes.    *)
(*                                                                         *)
(* A critical section in which a thread never waits is one step.  The      *)
(* mutexes that are held across steps are those of Open and of the         *)
(* heartbeat's read from the stream; who holds them follows from pc and hb.*)
(***************************************************************************)
EXTENDS Integers, FiniteSets, Heads

CONSTANTS Threads,     \* threads of the UPnP library, each serving one file
          Streams,     \* names of the streams
          Buffers,     \* identities for StreamHandle objects
          NoStream, NoBuffer

ASSUME NoStreamAssumption == NoStream \notin Streams
ASSUME NoBufferAssumption == NoBuffer \notin Buffers

VARIABLES streamHandles,  \* the buffer the store has for a stream
          filled,         \* the buffers whose tail is not -1
          finished,       \* the buffers the heartbeat has given up on
          clientHandles,  \* the threads whose client handle is registered
          pc, stream,     \* where a thread is, and the stream it serves
          buffer,         \* the buffer of a thread's client handle
          head,           \* the place of its head in that buffer
          hb,             \* where the heartbeat thread is
          todo,           \* its copy of streamHandles: pairs still to visit
          current,        \* the pair <<stream, buffer>> it is at
          up,             \* FALSE once the server is shutting down
          crashed         \* undefined behaviour has ended the process

threadVars == <<pc, stream, buffer, head>>
bufferVars == <<streamHandles, filled, finished>>
hbVars     == <<hb, todo, current>>
processVars == <<up, crashed>>
vars == <<threadVars, bufferVars, hbVars, clientHandles, processVars>>

(* Where a thread is: serving no file, waiting in Open, in one of the      *)
(* sections of Open, between two calls, in Read, in the sections of Close. *)
Places == {"out", "opening", "starting", "sample", "register", "open",
           "reading", "destroy", "remove", "erase"}

At(t, place)    == pc[t] = place
Go(t, from, to) == pc[t] = from /\ pc' = [pc EXCEPT ![t] = to]

(* A mutant: Open returns without releasing handleMutex.                   *)
HandlesLockedOpen == \E t \in Threads :
                       pc[t] \in {"starting", "sample", "register", "open"}

(* Server::handleMutex is held all through CreateHandle, and               *)
(* streamContainerMutex while CreateStreamHandle starts the stream.        *)
HandlesLocked == \E t \in Threads : pc[t] \in {"starting", "sample", "register"}
StreamsLocked == \E t \in Threads : At(t, "starting")

(* While it reads from the stream the heartbeat holds clientContainerMutex,*)
(* the rw_mutex of the buffer and the mutex of the stream's source.        *)
Filling         == hb = "filling"
ClientsLocked   == Filling
BufferLocked(b) == Filling /\ current[2] = b
SourceLocked(s) == Filling /\ current[1] = s

(* Buffers somebody still points to; the last pointer to a buffer frees it.*)
Used == {streamHandles[s] : s \in Streams} \union {buffer[t] : t \in Threads}
          \union {p[2] : p \in todo} \union {current[2]}

FreeUnused == /\ filled' = filled \intersect Used'
              /\ finished' = finished \intersect Used'

Nowhere == <<NoStream, NoBuffer>>

(* The heartbeat thread is started before alive is set: if it looks first, *)
(* it has ended before anything else happens.                              *)
Init == /\ streamHandles = [s \in Streams |-> NoBuffer]
        /\ filled = {} /\ finished = {}
        /\ clientHandles = {}
        /\ pc = [t \in Threads |-> "out"]
        /\ stream = [t \in Threads |-> NoStream]
        /\ buffer = [t \in Threads |-> NoBuffer]
        /\ head = [t \in Threads |-> "none"]
        /\ hb \in {"sleep", "ended"} /\ todo = {} /\ current = Nowhere
        /\ up = TRUE /\ crashed = FALSE

-----------------------------------------------------------------------------
(* Server::Open up to handleMutex: the stream is found by its name.        *)
OpenCall(t) == /\ up
               /\ Go(t, "out", "opening")
               /\ \E s \in Streams : stream' = [stream EXCEPT ![t] = s]
               /\ UNCHANGED <<buffer, head, bufferVars, hbVars, clientHandles,
                              processVars>>

(* A mutant: nothing is locked from the lookup to the insertion.           *)
LookupUnlocked(t) ==
    /\ \/ /\ At(t, "opening")
          /\ streamHandles[stream[t]] # NoBuffer
          /\ Go(t, "opening", "sample")
          /\ buffer' = [buffer EXCEPT ![t] = streamHandles[stream[t]]]
       \/ /\ At(t, "opening")
          /\ streamHandles[stream[t]] = NoBuffer
          /\ Go(t, "opening", "starting")
          /\ UNCHANGED buffer
    /\ UNCHANGED <<stream, head, bufferVars, hbVars, clientHandles,
                   processVars>>

(* With handleMutex, CreateHandle finds the stream's buffer, or goes on to *)
(* create one without releasing streamContainerMutex.  (The latter is free *)
(* when handleMutex is: it is held across steps only inside it.)           *)
Lookup(t) ==
    /\ At(t, "opening")
    /\ ~HandlesLocked
    /\ \/ /\ streamHandles[stream[t]] # NoBuffer
          /\ Go(t, "opening", "sample")
          /\ buffer' = [buffer EXCEPT ![t] = streamHandles[stream[t]]]
       \/ /\ streamHandles[stream[t]] = NoBuffer
          /\ Go(t, "opening", "starting")
          /\ UNCHANGED buffer
    /\ UNCHANGED <<stream, head, bufferVars, hbVars, clientHandles,
                   processVars>>

(* CreateStreamHandle: stream->Start() takes the mutex of the source; then *)
(* a new buffer goes into the container.  (Bound: there are Buffers enough *)
(* when one is left for every place a buffer can be pointed to from.)      *)
StartStream(t) ==
    LET b == CHOOSE b \in Buffers : b \notin Used
    IN  /\ Go(t, "starting", "sample")
        /\ ~SourceLocked(stream[t])
        /\ ~(Buffers \subseteq Used)
        /\ buffer' = [buffer EXCEPT ![t] = b]
        /\ streamHandles' = [streamHandles EXCEPT ![stream[t]] = b]
        /\ UNCHANGED <<stream, head, filled, finished, hbVars, clientHandles,
                       processVars>>

(* Start() threw: Open returns nullptr, both mutexes are released.         *)
StartFails(t) ==
    /\ Go(t, "starting", "out")
    /\ ~SourceLocked(stream[t])
    /\ stream' = [stream EXCEPT ![t] = NoStream]
    /\ UNCHANGED <<buffer, head, bufferVars, hbVars, clientHandles,
                   processVars>>

(* The constructor of ClientHandle copies the tail under the shared lock.  *)
Sample(t) ==
    /\ Go(t, "sample", "register")
    /\ ~BufferLocked(buffer[t])
    /\ head' = [head EXCEPT ![t] = Sampled(buffer[t] \in filled)]
    /\ UNCHANGED <<stream, buffer, bufferVars, hbVars, clientHandles,
                   processVars>>

(* clientHandles.insert; then Open inserts into handles and returns.       *)
Register(t) == /\ ~ClientsLocked
               /\ Go(t, "register", "open")
               /\ clientHandles' = clientHandles \union {t}
               /\ UNCHANGED <<stream, buffer, head, bufferVars, hbVars,
                              processVars>>

-----------------------------------------------------------------------------
ReadCall(t) == /\ Go(t, "open", "reading")
               /\ UNCHANGED <<stream, buffer, head, bufferVars, hbVars,
                              clientHandles, processVars>>

(* A mutant: Server::Read does not look whether the server still runs.     *)
ReadEndsAtEnd(t) == /\ ~BufferLocked(buffer[t])
                    /\ head[t] = "tail"
                    /\ buffer[t] \in finished
                    /\ Go(t, "reading", "destroy")
                    /\ UNCHANGED <<stream, buffer, head, bufferVars, hbVars,
                                   clientHandles, processVars>>

(* Read returns 0, upon which the library closes the file: Server::Read    *)
(* when the server is shutting down, MemoryStore::Read when the buffer is  *)
(* finished and the client has read up to its tail.                        *)
ReadEnds(t) == /\ ~BufferLocked(buffer[t])
               /\ ~up \/ (head[t] = "tail" /\ buffer[t] \in finished)
               /\ Go(t, "reading", "destroy")
               /\ UNCHANGED <<stream, buffer, head, bufferVars, hbVars,
                              clientHandles, processVars>>

(* MemoryStore::Read copies bytes, up to the tail or fewer.  (A head may   *)
(* stand in a buffer that was never filled: see FillData.)                 *)
Reached(t) == Copied(buffer[t] \in filled)

ReadCopies(t) ==
    /\ ~BufferLocked(buffer[t])
    /\ head[t] = "behind"
    /\ Go(t, "reading", "open")
    /\ \E h \in Reached(t) : head' = [head EXCEPT ![t] = h]
    /\ UNCHANGED <<stream, buffer, bufferVars, hbVars, clientHandles,
                   processVars>>

-----------------------------------------------------------------------------
(* The library closes the file because its client went away.               *)
CloseCall(t) == /\ Go(t, "open", "destroy")
                /\ UNCHANGED <<stream, buffer, head, bufferVars, hbVars,
                               clientHandles, processVars>>

Others(t) == {u \in clientHandles \ {t} : stream[u] = stream[t]}

(* A mutant: the last client does not remove the buffer.                   *)
DestroyKeeps(t) == /\ ~ClientsLocked
                   /\ Go(t, "destroy", "erase")
                   /\ clientHandles' = clientHandles \ {t}
                   /\ buffer' = [buffer EXCEPT ![t] = NoBuffer]
                   /\ head' = [head EXCEPT ![t] = "none"]
                   /\ UNCHANGED <<stream, streamHandles, hbVars, processVars>>
                   /\ FreeUnused

(* DestroyHandle erases the client handle, and its pointer to the buffer   *)
(* with it, and counts those that are left.  The count is taken with the   *)
(* name in the erased handle, so it may come out as 0 whatever is left.    *)
Destroy(t) == /\ ~ClientsLocked
              /\ \/ Others(t) # {} /\ Go(t, "destroy", "erase")
                 \/ Go(t, "destroy", "remove")
              /\ clientHandles' = clientHandles \ {t}
              /\ buffer' = [buffer EXCEPT ![t] = NoBuffer]
              /\ head' = [head EXCEPT ![t] = "none"]
              /\ UNCHANGED <<stream, streamHandles, hbVars, processVars>>
              /\ FreeUnused

(* RemoveStreamHandle: whatever buffer the stream has by now leaves the    *)
(* container.                                                              *)
Remove(t) == /\ Go(t, "remove", "erase")
             /\ ~StreamsLocked
             /\ streamHandles' = [streamHandles EXCEPT ![stream[t]] = NoBuffer]
             /\ UNCHANGED <<stream, buffer, head, hbVars, clientHandles,
                            processVars>>
             /\ FreeUnused

(* Close erases the file handle and returns.                               *)
CloseReturn(t) ==
    /\ Go(t, "erase", "out")
    /\ stream' = [stream EXCEPT ![t] = NoStream]
    /\ UNCHANGED <<buffer, head, bufferVars, hbVars, clientHandles,
                   processVars>>

-----------------------------------------------------------------------------
(* Heartbeat copies the container ...                                      *)
Snapshot == /\ hb = "sleep"
            /\ ~StreamsLocked
            /\ todo' = {<<s, streamHandles[s]>> :
                          s \in {x \in Streams : streamHandles[x] # NoBuffer}}
            /\ hb' = "pick"
            /\ UNCHANGED <<current, threadVars, bufferVars, clientHandles,
                           processVars>>

(* ... and visits the buffers in it that are not finished.                 *)
Pick == /\ hb = "pick"
        /\ \E p \in todo : /\ todo' = todo \ {p}
                           /\ IF p[2] \in finished
                              THEN UNCHANGED <<hb, current>>
                              ELSE hb' = "filling" /\ current' = p
        /\ UNCHANGED <<threadVars, streamHandles, clientHandles, processVars>>
        /\ FreeUnused

Sleep == /\ hb = "pick"
         /\ todo = {}
         /\ hb' = "sleep"
         /\ UNCHANGED <<todo, current, threadVars, bufferVars, clientHandles,
                        processVars>>

(* Where GetAVData on buffer b may leave the head of thread t.  It moves   *)
(* the heads of all the clients it finds under the stream's name, those    *)
(* that read another buffer of the stream included: their heads move by    *)
(* the positions of b.                                                     *)
Moves(t, b) ==
    LET registered == t \in clientHandles /\ stream[t] = current[1]
        own        == buffer[t] = b
    IN  CASE own                -> AfterFill(registered, head[t])
          [] ~own /\ registered -> Copied(buffer[t] \in filled)
          [] OTHER              -> {head[t]}

(* stream->Read returned bytes.                                            *)
FillData ==
    /\ Filling
    /\ head' \in [Threads -> HeadPlaces]
    /\ \A t \in Threads : head'[t] \in Moves(t, current[2])
    /\ hb' = "pick"
    /\ current' = Nowhere
    /\ UNCHANGED <<pc, stream, buffer, streamHandles, todo, clientHandles,
                   processVars>>
    /\ filled' = (filled \union {current[2]}) \intersect Used'
    /\ finished' = finished \intersect Used'

(* stream->Read returned 0.                                                *)
FillNothing == /\ Filling
               /\ hb' = "pick"
               /\ current' = Nowhere
               /\ UNCHANGED <<todo, threadVars, streamHandles, clientHandles,
                              processVars>>
               /\ FreeUnused

(* Mutants: the handler leaves the buffer in the container; it marks the   *)
(* stream.                                                                 *)
FillThrowsKeeps == /\ Filling
                   /\ finished' = finished \union {current[2]}
                   /\ hb' = "pick"
                   /\ current' = Nowhere
                   /\ UNCHANGED <<todo, threadVars, streamHandles, filled,
                                  clientHandles, processVars>>
FillThrowsMarks == /\ Filling
                   /\ finished' = finished \union {current[1]}
                   /\ hb' = "remove"
                   /\ UNCHANGED <<todo, current, threadVars, streamHandles,
                                  filled, clientHandles, processVars>>

(* stream->Read threw: unwinding releases the locks, and the handler marks *)
(* the buffer.                                                             *)
FillThrows == /\ Filling
              /\ finished' = finished \union {current[2]}
              /\ hb' = "remove"
              /\ UNCHANGED <<todo, current, threadVars, streamHandles, filled,
                             clientHandles, processVars>>

(* RemoveStreamHandle, by the name the snapshot had.                       *)
HeartbeatRemoves ==
    /\ hb = "remove"
    /\ ~StreamsLocked
    /\ streamHandles' = [streamHandles EXCEPT ![current[1]] = NoBuffer]
    /\ hb' = "pick"
    /\ current' = Nowhere
    /\ UNCHANGED <<todo, threadVars, clientHandles, processVars>>
    /\ FreeUnused

-----------------------------------------------------------------------------
(* Server::Shutdown in the main thread, which then frees the server.       *)
Shutdown == /\ up
            /\ up' = FALSE
            /\ UNCHANGED <<threadVars, bufferVars, hbVars, clientHandles, crashed>>

(* Undefined behaviour that may end the process, or be survived:           *)
(*   - the loop of DestroyHandle goes on from the iterator it has erased;  *)
(*   - Close erases from handles without handleMutex while another thread  *)
(*     inserts or erases;                                                  *)
(*   - the heartbeat, which nobody stops (AVStore has no virtual           *)
(*     destructor), and calls in progress run on after the server is freed.*)
Undefined == \/ ~ClientsLocked /\ \E t \in Threads : At(t, "destroy")
             \/ \E t, u \in Threads : /\ t # u
                                      /\ At(t, "erase")
                                      /\ pc[u] \in {"register", "erase"}
             \/ ~up

(* Nothing is left of the state of a process that has ended.               *)
Crash == /\ Undefined
         /\ crashed' = TRUE
         /\ up' = FALSE
         /\ streamHandles' = [s \in Streams |-> NoBuffer]
         /\ filled' = {} /\ finished' = {}
         /\ clientHandles' = {}
         /\ pc' = [t \in Threads |-> "out"]
         /\ stream' = [t \in Threads |-> NoStream]
         /\ buffer' = [t \in Threads |-> NoBuffer]
         /\ head' = [t \in Threads |-> "none"]
         /\ hb' = "sleep" /\ todo' = {} /\ current' = Nowhere

Opening(t) == \/ Lookup(t) \/ StartStream(t) \/ StartFails(t)
              \/ Sample(t) \/ Register(t)

(* Server::Read tries again, as long as it runs, when the client has no    *)
(* head or nothing to read: until then the thread stays at "reading".      *)
Reading(t) == ReadEnds(t) \/ ReadCopies(t)
Closing(t) == Destroy(t) \/ Remove(t) \/ CloseReturn(t)
Heartbeat  == Snapshot \/ Pick \/ Sleep \/ HeartbeatRemoves
Source     == FillData \/ FillNothing \/ FillThrows

Live == \/ \E t \in Threads : \/ OpenCall(t) \/ ReadCall(t) \/ CloseCall(t)
                              \/ Opening(t) \/ Reading(t) \/ Closing(t)
        \/ Heartbeat
        \/ Source
        \/ Shutdown
        \/ Crash

Next == \/ ~crashed /\ Live
        \/ crashed /\ UNCHANGED vars

Spec == Init /\ [][Next]_vars

(* Scheduling: a thread inside Open, Read or Close, and the heartbeat, go  *)
(* on when they can, and a thread that waits for a mutex gets it sooner or *)
(* later.  About the environment it is assumed that the source always      *)
(* answers the heartbeat in the end: its reads block, and the code has no  *)
(* timeout of its own for them.                                            *)
Call(t) == Opening(t) \/ Reading(t) \/ Closing(t)

Scheduling == /\ \A t \in Threads : SF_vars(~crashed /\ Call(t))
              /\ WF_vars(~crashed /\ Heartbeat)
SourceAnswers == WF_vars(~crashed /\ Source)

FairSpec == Spec /\ Scheduling /\ SourceAnswers

-----------------------------------------------------------------------------
TypeOK == /\ streamHandles \in [Streams -> Buffers \union {NoBuffer}]
          /\ filled \subseteq Buffers
          /\ finished \subseteq Buffers
          /\ clientHandles \subseteq Threads
          /\ pc \in [Threads -> Places]
          /\ stream \in [Threads -> Streams \union {NoStream}]
          /\ buffer \in [Threads -> Buffers \union {NoBuffer}]
          /\ head \in [Threads -> HeadPlaces]
          /\ hb \in {"sleep", "pick", "filling", "remove", "ended"}
          /\ todo \subseteq Streams \X Buffers
          /\ current \in (Streams \X Buffers) \union {Nowhere}
          /\ up \in BOOLEAN
          /\ crashed \in BOOLEAN

(* The store stops reading a stream when its last client is gone: a buffer *)
(* in the container has a registered client of its stream, or a thread is  *)
(* on its way to register with it or to remove it.                         *)
NoIdleBuffer ==
    \A s \in Streams :
      streamHandles[s] # NoBuffer =>
         \/ \E t \in clientHandles : stream[t] = s
         \/ \E t \in Threads : /\ stream[t] = s
                               /\ pc[t] \in {"sample", "register", "remove"}

(* Nobody is given a buffer the heartbeat has given up on, except in the   *)
(* moment between its two steps: a finished buffer is in the container     *)
(* only while the heartbeat is about to remove it.                         *)
FinishedBuffersLeave ==
    \A s \in Streams :
      (streamHandles[s] # NoBuffer /\ streamHandles[s] \in finished) =>
         hb = "remove" /\ current = <<s, streamHandles[s]>>

(* A buffer in the container is never replaced by another one: two threads *)
(* that open the stream at the same time do not both start it, and the     *)
(* exception for a failed insert (line 62) is never thrown.                *)
NeverReplaced ==
    [][\A s \in Streams : (streamHandles[s] # NoBuffer
                           /\ streamHandles'[s] # NoBuffer)
                             => streamHandles'[s] = streamHandles[s]]_vars

(* Every Open and every Close comes back, unless undefined behaviour ends  *)
(* the process: no order of the four mutexes and no state of the two       *)
(* containers makes everyone wait, and no caller starves.                  *)
InOpenOrClose(t) == pc[t] \notin {"out", "open", "reading"}

CallsReturn ==
    \A t \in Threads : InOpenOrClose(t) ~> (crashed \/ ~InOpenOrClose(t))

(* A Read comes back when the server is shutting down, and when the stream *)
(* is finished: then the reader gets the bytes that are left and is told   *)
(* the end, if it ever had a place in the buffer.                          *)
MustEnd(t) == /\ At(t, "reading")
              /\ ~up \/ (head[t] # "none" /\ buffer[t] \in finished)

ReadsEnd == \A t \in Threads : MustEnd(t) ~> (crashed \/ ~At(t, "reading"))

-----------------------------------------------------------------------------
(* What the comment above class MemoryStore says: the clients of a stream  *)
(* share one ring buffer.  Two registered clients of a stream that read    *)
(* buffers the heartbeat has not given up on read the same one.            *)
ClientsShareOneBuffer ==
    \A t, u \in clientHandles :
      (stream[t] = stream[u] /\ buffer[t] \notin finished /\ buffer[u] \notin finished)
         => buffer[t] = buffer[u]
=============================================================================
