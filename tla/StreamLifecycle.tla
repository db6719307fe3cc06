-------------------------- MODULE StreamLifecycle --------------------------
(***************************************************************************)
(* One Stream with its AV handler, transcoder and their child processes.   *)
(* Four threads meet in it: a server thread that starts the stream for its *)
(* first client, the heartbeat of the memory store that reads from it, the *)
(* heartbeat of the stream that stops it when nobody has read for a while, *)
(* and the thread in which the destructor runs.  What they share are the   *)
(* child processes, each behind the mutex of its ChildProcess, the ends of *)
(* the pipes, which a fork copies into the child, and the time lastRead.   *)
(*                                                                         *)
(* Sections under a mutex in which nobody waits are one step.  A read from *)
(* a pipe waits, with the mutex held: see Locked.  A child is assumed to   *)
(* end when it gets SIGTERM, so that ShutdownProcess is one step as well,  *)
(* and to run as the user of the server, so that kill() may send it one:   *)
(* ShutdownProcess keeps a processId only when it may not.                 *)
(***************************************************************************)
EXTENDS Integers

VARIABLES kind,       \* how the stream is configured, see Kinds
          processId,  \* processId[p]: "none" (0), "failed" (-1), a "child",
                      \* or for a FileAVHandler an open "file"
          child,      \* child[p]: the process: "none", "running" or "dead"
          orphans,    \* TRUE once a child was left running without a processId
          ends,       \* ends[p]: who has the write end of p's output pipe
          data,       \* the processes whose output pipe holds bytes
          input,      \* inputPipe of the transcoder: 0, the handler's pipe,
                      \* or a descriptor closed since
          stdin,      \* the pipe the running transcoder reads from
          idle,       \* handlerTimeout seconds have passed since lastRead
          live,       \* streamIsLive
          wanted,     \* the memory store has a StreamHandle that reads
          clients,    \* somebody has the stream open
          starter, reader, heartbeat, owner,   \* where the threads are
          spared      \* history: the destructor found the stream not live,
                      \* and did not stop it

procVars == <<processId, child, orphans, ends, data, input, stdin>>
useVars  == <<idle, live, wanted, clients>>
threads  == <<starter, reader, heartbeat, owner>>
vars     == <<kind, procVars, useVars, threads, spared>>

(* What Server::AddStream can make: createAVHandler has two kinds of       *)
(* handlers, and the constructor of Stream wants a transcoder for a file.  *)
Kinds == {"external",      \* ExternalAVHandler alone
          "transcoded",    \* ExternalAVHandler into a Transcoder
          "file"}          \* FileAVHandler with a Transcoder

Procs == {"handler", "transcoder"}

(* Where Stream::Read reads.                                               *)
Source == IF kind = "external" THEN "handler" ELSE "transcoder"

(* A mutant: Read does not hold the mutex while it waits.                  *)
LockedAtEof(p) == p = Source /\ reader = "selflocked"

(* The reader waits in read() with the mutex of the source, or for a mutex *)
(* that it holds itself.                                                   *)
Locked(p) == p = Source /\ reader \in {"reading", "selflocked"}

Initialized(p) == processId[p] # "none"

Init == /\ kind \in Kinds
        /\ processId = [p \in Procs |-> "none"]
        /\ child = [p \in Procs |-> "none"] /\ orphans = FALSE
        /\ ends = [p \in Procs |-> {}]
        /\ data = {}
        /\ input = "none" /\ stdin = "none"
        /\ idle = FALSE /\ live \in BOOLEAN
        /\ wanted = FALSE /\ clients = FALSE
        /\ starter = "idle" /\ reader = "idle"
        /\ heartbeat = "sleep" /\ owner = "alive" /\ spared = FALSE

-----------------------------------------------------------------------------
(* The processes.                                                          *)

(* fork() in InitProcess: the child has what the server had of the pipes.  *)
(* The server closes the write end of the new pipe if inputPipe is set,    *)
(* and keeps it otherwise.                                                 *)
ServerEnd(p) == IF p = "transcoder" /\ input # "none" THEN {} ELSE {"server"}

Forks(p) ==
    /\ processId' = [processId EXCEPT ![p] = "child"]
    /\ ends' = [q \in Procs |->
                  IF q = p THEN {p} \union ServerEnd(p)
                  ELSE ends[q] \union (IF "server" \in ends[q] THEN {p} ELSE {})]
    /\ data' = data \ {p}
    /\ stdin' = CASE p = "handler" -> stdin
                  [] p = "transcoder" /\ input = "open" -> "handler"
                  [] OTHER -> "other"
    /\ child' = [child EXCEPT ![p] = "running"]
    /\ orphans' = (orphans \/ child[p] = "running")
    /\ UNCHANGED input

(* fork() returned -1, and the parent's branch runs.                       *)
ForkFails(p) ==
    /\ processId' = [processId EXCEPT ![p] = "failed"]
    /\ ends' = [ends EXCEPT ![p] = ServerEnd(p)]
    /\ data' = data \ {p}
    /\ UNCHANGED <<child, orphans, input, stdin>>

(* A mutant: no early return when the process runs already.                *)
InitProcessAgain(p) == ~Locked(p) /\ (Forks(p) \/ ForkFails(p))

(* ChildProcess::InitProcess.                                              *)
InitProcess(p) == /\ ~Locked(p)
                  /\ \/ processId[p] = "child" /\ UNCHANGED procVars
                     \/ processId[p] # "child" /\ (Forks(p) \/ ForkFails(p))

Without(q) == [p \in Procs |-> ends[p] \ {q}]

(* ChildProcess::ShutdownProcess.  With the -1 of a failed fork, kill and  *)
(* waitpid are about every child of the server.  Of a FileAVHandler it is  *)
(* Shutdown, which closes the file.                                        *)
ShutdownProcess(p) ==
    /\ ~Locked(p)
    /\ \/ ~Initialized(p) /\ UNCHANGED procVars
       \/ /\ Initialized(p)
          /\ processId' = [processId EXCEPT ![p] = "none"]
          /\ IF processId[p] = "failed"
             THEN /\ child' = [q \in Procs |->
                                 IF child[q] = "none" THEN "none" ELSE "dead"]
                  /\ ends' = [q \in Procs |->
                                IF q = p THEN {} ELSE ends[q] \intersect {"server"}]
             ELSE /\ child' = [child EXCEPT ![p] = "none"]
                  /\ ends' = [Without(p) EXCEPT ![p] = {}]
          /\ data' = data \ {p}
          /\ orphans' = (orphans /\ processId[p] # "failed")
          /\ input' = IF p = "transcoder" THEN "none"
                      ELSE IF input = "open" THEN "closed" ELSE input
          /\ stdin' = IF p = "transcoder" THEN "none"
                      ELSE IF stdin = "handler" THEN "other" ELSE stdin

(* The children write until their pipe is full, and end when they like.    *)
HandlerWrites == /\ child["handler"] = "running"
                 /\ data' = data \union {"handler"}
                 /\ UNCHANGED <<kind, processId, child, orphans, ends, input, stdin,
                                useVars, starter, reader, heartbeat, owner, spared>>

TranscoderWrites ==
    /\ child["transcoder"] = "running"
    /\ stdin = "handler" /\ "handler" \in data
    /\ data' = (data \ {"handler"}) \union {"transcoder"}
    /\ UNCHANGED <<kind, processId, child, orphans, ends, input, stdin,
                   useVars, starter, reader, heartbeat, owner, spared>>

ChildExits(p) == /\ child[p] = "running"
                 /\ child' = [child EXCEPT ![p] = "dead"]
                 /\ ends' = Without(p)
                 /\ UNCHANGED <<kind, processId, orphans, data, input, stdin, useVars,
                                starter, reader, heartbeat, owner, spared>>

-----------------------------------------------------------------------------
(* A server thread in Stream::Start, called for the first client.          *)

StartCall == /\ owner = "alive"
             /\ starter = "idle"
             /\ ~wanted
             /\ starter' = IF kind = "file" THEN "transcoder" ELSE "handler"
             /\ idle' = FALSE
             /\ UNCHANGED <<kind, procVars, live, wanted, clients, reader,
                            heartbeat, owner, spared>>

(* Start returns and the store begins to read.                             *)
Started(done) ==
    /\ wanted' = (wanted \/ done)
    /\ clients' = (clients \/ done)
    /\ UNCHANGED <<kind, idle, live, reader, heartbeat, owner, spared>>

StartHandler == /\ starter = "handler"
                /\ InitProcess("handler")
                /\ starter' = IF kind = "external" THEN "idle" ELSE "input"
                /\ Started(kind = "external")

(* A mutant: SetInput waits for the handler to be there.                   *)
SetInputWaits == /\ starter = "input"
                 /\ ~Locked("handler")
                 /\ Initialized("handler")
                 /\ input' = "open"
                 /\ starter' = "transcoder"
                 /\ Started(FALSE)
                 /\ UNCHANGED <<processId, child, orphans, ends, data, stdin>>

(* Transcoder::SetInput; it throws when the handler was stopped meanwhile. *)
SetInput == /\ starter = "input"
            /\ ~Locked("handler")
            /\ \/ /\ Initialized("handler")
                  /\ input' = "open"
                  /\ starter' = "transcoder"
               \/ /\ ~Initialized("handler")
                  /\ input' = "none"
                  /\ starter' = "idle"
            /\ Started(FALSE)
            /\ UNCHANGED <<processId, child, orphans, ends, data, stdin>>

StartTranscoder == /\ starter = "transcoder"
                   /\ InitProcess("transcoder")
                   /\ starter' = IF kind = "file" THEN "file" ELSE "idle"
                   /\ Started(kind = "transcoded")

(* A mutant: fd keeps the -1 of a failed open.                             *)
StartFileKeeps == /\ starter = "file"
                  /\ processId' \in {[processId EXCEPT !["handler"] = f] :
                                       f \in {"file", "error"}}
                  /\ starter' = "idle"
                  /\ Started(TRUE)
                  /\ UNCHANGED <<child, orphans, ends, data, input, stdin>>

(* FileAVHandler::Init; a file that cannot be opened is not an error.      *)
StartFile == /\ starter = "file"
             /\ processId' \in {[processId EXCEPT !["handler"] = f] :
                                  f \in {"file", processId["handler"]}}
             /\ starter' = "idle"
             /\ Started(TRUE)
             /\ UNCHANGED <<child, orphans, ends, data, input, stdin>>

(* InitProcess could not make a pipe: Start throws.                        *)
StartThrows == /\ starter \in {"handler", "transcoder"}
               /\ ~Locked(starter)
               /\ processId[starter] # "child"
               /\ starter' = "idle"
               /\ Started(FALSE)
               /\ UNCHANGED procVars

(* A client reads: UpdateReadTime.  The last client closes the stream.     *)
ClientReads == /\ clients
               /\ idle' = FALSE
               /\ UNCHANGED <<kind, procVars, live, wanted, clients, starter,
                              reader, heartbeat, owner, spared>>

ClientsLeave == /\ clients
                /\ clients' = FALSE
                /\ wanted' = FALSE
                /\ UNCHANGED <<kind, procVars, idle, live, starter, reader,
                               heartbeat, owner, spared>>

-----------------------------------------------------------------------------
(* The heartbeat of the memory store: it may have picked the StreamHandle  *)
(* from its copy of the container before the clients left.                 *)

Pick == /\ reader = "idle"
        /\ wanted
        /\ reader' = "picked"
        /\ UNCHANGED <<kind, procVars, useVars, starter, heartbeat, owner, spared>>

(* Read takes the mutex and finds a pipe, or throws like a read from a     *)
(* stream that is gone, and the store reads no more.                       *)
ReadBegin ==
    /\ reader = "picked"
    /\ \/ /\ owner = "alive"
          /\ Initialized(Source)
          /\ reader' = "reading"
          /\ UNCHANGED wanted
       \/ /\ owner # "alive" \/ ~Initialized(Source)
          /\ reader' = "idle"
          /\ wanted' = FALSE
    /\ UNCHANGED <<kind, procVars, idle, live, clients, starter, heartbeat,
                   owner, spared>>

(* read() hands out as much as fits into the buffer it was given.          *)
ReadReturns == /\ reader = "reading"
               /\ Source \in data
               /\ data' \in {data, data \ {Source}}
               /\ reader' = "idle"
               /\ UNCHANGED <<kind, processId, child, orphans, ends, input,
                              stdin, useVars, starter, heartbeat, owner, spared>>

(* read() returned 0: Read calls ShutdownProcess, which waits for the      *)
(* mutex Read holds.                                                       *)
ReadEof == /\ reader = "reading"
           /\ Source \notin data
           /\ ends[Source] = {}
           /\ reader' = "selflocked"
           /\ UNCHANGED <<kind, procVars, useVars, starter, heartbeat, owner, spared>>

-----------------------------------------------------------------------------
(* The heartbeat of the stream.                                            *)

Passes == idle' = TRUE /\ UNCHANGED <<kind, procVars, live, wanted, clients,
                                      starter, reader, heartbeat, owner, spared>>

(* UpdateStatus; when there is a status handler and it is time.            *)
UpdateStatus == /\ heartbeat = "sleep"
                /\ owner \in {"alive", "stop1", "stop2"}
                /\ ~Locked("handler")
                /\ live' \in IF Initialized("handler") THEN {TRUE} ELSE BOOLEAN
                /\ heartbeat' = "check"
                /\ UNCHANGED <<kind, procVars, idle, wanted, clients, starter,
                               reader, owner, spared>>

SkipStatus == /\ heartbeat = "sleep"
              /\ owner \in {"alive", "stop1", "stop2"}
              /\ heartbeat' = "check"
              /\ UNCHANGED <<kind, procVars, useVars, starter, reader, owner, spared>>

(* avHandler->IsInitialized().                                             *)
CheckHandler == /\ heartbeat = "check"
                /\ ~Locked("handler")
                /\ heartbeat' = IF Initialized("handler") THEN "sample" ELSE "sleep"
                /\ UNCHANGED <<kind, procVars, useVars, starter, reader, owner, spared>>

(* A mutant: the heartbeat never finds the timeout reached.                *)
SampleTimeNever ==
    /\ heartbeat = "sample"
    /\ heartbeat' = "sleep"
    /\ UNCHANGED <<kind, procVars, useVars, starter, reader, owner, spared>>

(* lastRead is read under readTimeMutex, and judged after that.            *)
SampleTime == /\ heartbeat = "sample"
              /\ heartbeat' = IF idle THEN "stop1" ELSE "sleep"
              /\ UNCHANGED <<kind, procVars, useVars, starter, reader, owner, spared>>

(* Stream::Stop, in the thread that is at "stop1".                         *)
StopTranscoder == IF kind = "external" THEN UNCHANGED procVars
                  ELSE ShutdownProcess("transcoder")

HeartbeatStops ==
    /\ \/ heartbeat = "stop1" /\ StopTranscoder /\ heartbeat' = "stop2"
       \/ heartbeat = "stop2" /\ ShutdownProcess("handler") /\ heartbeat' = "sleep"
    /\ UNCHANGED <<kind, useVars, starter, reader, owner, spared>>

(* A mutant: StopHeartbeat joins without clearing heartbeatRunning.        *)
HeartbeatEndsNever ==
    /\ heartbeat = "sleep"
    /\ owner = "gone"
    /\ heartbeat' = "ended"
    /\ UNCHANGED <<kind, procVars, useVars, starter, reader, owner, spared>>

HeartbeatEnds == /\ heartbeat = "sleep"
                 /\ owner = "join"
                 /\ heartbeat' = "ended"
                 /\ UNCHANGED <<kind, procVars, useVars, starter, reader, owner, spared>>

-----------------------------------------------------------------------------
(* The destructor of Stream, when nobody holds a pointer to it.            *)

Destroy == /\ owner = "alive"
           /\ starter = "idle"
           /\ reader \in {"idle", "picked"}
           /\ owner' = IF live THEN "stop1" ELSE "join"
           /\ spared' = ~live
           /\ UNCHANGED <<kind, procVars, useVars, starter, reader, heartbeat>>

DestroyStops ==
    /\ \/ owner = "stop1" /\ StopTranscoder /\ owner' = "stop2"
       \/ owner = "stop2" /\ ShutdownProcess("handler") /\ owner' = "join"
    /\ UNCHANGED <<kind, useVars, starter, reader, heartbeat, spared>>

(* The heartbeat was joined: the transcoder's destructor shuts its process *)
(* down.                                                                   *)
DestroyMembers ==
    /\ owner = "join" /\ heartbeat = "ended"
    /\ StopTranscoder
    /\ owner' = "handler"
    /\ UNCHANGED <<kind, useVars, starter, reader, heartbeat, spared>>

(* The handler is deleted as an AVHandler, which has no virtual destructor:*)
(* either its own destructor runs, or it is freed with its child running.  *)
DestroyHandler ==
    /\ owner = "handler"
    /\ \/ ShutdownProcess("handler")
       \/ /\ processId' = [processId EXCEPT !["handler"] = "none"]
          /\ orphans' = (orphans \/ child["handler"] = "running")
          /\ UNCHANGED <<child, ends, data, input, stdin>>
    /\ owner' = "gone"
    /\ UNCHANGED <<kind, useVars, starter, reader, heartbeat, spared>>

Start     == StartHandler \/ SetInput \/ StartTranscoder \/ StartFile \/ StartThrows
Reads     == ReadBegin \/ ReadReturns \/ ReadEof
Heartbeat == \/ UpdateStatus \/ SkipStatus \/ CheckHandler \/ SampleTime
             \/ HeartbeatStops \/ HeartbeatEnds
Destroys  == DestroyStops \/ DestroyMembers \/ DestroyHandler

Next == \/ Start \/ StartCall \/ ClientReads \/ ClientsLeave
        \/ Pick \/ Reads
        \/ Passes \/ Heartbeat
        \/ Destroy \/ Destroys
        \/ HandlerWrites \/ TranscoderWrites
        \/ \E p \in Procs : ChildExits(p)

Spec == Init /\ [][Next]_vars

(* A thread that is not waiting goes on, and one that waits for a mutex    *)
(* gets it sooner or later.  Of the children it is assumed that a running  *)
(* handler writes, and that a running transcoder passes on what it gets.   *)
FairSpec == /\ Spec
            /\ SF_vars(Start) /\ SF_vars(Heartbeat) /\ WF_vars(Reads)
            /\ WF_vars(Destroys)
            /\ WF_vars(HandlerWrites) /\ WF_vars(TranscoderWrites)

-----------------------------------------------------------------------------
TypeOK == /\ kind \in Kinds
          /\ processId \in [Procs -> {"none", "failed", "child", "file"}]
          /\ child \in [Procs -> {"none", "running", "dead"}]
          /\ ends \in [Procs -> SUBSET (Procs \union {"server"})]
          /\ data \subseteq Procs
          /\ input \in {"none", "open", "closed"}
          /\ stdin \in {"none", "handler", "other"}
          /\ orphans \in BOOLEAN
          /\ idle \in BOOLEAN /\ live \in BOOLEAN
          /\ wanted \in BOOLEAN /\ clients \in BOOLEAN
          /\ starter \in {"idle", "handler", "input", "transcoder", "file"}
          /\ reader \in {"idle", "picked", "reading", "selflocked"}
          /\ heartbeat \in {"sleep", "check", "sample", "stop1", "stop2", "ended"}
          /\ owner \in {"alive", "stop1", "stop2", "join", "handler", "gone"}
          /\ spared \in BOOLEAN

(* The server loses no child: a child that runs is the one processId names *)
(* and ShutdownProcess would end, however Start, Stop and the two          *)
(* heartbeats interleave, until the stream is gone.  The transcoder never  *)
(* outlives the stream, and the handler's child only when the destructor   *)
(* did not call Stop, because the stream was not live.                     *)
NoOrphans ==
    /\ orphans => owner = "gone" /\ spared
    /\ \A p \in Procs : child[p] = "running" =>
         IF owner = "gone" THEN p = "handler" /\ spared
                           ELSE processId[p] = "child"

(* A read waits on a pipe the server has open: neither the timeout nor the *)
(* destructor nor a restart takes the pipe away from under it.             *)
ReadsOpenPipe == reader = "reading" => processId[Source] \in {"child", "failed"}

(* A read that nothing will end: nobody writes to the pipe any more, or    *)
(* the reader waits for itself.                                            *)
Fed == CASE kind = "external"   -> child["handler"] = "running"
         [] kind = "transcoded" -> /\ child["transcoder"] = "running"
                                   /\ stdin = "handler"
                                   /\ \/ child["handler"] = "running"
                                      \/ "handler" \in data
         [] OTHER               -> FALSE

DeadRead == \/ reader = "selflocked"
            \/ reader = "reading" /\ Source \notin data /\ ~Fed

(* A dead read is the only thing that keeps the threads of a stream        *)
(* waiting: otherwise Start returns and the heartbeat gets round its loop. *)
ThreadsGoOn ==
    /\ starter # "idle" ~> (starter = "idle" \/ DeadRead)
    /\ heartbeat # "sleep" ~> (heartbeat \in {"sleep", "ended"} \/ DeadRead)

(* The destructor ends, and with it the heartbeat it joins.                *)
DestructorReturns == owner # "alive" ~> owner = "gone"

(* A stream nobody reads is stopped after the timeout, again unless a dead *)
(* read holds the mutex.                                                   *)
IdleStreamsStop ==
    (idle /\ Initialized("handler") /\ owner = "alive")
       ~> (~idle \/ ~Initialized("handler") \/ owner # "alive" \/ DeadRead)

-----------------------------------------------------------------------------
(* What AVWriter.h says of Read: it must throw EofReached when reading is  *)
(* no longer possible.  When the process it reads from has ended and the   *)
(* pipe is empty, a read comes back.                                       *)
EofReported ==
    (/\ reader = "reading"
     /\ Source \notin data
     /\ child[Source] # "running") ~> reader = "idle"

(* What Stream.h says of handlerTimeout: the AV handler is shut down after *)
(* the reading of data has stopped.  No process is shut down when a client *)
(* has read, or has just started the stream, within the timeout.           *)
StopsOnlyIdle ==
    [][\A p \in Procs : (HeartbeatStops /\ processId'[p] # processId[p]) => idle]_vars
=============================================================================
