------------------------------ MODULE Process ------------------------------
(***************************************************************************)
(* The life of the process around the content directory: main constructs   *)
(* the server, which starts the service's heartbeat and registers the      *)
(* device, adds streams and files, runs its loop until a signal clears     *)
(* shutdown_flag, and frees the server again, which destroys the service   *)
(* and then the streams, while the library's threads hand requests to      *)
(* whatever `server` points to and read files from its store.              *)
(*                                                                         *)
(* Which streams and files are configured or found is left open, see       *)
(* Configuration and DirectoryWatch.  RemoveStream is offered by the       *)
(* service; nothing calls it yet, here the main loop may.                  *)
(*                                                                         *)
(* Three waits of the code have no end of their own: of Update for a       *)
(* directory that cannot be opened (DirectoryWatch), of a status poll for  *)
(* its script or server (StreamStatus), and of a thread that reads a file  *)
(* for the stream behind it (MemoryStore).  Here they end when they like,  *)
(* or never.                                                               *)
(***************************************************************************)
EXTENDS ContentDirectory

CONSTANTS Patience,  \* how many signals abort the process, 3
          MaxBatch   \* bounds the changes one Update reports

ASSUME ProcessAssumption == Patience \in Nat \ {0} /\ MaxBatch \in Nat

VARIABLES main,           \* where main is
          change,         \* the call of AddFile or RemoveFile main is in
          batch,          \* how many changes of this Update are left
          shutdown_flag, shutdown_count,
          registered,     \* the device is registered with the library
          heartbeatRunning,
          told,           \* the streams whose destructor has begun in main
          polling         \* main joins a heartbeat that is in GetStatus

signalVars == <<shutdown_flag, shutdown_count>>
serverVars == <<registered, heartbeatRunning>>
streamVars == <<told, polling>>
mainVars   == <<main, change, batch, signalVars, serverVars, streamVars>>
vars       == <<mainVars, directoryVars>>

NoChange == [kind |-> "none", file |-> 0]
Changes  == [kind : {"add", "remove"}, file : Files]

(* shutdown_flag is true when the loop goes on.                            *)
Init == /\ main = "starting" /\ change = NoChange /\ batch = 0
        /\ shutdown_flag = FALSE /\ shutdown_count = 0
        /\ registered = FALSE /\ heartbeatRunning = FALSE
        /\ told = {} /\ polling = FALSE
        /\ DirectoryInit

Ended == main = "ended"

-----------------------------------------------------------------------------
(* Signals.                                                                *)

handle_signal ==
    /\ shutdown_count' = shutdown_count + 1
    /\ IF shutdown_count' >= Patience
       THEN main' = "ended" /\ UNCHANGED shutdown_flag
       ELSE shutdown_flag' = FALSE /\ UNCHANGED main
    /\ UNCHANGED <<change, batch, serverVars, streamVars, directoryVars>>

-----------------------------------------------------------------------------
(* The start.  `server` is assigned when the constructor is done.          *)

Goes(from, to) == main = from /\ main' = to

Only(from, to) == Goes(from, to) /\ UNCHANGED <<change, batch, signalVars, serverVars,
                                                streamVars, directoryVars>>

(* UpnpInit.                                                               *)
InitLibrary == Only("starting", "loading")

MakeService == /\ Goes("loading", "registering")
               /\ heartbeatRunning' = TRUE
               /\ UNCHANGED <<change, batch, signalVars, registered, streamVars, directoryVars>>

RegisterDevice == /\ Goes("registering", "advertising")
                  /\ registered' = TRUE
                  /\ UNCHANGED <<change, batch, signalVars, heartbeatRunning, streamVars,
                                 directoryVars>>

SendAdvertisement == Only("advertising", "streams")

(* UpnpInit fails, or loadXml throws for what it finds in the description, *)
(* before there is anything to be undone.                                  *)
InitFails == Only("starting", "ended")
loadXml   == Only("loading", "ended")

(* The constructor throws later.  The members are destroyed, and a device  *)
(* stays registered.                                                       *)
StartFails == /\ Goes("registering", "unwinding") \/ Goes("advertising", "unwinding")
              /\ heartbeatRunning' = FALSE
              /\ UNCHANGED <<change, batch, signalVars, registered, streamVars, directoryVars>>

Unwind == Only("unwinding", "ended") /\ heartbeat = Asleep

AddStreams == \/ /\ main = "streams"
                 /\ \E s \in Streams \ streams : AddStream(s)
                 /\ UNCHANGED mainVars
              \/ Only("streams", "files")

(* shutdown_flag is set once before the loop, whatever came until then.    *)
BeginLoop == /\ Goes("files", "loop") /\ change = NoChange
             /\ shutdown_flag' = TRUE
             /\ UNCHANGED <<change, batch, shutdown_count, serverVars, streamVars,
                            directoryVars>>

-----------------------------------------------------------------------------
(* Files come from the options, and then from the directory monitor.  A    *)
(* file that is there already is refused before the lock is asked for.     *)

(* The flag is looked at once for every Update, whose changes are all done *)
(* before it is looked at again.                                           *)
Update  == shutdown_flag /\ batch = 0 /\ change = NoChange /\ Only("loop", "updating")
Updated == /\ Goes("updating", "loop")
           /\ batch' \in 0..MaxBatch
           /\ UNCHANGED <<change, signalVars, serverVars, streamVars, directoryVars>>

BeginChange == /\ change = NoChange
               /\ \/ /\ main = "files" /\ change' \in {c \in Changes : c.kind = "add"}
                     /\ UNCHANGED batch
                  \/ /\ main = "loop" /\ batch > 0 /\ change' \in Changes
                     /\ batch' = batch - 1
               /\ UNCHANGED <<main, signalVars, serverVars, streamVars, directoryVars>>

ChangeFile == /\ \/ change.kind = "add" /\ AddFile(change.file)
                 \/ /\ change.kind = "add" /\ change.file \in files
                    /\ UNCHANGED directoryVars
                 \/ change.kind = "remove" /\ RemoveFile(change.file)
              /\ change' = NoChange
              /\ UNCHANGED <<main, batch, signalVars, serverVars, streamVars>>

DropStream == /\ main = "loop" /\ change = NoChange /\ batch = 0
              /\ \E s \in streams : RemoveStream(s)
              /\ UNCHANGED mainVars

-----------------------------------------------------------------------------
(* The end.                                                                *)

LeaveLoop == /\ Goes("loop", "deleting") /\ change = NoChange /\ batch = 0
             /\ ~shutdown_flag /\ shutdown_flag' = TRUE
             /\ UNCHANGED <<change, batch, shutdown_count, serverVars, streamVars,
                            directoryVars>>

Shutdown == /\ Goes("deleting", "destroying")
            /\ registered' = FALSE
            /\ UNCHANGED <<change, batch, signalVars, heartbeatRunning, streamVars,
                           directoryVars>>

(* A mutant: the service waits for its heartbeat without telling it.       *)
JoinOnly == Only("destroying", "joining")

(* The destructor of the service, after that of the store, which does not  *)
(* wait for the heartbeat of MemoryStore.                                  *)
StopHeartbeat == /\ Goes("destroying", "joining")
                 /\ heartbeatRunning' = FALSE
                 /\ UNCHANGED <<change, batch, signalVars, registered, streamVars,
                                directoryVars>>

JoinHeartbeat == ~heartbeatRunning /\ heartbeat = Asleep /\ Only("joining", "dropping")

(* The streams go one after the other.  ~Stream tells the heartbeat of the *)
(* stream to end and joins it, and it may be in a poll.  (A stream that the*)
(* store is reading from goes with the store's pointer to it, and nobody in*)
(* main waits.)                                                            *)
DestroyStream == /\ main = "dropping" /\ ~polling
                 /\ \E s \in streams \ told : told' = told \union {s}
                 /\ polling' \in BOOLEAN
                 /\ UNCHANGED <<main, change, batch, signalVars, serverVars, directoryVars>>

PollEnds == /\ polling /\ polling' = FALSE
            /\ UNCHANGED <<main, change, batch, signalVars, serverVars, told, directoryVars>>

StreamsDestroyed == streams \subseteq told /\ ~polling /\ Only("dropping", "finishing")

(* UpnpFinish waits for the library's threads.                             *)
Finish == (\A t \in Threads : pc[t] = "idle") /\ Only("finishing", "ended")

-----------------------------------------------------------------------------
(* The other threads.  A request is handed on as long as the device is     *)
(* registered; before `server` is assigned it goes through a null pointer. *)

Constructing == main \in {"starting", "loading", "registering", "advertising", "unwinding"}

(* An action of the connection manager, which answers a constant.          *)
Manage(t) == /\ pc[t] = "idle"
             /\ pc' = [pc EXCEPT ![t] = "managing"]
             /\ UNCHANGED <<dirVars, ask, answer, at, disturbed, crashed>>

(* A file operation on a stream, with the callbacks that main sets before  *)
(* its loop and ~Server takes back.                                        *)
OpenFile(t) == /\ pc[t] = "idle" /\ main \in {"loop", "updating", "deleting"}
               /\ pc' = [pc EXCEPT ![t] = "fetching"]
               /\ UNCHANGED <<dirVars, ask, answer, at, disturbed, crashed, mainVars>>

FileReturns(t) == /\ pc[t] = "fetching"
                  /\ pc' = [pc EXCEPT ![t] = "idle"]
                  /\ UNCHANGED <<dirVars, ask, answer, at, disturbed, crashed, mainVars>>

ManagerAnswers(t) == /\ pc[t] = "managing"
                     /\ pc' = [pc EXCEPT ![t] = "idle"]
                     /\ UNCHANGED <<dirVars, ask, answer, at, disturbed, crashed>>

IncomingEvent(t) ==
    /\ registered
    /\ \/ ~Constructing /\ (Manage(t) \/ \E r \in Requests : Browse(t, r))
       \/ Constructing /\ crashed' = TRUE /\ UNCHANGED <<dirVars, browseVars>>
    /\ UNCHANGED mainVars

(* What a thread does in a service or store that is freed already is       *)
(* undefined.  The store goes first, then the connection manager.          *)
Freed(t) == /\ pc[t] # "idle"
            /\ \/ main \in {"dropping", "finishing"}
               \/ main = "joining" /\ pc[t] \in {"managing", "fetching"}

Crashes(t) == Freed(t) /\ crashed' = TRUE /\ UNCHANGED <<dirVars, browseVars, mainVars>>

ExecuteAction(t) == \/ (Browses(t) \/ ManagerAnswers(t)) /\ UNCHANGED mainVars
                    \/ pc[t] # "fetching" /\ Crashes(t)

FileOperation(t) == OpenFile(t) \/ FileReturns(t) \/ (pc[t] = "fetching" /\ Crashes(t))

Heartbeat == /\ heartbeat = Asleep => heartbeatRunning
             /\ Heartbeats
             /\ UNCHANGED mainVars

StreamChanges == /\ \E s \in streams : StatusChanges(s)
                 /\ UNCHANGED mainVars

-----------------------------------------------------------------------------
Start == InitLibrary \/ InitFails \/ loadXml \/ MakeService \/ RegisterDevice
           \/ SendAdvertisement \/ StartFails \/ Unwind \/ AddStreams \/ BeginLoop
Stop  == LeaveLoop \/ Shutdown \/ StopHeartbeat \/ JoinHeartbeat \/ DestroyStream
           \/ StreamsDestroyed \/ Finish

Running == ~crashed /\ ~Ended

Next == /\ Running
        /\ \/ Start \/ Update \/ Updated \/ BeginChange \/ ChangeFile \/ DropStream \/ Stop
           \/ handle_signal
           \/ \E t \in Threads : IncomingEvent(t) \/ ExecuteAction(t) \/ FileOperation(t)
           \/ Heartbeat \/ StreamChanges \/ PollEnds

Spec == Init /\ [][Next]_vars

(* The threads go on, main to the end of its batch.  ChangeFile waits for  *)
(* a mutex, which the others let go again and again.                       *)
FairSpec == /\ Spec
            /\ WF_vars(Running /\ Stop)
            /\ WF_vars(Running /\ main = "loop" /\ BeginChange)
            /\ SF_vars(Running /\ ChangeFile)
            /\ WF_vars(Running /\ Heartbeat)
            /\ \A t \in Threads : WF_vars(Running /\ ExecuteAction(t))

-----------------------------------------------------------------------------
TypeOK == /\ main \in {"starting", "loading", "registering", "advertising", "unwinding",
                       "streams", "files", "loop", "updating", "deleting", "destroying",
                       "joining", "dropping", "finishing", "ended"}
          /\ change \in Changes \union {NoChange}
          /\ change # NoChange => main \in {"files", "loop", "ended"}
          /\ shutdown_flag \in BOOLEAN /\ shutdown_count \in 0..Patience
          /\ batch \in 0..MaxBatch /\ (batch > 0 => main \in {"loop", "ended"})
          /\ registered \in BOOLEAN /\ heartbeatRunning \in BOOLEAN
          /\ told \subseteq Streams /\ polling \in BOOLEAN
          /\ DirectoryTypeOK

SomeoneHangs == \E t \in Threads : Hangs(t)

(* The list of live streams follows the status of the streams as long as   *)
(* the service runs.                                                       *)
StatusFollows ==
    /\ \A s \in Streams : (s \in streams /\ status[s] /\ s \notin liveStreams)
          ~> (s \in liveStreams \/ s \notin streams \/ ~status[s]
                \/ ~heartbeatRunning \/ ~Running)
    /\ \A s \in Streams : (s \in liveStreams /\ ~status[s])
          ~> (s \notin liveStreams \/ status[s] \/ ~heartbeatRunning \/ ~Running)

(* Where main waits for what may never end: for a stream's poll, and for   *)
(* the threads that are in a file.                                         *)
WaitsForPoll == main = "dropping" /\ polling
WaitsForFile == main = "finishing" /\ \E t \in Threads : pc[t] = "fetching"

(* A signal that comes while the main loop runs ends the process, though   *)
(* the heartbeats and requests are under way, main may be in a batch of    *)
(* changes or waiting for a mutex, and more signals may come: unless it is *)
(* held up for ever, by a request caught in a name that cannot be escaped, *)
(* an Update or a poll that does not end or a file operation that does not *)
(* return (README.md: "Will frequently hang while shutting down"), or      *)
(* undefined behaviour comes first.                                        *)
SignalEnds ==
    (main \in {"loop", "updating"} /\ ~shutdown_flag)
       ~> (\/ ~Running \/ SomeoneHangs
           \/ [](main = "updating") \/ []WaitsForPoll \/ []WaitsForFile)

(* Every action is answered, whatever main does meanwhile, unless it is   *)
(* caught in a name that cannot be escaped.                                *)
BrowsesReturn == \A t \in Threads : (pc[t] \notin {"idle", "fetching"})
                    ~> (pc[t] = "idle" \/ Hangs(t) \/ ~Running)
=============================================================================
