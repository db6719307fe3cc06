----------------------- MODULE StreamLifecycle_proof -----------------------
(***************************************************************************)
(* Proofs about StreamLifecycle, which has no parameters: its safety       *)
(* properties, for every interleaving of the four threads.                 *)
(***************************************************************************)
EXTENDS StreamLifecycle, TLAPS

(* A child that runs is the one processId names.                           *)
ChildrenAreNamed ==
    /\ ~orphans
    /\ \A p \in Procs : child[p] = "running" => processId[p] = "child"

(* What Start initializes depends on how the stream is configured.         *)
HandlersAsConfigured ==
    /\ processId["transcoder"] # "file"
    /\ IF kind = "file" THEN processId["handler"] \in {"none", "file"}
                        ELSE processId["handler"] # "file"
    /\ kind = "external" => processId["transcoder"] = "none"

StartsAsConfigured ==
    /\ starter \in {"handler", "input"} => kind # "file"
    /\ starter \in {"input", "transcoder"} => kind # "external"
    /\ starter = "file" => kind = "file"

(* Nobody starts a stream that is being destroyed, or reads from it, so    *)
(* that what the destructor has shut down stays so.                        *)
DestroyedStaysDown ==
    /\ owner # "alive" => starter = "idle" /\ reader \in {"idle", "picked"}
    /\ owner \in {"handler", "gone"} =>
         processId["transcoder"] = "none" /\ heartbeat = "ended"
    /\ owner \in {"join", "handler"} /\ ~spared => processId["handler"] = "none"

(* What a stream that is gone leaves running.                              *)
GoneLeavesHandler ==
    owner = "gone" => /\ child["transcoder"] # "running"
                      /\ ~spared => child["handler"] # "running" /\ ~orphans

(* The reader keeps the mutex of the pipe it waits for, or waits for       *)
(* itself.                                                                 *)
HoldsPipe == reader \in {"reading", "selflocked"}
                => processId[Source] \in {"child", "failed"}

(* The strengthening.                                                      *)
IInv == /\ TypeOK
        /\ owner # "gone" => ChildrenAreNamed
        /\ HandlersAsConfigured
        /\ StartsAsConfigured
        /\ DestroyedStaysDown
        /\ GoneLeavesHandler
        /\ HoldsPipe

-----------------------------------------------------------------------------
(* The processes.                                                          *)

ProcTypes == /\ processId \in [Procs -> {"none", "failed", "child", "file"}]
             /\ child \in [Procs -> {"none", "running", "dead"}]
             /\ ends \in [Procs -> SUBSET (Procs \union {"server"})]
             /\ data \subseteq Procs
             /\ input \in {"none", "open", "closed"}
             /\ stdin \in {"none", "handler", "other"}
             /\ orphans \in BOOLEAN

(* InitProcess makes one child, and only when none runs: none is lost.     *)
LEMMA InitProcessStep ==
  ASSUME ProcTypes, ChildrenAreNamed, NEW p \in Procs, InitProcess(p)
  PROVE  /\ ProcTypes' /\ ChildrenAreNamed'
         /\ ~Locked(p)
         /\ processId'[p] \in {"child", "failed"}
         /\ \A q \in Procs \ {p} : processId'[q] = processId[q]
<1>1. CASE processId[p] = "child" /\ UNCHANGED procVars
  BY <1>1 DEF InitProcess, procVars, ProcTypes, ChildrenAreNamed
<1>2. CASE processId[p] # "child" /\ Forks(p)
  <2>1. ends' \in [Procs -> SUBSET (Procs \union {"server"})]
    BY <1>2 DEF Forks, ProcTypes, ServerEnd
  <2>2. stdin' \in {"none", "handler", "other"}
    BY <1>2 DEF Forks, ProcTypes, Procs
  <2>. QED
    BY <1>2, <2>1, <2>2 DEF InitProcess, Forks, ProcTypes, ChildrenAreNamed
<1>3. CASE processId[p] # "child" /\ ForkFails(p)
  BY <1>3 DEF InitProcess, ForkFails, ServerEnd, ProcTypes, ChildrenAreNamed
<1>. QED
  BY <1>1, <1>2, <1>3 DEF InitProcess

(* ShutdownProcess leaves nothing of p, and of the others at most less.    *)
LEMMA ShutdownProcessStep ==
  ASSUME ProcTypes, ChildrenAreNamed, NEW p \in Procs, ShutdownProcess(p)
  PROVE  /\ ProcTypes' /\ ChildrenAreNamed'
         /\ ~Locked(p)
         /\ processId'[p] = "none"
         /\ \A q \in Procs \ {p} : processId'[q] = processId[q]
<1>1. CASE ~Initialized(p) /\ UNCHANGED procVars
  BY <1>1 DEF ShutdownProcess, Initialized, procVars, ProcTypes, ChildrenAreNamed
<1>2. CASE Initialized(p)
  <2>1. /\ processId' = [processId EXCEPT ![p] = "none"]
        /\ data' = data \ {p}
        /\ input' \in {"none", "open", "closed"}
        /\ stdin' \in {"none", "handler", "other"}
        /\ ~orphans'
    BY <1>2 DEF ShutdownProcess, ProcTypes, ChildrenAreNamed
  <2>2. CASE processId[p] = "failed"
    BY <1>2, <2>1, <2>2 DEF ShutdownProcess, ProcTypes, ChildrenAreNamed
  <2>3. CASE processId[p] # "failed"
    <3>1. child' = [child EXCEPT ![p] = "none"] /\ ends' = [Without(p) EXCEPT ![p] = {}]
      BY <1>2, <2>3 DEF ShutdownProcess
    <3>2. Without(p) \in [Procs -> SUBSET (Procs \union {"server"})]
      BY DEF Without, ProcTypes
    <3>3. ends' \in [Procs -> SUBSET (Procs \union {"server"})]
      BY <3>1, <3>2
    <3>. QED
      BY <1>2, <2>1, <3>1, <3>3 DEF ShutdownProcess, ProcTypes, ChildrenAreNamed
  <2>. QED
    BY <1>2, <2>1, <2>2, <2>3 DEF ShutdownProcess
<1>. QED
  BY <1>1, <1>2 DEF ShutdownProcess

(* What keeps the invariant when the processes change: a change of         *)
(* processId that the mutex of the source and the configuration allow.     *)
LEMMA ProcessesChange ==
  ASSUME IInv, ProcTypes',
         NEW p \in Procs,
         ~Locked(p),
         \A q \in Procs \ {p} : processId'[q] = processId[q],
         processId'[p] = "none" \/ /\ processId'[p] \in {"child", "failed"}
                                   /\ owner = "alive"
                                   /\ IF p = "handler" THEN kind # "file"
                                                       ELSE kind # "external",
         UNCHANGED <<kind, reader>>
  PROVE  HandlersAsConfigured' /\ HoldsPipe'
         /\ (owner \in {"handler", "gone"} => processId'["transcoder"] = "none")
         /\ (owner \in {"join", "handler"} /\ ~spared => processId'["handler"] = "none")
<1>1. HandlersAsConfigured'
  BY DEF IInv, HandlersAsConfigured, Procs
<1>2. HoldsPipe'
  BY DEF IInv, HoldsPipe, Locked, Source, Procs
<1>3. /\ owner \in {"handler", "gone"} => processId'["transcoder"] = "none"
      /\ owner \in {"join", "handler"} /\ ~spared => processId'["handler"] = "none"
  BY DEF IInv, DestroyedStaysDown, Procs
<1>. QED
  BY <1>1, <1>2, <1>3

-----------------------------------------------------------------------------
LEMMA InitImpliesIInv == Init => IInv
BY DEF Init, IInv, TypeOK, ChildrenAreNamed, HandlersAsConfigured, StartsAsConfigured,
       DestroyedStaysDown, GoneLeavesHandler, HoldsPipe, Kinds, Procs

(* Start initializes what the configuration asks for; it runs only while   *)
(* somebody holds the stream.                                              *)
LEMMA StartStep ==
  ASSUME IInv, Start
  PROVE  IInv'
<1>. USE DEF GoneLeavesHandler
<1>. ProcTypes /\ ChildrenAreNamed /\ owner = "alive"
  BY DEF IInv, TypeOK, ProcTypes, DestroyedStaysDown, Start, StartHandler, SetInput,
         StartTranscoder, StartFile, StartThrows
<1>1. ASSUME NEW p \in Procs, InitProcess(p),
             IF p = "handler" THEN kind # "file" ELSE kind # "external",
             starter' \in {"idle", "input", "file"}, NEW done \in BOOLEAN, Started(done),
             StartsAsConfigured'
      PROVE  IInv'
  <2>1. ProcTypes' /\ ChildrenAreNamed' /\ HandlersAsConfigured' /\ HoldsPipe'
        /\ DestroyedStaysDown'
    BY <1>1, InitProcessStep, ProcessesChange DEF Started, DestroyedStaysDown
  <2>. QED
    BY <1>1, <2>1 DEF IInv, TypeOK, ProcTypes, Started
<1>2. CASE StartHandler
  BY <1>1, <1>2 DEF StartHandler, Started, IInv, StartsAsConfigured, Procs
<1>3. CASE SetInput
  BY <1>3 DEF SetInput, Started, IInv, TypeOK, ChildrenAreNamed, HandlersAsConfigured,
              StartsAsConfigured, DestroyedStaysDown, HoldsPipe, Source
<1>4. CASE StartTranscoder
  BY <1>1, <1>4 DEF StartTranscoder, Started, IInv, StartsAsConfigured, Procs
<1>5. CASE StartFile
  <2>1. /\ processId' \in [Procs -> {"none", "failed", "child", "file"}]
        /\ processId'["transcoder"] = processId["transcoder"]
        /\ processId'["handler"] \in {"none", "file"}
        /\ kind = "file" /\ child["handler"] # "running"
    BY <1>5 DEF StartFile, IInv, TypeOK, ChildrenAreNamed, HandlersAsConfigured,
                StartsAsConfigured, Procs
  <2>. QED
    BY <1>5, <2>1 DEF StartFile, Started, IInv, TypeOK, ChildrenAreNamed,
       HandlersAsConfigured, StartsAsConfigured, DestroyedStaysDown, HoldsPipe, Source, Procs
<1>6. CASE StartThrows
  BY <1>6 DEF StartThrows, Started, procVars, IInv, TypeOK, ChildrenAreNamed,
              HandlersAsConfigured, StartsAsConfigured, DestroyedStaysDown, HoldsPipe, Source
<1>. QED
  BY <1>2, <1>3, <1>4, <1>5, <1>6 DEF Start

(* Stop and the destructors shut down one process at a time.               *)
LEMMA StopStep ==
  ASSUME IInv, HeartbeatStops \/ DestroyStops \/ DestroyMembers
  PROVE  IInv'
<1>0. owner # "gone"
  BY DEF HeartbeatStops, DestroyStops, DestroyMembers, IInv, DestroyedStaysDown
<1>. ProcTypes /\ ChildrenAreNamed
  BY <1>0 DEF IInv, TypeOK, ProcTypes
<1>1. /\ UNCHANGED <<kind, useVars, starter, reader, spared>>
      /\ heartbeat' \in {"sleep", "check", "sample", "stop1", "stop2", "ended"}
      /\ owner' \in {"alive", "stop1", "stop2", "join", "handler"}
      /\ owner' # "alive" => owner # "alive"
      /\ owner \in {"join", "handler"} => owner' \in {"join", "handler"}
  BY <1>0 DEF HeartbeatStops, DestroyStops, DestroyMembers, IInv, TypeOK
<1>2. /\ ProcTypes' /\ ChildrenAreNamed'
      /\ HandlersAsConfigured' /\ HoldsPipe'
      /\ owner \in {"handler", "gone"} => processId'["transcoder"] = "none"
      /\ owner \in {"join", "handler"} /\ ~spared => processId'["handler"] = "none"
  <2>1. CASE UNCHANGED procVars
    BY <1>1, <2>1 DEF procVars, ProcTypes, ChildrenAreNamed, HandlersAsConfigured, HoldsPipe,
                      DestroyedStaysDown, Source, IInv
  <2>2. ASSUME NEW p \in Procs, ShutdownProcess(p) PROVE <1>2
    <3>1. /\ ProcTypes' /\ ChildrenAreNamed' /\ ~Locked(p)
          /\ processId'[p] = "none"
          /\ \A q \in Procs \ {p} : processId'[q] = processId[q]
      BY <2>2, ShutdownProcessStep
    <3>2. HandlersAsConfigured'
      BY <1>1, <3>1 DEF IInv, HandlersAsConfigured, Procs
    <3>3. HoldsPipe'
      BY <1>1, <3>1 DEF IInv, HoldsPipe, Locked, Source, Procs
    <3>4. /\ owner \in {"handler", "gone"} => processId'["transcoder"] = "none"
          /\ owner \in {"join", "handler"} /\ ~spared => processId'["handler"] = "none"
      BY <1>1, <3>1 DEF IInv, DestroyedStaysDown, Procs
    <3>. QED
      BY <3>1, <3>2, <3>3, <3>4
  <2>. QED
    BY <2>1, <2>2 DEF HeartbeatStops, DestroyStops, DestroyMembers, StopTranscoder, Procs
<1>3. DestroyedStaysDown'
  <2>1. CASE DestroyMembers
    <3>1. processId'["transcoder"] = "none"
      BY <2>1, ShutdownProcessStep
         DEF DestroyMembers, StopTranscoder, procVars, IInv, HandlersAsConfigured, Procs
    <3>. QED
      BY <1>1, <1>2, <2>1, <3>1 DEF IInv, DestroyMembers, DestroyedStaysDown
  <2>2. CASE DestroyStops
    <3>1. owner' = "join" => processId'["handler"] = "none"
      BY <2>2, ShutdownProcessStep DEF DestroyStops, Procs
    <3>. QED
      BY <1>1, <1>2, <2>2, <3>1 DEF DestroyStops, IInv, DestroyedStaysDown
  <2>3. CASE HeartbeatStops
    BY <1>1, <1>2, <2>3 DEF HeartbeatStops, IInv, DestroyedStaysDown
  <2>. QED
    BY <2>1, <2>2, <2>3
<1>. QED
  BY <1>0, <1>1, <1>2, <1>3 DEF IInv, TypeOK, ProcTypes, StartsAsConfigured,
                                GoneLeavesHandler, useVars

(* The handler is freed last, with or without its child.                   *)
LEMMA DestroyHandlerStep ==
  ASSUME IInv, DestroyHandler
  PROVE  IInv'
<1>1. /\ owner = "handler" /\ owner' = "gone"
      /\ UNCHANGED <<kind, useVars, starter, reader, heartbeat, spared>>
  BY DEF DestroyHandler
<1>. ProcTypes /\ ChildrenAreNamed
  BY <1>1 DEF IInv, TypeOK, ProcTypes
<1>2. /\ ProcTypes'
      /\ processId'["handler"] = "none"
      /\ processId'["transcoder"] = "none"
      /\ child'["transcoder"] # "running"
      /\ ~spared => child'["handler"] # "running" /\ ~orphans'
  <2>1. CASE ShutdownProcess("handler")
    <3>1. /\ ProcTypes' /\ ChildrenAreNamed'
          /\ processId'["handler"] = "none"
          /\ processId'["transcoder"] = processId["transcoder"]
      BY <2>1, ShutdownProcessStep DEF Procs
    <3>. QED
      BY <1>1, <3>1 DEF ChildrenAreNamed, IInv, DestroyedStaysDown, Procs
  <2>2. CASE /\ processId' = [processId EXCEPT !["handler"] = "none"]
             /\ orphans' = (orphans \/ child["handler"] = "running")
             /\ UNCHANGED <<child, ends, data, input, stdin>>
    <3>1. ProcTypes'
      <4>1. (child["handler"] = "running") \in BOOLEAN
        OBVIOUS
      <4>2. orphans' \in BOOLEAN
        BY <2>2, <4>1 DEF ProcTypes
      <4>. QED
        BY <2>2, <4>2 DEF ProcTypes, Procs
    <3>2. processId'["handler"] = "none" /\ processId'["transcoder"] = "none"
      BY <1>1, <2>2 DEF ProcTypes, Procs, IInv, DestroyedStaysDown
    <3>3. /\ child["transcoder"] # "running"
          /\ ~spared => child["handler"] # "running"
      BY <1>1 DEF ChildrenAreNamed, IInv, DestroyedStaysDown, Procs
    <3>. QED
      BY <2>2, <3>1, <3>2, <3>3 DEF ChildrenAreNamed
  <2>. QED
    BY <2>1, <2>2 DEF DestroyHandler
<1>3. HandlersAsConfigured' /\ HoldsPipe'
  BY <1>1, <1>2 DEF IInv, HandlersAsConfigured, HoldsPipe, DestroyedStaysDown
<1>4. DestroyedStaysDown' /\ GoneLeavesHandler'
  BY <1>1, <1>2 DEF IInv, DestroyedStaysDown, GoneLeavesHandler
<1>. QED
  BY <1>1, <1>2, <1>3, <1>4 DEF IInv, TypeOK, ProcTypes, StartsAsConfigured, useVars

(* The reader waits only for a pipe that is there, and the children only   *)
(* fill pipes and end.                                                     *)
LEMMA ReadStep ==
  ASSUME IInv,
         Pick \/ Reads \/ HandlerWrites \/ TranscoderWrites \/ \E p \in Procs : ChildExits(p)
  PROVE  IInv'
<1>. USE DEF GoneLeavesHandler
<1>1. CASE Pick \/ ReadEof
  BY <1>1 DEF Pick, ReadEof, procVars, useVars, IInv, TypeOK, ChildrenAreNamed,
              HandlersAsConfigured, StartsAsConfigured, DestroyedStaysDown, HoldsPipe, Source
<1>2. CASE ReadBegin
  <2>1. Initialized(Source) => processId[Source] \in {"child", "failed"}
    BY DEF Initialized, Source, IInv, TypeOK, HandlersAsConfigured, Procs
  <2>2. /\ \/ reader' = "reading" /\ Initialized(Source)
              /\ owner = "alive"
           \/ reader' = "idle"
        /\ wanted' \in BOOLEAN
        /\ UNCHANGED <<kind, procVars, idle, live, clients, starter, heartbeat, owner,
                       spared>>
    BY <1>2 DEF ReadBegin, IInv, TypeOK
  <2>. QED
    BY <2>1, <2>2 DEF procVars, IInv, TypeOK, ChildrenAreNamed, HandlersAsConfigured,
       StartsAsConfigured, DestroyedStaysDown, HoldsPipe, Source
<1>3. CASE ReadReturns \/ HandlerWrites \/ TranscoderWrites
  <2>1. /\ data' \subseteq Procs /\ reader' \in {reader, "idle"}
        /\ UNCHANGED <<kind, processId, child, orphans, ends, input, stdin, useVars, starter,
                       heartbeat, owner, spared>>
    BY <1>3 DEF ReadReturns, HandlerWrites, TranscoderWrites, IInv, TypeOK, Procs
  <2>. QED
    BY <2>1 DEF useVars, IInv, TypeOK, ChildrenAreNamed, HandlersAsConfigured,
       StartsAsConfigured, DestroyedStaysDown, HoldsPipe, Source
<1>4. ASSUME NEW p \in Procs, ChildExits(p) PROVE IInv'
  BY <1>4 DEF ChildExits, Without, useVars, IInv, TypeOK, ChildrenAreNamed,
     HandlersAsConfigured, StartsAsConfigured, DestroyedStaysDown, HoldsPipe, Source
<1>. QED
  BY <1>1, <1>2, <1>3, <1>4 DEF Reads

(* The other steps leave the processes and the reader alone.               *)
LEMMA QuietStep ==
  ASSUME IInv,
         UNCHANGED <<kind, procVars, reader>>,
         idle' \in BOOLEAN, live' \in BOOLEAN, wanted' \in BOOLEAN, clients' \in BOOLEAN,
         heartbeat' \in {"sleep", "check", "sample", "stop1", "stop2", "ended"},
         heartbeat = "ended" => heartbeat' = "ended",
         \/ UNCHANGED <<starter, owner, spared>>
         \/ /\ starter' = IF kind = "file" THEN "transcoder" ELSE "handler"
            /\ owner = "alive" /\ owner' = "alive" /\ spared' = spared
         \/ /\ owner = "alive" /\ starter = "idle" /\ reader \in {"idle", "picked"}
            /\ UNCHANGED starter /\ spared' \in BOOLEAN
            /\ owner' = "stop1" \/ (owner' = "join" /\ spared')
  PROVE  IInv'
BY DEF procVars, IInv, TypeOK, ChildrenAreNamed, HandlersAsConfigured, StartsAsConfigured,
       DestroyedStaysDown, GoneLeavesHandler, HoldsPipe, Source

LEMMA NextKeepsIInv == IInv /\ [Next]_vars => IInv'
<1>. SUFFICES ASSUME IInv, [Next]_vars PROVE IInv'
  OBVIOUS
<1>1. CASE Start
  BY <1>1, StartStep
<1>2. CASE HeartbeatStops \/ Destroys
  BY <1>2, StopStep, DestroyHandlerStep DEF Destroys
<1>3. CASE \/ Pick \/ Reads \/ HandlerWrites \/ TranscoderWrites
           \/ \E p \in Procs : ChildExits(p)
  BY <1>3, ReadStep
<1>4. CASE StartCall \/ ClientReads \/ ClientsLeave \/ Passes \/ Destroy
  BY <1>4, QuietStep DEF StartCall, ClientReads, ClientsLeave, Passes, Destroy, useVars,
                         IInv, TypeOK
<1>5. CASE UpdateStatus \/ SkipStatus \/ CheckHandler \/ SampleTime \/ HeartbeatEnds
  BY <1>5, QuietStep DEF UpdateStatus, SkipStatus, CheckHandler, SampleTime, HeartbeatEnds,
                         useVars, IInv, TypeOK
<1>6. CASE UNCHANGED vars
  BY <1>6, QuietStep DEF vars, useVars, threads, IInv, TypeOK
<1>. QED
  BY <1>1, <1>2, <1>3, <1>4, <1>5, <1>6 DEF Next, Heartbeat

-----------------------------------------------------------------------------
(* What the threads of a stream keep true together: children are named,    *)
(* handlers are what the configuration says, nobody starts what is being   *)
(* destroyed, and the reader holds its pipe.                               *)
THEOREM LifecycleInvariant == Spec => []IInv
BY InitImpliesIInv, NextKeepsIInv, PTL DEF Spec

(* The variables of the stream have their types.                           *)
THEOREM LifecycleTypes == Spec => []TypeOK
<1>1. IInv => TypeOK
  BY DEF IInv
<1>. QED
  BY <1>1, LifecycleInvariant, PTL

(* ChildProcess loses no child while the stream is there, no transcoder    *)
(* outlives its stream, and no child at all a stream that was live when it *)
(* was destroyed.                                                          *)
THEOREM NoChildLost == Spec => []NoOrphans
<1>1. IInv => NoOrphans
  BY DEF IInv, TypeOK, ChildrenAreNamed, DestroyedStaysDown, GoneLeavesHandler, NoOrphans,
         Procs
<1>. QED
  BY <1>1, LifecycleInvariant, PTL

(* Stop, Start and the destructor leave the pipe of a waiting Read open.   *)
THEOREM WaitsOnOpenPipe == Spec => []ReadsOpenPipe
<1>1. IInv => ReadsOpenPipe
  BY DEF IInv, HoldsPipe, ReadsOpenPipe
<1>. QED
  BY <1>1, LifecycleInvariant, PTL

(* While Read waits, with the mutex of the process it reads from, nothing  *)
(* that Start, Stop or the destructor does is about that process.          *)
KeepsPipe == reader = "reading" /\ reader' = "reading"
                => processId'[Source] = processId[Source]

LEMMA NextKeepsPipe == IInv /\ [Next]_vars => KeepsPipe
<1>. SUFFICES ASSUME IInv, [Next]_vars, reader = "reading", reader' = "reading"
              PROVE  processId'[Source] = processId[Source]
  BY DEF KeepsPipe
<1>1. Source \in Procs /\ Locked(Source)
  BY DEF Source, Procs, Locked
<1>2. ASSUME NEW p \in Procs, InitProcess(p) \/ ShutdownProcess(p)
      PROVE  processId'[Source] = processId[Source]
  <2>1. p # Source
    BY <1>1, <1>2 DEF InitProcess, ShutdownProcess
  <2>2. ChildrenAreNamed
    BY DEF IInv, DestroyedStaysDown
  <2>. QED
    BY <1>1, <1>2, <2>1, <2>2, InitProcessStep, ShutdownProcessStep DEF IInv, TypeOK, ProcTypes
<1>3. CASE StartFile
  BY <1>3 DEF StartFile, Source, Procs, IInv, TypeOK, StartsAsConfigured
<1>4. CASE UNCHANGED processId
  BY <1>4
<1>6. CASE DestroyHandler
  BY <1>6 DEF DestroyHandler, IInv, DestroyedStaysDown
<1>5. CASE StartHandler \/ StartTranscoder \/ HeartbeatStops \/ DestroyStops \/ DestroyMembers
  BY <1>2, <1>4, <1>5 DEF StartHandler, StartTranscoder, HeartbeatStops,
     DestroyStops, DestroyMembers, StopTranscoder, procVars, Procs
<1>. QED
  BY <1>3, <1>4, <1>5, <1>6
     DEF Next, Start, Destroys, SetInput, StartThrows, StartCall, ClientReads, ClientsLeave, Pick, Reads,
         ReadBegin, ReadReturns, ReadEof, Passes, Heartbeat, UpdateStatus, SkipStatus,
         CheckHandler, SampleTime, HeartbeatEnds, Destroy, HandlerWrites, TranscoderWrites,
         ChildExits, vars, procVars

(* ChildProcess::Read keeps its pipe: no step takes it away or replaces it *)
(* while the read waits.                                                   *)
THEOREM WaitKeepsPipe == Spec => [][KeepsPipe]_vars
BY LifecycleInvariant, NextKeepsPipe, PTL DEF Spec
=============================================================================
