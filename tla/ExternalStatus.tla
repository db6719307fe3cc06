--------------------------- MODULE ExternalStatus ---------------------------
(***************************************************************************)
(* The ExternalStatusHandler of a stream: each poll forks a script, waits  *)
(* for it and takes its exit code for the status.  What makes it hard is   *)
(* the process table, which is shared: the handlers of other streams and   *)
(* foreign processes come and go, and the number of a process that was     *)
(* waited for is free to be used again while processId still has it.  What *)
(* this handler may do to the children of others it may suffer from them.  *)
(*                                                                         *)
(* The process table, fork, kill and waitpid are external.  A process that *)
(* gets SIGTERM ends.  What the script writes is never read, and is        *)
(* assumed to fit into the pipe.                                           *)
(***************************************************************************)
EXTENDS Integers

CONSTANTS Pids,       \* process numbers
          ForkMayFail

VARIABLES who,        \* who[p]: whose process p is, see Owners
          state,      \* state[p]: "running", or how it ended
          processId,  \* 0, -1 when fork failed, or a process number
          outputPipe, \* TRUE if outputPipe is a descriptor
          pc,         \* where GetStatus is
          status,     \* what waitpid has stored, 0 being "exit0"
          ran,        \* history: how the script of this poll ended, or "none"
          stolen,     \* history: another handler has waited for that script
          reported    \* what the last poll returned

vars == <<who, state, processId, outputPipe, pc, status, ran, stolen, reported>>

Owners == {"none",     \* no process
           "script",   \* the status script
           "other",    \* another child of the server
           "foreign"}  \* a process that is not a child of the server
Ends   == {"exit0", "exit1", "signal"}

Children == {p \in Pids : who[p] \in {"script", "other"}}
Ended    == {p \in Children : state[p] # "running"}

Init == /\ who \in [Pids -> {"none", "other", "foreign"}]
        /\ state = [p \in Pids |-> "running"]
        /\ processId = 0 /\ outputPipe = FALSE
        /\ pc = "idle"
        /\ status = "exit0"
        /\ ran = "none" /\ stolen = FALSE /\ reported = "none"

-----------------------------------------------------------------------------
(* The other processes.                                                    *)

Starts(p, owner) == /\ who[p] = "none"
                    /\ who' = [who EXCEPT ![p] = owner]
                    /\ state' = [state EXCEPT ![p] = "running"]

Free(ps) == /\ who' = [p \in Pids |-> IF p \in ps THEN "none" ELSE who[p]]
            /\ state' = [p \in Pids |-> IF p \in ps THEN "running" ELSE state[p]]

OthersCome == /\ \E p \in Pids, owner \in {"other", "foreign"} : Starts(p, owner)
              /\ UNCHANGED <<processId, outputPipe, pc, status, ran, stolen, reported>>

(* A handler ends; its own ChildProcess stops and waits for it.            *)
OtherEnds(p) == /\ who[p] = "other" /\ state[p] = "running"
                /\ \E end \in Ends : state' = [state EXCEPT ![p] = end]
                /\ UNCHANGED <<who, processId, outputPipe, pc, status, ran, stolen,
                               reported>>

OthersGo(p) == /\ who[p] \in {"other", "foreign"}
               /\ Free({p})
               /\ UNCHANGED <<processId, outputPipe, pc, status, ran, stolen, reported>>

(* The handler of another stream waits for the script of this one: with the*)
(* -1 of a failed fork it waits for any child, and a number it still has   *)
(* may have become that of the script.  (SIGTERM, which it sends as well,  *)
(* is one of the ways in which ScriptEnds.)                                *)
OthersReap(p) == /\ who[p] = "script" /\ state[p] # "running"
                 /\ Free({p})
                 /\ stolen' = TRUE
                 /\ UNCHANGED <<processId, outputPipe, pc, status, ran, reported>>

ScriptEnds(p) == /\ who[p] = "script" /\ state[p] = "running"
                 /\ \E end \in Ends :
                       /\ state' = [state EXCEPT ![p] = end]
                       /\ ran' = end
                 /\ UNCHANGED <<who, processId, outputPipe, pc, status, stolen, reported>>

-----------------------------------------------------------------------------
(* GetStatus.                                                              *)

Known == outputPipe /\ processId \in Pids

(* InitProcess: a process that is known is not started again, and when     *)
(* pipe fails it throws.                                                   *)
InitProcess ==
    /\ pc = "idle"
    /\ ran' = "none" /\ stolen' = FALSE
    /\ status' = "exit0"
    /\ \/ /\ Known
          /\ pc' = "waiting"
          /\ UNCHANGED <<who, state, processId, outputPipe, reported>>
       \/ /\ ~Known
          /\ \E p \in Pids : Starts(p, "script") /\ processId' = p
          /\ outputPipe' = TRUE
          /\ pc' = "waiting"
          /\ UNCHANGED reported
       \/ /\ ~Known /\ ForkMayFail
          /\ processId' = -1
          /\ outputPipe' = TRUE
          /\ pc' = "waiting"
          /\ UNCHANGED <<who, state, reported>>
       \/ /\ ~Known
          /\ reported' = "down"
          /\ UNCHANGED <<who, state, processId, outputPipe, pc>>

(* Whom waitpid(processId) waits for.                                      *)
Awaited == IF processId = -1 THEN Children ELSE {processId} \intersect Children

(* A mutant: how the process ended is not looked at.                       *)
WaitAny == /\ pc = "waiting"
           /\ \/ /\ Awaited = {}
                 /\ status' = "exit0"
                 /\ UNCHANGED <<who, state>>
              \/ \E p \in Awaited \intersect Ended : status' = "exit0" /\ Free({p})
           /\ pc' = "stopping"
           /\ UNCHANGED <<processId, outputPipe, ran, stolen, reported>>

(* A mutant: the process is not taken from the table, as with WNOWAIT.     *)
WaitKeeps == /\ pc = "waiting"
             /\ \/ Awaited = {} /\ UNCHANGED status
                \/ \E p \in Awaited \intersect Ended : status' = state[p]
             /\ pc' = IF status' = "signal" THEN "idle" ELSE "stopping"
             /\ reported' = IF status' = "signal" THEN "down" ELSE reported
             /\ UNCHANGED <<who, state, processId, outputPipe, ran, stolen>>

(* waitpid; without such a child it fails and stores nothing.  A process   *)
(* that did not exit is no answer, and is not shut down.                   *)
Wait == /\ pc = "waiting"
        /\ \/ /\ Awaited = {}
              /\ UNCHANGED <<who, state, status>>
           \/ \E p \in Awaited \intersect Ended : status' = state[p] /\ Free({p})
        /\ pc' = IF status' = "signal" THEN "idle" ELSE "stopping"
        /\ reported' = IF status' = "signal" THEN "down" ELSE reported
        /\ UNCHANGED <<processId, outputPipe, ran, stolen>>

(* A mutant: the exit code is returned as it is.                           *)
ReturnsCode == /\ pc' = "idle"
               /\ reported' = status
               /\ UNCHANGED <<status, ran, stolen>>

Returns == /\ pc' = "idle"
           /\ reported' = IF status = "exit0" THEN "live" ELSE "down"
           /\ UNCHANGED <<status, ran, stolen>>

(* A mutant: GetStatus holds the mutex that ShutdownProcess waits for.     *)
ShutdownLocked == pc = "idle" /\ UNCHANGED vars

(* ShutdownProcess: kill, and waitpid if there was somebody to kill.  The  *)
(* process is long gone, and the number may be another's by now.           *)
ShutdownProcess ==
    /\ pc = "stopping"
    /\ \/ /\ processId \in Pids /\ who[processId] = "none"
          /\ processId' = 0
          /\ UNCHANGED <<who, state>>
       \/ /\ processId \in Pids /\ who[processId] # "none"
          /\ Free({processId})
          /\ processId' = 0
       \/ /\ processId \in Pids /\ who[processId] = "foreign"
          /\ UNCHANGED <<who, state, processId>>
       \/ /\ processId = -1
          /\ who' \in {[p \in Pids |-> IF p \in Children \ {q} THEN who[p] ELSE "none"] :
                         q \in IF Children = {} THEN Pids ELSE Children}
          /\ state' = [p \in Pids |->
                IF who'[p] # "none" /\ state[p] = "running" THEN "signal"
                ELSE IF who'[p] = "none" THEN "running" ELSE state[p]]
          /\ processId' = 0
    /\ outputPipe' = FALSE
    /\ Returns

GetStatus == InitProcess \/ Wait \/ ShutdownProcess

Next == \/ GetStatus
        \/ OthersCome
        \/ \E p \in Pids : ScriptEnds(p) \/ OtherEnds(p) \/ OthersGo(p) \/ OthersReap(p)

Spec == Init /\ [][Next]_vars

-----------------------------------------------------------------------------
TypeOK == /\ who \in [Pids -> Owners]
          /\ state \in [Pids -> Ends \union {"running"}]
          /\ \A p \in Pids : who[p] = "none" => state[p] = "running"
          /\ processId \in Pids \union {0, -1}
          /\ outputPipe \in BOOLEAN
          /\ pc \in {"idle", "waiting", "stopping"}
          /\ status \in Ends
          /\ ran \in Ends \union {"none"} /\ stolen \in BOOLEAN
          /\ reported \in {"none", "live", "down"}

(* Between two polls no script is left, running or unreaped, however the   *)
(* polls before ended.                                                     *)
ScriptsReaped == pc = "idle" => \A p \in Pids : who[p] # "script"

(* A poll whose script failed or was killed does not say the stream is     *)
(* live, unless the handler of another stream was there first and waited   *)
(* for the script: then waitpid fails, and its status of 0 is an exit.     *)
FailedNotLive ==
    pc = "idle" /\ reported = "live" => ran \notin {"exit1", "signal"} \/ stolen

-----------------------------------------------------------------------------
(* What example.conf says of the status script: a return code of 0 means   *)
(* the stream is live, and any other value that it is not.  Even without   *)
(* the handlers of other streams:                                          *)
LiveNeedsZero == pc = "idle" /\ reported = "live" => ran = "exit0" \/ stolen
=============================================================================
