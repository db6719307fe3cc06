---------------------------- MODULE StreamStatus ----------------------------
(***************************************************************************)
(* The status half of a stream's heartbeat, on top of the status handler   *)
(* that the server made for the stream from its options: none, or one of   *)
(* the two whose GetStatus is in ExternalStatus and HttpStatus.  pc and    *)
(* reported belong to whichever it is.                                     *)
(*                                                                         *)
(* A poll may take as long as the script or the web server likes, and      *)
(* clients start and stop the stream meanwhile: what the poll returns may  *)
(* be about a stream that no longer is what it was.  How a handler is      *)
(* started and stopped is in StreamLifecycle.                              *)
(***************************************************************************)
EXTENDS Integers

CONSTANTS Pids, ForkMayFail  \* as in ExternalStatus

ASSUME StatusAssumption == /\ Pids \subseteq Nat \ {0}
                           /\ ForkMayFail \in BOOLEAN

VARIABLES handler,      \* "none", "ext" or "http"
          initialized,  \* avHandler->IsInitialized()
          streamIsLive,
          pc, reported,
          who, state, processId, outputPipe, status, ran, stolen,
          follow, redirect, connection, connectionOpen, response, refused, closedTwice

E == INSTANCE ExternalStatus
H == INSTANCE HttpStatus

extVars  == <<who, state, processId, outputPipe, status, ran, stolen>>
httpVars == <<follow, redirect, connection, connectionOpen, response, refused, closedTwice>>
vars     == <<handler, initialized, streamIsLive, pc, reported, extVars, httpVars>>

(* createStatusHandler, and the constructor of Stream: a stream without a  *)
(* handler, or with one of a type nobody knows, is live.  The process      *)
(* table is empty where nothing looks at it.                               *)
Init == /\ handler \in {"none", "ext", "http"}
        /\ initialized = FALSE
        /\ streamIsLive = (handler = "none")
        /\ E!Init /\ H!Init
        /\ handler # "ext" => who = [p \in Pids |-> "none"]
        /\ handler # "http" => ~follow

-----------------------------------------------------------------------------
(* Clients start the stream, or it is stopped.                             *)
StartsOrStops == /\ initialized' = ~initialized
                 /\ UNCHANGED <<handler, streamIsLive, pc, reported, extVars, httpVars>>

(* A mutant: the handler is asked even when the stream runs.               *)
AskAlways == FALSE

(* A stream that runs needs no poll.                                       *)
NeedsNoPoll == initialized

FindsRunning == /\ handler # "none" /\ pc = "idle"
                /\ NeedsNoPoll
                /\ streamIsLive' = TRUE
                /\ UNCHANGED <<handler, initialized, pc, reported, extVars, httpVars>>

(* GetStatus of the handler.                                               *)
Asks  == \/ handler = "ext" /\ E!InitProcess /\ UNCHANGED httpVars
         \/ handler = "http" /\ H!GetStatus /\ UNCHANGED extVars
Polls == \/ handler = "ext" /\ (E!Wait \/ E!ShutdownProcess) /\ UNCHANGED httpVars
         \/ handler = "http" /\ H!Poll /\ UNCHANGED extVars

(* What is returned becomes the status of the stream.                      *)
Returned == /\ streamIsLive' = IF pc' = "idle" THEN reported' = "live" ELSE streamIsLive
            /\ UNCHANGED <<handler, initialized>>

BeginsPoll == pc = "idle" /\ ~NeedsNoPoll /\ Asks /\ Returned
GoesOn     == Polls /\ Returned

UpdateStatus == FindsRunning \/ BeginsPoll \/ GoesOn

(* The other processes, and the script.                                    *)
Others == /\ handler = "ext"
          /\ E!OthersCome \/ \E p \in Pids : E!OtherEnds(p) \/ E!OthersGo(p) \/ E!OthersReap(p)
          /\ UNCHANGED <<handler, initialized, streamIsLive, httpVars>>

ScriptEnds == /\ handler = "ext"
              /\ \E p \in Pids : E!ScriptEnds(p)
              /\ UNCHANGED <<handler, initialized, streamIsLive, httpVars>>

Next == StartsOrStops \/ UpdateStatus \/ Others \/ ScriptEnds

Spec == Init /\ [][Next]_vars

(* The heartbeat looks again and again as long as the stream exists, a poll*)
(* goes on when it is not waiting for a process, and scripts end.          *)
FairSpec == /\ Spec
            /\ WF_vars(FindsRunning)
            /\ WF_vars(GoesOn)
            /\ WF_vars(ScriptEnds)

-----------------------------------------------------------------------------
TypeOK == /\ handler \in {"none", "ext", "http"}
          /\ initialized \in BOOLEAN /\ streamIsLive \in BOOLEAN
          /\ handler = "none" => streamIsLive /\ pc = "idle"
          /\ handler = "ext" => E!TypeOK
          /\ handler = "http" => H!TypeOK

(* Between two polls no script is left, running or unreaped, however the   *)
(* polls before ended.                                                     *)
ScriptsReaped == handler = "ext" => E!ScriptsReaped

(* A poll whose script failed or was killed does not say the stream is     *)
(* live, unless another stream's handler has waited for that script.       *)
FailedNotLive == handler = "ext" => E!FailedNotLive

(* A request that was destroyed leaves no connection behind, wherever      *)
(* Execute failed, unless the library refused to close it.                 *)
NoneLeftOpen == handler = "http" => H!NoneLeftOpen

(* Only an answer makes a stream live, and only that of the page to which  *)
(* the redirections led, when they are followed.                           *)
LiveFromAnswer == handler = "http" => H!LiveFromAnswer

(* The poll waits for another child of the server: any child when fork     *)
(* failed, or one that got the number of a script that is gone.            *)
WaitsForOther == handler = "ext" /\ \E p \in E!Awaited : who[p] = "other"

(* A poll returns, whether scripts die, calls of the library fail or a     *)
(* server redirects every request, unless it waits for another child.      *)
PollsReturn == pc # "idle" ~> (pc = "idle" \/ WaitsForOther)

(* A stream that is being played is live in the end: a poll that was begun *)
(* before it was started may still say it is not, but the next look at it  *)
(* makes up for that, whatever the handler would have said.                *)
RunningIsLive ==
    (initialized /\ ~streamIsLive) ~> (streamIsLive \/ ~initialized \/ WaitsForOther)
=============================================================================
