------------------------- MODULE StreamStatus_proof -------------------------
(***************************************************************************)
(* Proofs about the status of a stream, for every set of process numbers:  *)
(* the safety properties of the two status handlers as StreamStatus        *)
(* composes them.                                                          *)
(***************************************************************************)
EXTENDS StreamStatus, TLAPS

(* The script of a poll is the process that processId names, and it is     *)
(* gone when the poll has waited.                                          *)
ScriptIsAwaited ==
    \A p \in Pids : who[p] = "script" => pc = "waiting" /\ processId = p

(* How the script ended is first in the process table, then in status, if  *)
(* nobody else has waited for it.                                          *)
EndIsKnown ==
    /\ \A p \in Pids : who[p] = "script" =>
          ran = IF state[p] = "running" THEN "none" ELSE state[p]
    /\ ran # "none" /\ pc = "waiting" => stolen \/ \E p \in Pids : who[p] = "script"
    /\ ran # "none" /\ pc = "stopping" => stolen \/ status = ran

ExtInv == /\ E!TypeOK
          /\ ScriptIsAwaited
          /\ EndIsKnown
          /\ E!FailedNotLive

(* A request is refused a close at most once before it is destroyed.       *)
RefusedSoFar ==
    /\ pc \in {"opened", "requested", "body", "close"} => refused = 0
    /\ pc = "executed" => refused <= 1

RequestsCounted == pc # "idle" => redirect < H!redirect_max

(* An open connection the request does not know of is one that the library *)
(* refused to close.                                                       *)
OpenIsKnown == connection = "open" /\ ~connectionOpen => refused > 0

HttpInv == /\ H!TypeOK
           /\ RefusedSoFar
           /\ RequestsCounted
           /\ OpenIsKnown
           /\ H!NoneLeftOpen
           /\ H!LiveFromAnswer

(* The strengthening.                                                      *)
IInv == /\ TypeOK
        /\ handler = "ext" => ExtInv
        /\ handler = "http" => HttpInv

-----------------------------------------------------------------------------
(* The steps of ExternalStatus.  Each lemma has a step for every conjunct  *)
(* that its actions can disturb.                                           *)

(* The -1 of a failed fork is not the number of a process.                 *)
LEMMA PidsAreNumbers == \A p \in Pids : p # -1
BY StatusAssumption

(* Free takes processes away and changes nothing else.                     *)
LEMMA FreeTypes ==
  ASSUME E!TypeOK, NEW ps, E!Free(ps)
  PROVE  /\ who' \in [Pids -> E!Owners]
         /\ state' \in [Pids -> E!Ends \union {"running"}]
         /\ \A p \in Pids : who'[p] = "none" => state'[p] = "running"
BY DEF E!TypeOK, E!Free, E!Owners, E!Ends

(* A poll begins: whatever it starts is what processId names.              *)
LEMMA InitProcessStep ==
  ASSUME ExtInv, E!InitProcess
  PROVE  ExtInv'
<1>1. E!TypeOK'
  BY DEF ExtInv, E!TypeOK, E!InitProcess, E!Starts, E!Owners, E!Ends
<1>2. ScriptIsAwaited'
  BY DEF ExtInv, E!TypeOK, ScriptIsAwaited, E!InitProcess, E!Starts
<1>3. EndIsKnown'
  BY DEF ExtInv, E!TypeOK, ScriptIsAwaited, EndIsKnown, E!InitProcess, E!Starts
<1>4. E!FailedNotLive'
  BY DEF ExtInv, E!FailedNotLive, E!InitProcess
<1>. QED
  BY <1>1, <1>2, <1>3, <1>4 DEF ExtInv

(* waitpid takes the script, if there is one, and stores how it ended.     *)
LEMMA WaitStep ==
  ASSUME ExtInv, E!Wait
  PROVE  ExtInv'
<1>1. E!TypeOK'
  BY FreeTypes DEF ExtInv, E!TypeOK, E!Wait, E!Awaited, E!Children, E!Ended, E!Ends
<1>2. CASE E!Awaited = {} /\ UNCHANGED <<who, state, status>>
  <2>1. \A p \in Pids : who[p] # "script"
    BY <1>2 DEF ExtInv, ScriptIsAwaited, E!Awaited, E!Children, E!TypeOK
  <2>. QED
    BY <1>1, <1>2, <2>1 DEF ExtInv, ScriptIsAwaited, EndIsKnown, E!FailedNotLive, E!Wait
<1>3. ASSUME NEW p \in E!Awaited \intersect E!Ended, status' = state[p], E!Free({p})
      PROVE  ExtInv'
  <2>1. \A q \in Pids : who[q] = "script" => q = p
    BY <1>3, PidsAreNumbers DEF ExtInv, ScriptIsAwaited, E!Awaited, E!Children
  <2>2. \A q \in Pids : who'[q] # "script"
    BY <1>3, <2>1 DEF E!Free
  <2>3. ran # "none" => stolen \/ status' = ran
    BY <1>3, <2>1 DEF ExtInv, EndIsKnown, E!Wait, E!Ended
  <2>. QED
    BY <1>1, <2>2, <2>3 DEF ExtInv, ScriptIsAwaited, EndIsKnown, E!FailedNotLive, E!Wait
<1>. QED
  BY <1>2, <1>3 DEF E!Wait

(* Nobody has a script when the process is shut down.                      *)
LEMMA ShutdownProcessStep ==
  ASSUME ExtInv, E!ShutdownProcess
  PROVE  ExtInv'
<1>1. \A p \in Pids : who[p] # "script"
  BY DEF ExtInv, ScriptIsAwaited, E!ShutdownProcess
<1>2. /\ who' \in [Pids -> E!Owners]
      /\ state' \in [Pids -> E!Ends \union {"running"}]
      /\ \A p \in Pids : who'[p] = "none" => state'[p] = "running"
      /\ \A p \in Pids : who'[p] # "script"
  <2>1. CASE UNCHANGED <<who, state>>
    BY <1>1, <2>1 DEF ExtInv, E!TypeOK
  <2>2. CASE E!Free({processId})
    BY <1>1, <2>2, FreeTypes DEF ExtInv, E!Free
  <2>3. ASSUME NEW q \in IF E!Children = {} THEN Pids ELSE E!Children,
               who' = [p \in Pids |-> IF p \in E!Children \ {q} THEN who[p] ELSE "none"],
               state' = [p \in Pids |->
                  IF who'[p] # "none" /\ state[p] = "running" THEN "signal"
                  ELSE IF who'[p] = "none" THEN "running" ELSE state[p]]
        PROVE  <1>2
    BY <1>1, <2>3 DEF ExtInv, E!TypeOK, E!Owners, E!Ends
  <2>. QED
    BY <2>1, <2>2, <2>3 DEF E!ShutdownProcess
<1>3. E!TypeOK'
  BY <1>2 DEF ExtInv, E!TypeOK, E!ShutdownProcess, E!Returns
<1>4. ScriptIsAwaited' /\ EndIsKnown'
  BY <1>2 DEF ScriptIsAwaited, EndIsKnown, E!ShutdownProcess, E!Returns
<1>5. E!FailedNotLive'
  BY DEF ExtInv, EndIsKnown, E!FailedNotLive, E!ShutdownProcess, E!Returns, E!TypeOK, E!Ends
<1>. QED
  BY <1>3, <1>4, <1>5 DEF ExtInv

(* The others touch the script only to wait for it, and the variables of   *)
(* the handler never.                                                      *)
LEMMA OthersStep ==
  ASSUME ExtInv,
         \/ E!OthersCome
         \/ \E p \in Pids : E!OtherEnds(p) \/ E!OthersGo(p) \/ E!OthersReap(p)
  PROVE  ExtInv'
<1>1. ASSUME NEW p \in Pids, NEW owner \in {"other", "foreign"}, E!Starts(p, owner),
             UNCHANGED <<processId, outputPipe, pc, status, ran, stolen, reported>>
      PROVE  ExtInv'
  <2>1. E!TypeOK'
    BY <1>1 DEF ExtInv, E!TypeOK, E!Starts, E!Owners, E!Ends
  <2>2. \A q \in Pids : /\ who'[q] = "script" <=> who[q] = "script"
                        /\ who[q] = "script" => state'[q] = state[q]
    BY <1>1 DEF ExtInv, E!TypeOK, E!Starts
  <2>. QED
    BY <1>1, <2>1, <2>2 DEF ExtInv, ScriptIsAwaited, EndIsKnown, E!FailedNotLive
<1>2. ASSUME NEW p \in Pids, E!OtherEnds(p)
      PROVE  ExtInv'
  BY <1>2 DEF ExtInv, E!TypeOK, ScriptIsAwaited, EndIsKnown, E!FailedNotLive, E!OtherEnds,
              E!Ends
<1>3. ASSUME NEW p \in Pids, E!OthersGo(p)
      PROVE  ExtInv'
  <2>1. E!TypeOK'
    BY <1>3, FreeTypes DEF ExtInv, E!TypeOK, E!OthersGo
  <2>2. \A q \in Pids : /\ who'[q] = "script" <=> who[q] = "script"
                        /\ who[q] = "script" => state'[q] = state[q]
    BY <1>3 DEF E!OthersGo, E!Free
  <2>. QED
    BY <1>3, <2>1, <2>2 DEF ExtInv, ScriptIsAwaited, EndIsKnown, E!FailedNotLive, E!OthersGo
<1>4. ASSUME NEW p \in Pids, E!OthersReap(p)
      PROVE  ExtInv'
  <2>1. E!TypeOK'
    BY <1>4, FreeTypes DEF ExtInv, E!TypeOK, E!OthersReap
  <2>2. /\ \A q \in Pids : who'[q] = "script" => who[q] = "script" /\ state'[q] = state[q]
        /\ stolen' /\ UNCHANGED <<processId, outputPipe, pc, status, ran, reported>>
    BY <1>4 DEF E!OthersReap, E!Free
  <2>. QED
    BY <2>1, <2>2 DEF ExtInv, ScriptIsAwaited, EndIsKnown, E!FailedNotLive
<1>. QED
  BY <1>1, <1>2, <1>3, <1>4 DEF E!OthersCome

(* There is one script.                                                    *)
LEMMA ScriptEndsStep ==
  ASSUME ExtInv, NEW p \in Pids, E!ScriptEnds(p)
  PROVE  ExtInv'
<1>1. E!TypeOK'
  BY DEF ExtInv, E!TypeOK, E!ScriptEnds, E!Owners, E!Ends
<1>2. \A q \in Pids : who[q] = "script" => q = p
  BY DEF ExtInv, ScriptIsAwaited, E!ScriptEnds
<1>3. pc = "waiting"
  BY DEF ExtInv, ScriptIsAwaited, E!ScriptEnds
<1>. QED
  BY <1>1, <1>2, <1>3 DEF ExtInv, E!TypeOK, E!Ends, ScriptIsAwaited, EndIsKnown,
                          E!FailedNotLive, E!ScriptEnds

-----------------------------------------------------------------------------
(* The steps of HttpStatus.                                                *)

USE DEF H!redirect_max

(* A connection that is open stays known, or was refused a close.          *)
LEMMA CloseKnows ==
  ASSUME H!TypeOK, OpenIsKnown, H!CloseConnection
  PROVE  /\ connection' \in {"none", "open", "closed"}
         /\ connectionOpen' \in BOOLEAN /\ closedTwice' \in BOOLEAN
         /\ refused' \in {refused, refused + 1}
         /\ connection' = "open" => refused' > 0
<1>1. /\ connection' \in {"none", "open", "closed"}
      /\ connectionOpen' \in BOOLEAN /\ closedTwice' \in BOOLEAN
  BY DEF H!TypeOK, H!CloseConnection, H!Close, H!history
<1>2. refused' \in {refused, refused + 1}
  BY DEF H!CloseConnection, H!Close, H!history
<1>3. connection' = "open" => refused' > 0
  BY DEF H!TypeOK, OpenIsKnown, H!CloseConnection, H!Close, H!history
<1>. QED
  BY <1>1, <1>2, <1>3

(* The responses are a set that does not change.                           *)
LEMMA ResponsesStay == H!Responses' = H!Responses
BY DEF H!Bodies, H!Responses

LEMMA EmptyResponse == H!NoResponse \in H!Responses
BY DEF H!NoResponse, H!Empty, H!Bodies, H!Responses

LEMMA GetStatusStep ==
  ASSUME HttpInv, H!GetStatus
  PROVE  HttpInv'
<1>1. H!TypeOK'
  BY ResponsesStay DEF HttpInv, H!TypeOK, H!GetStatus, H!requestVars, H!history
<1>. QED
  BY <1>1 DEF HttpInv, RefusedSoFar, RequestsCounted, OpenIsKnown, H!NoneLeftOpen,
              H!LiveFromAnswer, H!GetStatus, H!requestVars, H!history

LEMMA OpenConnectionStep ==
  ASSUME HttpInv, H!OpenConnection
  PROVE  HttpInv'
<1>1. response' \in H!Responses
  BY EmptyResponse DEF H!OpenConnection
<1>2. /\ pc' \in {"opened", "executed"} /\ refused' = 0
      /\ connection' \in {"open", "none"} /\ connectionOpen' \in BOOLEAN
      /\ UNCHANGED <<follow, redirect, reported, closedTwice>>
  BY DEF H!OpenConnection, H!Goes
<1>3. H!TypeOK'
  BY <1>1, <1>2, ResponsesStay DEF HttpInv, H!TypeOK
<1>. QED
  BY <1>3 DEF HttpInv, RefusedSoFar, RequestsCounted, OpenIsKnown, H!NoneLeftOpen,
              H!LiveFromAnswer, H!OpenConnection, H!Goes

LEMMA MakeRequestStep ==
  ASSUME HttpInv, H!MakeRequest
  PROVE  HttpInv'
<1>1. H!TypeOK'
  BY CloseKnows, ResponsesStay DEF HttpInv, H!TypeOK, RefusedSoFar, H!MakeRequest, H!Goes, H!history
<1>2. OpenIsKnown'
  BY CloseKnows DEF HttpInv, OpenIsKnown, H!MakeRequest, H!Goes, H!history
<1>. QED
  BY <1>1, <1>2, CloseKnows
     DEF HttpInv, H!TypeOK, RefusedSoFar, RequestsCounted, H!NoneLeftOpen, H!LiveFromAnswer,
         H!MakeRequest, H!Goes, H!history

LEMMA GetResponseStep ==
  ASSUME HttpInv, H!GetResponse
  PROVE  HttpInv'
<1>1. ASSUME NEW code \in H!Codes,
             response' = [answered |-> TRUE, success |-> code.success,
                          redirect |-> code.redirect, body |-> H!Empty]
      PROVE  response' \in H!Responses
  <2>1. H!Empty \in H!Bodies
    BY DEF H!Empty, H!Bodies
  <2>. QED
    BY <1>1, <2>1 DEF H!Codes, H!Responses
<1>2. H!TypeOK'
  BY <1>1, ResponsesStay DEF HttpInv, H!TypeOK, RefusedSoFar, H!GetResponse, H!Goes, H!history
<1>. QED
  BY <1>2 DEF HttpInv, RefusedSoFar, RequestsCounted, OpenIsKnown, H!NoneLeftOpen,
              H!LiveFromAnswer, H!GetResponse, H!Goes, H!history

LEMMA ReadResponseStep ==
  ASSUME HttpInv, H!ReadResponse
  PROVE  HttpInv'
<1>1. ASSUME NEW body \in H!Bodies, response' = [response EXCEPT !.body = body]
      PROVE  response' \in H!Responses
  BY <1>1 DEF HttpInv, H!TypeOK, H!Responses
<1>2. response' \in H!Responses
  BY <1>1 DEF HttpInv, H!TypeOK, H!ReadResponse
<1>3. pc' \in {"close", "executed"} /\ UNCHANGED <<follow, redirect, reported>>
  BY DEF H!ReadResponse, H!Goes
<1>4. /\ connection' \in {"none", "open", "closed"}
      /\ connectionOpen' \in BOOLEAN /\ closedTwice' \in BOOLEAN
  BY DEF HttpInv, H!TypeOK, H!ReadResponse, H!Close, H!history
<1>5. refused' \in 0..1
  BY DEF HttpInv, RefusedSoFar, H!ReadResponse, H!Close, H!history
<1>6. H!TypeOK'
  BY <1>2, <1>3, <1>4, <1>5, ResponsesStay DEF HttpInv, H!TypeOK
<1>. QED
  BY <1>6 DEF HttpInv, H!TypeOK, RefusedSoFar, RequestsCounted, OpenIsKnown, H!NoneLeftOpen,
              H!LiveFromAnswer, H!ReadResponse, H!Close, H!Goes, H!history

LEMMA EndExecuteStep ==
  ASSUME HttpInv, H!EndExecute
  PROVE  HttpInv'
<1>1. H!TypeOK'
  BY CloseKnows, ResponsesStay DEF HttpInv, H!TypeOK, RefusedSoFar, H!EndExecute, H!Goes
<1>. QED
  BY <1>1, CloseKnows
     DEF HttpInv, H!TypeOK, RefusedSoFar, RequestsCounted, OpenIsKnown, H!NoneLeftOpen,
         H!LiveFromAnswer, H!EndExecute, H!Goes

(* The request is destroyed: what is open now was refused a close, and     *)
(* only an answer that leads nowhere else makes the stream live.           *)
LEMMA JudgeStep ==
  ASSUME HttpInv, H!Judge
  PROVE  HttpInv'
<1>1. /\ connection' \in {"none", "open", "closed"}
      /\ connectionOpen' \in BOOLEAN /\ closedTwice' \in BOOLEAN
      /\ refused' \in {refused, refused + 1}
      /\ connection' = "open" => refused' > 0
  BY CloseKnows DEF HttpInv, H!Judge, H!Destructor
<1>2. H!TypeOK'
  BY <1>1, ResponsesStay DEF HttpInv, H!TypeOK, RefusedSoFar, RequestsCounted, H!Judge,
              H!NextRequest
<1>3. RequestsCounted'
  BY DEF HttpInv, RequestsCounted, H!Judge, H!NextRequest
<1>4. H!LiveFromAnswer'
  BY DEF HttpInv, H!LiveFromAnswer, H!Judge, H!NextRequest, H!FollowsRedirect,
         H!IsResponseRedirect, H!IsSuccessfulRequest
<1>5. RefusedSoFar'
  BY DEF RefusedSoFar, H!Judge, H!NextRequest
<1>. QED
  BY <1>1, <1>2, <1>3, <1>4, <1>5 DEF HttpInv, OpenIsKnown, H!NoneLeftOpen

-----------------------------------------------------------------------------
(* The stream.                                                             *)

LEMMA InitImpliesIInv == Init => IInv
<1>. SUFFICES ASSUME Init PROVE IInv
  OBVIOUS
<1>1. handler = "ext" => ExtInv
  BY DEF Init, E!Init, ExtInv, E!TypeOK, E!Owners, E!Ends, ScriptIsAwaited, EndIsKnown,
         E!FailedNotLive
<1>2. handler = "http" => HttpInv
  <2>1. response \in H!Responses
    BY EmptyResponse DEF Init, H!Init
  <2>2. redirect \in 0..H!redirect_max /\ refused \in 0..2
    BY DEF Init, H!Init
  <2>3. H!TypeOK
    BY <2>1, <2>2 DEF Init, H!Init, H!TypeOK
  <2>. QED
    BY <2>3 DEF Init, H!Init, HttpInv, RefusedSoFar, RequestsCounted, OpenIsKnown,
                H!NoneLeftOpen, H!LiveFromAnswer
<1>. QED
  BY <1>1, <1>2 DEF Init, E!Init, IInv, TypeOK, ExtInv, HttpInv

(* What the status handler does is a step of one of the two, and the       *)
(* stream believes what it is told.                                        *)
LEMMA PollStep ==
  ASSUME IInv, BeginsPoll \/ GoesOn
  PROVE  IInv'
<1>1. handler' = handler /\ handler # "none" /\ initialized' \in BOOLEAN
      /\ streamIsLive' \in BOOLEAN
  BY DEF IInv, TypeOK, BeginsPoll, GoesOn, Asks, Polls, Returned
<1>2. CASE handler = "ext"
  <2>1. E!InitProcess \/ E!Wait \/ E!ShutdownProcess
    BY <1>2 DEF BeginsPoll, GoesOn, Asks, Polls
  <2>2. ExtInv'
    BY <1>2, <2>1, InitProcessStep, WaitStep, ShutdownProcessStep DEF IInv
  <2>. QED
    BY <1>1, <1>2, <2>2 DEF IInv, TypeOK, ExtInv
<1>3. CASE handler = "http"
  <2>1. H!GetStatus \/ H!Poll
    BY <1>3 DEF BeginsPoll, GoesOn, Asks, Polls
  <2>2. HttpInv'
    BY <1>3, <2>1, GetStatusStep, OpenConnectionStep, MakeRequestStep, GetResponseStep,
       ReadResponseStep, EndExecuteStep, JudgeStep DEF IInv, H!Poll
  <2>. QED
    BY <1>1, <1>3, <2>2 DEF IInv, TypeOK, HttpInv
<1>. QED
  BY <1>1, <1>2, <1>3 DEF IInv, TypeOK

(* Everything else leaves the variables of the handlers as they are, or is *)
(* about the process table.                                                *)
LEMMA QuietStep ==
  ASSUME IInv,
         UNCHANGED <<handler, pc, reported, extVars, httpVars>>,
         initialized' \in BOOLEAN, streamIsLive' \in {streamIsLive, TRUE}
  PROVE  IInv'
<1>1. ExtInv => ExtInv'
  BY DEF extVars, ExtInv, E!TypeOK, ScriptIsAwaited, EndIsKnown, E!FailedNotLive
<1>2. HttpInv => HttpInv'
  BY DEF httpVars, HttpInv, H!TypeOK, RefusedSoFar, RequestsCounted, OpenIsKnown,
         H!NoneLeftOpen, H!LiveFromAnswer, H!FollowsRedirect, H!IsResponseRedirect
<1>. QED
  BY <1>1, <1>2 DEF IInv, TypeOK, ExtInv, HttpInv

LEMMA ProcessesStep ==
  ASSUME IInv, Others \/ ScriptEnds
  PROVE  IInv'
<1>1. ExtInv'
  BY OthersStep, ScriptEndsStep DEF IInv, Others, ScriptEnds
<1>. QED
  BY <1>1 DEF IInv, TypeOK, ExtInv, Others, ScriptEnds

LEMMA NextKeepsIInv == IInv /\ [Next]_vars => IInv'
<1>. SUFFICES ASSUME IInv, [Next]_vars PROVE IInv'
  OBVIOUS
<1>1. CASE StartsOrStops
  BY <1>1, QuietStep DEF StartsOrStops, IInv, TypeOK
<1>2. CASE FindsRunning
  BY <1>2, QuietStep DEF FindsRunning, IInv, TypeOK
<1>3. CASE BeginsPoll \/ GoesOn
  BY <1>3, PollStep
<1>4. CASE Others \/ ScriptEnds
  BY <1>4, ProcessesStep
<1>5. CASE UNCHANGED vars
  BY <1>5, QuietStep DEF vars, IInv, TypeOK
<1>. QED
  BY <1>1, <1>2, <1>3, <1>4, <1>5 DEF Next, UpdateStatus

(* What the heartbeat, the two handlers and the process table keep true    *)
(* together: the script is the process that is waited for, how it ended is *)
(* in the process table or in status, and each request has a connection    *)
(* just as long as GetStatus needs it.                                     *)
THEOREM StatusInvariant == Spec => []IInv
BY InitImpliesIInv, NextKeepsIInv, PTL DEF Spec

(* The variables of a stream's status, of its handler and of the process   *)
(* table have their types; GetStatus makes at most ten requests.           *)
THEOREM StatusTypes == Spec => []TypeOK
<1>1. IInv => TypeOK
  BY DEF IInv
<1>. QED
  BY <1>1, StatusInvariant, PTL

(* ExternalStatusHandler::GetStatus reaps every script it started.         *)
THEOREM EveryScriptReaped == Spec => []ScriptsReaped
<1>1. IInv => ScriptsReaped
  BY DEF IInv, ExtInv, ScriptIsAwaited, ScriptsReaped, E!ScriptsReaped
<1>. QED
  BY <1>1, StatusInvariant, PTL

(* A script that failed or was killed does not make its stream live, as    *)
(* long as no other stream's handler waits for it.                         *)
THEOREM FailedScriptNotLive == Spec => []FailedNotLive
<1>1. IInv => FailedNotLive
  BY DEF IInv, ExtInv, FailedNotLive
<1>. QED
  BY <1>1, StatusInvariant, PTL

(* HttpRequest closes its connection wherever Execute failed, unless the   *)
(* library refused to close it.                                            *)
THEOREM EveryConnectionClosed == Spec => []NoneLeftOpen
<1>1. IInv => NoneLeftOpen
  BY DEF IInv, HttpInv, NoneLeftOpen
<1>. QED
  BY <1>1, StatusInvariant, PTL

(* HttpStatusHandler::GetStatus says live only by the last answer.         *)
THEOREM LiveByAnswer == Spec => []LiveFromAnswer
<1>1. IInv => LiveFromAnswer
  BY DEF IInv, HttpInv, LiveFromAnswer
<1>. QED
  BY <1>1, StatusInvariant, PTL
=============================================================================
