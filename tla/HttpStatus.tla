----------------------------- MODULE HttpStatus -----------------------------
(***************************************************************************)
(* The HttpStatusHandler of a stream: GetStatus makes HttpRequests, one    *)
(* after the other, as long as it is redirected.  The client functions of  *)
(* the UPnP library are external and may each fail; what matters is what   *)
(* becomes of the connection and of the answer then.                       *)
(*                                                                         *)
(* Of a status code it only matters whether it is among success_codes and  *)
(* whether it is a 3xx; of a body, whether IsResponseRedirect finds a      *)
(* redirection in it and whether GetRedirectLocation finds a location.     *)
(***************************************************************************)
EXTENDS Integers

VARIABLES follow,          \* follow_redirect, from the options
          pc,              \* where GetStatus and Execute are
          redirect,        \* the number of requests made before this one
          connection,      \* the library's connection: "none", "open", "closed"
          connectionOpen,  \* what the request thinks of it
          response,        \* responseStatus and responseBody
          refused,         \* history: how often the library refused to close
          closedTwice,     \* history: a closed connection was closed again
          reported         \* what the last poll returned

requestVars == <<connection, connectionOpen, response>>
history     == <<refused, closedTwice>>
vars == <<follow, pc, redirect, requestVars, history, reported>>

redirect_max == 10

Codes  == [success : BOOLEAN, redirect : BOOLEAN]
Bodies == [redirect : BOOLEAN, location : BOOLEAN]
Responses == [answered : BOOLEAN, success : BOOLEAN, redirect : BOOLEAN, body : Bodies]

Empty      == [redirect |-> FALSE, location |-> FALSE]
NoResponse == [answered |-> FALSE, success |-> FALSE, redirect |-> FALSE,
               body |-> Empty]

(* follow_redirect is false, and the only option about it, --no-redirect,  *)
(* says the same; true is for options that were made otherwise.            *)
Init == /\ follow \in BOOLEAN
        /\ pc = "idle"
        /\ redirect = 0
        /\ connection = "none" /\ connectionOpen = FALSE
        /\ response = NoResponse
        /\ refused = 0 /\ closedTwice = FALSE
        /\ reported = "none"

-----------------------------------------------------------------------------
(* HttpRequest.                                                            *)

(* UpnpCloseHttpConnection.                                                *)
Close(done) ==
    \/ /\ connection' = "closed"
       /\ closedTwice' = (closedTwice \/ connection = "closed")
       /\ connectionOpen' = IF done THEN FALSE ELSE connectionOpen
       /\ UNCHANGED refused
    \/ /\ refused' = refused + 1
       /\ UNCHANGED <<connection, connectionOpen, closedTwice>>

CloseConnection == \/ connectionOpen /\ Close(TRUE)
                   \/ ~connectionOpen /\ UNCHANGED <<connection, connectionOpen, history>>

Goes(place) == pc' = place /\ UNCHANGED <<follow, redirect, reported>>

(* The constructor of the request, and OpenConnection.                     *)
OpenConnection ==
    /\ pc = "request"
    /\ response' = NoResponse
    /\ refused' = 0
    /\ \/ /\ connection' = "open" /\ connectionOpen' = TRUE
          /\ Goes("opened")
       \/ /\ connection' = "none" /\ connectionOpen' = FALSE
          /\ Goes("executed")
    /\ UNCHANGED closedTwice

(* UpnpMakeHttpRequest and UpnpEndHttpRequest; the connection is closed    *)
(* when one of them fails.                                                 *)
MakeRequest ==
    /\ pc = "opened"
    /\ \/ /\ Goes("requested")
          /\ UNCHANGED <<connection, connectionOpen, history>>
       \/ Goes("executed") /\ CloseConnection
    /\ UNCHANGED response

(* UpnpGetHttpResponse.  A failure leaves the connection to the destructor.*)
GetResponse ==
    /\ pc = "requested"
    /\ \/ Goes("executed") /\ UNCHANGED response
       \/ \E code \in Codes, place \in {"body", "close"} :
             /\ Goes(place)
             /\ response' = [answered |-> TRUE, success |-> code.success,
                             redirect |-> code.redirect, body |-> Empty]
    /\ UNCHANGED <<connection, connectionOpen, history>>

(* UpnpReadHttpResponse.  After a failure the connection is closed, and    *)
(* connectionOpen not cleared.                                             *)
ReadResponse ==
    /\ pc = "body"
    /\ \/ /\ \E body \in Bodies : response' = [response EXCEPT !.body = body]
          /\ Goes("close")
          /\ UNCHANGED <<connection, connectionOpen, history>>
       \/ /\ Close(FALSE)
          /\ Goes("executed")
          /\ UNCHANGED response

EndExecute == /\ pc = "close"
              /\ CloseConnection
              /\ Goes("executed")
              /\ UNCHANGED response

(* A mutant: the destructor leaves the connection alone.                   *)
DestructorLeaves == UNCHANGED <<connection, connectionOpen, history>>

(* The destructor.                                                         *)
Destructor == CloseConnection

-----------------------------------------------------------------------------
(* HttpStatusHandler.                                                      *)

GetStatus == /\ pc = "idle"
             /\ redirect' = 0
             /\ pc' = "request"
             /\ UNCHANGED <<follow, requestVars, history, reported>>

IsResponseRedirect == response.redirect \/ response.body.redirect
FollowsRedirect    == follow /\ IsResponseRedirect /\ response.body.location

(* Without an answer the status is 0, whatever the success_codes are.      *)
IsSuccessfulRequest == response.answered /\ response.success

(* A mutant: the requests are not counted.                                 *)
NextRequestUncounted == pc' = "request" /\ UNCHANGED <<redirect, reported>>

(* A mutant: redirect goes one beyond the cap.                             *)
NextRequestOneMore ==
    /\ redirect' = redirect + 1
    /\ pc' = IF redirect < redirect_max THEN "request" ELSE "idle"
    /\ reported' = IF redirect < redirect_max THEN reported ELSE "down"

NextRequest == /\ redirect' = redirect + 1
               /\ pc' = IF redirect + 1 < redirect_max THEN "request" ELSE "idle"
               /\ reported' = IF redirect + 1 < redirect_max THEN reported ELSE "down"

(* A mutant: a page is judged before it is known where it leads.           *)
JudgeFirst == /\ pc = "executed"
              /\ Destructor
              /\ \/ /\ IsSuccessfulRequest
                    /\ pc' = "idle" /\ reported' = "live"
                    /\ UNCHANGED redirect
                 \/ ~IsSuccessfulRequest /\ FollowsRedirect /\ NextRequest
                 \/ /\ ~IsSuccessfulRequest /\ ~FollowsRedirect
                    /\ pc' = "idle" /\ reported' = "down"
                    /\ UNCHANGED redirect
              /\ UNCHANGED <<follow, response>>

(* The rest of the loop's body, at whose end the request is destroyed.     *)
Judge == /\ pc = "executed"
         /\ Destructor
         /\ \/ FollowsRedirect /\ NextRequest
            \/ /\ ~FollowsRedirect
               /\ pc' = "idle"
               /\ reported' = IF IsSuccessfulRequest THEN "live" ELSE "down"
               /\ UNCHANGED redirect
         /\ UNCHANGED <<follow, response>>

Poll == OpenConnection \/ MakeRequest \/ GetResponse \/ ReadResponse \/ EndExecute \/ Judge

Next == GetStatus \/ Poll

Spec == Init /\ [][Next]_vars

-----------------------------------------------------------------------------
TypeOK == /\ follow \in BOOLEAN
          /\ pc \in {"idle", "request", "opened", "requested", "body", "close", "executed"}
          /\ redirect \in 0..redirect_max
          /\ connection \in {"none", "open", "closed"}
          /\ connectionOpen \in BOOLEAN
          /\ response \in Responses
          /\ refused \in 0..2
          /\ closedTwice \in BOOLEAN
          /\ reported \in {"none", "live", "down"}

(* A request that was destroyed leaves no connection behind, wherever      *)
(* Execute failed, unless the library refused to close it.                 *)
NoneLeftOpen == pc \in {"idle", "request"} /\ connection = "open" => refused > 0

(* Only an answer makes a stream live, and only that of the page to which  *)
(* the redirections led, when they are followed: not one that came before  *)
(* it, on the way.                                                         *)
LiveFromAnswer ==
    pc = "idle" /\ reported = "live" =>
       response.answered /\ response.success /\ ~FollowsRedirect

=============================================================================
