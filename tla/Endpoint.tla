------------------------------ MODULE Endpoint ------------------------------
(***************************************************************************)
(* Proto::Endpoint at the two ends of one connection: the                  *)
(* OutcomingRequestsManager that numbers calls, arms their timeouts, sends *)
(* them after an artificial delay and matches the answers, and the         *)
(* IncomingRequestsManager that serves the peer's calls.  Both ends number *)
(* their calls from 0 and share the connection in both directions.         *)
(*                                                                         *)
(* Everything an end does runs on its io_context, one handler at a time;   *)
(* sendRequest and the promise of an incoming call post to it from other   *)
(* threads.  wire[e] holds the frames on their way to end e, from the      *)
(* peer's write queue to e's read buffer; SocketWrapper models that part   *)
(* in detail and shows that it is a queue that may lose its tail.          *)
(***************************************************************************)
EXTENDS Naturals, Sequences

CONSTANTS Ends,      \* the two ends of the connection
          Calls,     \* calls of the Endpoint::send_* functions
          Caller,    \* the end that makes a call
          IdSpace,   \* number of request ids (2^64 in the code)
          NoId       \* no request id yet

ASSUME EndpointAssumption ==
    /\ \E a, b \in Ends : a # b /\ Ends = {a, b}
    /\ Caller \in [Calls -> Ends]
    /\ IdSpace \in Nat \ {0}
    /\ NoId \notin 0 .. (IdSpace - 1)

Peer(e) == CHOOSE p \in Ends : p # e

VARIABLES
    posted,            \* sendRequest handlers posted to an end's io_context
    requestIdCounter,  \* OutcomingRequestsManager::requestIdCounter_
    requestId,         \* the id a call was sent under
    pendingRequests,   \* OutcomingRequestsManager::pendingRequests_
    timeoutTimer,      \* PendingRequest::timeoutTimer; "queued": handler posted
    delayed,           \* calls whose launchWithDelay has not fired
    future,            \* what the future of a call holds
    registeredContexts,\* IncomingRequestsManager::registeredContexts_
    promise,           \* what the peer's application did with a call
    answers,           \* calls with a thenPost handler of their promise posted
    wire,              \* frames on their way to an end
    invalidated,       \* SocketWrapper::invalidated_
    alive              \* the endpoint and its managers exist

callerVars == <<posted, requestIdCounter, requestId, pendingRequests,
                timeoutTimer, delayed, future>>
calleeVars == <<registeredContexts, promise, answers>>
socketVars == <<wire, invalidated, alive>>
vars == <<callerVars, calleeVars, socketVars>>

RequestIds == 0 .. (IdSpace - 1)
Frames     == [event : {"REQUEST", "RESPONSE"}, requestId : RequestIds, call : Calls]
Failures   == {"TIMEOUT", "PEER_DISCONNECTED"}
Futures    == {"idle", "open", "value"} \cup Failures

\* One type invariant: what each variable ranges over.
TypeOK ==
    /\ posted \in [Ends -> Seq(Calls)]
    /\ requestIdCounter \in [Ends -> RequestIds]
    /\ requestId \in [Calls -> RequestIds \cup {NoId}]
    /\ pendingRequests \in [Ends -> SUBSET Calls]
    /\ timeoutTimer \in [Calls -> {"off", "armed", "queued"}]
    /\ delayed \subseteq Calls
    /\ future \in [Calls -> Futures]
    /\ registeredContexts \in [Ends -> SUBSET Calls]
    /\ promise \in [Calls -> {"no", "running", "answered", "dropped"}]
    /\ answers \subseteq Calls
    /\ wire \in [Ends -> Seq(Frames)]
    /\ invalidated \in [Ends -> BOOLEAN]
    /\ alive \in [Ends -> BOOLEAN]

Init ==
    /\ posted = [e \in Ends |-> << >>]
    /\ requestIdCounter = [e \in Ends |-> 0]
    /\ requestId = [c \in Calls |-> NoId]
    /\ pendingRequests = [e \in Ends |-> {}]
    /\ timeoutTimer = [c \in Calls |-> "off"]
    /\ delayed = {}
    /\ future = [c \in Calls |-> "idle"]
    /\ registeredContexts = [e \in Ends |-> {}]
    /\ promise = [c \in Calls |-> "no"]
    /\ answers = {}
    /\ wire = [e \in Ends |-> << >>]
    /\ invalidated = [e \in Ends |-> FALSE]
    /\ alive = [e \in Ends |-> TRUE]

Up(e) == alive[e] /\ ~invalidated[e]

\* SocketWrapper::writeFrame at end e; without both sockets it leads nowhere.
WriteFrame(e, event, id, c) ==
    IF Up(e) /\ Up(Peer(e))
    THEN [wire EXCEPT ![Peer(e)] =
            Append(@, [event |-> event, requestId |-> id, call |-> c])]
    ELSE wire

-----------------------------------------------------------------------------
(* OutcomingRequestsManager.                                               *)

\* What pendingRequests_.find(id) yields.
Find(e, id) == {c \in pendingRequests[e] : requestId[c] = id}

\* Mutant: the resolved calls are not erased.
ResolveWithoutErase(e, calls, result) ==
    /\ timeoutTimer' = [c \in Calls |->
            IF c \in calls /\ timeoutTimer[c] = "armed" THEN "off" ELSE timeoutTimer[c]]
    /\ future' = [c \in Calls |->
            IF c \in calls /\ future[c] = "open" THEN result ELSE future[c]]
    /\ UNCHANGED pendingRequests

\* Cancel the timers of the calls, fill their futures, erase them.  A timeout
\* handler that is already queued cannot be cancelled.
Resolve(e, calls, result) ==
    /\ timeoutTimer' = [c \in Calls |->
            IF c \in calls /\ timeoutTimer[c] = "armed" THEN "off" ELSE timeoutTimer[c]]
    /\ future' = [c \in Calls |->
            IF c \in calls /\ future[c] = "open" THEN result ELSE future[c]]
    /\ pendingRequests' = [pendingRequests EXCEPT ![e] = @ \ calls]

\* sendRequest, through one of the send_* functions of a live endpoint.
SendRequest(c) ==
    /\ future[c] = "idle"
    /\ alive[Caller[c]]
    /\ future' = [future EXCEPT ![c] = "open"]
    /\ posted' = [posted EXCEPT ![Caller[c]] = Append(@, c)]
    /\ UNCHANGED <<requestIdCounter, requestId, pendingRequests, timeoutTimer,
                   delayed, calleeVars, socketVars>>

\* Mutant: the context of the call is dropped unfilled.
DropTooLate(e) ==
    /\ posted[e] # << >>
    /\ ~alive[e]
    /\ posted' = [posted EXCEPT ![e] = Tail(@)]
    /\ UNCHANGED <<requestIdCounter, requestId, pendingRequests, timeoutTimer,
                   delayed, future, calleeVars, socketVars>>

\* The posted handler when the manager is gone.
SendRequestTooLate(e) ==
    /\ posted[e] # << >>
    /\ ~alive[e]
    /\ posted' = [posted EXCEPT ![e] = Tail(@)]
    /\ future' = [future EXCEPT ![Head(posted[e])] = "PEER_DISCONNECTED"]
    /\ UNCHANGED <<requestIdCounter, requestId, pendingRequests, timeoutTimer,
                   delayed, calleeVars, socketVars>>

\* Mutant: the counter does not wrap around.
NextIdUnbounded(id) == id + 1

\* requestIdCounter_++
NextId(id) == (id + 1) % IdSpace

\* sendRequestImpl; "request id wrap around" when the id is still in use.
SendRequestImpl(e) ==
    LET c  == Head(posted[e])
        id == requestIdCounter[e]
    IN  /\ posted[e] # << >>
        /\ alive[e]
        /\ posted' = [posted EXCEPT ![e] = Tail(@)]
        /\ requestIdCounter' = [requestIdCounter EXCEPT ![e] = NextId(id)]
        /\ IF Find(e, id) # {}
           THEN /\ future' = [future EXCEPT ![c] = "TIMEOUT"]
                /\ UNCHANGED <<requestId, pendingRequests, timeoutTimer, delayed>>
           ELSE /\ requestId' = [requestId EXCEPT ![c] = id]
                /\ timeoutTimer' = [timeoutTimer EXCEPT ![c] = "armed"]
                /\ pendingRequests' = [pendingRequests EXCEPT ![e] = @ \cup {c}]
                /\ delayed' = delayed \cup {c}
                /\ UNCHANGED future
        /\ UNCHANGED <<calleeVars, socketVars>>

TimerExpires(c) ==
    /\ timeoutTimer[c] = "armed"
    /\ timeoutTimer' = [timeoutTimer EXCEPT ![c] = "queued"]
    /\ UNCHANGED <<posted, requestIdCounter, requestId, pendingRequests, delayed,
                   future, calleeVars, socketVars>>

\* The timeout handler: it looks the id up again.
TimeoutHandler(c) ==
    LET e     == Caller[c]
        found == IF alive[e] THEN Find(e, requestId[c]) ELSE {}
    IN  /\ timeoutTimer[c] = "queued"
        /\ timeoutTimer' = [d \in Calls |->
                IF d = c \/ (d \in found /\ timeoutTimer[d] = "armed")
                THEN "off" ELSE timeoutTimer[d]]
        /\ future' = [d \in Calls |->
                IF d \in found /\ future[d] = "open" THEN "TIMEOUT" ELSE future[d]]
        /\ pendingRequests' = [pendingRequests EXCEPT ![e] = @ \ found]
        /\ UNCHANGED <<posted, requestIdCounter, requestId, delayed,
                       calleeVars, socketVars>>

\* The delayed write: it does not ask whether the call is still pending.
DelayedWrite(c) ==
    LET e == Caller[c] IN
    /\ c \in delayed
    /\ delayed' = delayed \ {c}
    /\ IF alive[e] /\ invalidated[e]
       THEN Resolve(e, Find(e, requestId[c]), "PEER_DISCONNECTED")
       ELSE UNCHANGED <<timeoutTimer, future, pendingRequests>>
    /\ wire' = WriteFrame(e, "REQUEST", requestId[c], c)
    /\ UNCHANGED <<posted, requestIdCounter, requestId, calleeVars,
                   invalidated, alive>>

\* Mutant: the event type of the frame is not looked at.
OnAnyFrame(e) ==
    /\ alive[e]
    /\ wire[e] # << >>
    /\ wire' = [wire EXCEPT ![e] = Tail(@)]
    /\ Resolve(e, Find(e, Head(wire[e]).requestId), "value")
    /\ UNCHANGED <<posted, requestIdCounter, requestId, delayed, calleeVars,
                   invalidated, alive>>

\* Both managers' slots see every frame; each drops the other's event type.
OnResponseFrame(e) ==
    /\ alive[e]
    /\ wire[e] # << >>
    /\ Head(wire[e]).event = "RESPONSE"
    /\ wire' = [wire EXCEPT ![e] = Tail(@)]
    /\ Resolve(e, Find(e, Head(wire[e]).requestId), "value")
    /\ UNCHANGED <<posted, requestIdCounter, requestId, delayed, calleeVars,
                   invalidated, alive>>

-----------------------------------------------------------------------------
(* IncomingRequestsManager and the dispatch of Endpoint.                   *)

\* onIncomingFrame, registerContext, the incoming_* signal.  A second context
\* under an id that is registered is dropped, its handler runs all the same.
OnRequestFrame(e) ==
    LET f         == Head(wire[e])
        duplicate == \E c \in registeredContexts[e] : requestId[c] = f.requestId
    IN  /\ alive[e]
        /\ wire[e] # << >>
        /\ f.event = "REQUEST"
        /\ wire' = [wire EXCEPT ![e] = Tail(@)]
        /\ promise' = [promise EXCEPT ![f.call] = "running"]
        /\ registeredContexts' = IF duplicate THEN registeredContexts
                ELSE [registeredContexts EXCEPT ![e] = @ \cup {f.call}]
        /\ UNCHANGED <<callerVars, answers, invalidated, alive>>

\* The application fills the promise of an incoming call, or drops it.
FinishIncoming(c, how) ==
    /\ promise[c] = "running"
    /\ promise' = [promise EXCEPT ![c] = how]
    /\ answers' = answers \cup {c}
    /\ UNCHANGED <<callerVars, registeredContexts, socketVars>>

\* Mutant: the context of a dropped promise is kept.
KeepDroppedContext(c) ==
    LET e == Peer(Caller[c]) IN
    /\ c \in answers
    /\ answers' = answers \ {c}
    /\ IF promise[c] = "answered" /\ c \in registeredContexts[e]
       THEN /\ registeredContexts' = [registeredContexts EXCEPT ![e] = @ \ {c}]
            /\ wire' = WriteFrame(e, "RESPONSE", requestId[c], c)
       ELSE UNCHANGED <<registeredContexts, wire>>
    /\ UNCHANGED <<callerVars, promise, invalidated, alive>>

\* connectPromise's handler: onResponseRecieved or onInvalidResponseRecieved,
\* if the context still exists.
OnPromiseFilled(c) ==
    LET e          == Peer(Caller[c])
        hasContext == c \in registeredContexts[e]
    IN  /\ c \in answers
        /\ answers' = answers \ {c}
        /\ registeredContexts' = [registeredContexts EXCEPT ![e] = @ \ {c}]
        /\ wire' = IF hasContext /\ promise[c] = "answered"
                   THEN WriteFrame(e, "RESPONSE", requestId[c], c)
                   ELSE wire
        /\ UNCHANGED <<callerVars, promise, invalidated, alive>>

-----------------------------------------------------------------------------
(* The connection and the life of an endpoint.                             *)

\* A socket closes: of the frames to e at most the one whose read has already
\* completed is still handled, of the frames to the peer some tail is lost.
LoseFrames(e, kept, sent) ==
    /\ kept \in 0 .. 1
    /\ kept <= Len(wire[e])
    /\ sent \in 0 .. Len(wire[Peer(e)])
    /\ wire' = [wire EXCEPT ![e] = SubSeq(@, 1, kept),
                            ![Peer(e)] = SubSeq(@, 1, sent)]

\* SocketWrapper::invalidate: a read or write failed at end e.
Invalidate(e) ==
    /\ Up(e)
    /\ invalidated' = [invalidated EXCEPT ![e] = TRUE]
    /\ \E kept \in 0 .. 1, sent \in 0 .. Len(wire[Peer(e)]) : LoseFrames(e, kept, sent)
    /\ Resolve(e, pendingRequests[e], "PEER_DISCONNECTED")
    /\ UNCHANGED <<posted, requestIdCounter, requestId, delayed, calleeVars, alive>>

\* The last owner lets go of the endpoint: the destructors of both managers.
Destroy(e) ==
    /\ alive[e]
    /\ alive' = [alive EXCEPT ![e] = FALSE]
    /\ \E sent \in 0 .. Len(wire[Peer(e)]) : LoseFrames(e, 0, sent)
    /\ Resolve(e, pendingRequests[e], "PEER_DISCONNECTED")
    /\ registeredContexts' = [registeredContexts EXCEPT ![e] = {}]
    /\ UNCHANGED <<posted, requestIdCounter, requestId, delayed, promise,
                   answers, invalidated>>

Next ==
    \/ \E c \in Calls :
            \/ SendRequest(c) \/ TimerExpires(c) \/ TimeoutHandler(c)
            \/ DelayedWrite(c) \/ OnPromiseFilled(c)
            \/ FinishIncoming(c, "answered") \/ FinishIncoming(c, "dropped")
    \/ \E e \in Ends :
            \/ SendRequestTooLate(e) \/ SendRequestImpl(e)
            \/ OnResponseFrame(e) \/ OnRequestFrame(e)
            \/ Invalidate(e) \/ Destroy(e)

Spec == Init /\ [][Next]_vars

\* Posted handlers run and timers fire.  Nothing is assumed of the network, of
\* the peer, or of the application that serves the calls.
Fairness ==
    /\ \A e \in Ends : WF_vars(SendRequestTooLate(e) \/ SendRequestImpl(e))
    /\ \A c \in Calls : WF_vars(TimerExpires(c) \/ TimeoutHandler(c))

FairSpec == Spec /\ Fairness

-----------------------------------------------------------------------------
(* Properties.                                                             *)

\* Between sendRequestImpl and the answer a call is in pendingRequests_ and
\* nowhere else: a future that is open is never forgotten, whatever closed or
\* was destroyed meanwhile, and a filled one is not kept.  A pending call has
\* its timeout ahead of it.
OpenCallsArePending ==
    \A c \in Calls :
        LET e == Caller[c] IN
        /\ c \in pendingRequests[e] => alive[e] /\ timeoutTimer[c] # "off"
        /\ (c \in pendingRequests[e]) <=>
                (future[c] = "open" /\ requestId[c] # NoId)

\* The peer waits for every context it keeps: contexts of dropped promises and
\* of answered calls are gone.
ContextsAreAwaited ==
    \A e \in Ends : \A c \in registeredContexts[e] :
        promise[c] = "running" \/ c \in answers

\* The promise of Rpc: in particular a value is the answer to this very call,
\* although both ends number their calls alike and late answers keep coming.
R == INSTANCE Rpc WITH
    outcome <- [c \in Calls |-> IF future[c] \in Failures THEN "failed" ELSE future[c]],
    served  <- promise

RefinesRpc == R!Spec

\* Every call ends, also one made just before its endpoint dies, one sent on a
\* socket that is already invalidated, and one the peer never answers.
FuturesAreFilled == \A c \in Calls : future[c] = "open" ~> future[c] # "open"
=============================================================================
