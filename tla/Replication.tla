----------------------------- MODULE Replication -----------------------------
(***************************************************************************)
(* The replicated log: the master's HTTP threads, its registry of          *)
(* secondaries, one AddMessageRequest per message, and the secondary       *)
(* processes with their master sessions, over connections that break and   *)
(* calls that time out.                                                    *)
(*                                                                         *)
(* Threads.  A handler runs to completion on its io_context; an action is  *)
(* one handler, except MasterNode::addMessage, which runs on one of        *)
(* several HTTP threads at a time and is split at its two shared accesses  *)
(* (fetch_add, insert) and at the snapshot of the registry.                *)
(*                                                                         *)
(* Calls.  A call made through a Proto::Endpoint is "sent" while its       *)
(* request is on its way, "lost" when no request can arrive any more,      *)
(* "answered" when the peer's handler has run and the caller's callback    *)
(* has not.  Until the callback the caller may still see an error instead  *)
(* (timeout, disconnect), and the request of a call that failed may still  *)
(* arrive late: lateAdds and lateReady remember those.  The module         *)
(* Endpoint models how the endpoint does this.                             *)
(***************************************************************************)
EXTENDS Storage, FiniteSets

CONSTANTS Nodes,          \* secondary processes
          Threads,        \* HTTP worker threads of the master
          WriteConcerns,  \* write concerns that clients ask for
          MaxBreaks,      \* bound: connections that break
          MaxCrashes,     \* bound: crashes of secondary processes
          NoNode

ASSUME ReplicationAssumption ==
    /\ IsFiniteSet(Nodes)
    /\ NoNode \notin Nodes
    /\ WriteConcerns \subseteq Nat
    /\ MaxBreaks \in Nat
    /\ MaxCrashes \in Nat

\* A node connects once and once more after each break.
MaxConns == Cardinality(Nodes) + MaxBreaks
ConnIds  == 0 .. (MaxConns - 1)

INSTANCE AddMessageRequest

VARIABLES
    nextMessageId,       \* Storage::nextMessageId_ of the master
    messages,            \* Storage::messages_ of the master
    requests,            \* the AddMessageRequest of each message id
    addCalls,            \* its send_addMessage calls, by connection
    lateAdds,            \* <<id, c>>: a failed addMessage call still to arrive
    secondaryIdCounter,  \* MasterNode::secondaryIdCounter_
    secondaries,         \* MasterNode::secondaries_ : state by secondary id
    connects,            \* connections established so far
    owner,               \* the secondary process at the end of a connection
    masterUp,            \* the master's socket is not invalidated
    secondaryUp,         \* the secondary's socket is not invalidated
    lateReady,           \* connections with a failed ready call still to arrive
    sessions,            \* SecondaryNode::session_ and its call in progress
    operational,         \* SecondaryNode::operational_
    store,               \* SecondaryNode::storage_
    crashes

masterVars     == <<nextMessageId, messages>>
requestVars    == <<requests, addCalls, lateAdds>>
registryVars   == <<secondaryIdCounter, secondaries>>
connectionVars == <<connects, owner, masterUp, secondaryUp>>
secondaryVars  == <<lateReady, sessions, operational, store, crashes>>
vars == <<masterVars, requestVars, registryVars, connectionVars, secondaryVars>>

CallStates == {"none", "sent", "lost", "answered"}

\* UNKNOWN: addSecondaryImpl has not run; INVALIDATED: erased from the map.
SecondaryStates == {"UNKNOWN", "REGISTERING", "OPERATIONAL", "INVALIDATED"}

\* connecting, backoff: reconnectToMaster waits for async_connect, for its
\* timer; ask, notify, ready: a MasterSession exists and waits for the answer
\* to getMessages, to secondaryNodeReady, for nothing.
SessionPhases == {"connecting", "backoff", "ask", "notify", "ready"}
Connected(n)  == sessions[n].phase \in {"ask", "notify", "ready"}

Session(conn, phase, gap, call, chunk) ==
    [conn |-> conn, phase |-> phase, gap |-> gap, call |-> call, chunk |-> chunk]

NoSession == Session(0, "connecting", 0, "none", << >>)

SessionType ==
    [conn  : ConnIds,
     phase : SessionPhases,
     gap   : 0 .. MaxMessages,
     call  : CallStates,
     chunk : Seq(Messages)]

\* One type invariant: what each variable ranges over.
TypeOK ==
    /\ nextMessageId \in 0 .. MaxMessages
    /\ messages \in StorageType
    /\ requests \in [MessageIds -> RequestType]
    /\ addCalls \in [MessageIds -> [ConnIds -> CallStates]]
    /\ lateAdds \subseteq MessageIds \X ConnIds
    /\ secondaryIdCounter \in 0 .. MaxConns
    /\ secondaries \in [ConnIds -> SecondaryStates]
    /\ connects \in 0 .. MaxConns
    /\ owner \in [ConnIds -> Nodes \cup {NoNode}]
    /\ masterUp \in [ConnIds -> BOOLEAN]
    /\ secondaryUp \in [ConnIds -> BOOLEAN]
    /\ lateReady \subseteq ConnIds
    /\ sessions \in [Nodes -> SessionType]
    /\ operational \in [Nodes -> BOOLEAN]
    /\ store \in [Nodes -> StorageType]
    /\ crashes \in 0 .. MaxCrashes

Init ==
    /\ nextMessageId = 0
    /\ messages = EmptyStorage
    /\ requests = [id \in MessageIds |-> FreeRequest]
    /\ addCalls = [id \in MessageIds |-> [c \in ConnIds |-> "none"]]
    /\ lateAdds = {}
    /\ secondaryIdCounter = 0
    /\ secondaries = [c \in ConnIds |-> "UNKNOWN"]
    /\ connects = 0
    /\ owner = [c \in ConnIds |-> NoNode]
    /\ masterUp = [c \in ConnIds |-> FALSE]
    /\ secondaryUp = [c \in ConnIds |-> FALSE]
    /\ lateReady = {}
    /\ sessions = [n \in Nodes |-> NoSession]
    /\ operational = [n \in Nodes |-> FALSE]
    /\ store = [n \in Nodes |-> EmptyStorage]
    /\ crashes = 0

-----------------------------------------------------------------------------
(* Connections, as the two ends see them.                                  *)

\* MasterNode::secondariesSnapshot: the ids in the map.
SecondariesSnapshot ==
    {c \in ConnIds : secondaries[c] \in {"REGISTERING", "OPERATIONAL"}}

\* A frame written now arrives, unless one of the two sockets is closed.
Frame(c) == IF masterUp[c] /\ secondaryUp[c] THEN "sent" ELSE "lost"

\* An answer given now arrives, unless the master's socket is closed.
Answer(c) == IF masterUp[c] THEN "answered" ELSE "lost"

Broken == {c \in ConnIds : c < connects /\ ~(masterUp[c] /\ secondaryUp[c])}

\* The network breaks a connection that is whole; the other end then
\* notices, which needs no further permission.
MayBreak(c) == c \in Broken \/ Cardinality(Broken) < MaxBreaks

-----------------------------------------------------------------------------
(* The master's HTTP threads: POST /newMessage.                            *)

\* A thread in the middle of MasterNode::addMessage runs nothing else.
Idle(t) ==
    \A id \in MessageIds :
        requests[id].thread = t => requests[id].phase \notin {"claimed", "inserted"}

\* Mutant: the request runs although the message is not in the map.
ClaimAndRun(t, message, writeConcern) ==
    /\ Idle(t)
    /\ nextMessageId < MaxMessages
    /\ nextMessageId' = nextMessageId + 1
    /\ requests' = [requests EXCEPT
            ![nextMessageId] = NewRequest("inserted", t, message, writeConcern)]
    /\ UNCHANGED <<messages, addCalls, lateAdds, registryVars, connectionVars,
                   secondaryVars>>

\* The fetch_add of Storage::addMessage.
ClaimId(t, message, writeConcern) ==
    /\ Idle(t)
    /\ nextMessageId < MaxMessages
    /\ nextMessageId' = nextMessageId + 1
    /\ requests' = [requests EXCEPT
            ![nextMessageId] = NewRequest("claimed", t, message, writeConcern)]
    /\ UNCHANGED <<messages, addCalls, lateAdds, registryVars, connectionVars,
                   secondaryVars>>

\* The insert of Storage::addMessage.
InsertMessage(id) ==
    /\ requests[id].phase = "claimed"
    /\ messages' = Insert(messages, id, requests[id].message)
    /\ requests' = [requests EXCEPT ![id].phase = "inserted"]
    /\ UNCHANGED <<nextMessageId, addCalls, lateAdds, registryVars,
                   connectionVars, secondaryVars>>

\* start() on the request r of message id, when calls are its open calls.
StartRequest(id, r, calls) ==
    /\ requests' = [requests EXCEPT ![id] = Start(r, SecondariesSnapshot)]
    /\ addCalls' = [addCalls EXCEPT ![id] =
            [c \in ConnIds |-> IF c \in SentByStart(r, SecondariesSnapshot)
                               THEN Frame(c)
                               ELSE calls[c]]]

\* request->run(), the first start().
RunRequest(id) ==
    /\ requests[id].phase = "inserted"
    /\ StartRequest(id, requests[id], addCalls[id])
    /\ UNCHANGED <<masterVars, lateAdds, registryVars, connectionVars, secondaryVars>>

\* The kMasterReconnectTimeout timer of sendRequestToSecondaries.
RetryTimer(id) ==
    /\ requests[id].phase = "delay"
    /\ Idle(requests[id].thread)
    /\ StartRequest(id, requests[id], addCalls[id])
    /\ UNCHANGED <<masterVars, lateAdds, registryVars, connectionVars, secondaryVars>>

\* The callback of one send_addMessage; the last one starts over.
AddMessageCallback(id, c, status) ==
    LET calls == [addCalls[id] EXCEPT ![c] = "none"]
        r     == OnResponseRecieved(requests[id], c, status)
    IN  /\ Idle(requests[id].thread)
        /\ IF r.pendingWrites = 0
           THEN StartRequest(id, r, calls)
           ELSE /\ requests' = [requests EXCEPT ![id] = r]
                /\ addCalls' = [addCalls EXCEPT ![id] = calls]
        /\ UNCHANGED <<masterVars, registryVars, connectionVars, secondaryVars>>

\* The future holds AddMessageStatus::OK.
AddMessageAnswered(id, c) ==
    /\ addCalls[id][c] = "answered"
    /\ AddMessageCallback(id, c, "ADDED")
    /\ UNCHANGED lateAdds

\* The future holds TIMEOUT or PEER_DISCONNECTED.
AddMessageFailed(id, c) ==
    /\ addCalls[id][c] # "none"
    /\ AddMessageCallback(id, c, "ERROR")
    /\ lateAdds' = IF addCalls[id][c] = "sent" THEN lateAdds \cup {<<id, c>>}
                                               ELSE lateAdds

-----------------------------------------------------------------------------
(* The master's registry, on the io_context of MasterNode.                 *)

\* addSecondaryImpl: sockets are accepted in the order they connected.
AddSecondaryImpl ==
    /\ secondaryIdCounter < connects
    /\ secondaryIdCounter' = secondaryIdCounter + 1
    /\ secondaries' = [secondaries EXCEPT ![secondaryIdCounter] = "REGISTERING"]
    /\ UNCHANGED <<masterVars, requestVars, connectionVars, secondaryVars>>

\* The master's endpoint sees its socket fail and posts onInvalidated.
MasterSocketInvalidated(c) ==
    /\ c \in SecondariesSnapshot
    /\ masterUp[c]
    /\ MayBreak(c)
    /\ masterUp' = [masterUp EXCEPT ![c] = FALSE]
    /\ UNCHANGED <<masterVars, requestVars, registryVars, connects, owner,
                   secondaryUp, secondaryVars>>

\* onInvalidated; what the master had not read from the socket is gone.
OnInvalidated(c) ==
    /\ c \in SecondariesSnapshot
    /\ ~masterUp[c]
    /\ secondaries' = [secondaries EXCEPT ![c] = "INVALIDATED"]
    /\ lateReady' = lateReady \ {c}
    /\ UNCHANGED <<masterVars, requestVars, secondaryIdCounter, connectionVars,
                   sessions, operational, store, crashes>>

\* onIncomingGetMessages, for the call of n's session.
OnIncomingGetMessages(n) ==
    /\ sessions[n].phase = "ask"
    /\ sessions[n].call = "sent"
    /\ sessions[n].conn \in SecondariesSnapshot
    /\ masterUp[sessions[n].conn]
    /\ sessions' = [sessions EXCEPT
            ![n].call = "answered",
            ![n].chunk = ContiguousChunk(messages, sessions[n].gap)]
    /\ UNCHANGED <<masterVars, requestVars, registryVars, connectionVars,
                   lateReady, operational, store, crashes>>

\* Mutant: the secondary is looked up by its name, not by the connection.
SetOperationalByName(c) ==
    /\ c \in SecondariesSnapshot
    /\ secondaries' = [d \in ConnIds |->
            IF d \in SecondariesSnapshot /\ owner[d] = owner[c] THEN "OPERATIONAL"
                                                               ELSE secondaries[d]]

\* onIncomingSecondaryNodeReady; the first guard is its early return.
SetOperational(c) ==
    /\ c \in SecondariesSnapshot
    /\ secondaries' = [secondaries EXCEPT ![c] = "OPERATIONAL"]

OnIncomingSecondaryNodeReady(n) ==
    /\ sessions[n].phase = "notify"
    /\ sessions[n].call = "sent"
    /\ SetOperational(sessions[n].conn)
    /\ sessions' = [sessions EXCEPT ![n].call = Answer(sessions[n].conn)]
    /\ UNCHANGED <<masterVars, requestVars, secondaryIdCounter, connectionVars,
                   lateReady, operational, store, crashes>>

\* The same, for a call whose session has given it up or is gone.
OnLateSecondaryNodeReady(c) ==
    /\ c \in lateReady
    /\ SetOperational(c)
    /\ lateReady' = lateReady \ {c}
    /\ UNCHANGED <<masterVars, requestVars, secondaryIdCounter, connectionVars,
                   sessions, operational, store, crashes>>

-----------------------------------------------------------------------------
(* SecondaryNode and MasterSession, on the secondary's io_context.         *)

\* reconnectToMaster succeeds: runMasterSession, MasterSession::run.
Connect(n) ==
    /\ sessions[n].phase = "connecting"
    /\ connects < MaxConns
    /\ connects' = connects + 1
    /\ owner' = [owner EXCEPT ![connects] = n]
    /\ masterUp' = [masterUp EXCEPT ![connects] = TRUE]
    /\ secondaryUp' = [secondaryUp EXCEPT ![connects] = TRUE]
    /\ sessions' = [sessions EXCEPT
            ![n] = Session(connects, "ask", FirstGap(store[n]), "sent", << >>)]
    /\ operational' = [operational EXCEPT ![n] = FALSE]
    /\ UNCHANGED <<masterVars, requestVars, registryVars, lateReady, store, crashes>>

\* async_connect reports an error; the timer calls reconnectToMaster again.
ConnectFails(n) ==
    /\ sessions[n].phase = "connecting"
    /\ sessions' = [sessions EXCEPT ![n].phase = "backoff"]
    /\ UNCHANGED <<masterVars, requestVars, registryVars, connectionVars,
                   lateReady, operational, store, crashes>>

ReconnectTimer(n) ==
    /\ sessions[n].phase = "backoff"
    /\ sessions' = [sessions EXCEPT ![n].phase = "connecting"]
    /\ UNCHANGED <<masterVars, requestVars, registryVars, connectionVars,
                   lateReady, operational, store, crashes>>

\* askForMessages' callback with a value: fill the storage, emit operational,
\* notifyOperational.
GetMessagesAnswered(n) ==
    LET s == sessions[n] IN
    /\ s.phase = "ask"
    /\ s.call = "answered"
    /\ store' = [store EXCEPT ![n] = AddMessages(store[n], s.gap, s.chunk)]
    /\ operational' = [operational EXCEPT ![n] = TRUE]
    /\ sessions' = [sessions EXCEPT
            ![n] = Session(s.conn, "notify", 0, Frame(s.conn), << >>)]
    /\ UNCHANGED <<masterVars, requestVars, registryVars, connectionVars,
                   lateReady, crashes>>

\* Mutant: a failed getMessages is not repeated.
GetMessagesOnce(n) ==
    /\ sessions[n].phase = "ask"
    /\ sessions' = [sessions EXCEPT
            ![n] = Session(sessions[n].conn, "ready", 0, "none", << >>)]
    /\ UNCHANGED <<masterVars, requestVars, registryVars, connectionVars,
                   lateReady, operational, store, crashes>>

\* askForMessages' callback with an error: askForMessages again.
GetMessagesFailed(n) ==
    LET s == sessions[n] IN
    /\ s.phase = "ask"
    /\ sessions' = [sessions EXCEPT
            ![n] = Session(s.conn, "ask", FirstGap(store[n]), Frame(s.conn), << >>)]
    /\ UNCHANGED <<masterVars, requestVars, registryVars, connectionVars,
                   lateReady, operational, store, crashes>>

SecondaryNodeReadyAnswered(n) ==
    LET s == sessions[n] IN
    /\ s.phase = "notify"
    /\ s.call = "answered"
    /\ sessions' = [sessions EXCEPT ![n] = Session(s.conn, "ready", 0, "none", << >>)]
    /\ UNCHANGED <<masterVars, requestVars, registryVars, connectionVars,
                   lateReady, operational, store, crashes>>

\* The ready frame that n's session has under way, if it gives the call up.
GiveUpReady(n) ==
    IF sessions[n].phase = "notify" /\ sessions[n].call = "sent"
    THEN lateReady \cup {sessions[n].conn}
    ELSE lateReady

\* notifyOperational's callback with an error: notifyOperational again.
SecondaryNodeReadyFailed(n) ==
    LET s == sessions[n] IN
    /\ s.phase = "notify"
    /\ lateReady' = GiveUpReady(n)
    /\ sessions' = [sessions EXCEPT
            ![n] = Session(s.conn, "notify", 0, Frame(s.conn), << >>)]
    /\ UNCHANGED <<masterVars, requestVars, registryVars, connectionVars,
                   operational, store, crashes>>

\* onIncomingAddMessage: insert, then answer OK.
StoreMessage(id, c) ==
    /\ secondaryUp[c]
    /\ store' = [store EXCEPT
            ![owner[c]] = Insert(store[owner[c]], id, requests[id].message)]

OnIncomingAddMessage(id, c) ==
    /\ addCalls[id][c] = "sent"
    /\ StoreMessage(id, c)
    /\ addCalls' = [addCalls EXCEPT ![id][c] = Answer(c)]
    /\ UNCHANGED <<masterVars, requests, lateAdds, registryVars, connectionVars,
                   lateReady, sessions, operational, crashes>>

OnLateAddMessage(id, c) ==
    /\ <<id, c>> \in lateAdds
    /\ StoreMessage(id, c)
    /\ lateAdds' = lateAdds \ {<<id, c>>}
    /\ UNCHANGED <<masterVars, requests, addCalls, registryVars, connectionVars,
                   lateReady, sessions, operational, crashes>>

\* The secondary's end of connection c closes: what was on its way to it is lost.
CloseSecondaryEnd(c) ==
    /\ secondaryUp' = [secondaryUp EXCEPT ![c] = FALSE]
    /\ addCalls' = [id \in MessageIds |-> [addCalls[id] EXCEPT ![c] =
                        IF @ = "sent" THEN "lost" ELSE @]]
    /\ lateAdds' = {f \in lateAdds : f[2] # c}

\* onEndpointInvalidated, onSessionInvalidated: disconnectMasterSession, then
\* reconnectToMaster.
OnSessionInvalidated(n) ==
    /\ Connected(n)
    /\ MayBreak(sessions[n].conn)
    /\ CloseSecondaryEnd(sessions[n].conn)
    /\ lateReady' = GiveUpReady(n)
    /\ sessions' = [sessions EXCEPT ![n] = NoSession]
    /\ operational' = [operational EXCEPT ![n] = FALSE]
    /\ UNCHANGED <<masterVars, requests, registryVars, connects, owner,
                   masterUp, store, crashes>>

\* The secondary's process dies and is started again: its memory is gone.
Crash(n) ==
    /\ crashes < MaxCrashes
    /\ crashes' = crashes + 1
    /\ store' = [store EXCEPT ![n] = EmptyStorage]
    /\ IF Connected(n)
       THEN /\ MayBreak(sessions[n].conn)
            /\ CloseSecondaryEnd(sessions[n].conn)
       ELSE UNCHANGED <<secondaryUp, addCalls, lateAdds>>
    /\ lateReady' = GiveUpReady(n)
    /\ sessions' = [sessions EXCEPT ![n] = NoSession]
    /\ operational' = [operational EXCEPT ![n] = FALSE]
    /\ UNCHANGED <<masterVars, requests, registryVars, connects, owner, masterUp>>

-----------------------------------------------------------------------------
PostMessage(t) ==
    \E m \in Messages, w \in WriteConcerns : ClaimId(t, m, w)

MasterNext ==
    \/ \E t \in Threads : PostMessage(t)
    \/ \E id \in MessageIds : InsertMessage(id) \/ RunRequest(id) \/ RetryTimer(id)
    \/ \E id \in MessageIds, c \in ConnIds :
            AddMessageAnswered(id, c) \/ AddMessageFailed(id, c)
    \/ AddSecondaryImpl
    \/ \E c \in ConnIds : \/ MasterSocketInvalidated(c)
                          \/ OnInvalidated(c)
                          \/ OnLateSecondaryNodeReady(c)
    \/ \E n \in Nodes : OnIncomingGetMessages(n) \/ OnIncomingSecondaryNodeReady(n)

SecondaryNext ==
    \/ \E n \in Nodes :
            \/ Connect(n) \/ ConnectFails(n) \/ ReconnectTimer(n)
            \/ GetMessagesAnswered(n) \/ GetMessagesFailed(n)
            \/ SecondaryNodeReadyAnswered(n) \/ SecondaryNodeReadyFailed(n)
            \/ OnSessionInvalidated(n) \/ Crash(n)
    \/ \E id \in MessageIds, c \in ConnIds :
            OnIncomingAddMessage(id, c) \/ OnLateAddMessage(id, c)

Next == MasterNext \/ SecondaryNext

Spec == Init /\ [][Next]_vars

-----------------------------------------------------------------------------
(* Fairness.  Every posted handler runs and every timer fires.  A frame on *)
(* a whole connection arrives; when one end is closed the other end sees   *)
(* it.  Nothing makes clients post, connections break or calls fail.  The  *)
(* send delay is drawn anew for every call (1000-2000 ms against a timeout *)
(* of 1500 ms), so calls that are repeated forever are answered in time    *)
(* again and again; likewise connection attempts succeed again and again.  *)

\* A call that cannot be answered any more runs into its timeout.
HopelessCallFails ==
    \/ \E id \in MessageIds, c \in ConnIds :
            addCalls[id][c] = "lost" /\ AddMessageFailed(id, c)
    \/ \E n \in Nodes : /\ sessions[n].call = "lost"
                        /\ GetMessagesFailed(n) \/ SecondaryNodeReadyFailed(n)

Fairness ==
    /\ \A id \in MessageIds :
            /\ WF_vars(InsertMessage(id))
            /\ WF_vars(RunRequest(id))
            /\ WF_vars(RetryTimer(id))
            /\ \A c \in ConnIds : /\ WF_vars(OnIncomingAddMessage(id, c))
                                  /\ WF_vars(OnLateAddMessage(id, c))
    /\ WF_vars(HopelessCallFails)
    /\ WF_vars(AddSecondaryImpl)
    /\ \A c \in ConnIds : /\ WF_vars(c \in Broken /\ MasterSocketInvalidated(c))
                          /\ WF_vars(OnInvalidated(c))
    /\ \A n \in Nodes :
            /\ WF_vars(sessions[n].conn \in Broken /\ OnSessionInvalidated(n))
            /\ WF_vars(ReconnectTimer(n))
            /\ WF_vars(OnIncomingGetMessages(n))
            /\ WF_vars(OnIncomingSecondaryNodeReady(n))
    /\ SF_vars(\E n \in Nodes : Connect(n))
    /\ SF_vars(\E n \in Nodes : GetMessagesAnswered(n))
    /\ SF_vars(\E n \in Nodes : SecondaryNodeReadyAnswered(n))
    /\ SF_vars(\E id \in MessageIds, c \in ConnIds : AddMessageAnswered(id, c))

FairSpec == Spec /\ Fairness

-----------------------------------------------------------------------------
(* Properties.                                                             *)

\* Every message a secondary holds is the one the master stored under that
\* id, however it got there: pushed, pushed late after a retry, or fetched in
\* a chunk that was cut from the master's map before newer messages arrived.
Agreement ==
    \A n \in Nodes, id \in MessageIds :
        Has(store[n], id) => store[n][id] = messages[id]

\* GET /messages of the master and, while it is operational, of a secondary.
MessagesOfMaster       == ContiguousChunk(messages, 0)
MessagesOfSecondary(n) == ContiguousChunk(store[n], 0)

\* "Messages should be displayed until the first gap": whatever order pushes
\* and chunks arrive in, and with gaps in the master's own map, the list a
\* secondary shows is a beginning of the list the master shows.
ShownIsPrefix ==
    \A n \in Nodes :
        operational[n] =>
            /\ Len(MessagesOfSecondary(n)) <= Len(MessagesOfMaster)
            /\ \A i \in 1 .. Len(MessagesOfSecondary(n)) :
                    MessagesOfSecondary(n)[i] = MessagesOfMaster[i]

\* pendingWrites_ counts exactly the calls whose callback is still to come, so
\* start() never meets the state it gives up on ("assumed 0 pending writes").
PendingWritesMatchCalls ==
    \A id \in MessageIds :
        LET open == {c \in ConnIds : addCalls[id][c] # "none"}
        IN  /\ requests[id].pendingWrites = Cardinality(open)
            /\ (requests[id].phase = "waiting") <=> (open # {})
            /\ requests[id].phase # "quit"

\* A secondary that a request counts as ADDED holds the message for as long
\* as the connection it confirmed on lives at its end: a confirmation is
\* never that of another call, another message or another connection.
ConfirmedIsStored ==
    \A id \in MessageIds, c \in ConnIds :
        requests[id].statuses[c] = "ADDED" /\ secondaryUp[c]
            => Has(store[owner[c]], id)

\* Once the request of a message is destroyed nobody will push it again, so
\* every operational secondary in the registry must hold it: secondaries that
\* connected too late for the push got it in the answer to getMessages.
NoLostMessage ==
    \A id \in MessageIds, n \in Nodes :
        /\ requests[id].phase = "destroyed"
        /\ operational[n]
        /\ sessions[n].conn \in SecondariesSnapshot
        => Has(store[n], id)

\* The master shows a secondary as OPERATIONAL only when the process at the
\* other end, if the connection still exists there, has filled its storage:
\* a ready call that arrives late never speaks for a newer session.
MasterViewIsSound ==
    \A c \in ConnIds :
        secondaries[c] = "OPERATIONAL" /\ secondaryUp[c]
            => /\ operational[owner[c]]
               /\ sessions[owner[c]].conn = c

\* The answer to a POST with write concern N leaves the master only when N-1
\* different secondaries hold the message, provided that no secondary is in
\* the request's snapshot twice (see DistinctConfirmations) and none crashed.
ConfirmedByDistinctNodes ==
    [][\A id \in MessageIds :
        /\ ~requests[id].promiseFilled /\ requests'[id].promiseFilled
        /\ \A c, d \in requests[id].snapshot : owner[c] = owner[d] => c = d
        /\ crashes = 0
        => Cardinality({n \in Nodes : Has(store[n], id)})
                >= requests[id].writeConcern]_vars

\* The promise of ReplicatedLog: threads, retries, late frames and chunks
\* amount to appending, learning, forgetting and confirming.
Log == INSTANCE ReplicatedLog WITH
    Ids       <- MessageIds,
    log       <- messages,
    replicas  <- store,
    confirmed <- {id \in MessageIds : requests[id].promiseFilled}

RefinesLog == Log!Spec

\* README: "the request will not return until there are N - 1 confirmations
\* from secondary nodes".
DistinctConfirmations ==
    \A id \in MessageIds :
        requests[id].promiseFilled =>
            Cardinality({n \in Nodes : Has(store[n], id)}) >= requests[id].writeConcern

(* The strengthening that makes Agreement inductive.                       *)

\* Ids at or above the counter are unused.
FreshIdsAreFree ==
    \A id \in MessageIds : id >= nextMessageId => requests[id].phase = "free"

\* The map holds the request's message exactly when its thread has inserted
\* it; before that nothing has been sent.
RequestsMatchStorage ==
    \A id \in MessageIds :
        IF requests[id].phase \in {"free", "claimed"}
        THEN /\ messages[id] = Absent
             /\ ~requests[id].promiseFilled
             /\ \A c \in ConnIds : addCalls[id][c] = "none" /\ <<id, c>> \notin lateAdds
        ELSE /\ messages[id] = requests[id].message
             /\ messages[id] # Absent

ClaimedHaveMessages ==
    \A id \in MessageIds : requests[id].phase # "free" => requests[id].message # Absent

\* A chunk on its way to a secondary is a piece of the master's map.
ChunksAgree ==
    \A n \in Nodes :
        \A i \in 1 .. Len(sessions[n].chunk) :
            /\ Has(messages, sessions[n].gap + i - 1)
            /\ sessions[n].chunk[i] = messages[sessions[n].gap + i - 1]

AgreementInv ==
    /\ FreshIdsAreFree
    /\ RequestsMatchStorage
    /\ ClaimedHaveMessages
    /\ ChunksAgree
    /\ Agreement

\* The inductive invariant.  Typing pendingWrites as a natural number needs
\* PendingWritesMatchCalls, whose proof needs that fresh ids have no calls.
ReplicationInv == TypeOK /\ PendingWritesMatchCalls /\ AgreementInv

\* When connections stop breaking, every secondary ends up with exactly the
\* master's messages, and keeps them.
EventuallyReplicated == <>[](\A n \in Nodes : store[n] = messages)

\* A request whose write concern the secondaries can satisfy is answered and
\* then destroyed: retries end.
RequestsComplete ==
    \A id \in MessageIds :
        requests[id].phase = "inserted" /\ requests[id].writeConcern <= Cardinality(Nodes)
            ~> requests[id].phase = "destroyed" /\ requests[id].promiseFilled
=============================================================================
