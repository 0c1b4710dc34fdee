--------------------------- MODULE DeliveryProofs ---------------------------
(***************************************************************************)
(* Proofs about what the master believes of its secondaries: that it is    *)
(* right about who is operational and who has confirmed a message, however *)
(* connections break, processes crash and calls arrive late.               *)
(***************************************************************************)
EXTENDS ReplicationProofs

-----------------------------------------------------------------------------
(* The strengthening.                                                      *)

\* Connections are numbered in the order they are made, and registered in
\* that order; a number not yet used means nothing to anybody.
ConnectionsAreNumbered ==
    /\ secondaryIdCounter <= connects
    /\ \A c \in ConnIds :
            /\ secondaries[c] = "UNKNOWN" <=> c >= secondaryIdCounter
            /\ c < connects => owner[c] \in Nodes
            /\ c >= connects => ~secondaryUp[c] /\ c \notin lateReady

\* The secondary's end of a connection is up exactly while the session of its
\* owner uses it.
SessionsOwnConnections ==
    /\ \A n \in Nodes :
            Connected(n) => /\ owner[sessions[n].conn] = n
                            /\ secondaryUp[sessions[n].conn]
    /\ \A c \in ConnIds :
            secondaryUp[c] => /\ Connected(owner[c])
                              /\ sessions[owner[c]].conn = c

\* A ready call is made after the storage has been filled, and as long as the
\* session lives it does not go back to asking.
Filled == {"notify", "ready"}

ReadyIsTrue ==
    /\ \A n \in Nodes : sessions[n].phase \in Filled => operational[n]
    /\ \A c \in ConnIds :
            (c \in lateReady \/ secondaries[c] = "OPERATIONAL") /\ secondaryUp[c]
                => sessions[owner[c]].phase \in Filled

\* A request has calls and answers only of the secondaries in its snapshot,
\* which were registered when it was taken.
CallsAreInSnapshot ==
    \A id \in MessageIds, c \in ConnIds :
        /\ c \in requests[id].snapshot => c < secondaryIdCounter
        /\ requests[id].statuses[c] # "none" => c \in requests[id].snapshot
        /\ addCalls[id][c] # "none" => c \in requests[id].snapshot
        /\ requests[id].statuses[c] # "NOT_ADDED"

\* An answer, on its way or noted, comes from a secondary that holds the
\* message, unless it has crashed and its end of the connection is gone.
AnswersAreStored ==
    \A id \in MessageIds, c \in ConnIds :
        /\ addCalls[id][c] = "answered" \/ requests[id].statuses[c] = "ADDED"
        /\ secondaryUp[c] \/ crashes = 0
        => Has(store[owner[c]], id)

ViewInv     == ConnectionsAreNumbered /\ SessionsOwnConnections /\ ReadyIsTrue
DeliveryInv == ViewInv /\ CallsAreInSnapshot /\ AnswersAreStored

-----------------------------------------------------------------------------
USE DEF masterVars, requestVars, registryVars, connectionVars, secondaryVars


\* Initially there are no connections and no sessions.
LEMMA ViewInit == Init => ViewInv
<1> SUFFICES ASSUME Init PROVE ViewInv
  OBVIOUS
<1>1. ConnectionsAreNumbered
  BY ConnIdsFinite DEF Init, ConnectionsAreNumbered
<1>2. SessionsOwnConnections
  BY DEF Init, SessionsOwnConnections, Connected, NoSession, Session
<1>3. ReadyIsTrue
  BY DEF Init, ReadyIsTrue, Filled, NoSession, Session
<1> QED BY <1>1, <1>2, <1>3 DEF ViewInv

\* The steps of requests and of the frames that carry their messages.
RequestStep ==
    \/ \E t \in Threads : PostMessage(t)
    \/ \E id \in MessageIds : InsertMessage(id) \/ RunRequest(id) \/ RetryTimer(id)
    \/ \E id \in MessageIds, c \in ConnIds :
            \/ AddMessageAnswered(id, c) \/ AddMessageFailed(id, c)
            \/ OnIncomingAddMessage(id, c) \/ OnLateAddMessage(id, c)

\* They touch neither connections, registry nor sessions.
LEMMA RequestsLeaveTheView ==
    ASSUME RequestStep \/ UNCHANGED vars
    PROVE  /\ UNCHANGED <<registryVars, connectionVars, lateReady, sessions>>
           /\ UNCHANGED <<operational, crashes>>
BY DEF RequestStep, PostMessage, ClaimId, InsertMessage, RunRequest, RetryTimer,
       AddMessageAnswered, AddMessageFailed, AddMessageCallback,
       OnIncomingAddMessage, OnLateAddMessage, vars

\* Every step but Connect and AddSecondaryImpl keeps the numbering, because it
\* speaks of connections that exist.
LEMMA NumberedNext ==
    TypeOK /\ ViewInv /\ [Next]_vars => ConnectionsAreNumbered'
<1> SUFFICES ASSUME TypeOK, ViewInv, [Next]_vars PROVE ConnectionsAreNumbered'
  OBVIOUS
<1>0. /\ ConnIds \subseteq Nat
      /\ secondaryIdCounter \in Nat /\ connects \in Nat
      /\ secondaries \in [ConnIds -> SecondaryStates]
      /\ owner \in [ConnIds -> Nodes \cup {NoNode}]
      /\ secondaryUp \in [ConnIds -> BOOLEAN]
      /\ \A n \in Nodes : sessions[n].conn \in ConnIds
  BY ConnIdsFinite DEF TypeOK, SessionType
<1>1. ConnectionsAreNumbered /\ SessionsOwnConnections
  BY DEF ViewInv
<1>2. ASSUME UNCHANGED <<secondaryIdCounter, secondaries, connects, owner>>,
             \A c \in ConnIds : secondaryUp'[c] => secondaryUp[c],
             lateReady' \subseteq lateReady \cup {c \in ConnIds : secondaryUp[c]}
      PROVE  ConnectionsAreNumbered'
  BY <1>1, <1>2 DEF ConnectionsAreNumbered
<1>3. ASSUME AddSecondaryImpl PROVE ConnectionsAreNumbered'
  BY <1>0, <1>1, <1>3 DEF AddSecondaryImpl, ConnectionsAreNumbered, ConnIds
<1>4. ASSUME NEW n \in Nodes, Connect(n) PROVE ConnectionsAreNumbered'
  BY <1>0, <1>1, <1>4 DEF Connect, ConnectionsAreNumbered
<1>5. ASSUME NEW c \in ConnIds, MasterSocketInvalidated(c) PROVE ConnectionsAreNumbered'
  BY <1>2, <1>5 DEF MasterSocketInvalidated
<1>6. ASSUME NEW c \in ConnIds, OnInvalidated(c) \/ OnLateSecondaryNodeReady(c)
      PROVE  ConnectionsAreNumbered'
  BY <1>0, <1>1, <1>6
  DEF OnInvalidated, OnLateSecondaryNodeReady, SetOperational, SecondariesSnapshot,
      ConnectionsAreNumbered
<1>7. ASSUME NEW n \in Nodes, OnIncomingSecondaryNodeReady(n)
      PROVE  ConnectionsAreNumbered'
  BY <1>0, <1>1, <1>7
  DEF OnIncomingSecondaryNodeReady, SetOperational, SecondariesSnapshot,
      ConnectionsAreNumbered
<1>8. ASSUME NEW n \in Nodes,
             \/ OnIncomingGetMessages(n) \/ ConnectFails(n) \/ ReconnectTimer(n)
             \/ GetMessagesAnswered(n) \/ GetMessagesFailed(n)
             \/ SecondaryNodeReadyAnswered(n)
      PROVE  ConnectionsAreNumbered'
  BY <1>2, <1>8
  DEF OnIncomingGetMessages, ConnectFails, ReconnectTimer, GetMessagesAnswered,
      GetMessagesFailed, SecondaryNodeReadyAnswered
<1>9. \A n \in Nodes : GiveUpReady(n) \subseteq lateReady \cup {c \in ConnIds : secondaryUp[c]}
  BY <1>0, <1>1 DEF GiveUpReady, SessionsOwnConnections, Connected
<1>10. ASSUME NEW n \in Nodes,
              SecondaryNodeReadyFailed(n) \/ OnSessionInvalidated(n) \/ Crash(n)
       PROVE  ConnectionsAreNumbered'
  BY <1>0, <1>2, <1>9, <1>10
  DEF SecondaryNodeReadyFailed, OnSessionInvalidated, Crash, CloseSecondaryEnd
<1>11. ASSUME RequestStep \/ UNCHANGED vars PROVE ConnectionsAreNumbered'
  BY <1>2, <1>11, RequestsLeaveTheView
<1> QED BY <1>3, <1>4, <1>5, <1>6, <1>7, <1>8, <1>10, <1>11
    DEF Next, MasterNext, SecondaryNext, RequestStep

\* A step that leaves the conn and the phase of every session alone.
LEMMA SameSessions ==
    ASSUME ViewInv,
           UNCHANGED <<owner, secondaryUp>>,
           \A n \in Nodes : /\ sessions'[n].conn = sessions[n].conn
                            /\ sessions'[n].phase = sessions[n].phase,
           \A c \in ConnIds : secondaryUp[c] => owner[c] \in Nodes
    PROVE  SessionsOwnConnections'
BY DEF ViewInv, SessionsOwnConnections, Connected

\* Every step keeps sessions and connections in line.
LEMMA SessionsNext ==
    TypeOK /\ ViewInv /\ [Next]_vars => SessionsOwnConnections'
<1> SUFFICES ASSUME TypeOK, ViewInv, [Next]_vars PROVE SessionsOwnConnections'
  OBVIOUS
<1>0. /\ ConnIds \subseteq Nat /\ connects \in Nat
      /\ owner \in [ConnIds -> Nodes \cup {NoNode}]
      /\ secondaryUp \in [ConnIds -> BOOLEAN]
      /\ sessions \in [Nodes -> SessionType]
      /\ \A n \in Nodes : sessions[n].conn \in ConnIds
  BY ConnIdsFinite DEF TypeOK, SessionType
<1>1. ConnectionsAreNumbered /\ SessionsOwnConnections
  BY DEF ViewInv
<1>2. \A c \in ConnIds : secondaryUp[c] => owner[c] \in Nodes
  BY <1>0, <1>1 DEF ConnectionsAreNumbered
<1>3. ASSUME NEW n \in Nodes, Connect(n) PROVE SessionsOwnConnections'
  <2>1. ~Connected(n) /\ connects \in ConnIds /\ ~secondaryUp[connects]
    BY <1>0, <1>1, <1>3, ConnIdsFinite
    DEF Connect, Connected, ConnectionsAreNumbered, ConnIds
  <2>2. /\ sessions'[n].conn = connects
        /\ sessions'[n].phase = "ask"
        /\ \A m \in Nodes \ {n} : sessions'[m] = sessions[m]
    BY <1>0, <1>3 DEF Connect, Session
  <2>3. /\ owner'[connects] = n /\ secondaryUp'[connects]
        /\ \A c \in ConnIds \ {connects} : /\ owner'[c] = owner[c]
                                           /\ secondaryUp'[c] = secondaryUp[c]
    BY <1>0, <1>3, <2>1 DEF Connect
  <2>4. ASSUME NEW m \in Nodes, Connected(m)'
        PROVE  owner'[sessions'[m].conn] = m /\ secondaryUp'[sessions'[m].conn]
    <3>1. CASE m = n
      BY <2>2, <2>3, <3>1
    <3>2. CASE m # n
      <4>1. sessions'[m] = sessions[m] /\ Connected(m)
        BY <2>2, <2>4, <3>2 DEF Connected
      <4>2. owner[sessions[m].conn] = m /\ secondaryUp[sessions[m].conn]
        BY <1>1, <4>1 DEF SessionsOwnConnections
      <4> QED BY <1>0, <2>1, <2>3, <4>1, <4>2
    <3> QED BY <3>1, <3>2
  <2>5. ASSUME NEW c \in ConnIds, secondaryUp'[c]
        PROVE  /\ sessions'[owner'[c]].phase \in {"ask", "notify", "ready"}
               /\ sessions'[owner'[c]].conn = c
    <3>1. CASE c = connects
      BY <2>2, <2>3, <3>1 DEF Connected
    <3>2. CASE c # connects
      BY <1>1, <1>2, <2>1, <2>2, <2>3, <2>5, <3>2 DEF SessionsOwnConnections, Connected
    <3> QED BY <3>1, <3>2
  <2> QED BY <2>4, <2>5 DEF SessionsOwnConnections, Connected
<1>4. ASSUME NEW n \in Nodes, OnSessionInvalidated(n) \/ Crash(n)
      PROVE  SessionsOwnConnections'
  <2>1. sessions'[n].phase = "connecting" /\ \A m \in Nodes \ {n} : sessions'[m] = sessions[m]
    BY <1>0, <1>4 DEF OnSessionInvalidated, Crash, NoSession, Session
  <2>2. /\ owner' = owner
        /\ IF Connected(n) THEN secondaryUp' = [secondaryUp EXCEPT ![sessions[n].conn] = FALSE]
                           ELSE secondaryUp' = secondaryUp
    BY <1>4 DEF OnSessionInvalidated, Crash, CloseSecondaryEnd
  <2>3. ASSUME NEW m \in Nodes, Connected(m)'
        PROVE  owner'[sessions'[m].conn] = m /\ secondaryUp'[sessions'[m].conn]
    BY <1>0, <1>1, <2>1, <2>2, <2>3 DEF SessionsOwnConnections, Connected
  <2>4. ASSUME NEW c \in ConnIds, secondaryUp'[c]
        PROVE  /\ sessions'[owner'[c]].phase \in {"ask", "notify", "ready"}
               /\ sessions'[owner'[c]].conn = c
    <3>1. secondaryUp[c] /\ owner[c] # n
      BY <1>0, <1>1, <2>2, <2>4 DEF SessionsOwnConnections
    <3> QED BY <1>1, <1>2, <2>1, <2>2, <3>1 DEF SessionsOwnConnections, Connected
  <2> QED BY <2>3, <2>4 DEF SessionsOwnConnections, Connected
<1>5. ASSUME NEW n \in Nodes, ConnectFails(n) \/ ReconnectTimer(n)
      PROVE  SessionsOwnConnections'
  <2>1. /\ ~Connected(n) /\ sessions'[n].phase \notin {"ask", "notify", "ready"}
        /\ \A m \in Nodes \ {n} : sessions'[m] = sessions[m]
        /\ UNCHANGED <<owner, secondaryUp>>
    BY <1>0, <1>5 DEF ConnectFails, ReconnectTimer, Connected, SessionType
  <2> QED BY <1>1, <1>2, <2>1 DEF SessionsOwnConnections, Connected
<1>6. ASSUME NEW n \in Nodes, OnIncomingGetMessages(n) \/ OnIncomingSecondaryNodeReady(n)
      PROVE  SessionsOwnConnections'
  <2>1. /\ sessions'[n].conn = sessions[n].conn
        /\ sessions'[n].phase = sessions[n].phase
        /\ \A m \in Nodes \ {n} : sessions'[m] = sessions[m]
        /\ UNCHANGED <<owner, secondaryUp>>
    BY <1>0, <1>6 DEF OnIncomingGetMessages, OnIncomingSecondaryNodeReady, SessionType
  <2>2. \A m \in Nodes : /\ sessions'[m].conn = sessions[m].conn
                         /\ sessions'[m].phase = sessions[m].phase
    BY <2>1
  <2> QED BY <1>2, <2>1, <2>2, SameSessions
<1>7. ASSUME NEW n \in Nodes,
             \/ GetMessagesAnswered(n) \/ GetMessagesFailed(n)
             \/ SecondaryNodeReadyAnswered(n) \/ SecondaryNodeReadyFailed(n)
      PROVE  SessionsOwnConnections'
  <2>1. /\ Connected(n) /\ Connected(n)'
        /\ sessions'[n].conn = sessions[n].conn
        /\ \A m \in Nodes \ {n} : sessions'[m] = sessions[m]
        /\ UNCHANGED <<owner, secondaryUp>>
    BY <1>0, <1>7
    DEF GetMessagesAnswered, GetMessagesFailed, SecondaryNodeReadyAnswered,
        SecondaryNodeReadyFailed, Session, Connected
  <2> QED BY <1>1, <1>2, <2>1 DEF SessionsOwnConnections, Connected
<1>8. ASSUME AddSecondaryImpl \/ \E c \in ConnIds : \/ MasterSocketInvalidated(c)
                                                    \/ OnInvalidated(c)
                                                    \/ OnLateSecondaryNodeReady(c)
      PROVE  SessionsOwnConnections'
  BY <1>2, <1>8, SameSessions
  DEF AddSecondaryImpl, MasterSocketInvalidated, OnInvalidated, OnLateSecondaryNodeReady
<1>9. ASSUME RequestStep \/ UNCHANGED vars PROVE SessionsOwnConnections'
  BY <1>2, <1>9, SameSessions, RequestsLeaveTheView
<1> QED BY <1>3, <1>4, <1>5, <1>6, <1>7, <1>8, <1>9
    DEF Next, MasterNext, SecondaryNext, RequestStep

\* A step that adds no ready call and no OPERATIONAL entry, brings no end up
\* and takes no filled session back.
LEMMA ReadyKept ==
    ASSUME ViewInv,
           UNCHANGED owner,
           \A c \in ConnIds : secondaryUp[c] => owner[c] \in Nodes,
           \A c \in ConnIds : secondaryUp'[c] =>
                /\ secondaryUp[c]
                /\ c \in lateReady' => c \in lateReady \/ sessions[owner[c]].phase \in Filled
                /\ secondaries'[c] = "OPERATIONAL" =>
                        \/ secondaries[c] = "OPERATIONAL"
                        \/ sessions[owner[c]].phase \in Filled,
           \A n \in Nodes : sessions'[n].phase \in Filled =>
                operational'[n] \/ (sessions[n].phase \in Filled /\ operational'[n] = operational[n]),
           \A c \in ConnIds : secondaryUp'[c] /\ sessions[owner[c]].phase \in Filled =>
                sessions'[owner[c]].phase \in Filled
    PROVE  ReadyIsTrue'
BY DEF ViewInv, ReadyIsTrue

\* Every step keeps the ready calls and the registry's states true.
LEMMA ReadyNext ==
    TypeOK /\ ViewInv /\ [Next]_vars => ReadyIsTrue'
<1> SUFFICES ASSUME TypeOK, ViewInv, [Next]_vars PROVE ReadyIsTrue'
  OBVIOUS
<1>0. /\ ConnIds \subseteq Nat /\ connects \in Nat
      /\ owner \in [ConnIds -> Nodes \cup {NoNode}]
      /\ secondaryUp \in [ConnIds -> BOOLEAN]
      /\ secondaries \in [ConnIds -> SecondaryStates]
      /\ operational \in [Nodes -> BOOLEAN]
      /\ sessions \in [Nodes -> SessionType]
      /\ \A n \in Nodes : sessions[n].conn \in ConnIds
  BY ConnIdsFinite DEF TypeOK, SessionType
<1>1. ConnectionsAreNumbered /\ SessionsOwnConnections /\ ReadyIsTrue
  BY DEF ViewInv
<1>2. \A c \in ConnIds : secondaryUp[c] => owner[c] \in Nodes
  BY <1>0, <1>1 DEF ConnectionsAreNumbered
<1>3. ASSUME NEW n \in Nodes, Connect(n) PROVE ReadyIsTrue'
  <2>1. /\ ~Connected(n) /\ connects \in ConnIds
        /\ connects \notin lateReady /\ secondaries[connects] = "UNKNOWN"
    BY <1>0, <1>1, <1>3, ConnIdsFinite
    DEF Connect, Connected, ConnectionsAreNumbered, ConnIds, TypeOK
  <2>2. /\ sessions'[n].phase = "ask"
        /\ \A m \in Nodes \ {n} : /\ sessions'[m] = sessions[m]
                                  /\ operational'[m] = operational[m]
        /\ UNCHANGED <<lateReady, secondaries>>
    BY <1>0, <1>3 DEF Connect, Session
  <2>3. \A c \in ConnIds \ {connects} : /\ owner'[c] = owner[c]
                                        /\ secondaryUp'[c] = secondaryUp[c]
    BY <1>0, <1>3, <2>1 DEF Connect
  <2>4. \A m \in Nodes : sessions'[m].phase \in Filled => operational'[m]
    BY <1>1, <2>2 DEF ReadyIsTrue, Filled
  <2>5. ASSUME NEW c \in ConnIds, secondaryUp'[c],
               c \in lateReady' \/ secondaries'[c] = "OPERATIONAL"
        PROVE  sessions'[owner'[c]].phase \in Filled
    <3>1. c # connects
      BY <2>1, <2>2, <2>5
    <3>2. secondaryUp[c] /\ owner[c] # n /\ owner[c] \in Nodes
      BY <1>1, <1>2, <2>1, <2>3, <2>5, <3>1 DEF SessionsOwnConnections
    <3> QED BY <1>1, <2>2, <2>3, <2>5, <3>1, <3>2 DEF ReadyIsTrue
  <2> QED BY <2>4, <2>5 DEF ReadyIsTrue
<1>4. ASSUME NEW n \in Nodes, OnSessionInvalidated(n) \/ Crash(n) PROVE ReadyIsTrue'
  <2>1. /\ sessions'[n].phase = "connecting"
        /\ \A m \in Nodes \ {n} : /\ sessions'[m] = sessions[m]
                                  /\ operational'[m] = operational[m]
        /\ lateReady' \subseteq lateReady \cup {sessions[n].conn}
        /\ UNCHANGED <<owner, secondaries>>
    BY <1>0, <1>4 DEF OnSessionInvalidated, Crash, NoSession, Session, GiveUpReady
  <2>2. \A c \in ConnIds : secondaryUp'[c] => secondaryUp[c] /\ owner[c] # n
    <3>1. IF Connected(n) THEN secondaryUp' = [secondaryUp EXCEPT ![sessions[n].conn] = FALSE]
                          ELSE secondaryUp' = secondaryUp
      BY <1>4 DEF OnSessionInvalidated, Crash, CloseSecondaryEnd
    <3> QED BY <1>0, <1>1, <3>1 DEF SessionsOwnConnections
  <2>3. ASSUME NEW c \in ConnIds, secondaryUp'[c], c \in lateReady' PROVE c \in lateReady
    <3>1. CASE c = sessions[n].conn
      <4>1. ~Connected(n)
        BY <1>1, <2>2, <2>3, <3>1 DEF SessionsOwnConnections
      <4> QED BY <1>4, <2>3, <4>1 DEF OnSessionInvalidated, Crash, GiveUpReady, Connected
    <3>2. CASE c # sessions[n].conn
      BY <2>1, <2>3, <3>2
    <3> QED BY <3>1, <3>2
  <2>4. \A m \in Nodes : sessions'[m].phase \in Filled =>
                sessions[m].phase \in Filled /\ operational'[m] = operational[m]
    BY <2>1 DEF Filled
  <2>5. \A c \in ConnIds : secondaryUp'[c] /\ sessions[owner[c]].phase \in Filled =>
                sessions'[owner[c]].phase \in Filled
    BY <1>2, <2>1, <2>2
  <2> QED BY <1>2, <2>1, <2>2, <2>3, <2>4, <2>5, ReadyKept
<1>5. ASSUME NEW n \in Nodes, ConnectFails(n) \/ ReconnectTimer(n) \/ GetMessagesFailed(n)
      PROVE  ReadyIsTrue'
  <2>1. /\ sessions[n].phase \notin Filled /\ sessions'[n].phase \notin Filled
        /\ \A m \in Nodes \ {n} : sessions'[m] = sessions[m]
        /\ UNCHANGED <<owner, secondaryUp, secondaries, lateReady, operational>>
    BY <1>0, <1>5
    DEF ConnectFails, ReconnectTimer, GetMessagesFailed, Session, SessionType, Filled
  <2> QED BY <1>1, <1>2, <2>1 DEF ReadyIsTrue
<1>6. ASSUME NEW n \in Nodes, GetMessagesAnswered(n) PROVE ReadyIsTrue'
  <2>1. /\ sessions'[n].phase = "notify" /\ operational'[n]
        /\ \A m \in Nodes \ {n} : /\ sessions'[m] = sessions[m]
                                  /\ operational'[m] = operational[m]
        /\ UNCHANGED <<owner, secondaryUp, secondaries, lateReady>>
    BY <1>0, <1>6 DEF GetMessagesAnswered, Session
  <2> QED BY <1>1, <1>2, <2>1 DEF ReadyIsTrue, Filled
<1>7. ASSUME NEW n \in Nodes, SecondaryNodeReadyAnswered(n) \/ SecondaryNodeReadyFailed(n)
      PROVE  ReadyIsTrue'
  <2>1. /\ sessions[n].phase \in Filled /\ sessions'[n].phase \in Filled
        /\ \A m \in Nodes \ {n} : sessions'[m] = sessions[m]
        /\ lateReady' \subseteq lateReady \cup {sessions[n].conn}
        /\ UNCHANGED <<owner, secondaryUp, secondaries, operational>>
    BY <1>0, <1>7
    DEF SecondaryNodeReadyAnswered, SecondaryNodeReadyFailed, Session, Filled, GiveUpReady
  <2>2. owner[sessions[n].conn] = n
    BY <1>1, <2>1 DEF SessionsOwnConnections, Connected, Filled
  <2> QED BY <1>1, <1>2, <2>1, <2>2 DEF ReadyIsTrue
<1>8. ASSUME NEW n \in Nodes, OnIncomingGetMessages(n) PROVE ReadyIsTrue'
  <2>1. /\ sessions'[n].phase = sessions[n].phase
        /\ \A m \in Nodes \ {n} : sessions'[m] = sessions[m]
        /\ UNCHANGED <<owner, secondaryUp, secondaries, lateReady, operational>>
    BY <1>0, <1>8 DEF OnIncomingGetMessages, SessionType
  <2> QED BY <1>1, <1>2, <2>1 DEF ReadyIsTrue
<1>9. ASSUME NEW n \in Nodes, OnIncomingSecondaryNodeReady(n) PROVE ReadyIsTrue'
  <2>1. /\ sessions[n].phase = "notify" /\ sessions'[n].phase = "notify"
        /\ \A m \in Nodes \ {n} : sessions'[m] = sessions[m]
        /\ \A c \in ConnIds \ {sessions[n].conn} : secondaries'[c] = secondaries[c]
        /\ UNCHANGED <<owner, secondaryUp, lateReady, operational>>
    BY <1>0, <1>9 DEF OnIncomingSecondaryNodeReady, SetOperational, SessionType
  <2>2. owner[sessions[n].conn] = n
    BY <1>1, <2>1 DEF SessionsOwnConnections, Connected
  <2> QED BY <1>1, <1>2, <2>1, <2>2 DEF ReadyIsTrue, Filled
<1>10. ASSUME NEW c \in ConnIds, OnLateSecondaryNodeReady(c) PROVE ReadyIsTrue'
  BY <1>0, <1>1, <1>10 DEF OnLateSecondaryNodeReady, SetOperational, ReadyIsTrue
<1>11. ASSUME AddSecondaryImpl \/ \E c \in ConnIds : \/ MasterSocketInvalidated(c)
                                                     \/ OnInvalidated(c)
       PROVE  ReadyIsTrue'
  BY <1>0, <1>1, <1>11
  DEF AddSecondaryImpl, MasterSocketInvalidated, OnInvalidated, ReadyIsTrue
<1>12. ASSUME RequestStep \/ UNCHANGED vars PROVE ReadyIsTrue'
  BY <1>1, <1>12, RequestsLeaveTheView DEF ReadyIsTrue
<1> QED BY <1>3, <1>4, <1>5, <1>6, <1>7, <1>8, <1>9, <1>10, <1>11, <1>12
    DEF Next, MasterNext, SecondaryNext, RequestStep

\* The view invariant is inductive.
LEMMA ViewNext == TypeOK /\ ViewInv /\ [Next]_vars => ViewInv'
BY NumberedNext, SessionsNext, ReadyNext DEF ViewInv

-----------------------------------------------------------------------------
(* What requests know of secondaries.                                      *)

\* start() takes a new snapshot, keeps what it knew of the secondaries in it
\* and calls only those.
LEMMA StartFields ==
    ASSUME NEW r \in RequestType, NEW present \in SUBSET ConnIds
    PROVE  /\ Start(r, present).snapshot = present
           /\ Start(r, present).writeConcern = r.writeConcern
           /\ Start(r, present).statuses =
                    [c \in ConnIds |-> IF c \in present THEN r.statuses[c] ELSE "none"]
           /\ SentByStart(r, present) \subseteq present
           /\ SatisfiedWriteConcern(Start(r, present)) >= r.writeConcern
                \/ Start(r, present).promiseFilled = r.promiseFilled
           /\ Start(r, present).phase = "destroyed"
                => AllSecondariesSuccessfullyAnswered(Start(r, present))
<1> DEFINE updated   == UpdateData(r, present)
           satisfied == SatisfiedWriteConcern(updated) >= r.writeConcern
           marked    == IF satisfied THEN RequestMarkSuccess(updated) ELSE updated
<1>1. /\ updated \in RequestType
      /\ updated.snapshot = present
      /\ updated.writeConcern = r.writeConcern
      /\ updated.promiseFilled = r.promiseFilled
      /\ updated.statuses = [c \in ConnIds |-> IF c \in present THEN r.statuses[c] ELSE "none"]
  BY DEF UpdateData, RequestType, Statuses
<1>2. /\ marked \in RequestType
      /\ marked.snapshot = present
      /\ marked.writeConcern = r.writeConcern
      /\ marked.statuses = updated.statuses
      /\ satisfied \/ marked.promiseFilled = r.promiseFilled
  <2> HIDE DEF updated, satisfied
  <2> QED BY <1>1 DEF RequestMarkSuccess, RequestType
<1>3. /\ Start(r, present) =
            IF satisfied /\ AllSecondariesSuccessfullyAnswered(marked)
            THEN [marked EXCEPT !.phase = "destroyed"]
            ELSE SendRequestToSecondaries(marked)
  BY DEF Start
<1> HIDE DEF marked, updated, satisfied
<1>4. SendRequestToSecondaries(marked).phase \in {"quit", "delay", "waiting"}
  BY <1>2 DEF SendRequestToSecondaries, RequestType
<1>5. /\ Start(r, present).snapshot = present
      /\ Start(r, present).writeConcern = r.writeConcern
      /\ Start(r, present).statuses = updated.statuses
      /\ Start(r, present).promiseFilled = marked.promiseFilled
  BY <1>2, <1>3 DEF SendRequestToSecondaries, RequestType
<1>6. satisfied => SatisfiedWriteConcern(Start(r, present)) >= r.writeConcern
  BY <1>5 DEF satisfied, SatisfiedWriteConcern
<1>7. Start(r, present).phase = "destroyed"
            => AllSecondariesSuccessfullyAnswered(Start(r, present))
  BY <1>2, <1>3, <1>4, <1>5 DEF AllSecondariesSuccessfullyAnswered
<1>8. SentByStart(r, present) \subseteq present
  BY <1>1 DEF SentByStart, NeedToSend, updated
<1> QED BY <1>1, <1>2, <1>5, <1>6, <1>7, <1>8

\* A callback notes one status.
LEMMA OnResponseFields ==
    ASSUME NEW r \in RequestType, NEW c \in ConnIds, NEW status \in Statuses
    PROVE  LET noted == OnResponseRecieved(r, c, status)
           IN  /\ noted.snapshot = r.snapshot
               /\ noted.writeConcern = r.writeConcern
               /\ noted.statuses = [r.statuses EXCEPT ![c] = status]
               /\ SatisfiedWriteConcern(noted) >= r.writeConcern
                    \/ noted.promiseFilled = r.promiseFilled
<1> DEFINE noted == [r EXCEPT !.statuses[c] = status,
                              !.pendingWrites = r.pendingWrites - 1]
<1>1. /\ noted.snapshot = r.snapshot
      /\ noted.writeConcern = r.writeConcern
      /\ noted.statuses = [r.statuses EXCEPT ![c] = status]
      /\ noted.promiseFilled = r.promiseFilled
      /\ RequestMarkSuccess(noted).snapshot = r.snapshot
      /\ RequestMarkSuccess(noted).writeConcern = r.writeConcern
      /\ RequestMarkSuccess(noted).statuses = [r.statuses EXCEPT ![c] = status]
  BY DEF RequestType, RequestMarkSuccess
<1>2. OnResponseRecieved(r, c, status) =
        IF SatisfiedWriteConcern(noted) >= r.writeConcern THEN RequestMarkSuccess(noted)
                                                          ELSE noted
  BY DEF OnResponseRecieved
<1>3. SatisfiedWriteConcern(RequestMarkSuccess(noted)) = SatisfiedWriteConcern(noted)
  BY <1>1 DEF SatisfiedWriteConcern
<1> HIDE DEF noted
<1> QED BY <1>1, <1>2, <1>3

\* A new request knows nothing of any secondary.
LEMMA NewRequestFields ==
    \A phase, thread, message, writeConcern :
        LET new == NewRequest(phase, thread, message, writeConcern)
        IN  /\ new.snapshot = {}
            /\ new.statuses = [c \in ConnIds |-> "none"]
            /\ new.promiseFilled = FALSE
BY DEF NewRequest

\* The calls of a request that starts over are all new.
OnlyNewCalls(id) ==
    \A c \in ConnIds : addCalls'[id][c] # "none" => /\ c \in SecondariesSnapshot
                                                    /\ addCalls'[id][c] # "answered"

\* The other requests are left alone.
OnlyRequest(id) ==
    \A i \in MessageIds \ {id} : requests'[i] = requests[i] /\ addCalls'[i] = addCalls[i]

\* What start() does when no call is open.
LEMMA StartShape ==
    ASSUME TypeOK, NEW id \in MessageIds, NEW r \in RequestType,
           StartRequest(id, r, [c \in ConnIds |-> "none"])
    PROVE  /\ requests'[id] = Start(r, SecondariesSnapshot)
           /\ OnlyNewCalls(id)
           /\ OnlyRequest(id)
<1>1. SentByStart(r, SecondariesSnapshot) \subseteq SecondariesSnapshot
  BY StartFields, SnapshotType
<1>2. \A c : Frame(c) # "answered"
  BY DEF Frame
<1> QED BY <1>1, <1>2 DEF StartRequest, TypeOK, OnlyNewCalls, OnlyRequest

\* RunRequest and RetryTimer.
LEMMA RunShape ==
    ASSUME TypeOK, PendingWritesMatchCalls, NEW id \in MessageIds,
           requests[id].phase \in {"inserted", "delay"},
           StartRequest(id, requests[id], addCalls[id])
    PROVE  /\ requests'[id] = Start(requests[id], SecondariesSnapshot)
           /\ OnlyNewCalls(id)
           /\ OnlyRequest(id)
<1>1. requests[id] \in RequestType /\ addCalls[id] \in [ConnIds -> CallStates]
  BY DEF TypeOK
<1>2. {c \in ConnIds : addCalls[id][c] # "none"} = {}
  BY DEF PendingWritesMatchCalls
<1>3. addCalls[id] = [c \in ConnIds |-> "none"]
  BY <1>1, <1>2
<1> QED BY <1>1, <1>3, StartShape

\* AddMessageAnswered and AddMessageFailed: the status is noted; the callback
\* of the last open call starts the request over.
LEMMA CallbackShape ==
    ASSUME TypeOK, PendingWritesMatchCalls, NEW id \in MessageIds, NEW c \in ConnIds,
           NEW status \in Statuses, addCalls[id][c] # "none",
           AddMessageCallback(id, c, status)
    PROVE  LET noted == OnResponseRecieved(requests[id], c, status)
           IN  /\ noted \in RequestType
               /\ \/ /\ requests'[id] = noted
                     /\ addCalls'[id] = [addCalls[id] EXCEPT ![c] = "none"]
                  \/ /\ requests'[id] = Start(noted, SecondariesSnapshot)
                     /\ OnlyNewCalls(id)
               /\ OnlyRequest(id)
<1> DEFINE noted == OnResponseRecieved(requests[id], c, status)
           calls == [addCalls[id] EXCEPT ![c] = "none"]
           open  == {d \in ConnIds : addCalls[id][d] # "none"}
<1>1. requests[id] \in RequestType /\ addCalls[id] \in [ConnIds -> CallStates]
  BY DEF TypeOK
<1>2. /\ requests[id].pendingWrites > 0
      /\ requests[id].pendingWrites = 1 => open = {c}
  BY OpenCallIsCounted
<1>3. noted \in RequestType /\ noted.pendingWrites = requests[id].pendingWrites - 1
  BY <1>1, <1>2, OnResponseResult
<1>4. IF noted.pendingWrites = 0
      THEN StartRequest(id, noted, calls)
      ELSE /\ requests' = [requests EXCEPT ![id] = noted]
           /\ addCalls' = [addCalls EXCEPT ![id] = calls]
  BY DEF AddMessageCallback
<1>5. requests[id].pendingWrites \in Nat
  BY <1>1 DEF RequestType
<1> SUFFICES /\ \/ /\ requests'[id] = noted
                   /\ addCalls'[id] = calls
                \/ /\ requests'[id] = Start(noted, SecondariesSnapshot)
                   /\ OnlyNewCalls(id)
             /\ OnlyRequest(id)
  BY <1>3
<1> HIDE DEF noted
<1>6. CASE noted.pendingWrites = 0
  <2>1. open = {c}
    BY <1>2, <1>3, <1>5, <1>6
  <2>2. calls = [d \in ConnIds |-> "none"]
    BY <1>1, <2>1
  <2> QED BY <1>3, <1>4, <1>6, <2>2, StartShape
<1>7. CASE noted.pendingWrites # 0
  BY <1>3, <1>4, <1>7 DEF TypeOK, OnlyRequest
<1> QED BY <1>6, <1>7

\* Initially there are no calls and no answers.
LEMMA CallsInit == Init => CallsAreInSnapshot /\ AnswersAreStored
<1> SUFFICES ASSUME Init, NEW id \in MessageIds, NEW c \in ConnIds
             PROVE  /\ requests[id].snapshot = {}
                    /\ requests[id].statuses[c] = "none"
                    /\ addCalls[id][c] = "none"
  BY DEF CallsAreInSnapshot, AnswersAreStored
<1> QED BY NewRequestFields DEF Init, FreeRequest

\* An id that is free or claimed has no calls.
LEMMA FreshHasNoCalls ==
    ASSUME ReplicationInv, NEW t \in Threads, PostMessage(t)
    PROVE  /\ nextMessageId \in MessageIds
           /\ requests[nextMessageId].phase = "free"
           /\ \A c \in ConnIds : addCalls[nextMessageId][c] = "none"
           /\ requests'[nextMessageId].snapshot = {}
           /\ requests'[nextMessageId].statuses = [c \in ConnIds |-> "none"]
           /\ requests'[nextMessageId].promiseFilled = FALSE
           /\ OnlyRequest(nextMessageId)
           /\ UNCHANGED <<messages, addCalls, lateAdds, registryVars, connectionVars,
                          secondaryVars>>
<1>0. TypeOK /\ AgreementInv
  BY DEF ReplicationInv
<1>1. PICK m \in Messages, w \in WriteConcerns : ClaimId(t, m, w)
  BY DEF PostMessage
<1>2. nextMessageId \in MessageIds
  BY <1>0, <1>1, StorageAssumption DEF ClaimId, TypeOK, MessageIds
<1>3. requests[nextMessageId].phase = "free"
  BY <1>0, <1>2, StorageAssumption DEF AgreementInv, FreshIdsAreFree, TypeOK
<1>4. \A c \in ConnIds : addCalls[nextMessageId][c] = "none"
  BY <1>0, <1>2, <1>3 DEF AgreementInv, RequestsMatchStorage
<1>5. requests' = [requests EXCEPT ![nextMessageId] = NewRequest("claimed", t, m, w)]
  BY <1>1 DEF ClaimId
<1> QED BY <1>0, <1>1, <1>2, <1>3, <1>4, <1>5, NewRequestFields DEF TypeOK, OnlyRequest, ClaimId

\* The steps of the registry, the connections and the sessions leave requests
\* alone and open no call.
LEMMA OthersLeaveRequests ==
    ASSUME TypeOK, [Next]_vars,
           \/ ~RequestStep
           \/ \E id \in MessageIds, c \in ConnIds :
                    OnIncomingAddMessage(id, c) \/ OnLateAddMessage(id, c)
    PROVE  /\ requests' = requests
           /\ \A id \in MessageIds, c \in ConnIds :
                    /\ addCalls'[id][c] = "none" <=> addCalls[id][c] = "none"
                    /\ addCalls'[id][c] = "answered" =>
                            addCalls[id][c] = "answered" \/ OnIncomingAddMessage(id, c)
           /\ secondaryIdCounter' \in {secondaryIdCounter, secondaryIdCounter + 1}
<1> DEFINE Goal == /\ requests' = requests
                   /\ \A id \in MessageIds, c \in ConnIds :
                        /\ addCalls'[id][c] = "none" <=> addCalls[id][c] = "none"
                        /\ addCalls'[id][c] = "answered" =>
                                addCalls[id][c] = "answered" \/ OnIncomingAddMessage(id, c)
                   /\ secondaryIdCounter' \in {secondaryIdCounter, secondaryIdCounter + 1}
<1>1. ASSUME UNCHANGED <<requests, addCalls>>,
             secondaryIdCounter' \in {secondaryIdCounter, secondaryIdCounter + 1}
      PROVE  Goal
  BY <1>1
<1>2. ASSUME NEW n \in Nodes, OnSessionInvalidated(n) \/ Crash(n) PROVE Goal
  <2>1. /\ UNCHANGED <<requests, secondaryIdCounter>>
        /\ \/ addCalls' = addCalls
           \/ addCalls' = [id \in MessageIds |-> [addCalls[id] EXCEPT ![sessions[n].conn] =
                                IF @ = "sent" THEN "lost" ELSE @]]
    BY <1>2 DEF OnSessionInvalidated, Crash, CloseSecondaryEnd
  <2> QED BY <2>1 DEF TypeOK
<1>3. ASSUME NEW id \in MessageIds, NEW c \in ConnIds,
             OnIncomingAddMessage(id, c) \/ OnLateAddMessage(id, c)
      PROVE  Goal
  <2>1. /\ UNCHANGED <<requests, secondaryIdCounter>>
        /\ \/ addCalls' = addCalls
           \/ /\ addCalls[id][c] = "sent"
              /\ addCalls' = [addCalls EXCEPT ![id][c] = Answer(c)]
              /\ OnIncomingAddMessage(id, c)
    BY <1>3 DEF OnIncomingAddMessage, OnLateAddMessage
  <2>2. CASE addCalls' = addCalls
    BY <1>1, <2>1, <2>2
  <2>3. CASE /\ addCalls[id][c] = "sent"
             /\ addCalls' = [addCalls EXCEPT ![id][c] = Answer(c)]
             /\ OnIncomingAddMessage(id, c)
    <3>1. \A i \in MessageIds, d \in ConnIds :
            addCalls'[i][d] = IF i = id /\ d = c THEN Answer(c) ELSE addCalls[i][d]
      BY <2>3 DEF TypeOK
    <3> QED BY <2>1, <2>3, <3>1, FrameType
  <2> QED BY <2>1, <2>2, <2>3
<1>4. ASSUME NEW n \in Nodes,
              \/ OnIncomingGetMessages(n) \/ OnIncomingSecondaryNodeReady(n)
              \/ Connect(n) \/ ConnectFails(n) \/ ReconnectTimer(n)
              \/ GetMessagesAnswered(n) \/ GetMessagesFailed(n)
              \/ SecondaryNodeReadyAnswered(n) \/ SecondaryNodeReadyFailed(n)
      PROVE  Goal
  BY <1>1, <1>4 DEF OnIncomingGetMessages, OnIncomingSecondaryNodeReady, Connect,
               ConnectFails, ReconnectTimer, GetMessagesAnswered, GetMessagesFailed,
               SecondaryNodeReadyAnswered, SecondaryNodeReadyFailed
<1>5. ASSUME AddSecondaryImpl \/ UNCHANGED vars PROVE Goal
  BY <1>1, <1>5 DEF AddSecondaryImpl, vars
<1>6. ASSUME NEW c \in ConnIds,
             MasterSocketInvalidated(c) \/ OnInvalidated(c) \/ OnLateSecondaryNodeReady(c)
      PROVE  Goal
  BY <1>1, <1>6 DEF MasterSocketInvalidated, OnInvalidated, OnLateSecondaryNodeReady
<1> HIDE DEF Goal
<1>7. Goal
  BY <1>2, <1>3, <1>4, <1>5, <1>6 DEF Next, MasterNext, SecondaryNext, RequestStep
<1> QED BY <1>7 DEF Goal

\* What a request knows after a step it knew before or was told in that step.
KnowledgeStep(id) ==
    /\ requests'[id].snapshot \in {requests[id].snapshot, {}, SecondariesSnapshot}
    /\ \A c \in ConnIds :
            /\ requests'[id].statuses[c] # "none" => c \in requests'[id].snapshot
            /\ addCalls'[id][c] # "none" => c \in requests'[id].snapshot
            /\ requests'[id].statuses[c] # "NOT_ADDED"
            /\ requests'[id].statuses[c] = "ADDED" =>
                    requests[id].statuses[c] = "ADDED" \/ addCalls[id][c] = "answered"
            /\ addCalls'[id][c] = "answered" =>
                    addCalls[id][c] = "answered" \/ OnIncomingAddMessage(id, c)

\* A request whose status map and calls do not change learns nothing.
LEMMA NothingLearned ==
    ASSUME CallsAreInSnapshot, NEW id \in MessageIds,
           requests'[id].snapshot = requests[id].snapshot,
           requests'[id].statuses = requests[id].statuses,
           \A c \in ConnIds :
                /\ addCalls'[id][c] = "none" <=> addCalls[id][c] = "none"
                /\ addCalls'[id][c] = "answered" =>
                        addCalls[id][c] = "answered" \/ OnIncomingAddMessage(id, c)
    PROVE  KnowledgeStep(id)
BY DEF CallsAreInSnapshot, KnowledgeStep

\* start() forgets what it knew of secondaries that are gone.
LEMMA LearnedByStart ==
    ASSUME NEW id \in MessageIds, NEW r \in RequestType,
           requests'[id] = Start(r, SecondariesSnapshot), OnlyNewCalls(id),
           \A c \in ConnIds :
                /\ r.statuses[c] # "NOT_ADDED"
                /\ r.statuses[c] = "ADDED" =>
                        requests[id].statuses[c] = "ADDED" \/ addCalls[id][c] = "answered"
    PROVE  KnowledgeStep(id)
<1>1. /\ requests'[id].snapshot = SecondariesSnapshot
      /\ requests'[id].statuses =
            [c \in ConnIds |-> IF c \in SecondariesSnapshot THEN r.statuses[c] ELSE "none"]
  BY StartFields, SnapshotType
<1> QED BY <1>1 DEF KnowledgeStep, OnlyNewCalls

\* Every step tells a request only of calls it has made.
LEMMA KnowledgeNext ==
    ASSUME ReplicationInv, CallsAreInSnapshot, [Next]_vars, NEW id \in MessageIds
    PROVE  KnowledgeStep(id)
<1>0. /\ TypeOK /\ PendingWritesMatchCalls
      /\ requests[id] \in RequestType
      /\ requests[id].statuses \in [ConnIds -> Statuses]
      /\ addCalls[id] \in [ConnIds -> CallStates]
  BY DEF ReplicationInv, TypeOK, RequestType
<1>1. ASSUME NEW i \in MessageIds, i # id, OnlyRequest(i) PROVE KnowledgeStep(id)
  <2>1. requests'[id] = requests[id] /\ addCalls'[id] = addCalls[id]
    BY <1>1 DEF OnlyRequest
  <2> QED BY <2>1, NothingLearned
<1>2. ASSUME NEW t \in Threads, PostMessage(t) PROVE KnowledgeStep(id)
  <2>1. CASE id = nextMessageId
    <3>1. /\ requests'[id].snapshot = {}
          /\ \A c \in ConnIds : /\ requests'[id].statuses[c] = "none"
                                /\ addCalls'[id][c] = "none"
      BY <1>2, <2>1, FreshHasNoCalls
    <3> QED BY <3>1 DEF KnowledgeStep
  <2>2. CASE id # nextMessageId
    BY <1>1, <1>2, <2>2, FreshHasNoCalls
  <2> QED BY <2>1, <2>2
<1>3. ASSUME NEW i \in MessageIds, InsertMessage(i) PROVE KnowledgeStep(id)
  <2>1. /\ requests'[id].snapshot = requests[id].snapshot
        /\ requests'[id].statuses = requests[id].statuses
        /\ addCalls' = addCalls
    BY <1>0, <1>3 DEF InsertMessage, TypeOK, RequestType
  <2> QED BY <2>1, NothingLearned
<1>4. ASSUME NEW i \in MessageIds, RunRequest(i) \/ RetryTimer(i) PROVE KnowledgeStep(id)
  <2>1. /\ StartRequest(i, requests[i], addCalls[i])
        /\ requests[i].phase \in {"inserted", "delay"}
    BY <1>4 DEF RunRequest, RetryTimer
  <2>2. /\ requests'[i] = Start(requests[i], SecondariesSnapshot)
        /\ OnlyNewCalls(i)
        /\ OnlyRequest(i)
    BY <1>0, <2>1, RunShape
  <2>3. CASE i = id
    BY <1>0, <2>2, <2>3, LearnedByStart DEF CallsAreInSnapshot
  <2>4. CASE i # id
    BY <1>1, <2>2, <2>4
  <2> QED BY <2>3, <2>4
<1>5. ASSUME NEW i \in MessageIds, NEW c \in ConnIds,
             AddMessageAnswered(i, c) \/ AddMessageFailed(i, c)
      PROVE  KnowledgeStep(id)
  <2>1. PICK status \in {"ADDED", "ERROR"} :
            /\ addCalls[i][c] # "none"
            /\ status = "ADDED" => addCalls[i][c] = "answered"
            /\ AddMessageCallback(i, c, status)
    BY <1>5 DEF AddMessageAnswered, AddMessageFailed
  <2>2. status \in Statuses
    BY DEF Statuses
  <2> DEFINE noted == OnResponseRecieved(requests[i], c, status)
  <2>3. /\ noted \in RequestType
        /\ \/ /\ requests'[i] = noted
              /\ addCalls'[i] = [addCalls[i] EXCEPT ![c] = "none"]
           \/ /\ requests'[i] = Start(noted, SecondariesSnapshot)
              /\ OnlyNewCalls(i)
        /\ OnlyRequest(i)
    BY <1>0, <2>1, <2>2, CallbackShape
  <2>4. requests[i] \in RequestType
    BY <1>0 DEF TypeOK
  <2>5. /\ noted.snapshot = requests[i].snapshot
        /\ noted.statuses = [requests[i].statuses EXCEPT ![c] = status]
    BY <2>2, <2>4, OnResponseFields
  <2> HIDE DEF noted
  <2>6. CASE i = id
    <3>1. \A d \in ConnIds :
            /\ noted.statuses[d] # "NOT_ADDED"
            /\ noted.statuses[d] = "ADDED" =>
                    requests[id].statuses[d] = "ADDED" \/ addCalls[id][d] = "answered"
            /\ noted.statuses[d] # "none" => d \in requests[id].snapshot
      BY <1>0, <2>1, <2>5, <2>6 DEF CallsAreInSnapshot
    <3>2. CASE /\ requests'[i] = noted
               /\ addCalls'[i] = [addCalls[i] EXCEPT ![c] = "none"]
      BY <1>0, <2>5, <2>6, <3>1, <3>2 DEF CallsAreInSnapshot, KnowledgeStep
    <3>3. CASE requests'[i] = Start(noted, SecondariesSnapshot) /\ OnlyNewCalls(i)
      BY <2>3, <2>6, <3>1, <3>3, LearnedByStart
    <3> QED BY <2>3, <3>2, <3>3
  <2>7. CASE i # id
    BY <1>1, <2>3, <2>7
  <2> QED BY <2>6, <2>7
<1>6. ASSUME \/ ~RequestStep
             \/ \E i \in MessageIds, c \in ConnIds :
                    OnIncomingAddMessage(i, c) \/ OnLateAddMessage(i, c)
      PROVE  KnowledgeStep(id)
  <2>1. /\ requests' = requests
        /\ \A c \in ConnIds :
                /\ addCalls'[id][c] = "none" <=> addCalls[id][c] = "none"
                /\ addCalls'[id][c] = "answered" =>
                        addCalls[id][c] = "answered" \/ OnIncomingAddMessage(id, c)
    BY <1>0, <1>6, OthersLeaveRequests
  <2> QED BY <2>1, NothingLearned
<1> QED BY <1>2, <1>3, <1>4, <1>5, <1>6 DEF RequestStep

\* Connections keep their number and their owner, an end that is closed stays
\* closed, and crashes are counted.
LEMMA ConnectionSteps ==
    ASSUME TypeOK, ViewInv, [Next]_vars
    PROVE  /\ secondaryIdCounter' >= secondaryIdCounter
           /\ crashes' = 0 => crashes = 0
           /\ \A c \in ConnIds : c < connects =>
                    owner'[c] = owner[c] /\ (secondaryUp'[c] => secondaryUp[c])
<1> DEFINE Goal == /\ secondaryIdCounter' >= secondaryIdCounter
                   /\ crashes' = 0 => crashes = 0
                   /\ \A c \in ConnIds : c < connects =>
                        owner'[c] = owner[c] /\ (secondaryUp'[c] => secondaryUp[c])
<1>0. /\ secondaryIdCounter \in Nat /\ crashes \in Nat /\ connects \in Nat
      /\ owner \in [ConnIds -> Nodes \cup {NoNode}]
      /\ secondaryUp \in [ConnIds -> BOOLEAN]
      /\ \A n \in Nodes : sessions[n].conn \in ConnIds
  BY ConnIdsFinite DEF TypeOK, SessionType
<1>1. ASSUME UNCHANGED <<secondaryIdCounter, connects, owner, secondaryUp, crashes>> PROVE Goal
  BY <1>0, <1>1
<1>2. ASSUME RequestStep \/ UNCHANGED vars PROVE Goal
  BY <1>1, <1>2, RequestsLeaveTheView
<1>3. ASSUME NEW n \in Nodes, Connect(n) PROVE Goal
  BY <1>0, <1>3 DEF Connect
<1>4. ASSUME NEW n \in Nodes, OnSessionInvalidated(n) \/ Crash(n) PROVE Goal
  BY <1>0, <1>4 DEF OnSessionInvalidated, Crash, CloseSecondaryEnd
<1>5. ASSUME AddSecondaryImpl PROVE Goal
  BY <1>0, <1>5 DEF AddSecondaryImpl
<1>6. ASSUME NEW n \in Nodes,
              \/ OnIncomingGetMessages(n) \/ OnIncomingSecondaryNodeReady(n)
              \/ ConnectFails(n) \/ ReconnectTimer(n)
              \/ GetMessagesAnswered(n) \/ GetMessagesFailed(n)
              \/ SecondaryNodeReadyAnswered(n) \/ SecondaryNodeReadyFailed(n)
      PROVE  Goal
  BY <1>1, <1>6 DEF OnIncomingGetMessages, OnIncomingSecondaryNodeReady,
               ConnectFails, ReconnectTimer, GetMessagesAnswered, GetMessagesFailed,
               SecondaryNodeReadyAnswered, SecondaryNodeReadyFailed
<1>7. ASSUME NEW c \in ConnIds,
             MasterSocketInvalidated(c) \/ OnInvalidated(c) \/ OnLateSecondaryNodeReady(c)
      PROVE  Goal
  BY <1>1, <1>7 DEF MasterSocketInvalidated, OnInvalidated, OnLateSecondaryNodeReady
<1> HIDE DEF Goal
<1>8. Goal
  BY <1>2, <1>3, <1>4, <1>5, <1>6, <1>7 DEF Next, MasterNext, SecondaryNext, RequestStep
<1> QED BY <1>8 DEF Goal

\* Every step keeps the calls of a request within its snapshot.
LEMMA CallsNext ==
    ReplicationInv /\ ViewInv /\ CallsAreInSnapshot /\ [Next]_vars => CallsAreInSnapshot'
<1> SUFFICES ASSUME ReplicationInv, ViewInv, CallsAreInSnapshot, [Next]_vars,
                    NEW id \in MessageIds, NEW c \in ConnIds
             PROVE  /\ c \in requests'[id].snapshot => c < secondaryIdCounter'
                    /\ requests'[id].statuses[c] # "none" => c \in requests'[id].snapshot
                    /\ addCalls'[id][c] # "none" => c \in requests'[id].snapshot
                    /\ requests'[id].statuses[c] # "NOT_ADDED"
  BY DEF CallsAreInSnapshot
<1>1. TypeOK /\ TypeOK'
  BY TypeNext DEF ReplicationInv
<1>2. c \in Nat /\ secondaryIdCounter \in Nat /\ secondaryIdCounter' \in Nat
  BY <1>1, ConnIdsFinite DEF TypeOK
<1>3. c \in SecondariesSnapshot => c < secondaryIdCounter
  BY <1>2 DEF ViewInv, ConnectionsAreNumbered, SecondariesSnapshot
<1>4. c \in requests[id].snapshot => c < secondaryIdCounter
  BY DEF CallsAreInSnapshot
<1>5. secondaryIdCounter' >= secondaryIdCounter
  BY <1>1, ConnectionSteps
<1> QED BY <1>2, <1>3, <1>4, <1>5, KnowledgeNext DEF KnowledgeStep

\* A storage keeps what it has, unless its process crashes.
LEMMA StoresGrow ==
    ASSUME TypeOK, [Next]_vars, NEW n \in Nodes, NEW id \in MessageIds, Has(store[n], id)
    PROVE  Has(store'[n], id) \/ Crash(n)
<1>1. ASSUME NEW i \in MessageIds, NEW c \in ConnIds,
             OnIncomingAddMessage(i, c) \/ OnLateAddMessage(i, c)
      PROVE  Has(store'[n], id)
  <2>1. store' = [store EXCEPT ![owner[c]] = Insert(store[owner[c]], i, requests[i].message)]
    BY <1>1 DEF OnIncomingAddMessage, OnLateAddMessage, StoreMessage
  <2>2. CASE owner[c] = n
    BY <2>1, <2>2 DEF Insert, Has, TypeOK, StorageType
  <2>3. CASE owner[c] # n
    BY <2>1, <2>3 DEF TypeOK, Has
  <2> QED BY <2>2, <2>3
<1>2. ASSUME NEW m \in Nodes, GetMessagesAnswered(m) PROVE Has(store'[n], id)
  BY <1>2 DEF GetMessagesAnswered, AddMessages, Has, TypeOK
<1>3. ASSUME NEW m \in Nodes, Crash(m), m # n PROVE Has(store'[n], id)
  BY <1>3 DEF Crash, Has, TypeOK
<1>4. ASSUME NEW m \in Nodes,
              \/ OnIncomingGetMessages(m) \/ OnIncomingSecondaryNodeReady(m)
              \/ Connect(m) \/ ConnectFails(m) \/ ReconnectTimer(m)
              \/ GetMessagesFailed(m) \/ SecondaryNodeReadyAnswered(m)
              \/ SecondaryNodeReadyFailed(m) \/ OnSessionInvalidated(m)
       PROVE  Has(store'[n], id)
  BY <1>4 DEF OnIncomingGetMessages, OnIncomingSecondaryNodeReady, Connect,
                ConnectFails, ReconnectTimer, GetMessagesFailed,
                SecondaryNodeReadyAnswered, SecondaryNodeReadyFailed,
                OnSessionInvalidated, Has
<1>5. ASSUME NEW i \in MessageIds, InsertMessage(i) \/ RunRequest(i) \/ RetryTimer(i)
      PROVE  Has(store'[n], id)
  BY <1>5 DEF InsertMessage, RunRequest, RetryTimer, Has
<1>6. ASSUME NEW i \in MessageIds, NEW c \in ConnIds,
             AddMessageAnswered(i, c) \/ AddMessageFailed(i, c)
      PROVE  Has(store'[n], id)
  BY <1>6 DEF AddMessageAnswered, AddMessageFailed, AddMessageCallback, Has
<1>7. ASSUME NEW c \in ConnIds,
             MasterSocketInvalidated(c) \/ OnInvalidated(c) \/ OnLateSecondaryNodeReady(c)
      PROVE  Has(store'[n], id)
  BY <1>7 DEF MasterSocketInvalidated, OnInvalidated, OnLateSecondaryNodeReady, Has
<1>8. ASSUME NEW t \in Threads, PostMessage(t) PROVE Has(store'[n], id)
  BY <1>8 DEF PostMessage, ClaimId, Has
<1>9. ASSUME AddSecondaryImpl \/ UNCHANGED vars PROVE Has(store'[n], id)
  BY <1>9 DEF AddSecondaryImpl, vars, Has
<1> QED BY <1>1, <1>2, <1>3, <1>4, <1>5, <1>6, <1>7, <1>8, <1>9
    DEF Next, MasterNext, SecondaryNext

\* The crash of a connection's owner closes its end.
LEMMA CrashCloses ==
    ASSUME TypeOK, ViewInv, NEW c \in ConnIds, owner[c] \in Nodes, Crash(owner[c])
    PROVE  ~secondaryUp'[c] /\ crashes' # 0
<1> DEFINE n == owner[c]
<1>1. secondaryUp \in [ConnIds -> BOOLEAN] /\ crashes \in Nat
  BY DEF TypeOK
<1>2. IF Connected(n) THEN secondaryUp' = [secondaryUp EXCEPT ![sessions[n].conn] = FALSE]
                      ELSE secondaryUp' = secondaryUp
  BY DEF Crash, CloseSecondaryEnd
<1>3. secondaryUp[c] => Connected(n) /\ sessions[n].conn = c
  BY DEF ViewInv, SessionsOwnConnections
<1>4. crashes' = crashes + 1
  BY DEF Crash
<1> HIDE DEF n
<1>5. CASE Connected(n)
  <2>1. secondaryUp' = [secondaryUp EXCEPT ![sessions[n].conn] = FALSE]
    BY <1>2, <1>5
  <2>2. CASE sessions[n].conn = c
    BY <1>1, <1>4, <2>1, <2>2
  <2>3. CASE sessions[n].conn # c
    BY <1>1, <1>3, <1>4, <2>1, <2>3
  <2> QED BY <2>2, <2>3
<1>6. CASE ~Connected(n)
  BY <1>1, <1>2, <1>3, <1>4, <1>6
<1> QED BY <1>5, <1>6

\* Every step keeps the answers true.
LEMMA AnswersNext ==
    ReplicationInv /\ DeliveryInv /\ [Next]_vars => AnswersAreStored'
<1> SUFFICES ASSUME ReplicationInv, DeliveryInv, [Next]_vars,
                    NEW id \in MessageIds, NEW c \in ConnIds,
                    addCalls'[id][c] = "answered" \/ requests'[id].statuses[c] = "ADDED",
                    secondaryUp'[c] \/ crashes' = 0
             PROVE  Has(store'[owner'[c]], id)
  BY DEF AnswersAreStored, Has
<1>0. TypeOK /\ AgreementInv /\ ViewInv /\ CallsAreInSnapshot /\ AnswersAreStored
  BY DEF ReplicationInv, DeliveryInv
<1>1. CASE addCalls[id][c] = "answered" \/ requests[id].statuses[c] = "ADDED"
  <2>1. c < secondaryIdCounter
    BY <1>0, <1>1 DEF CallsAreInSnapshot
  <2>2. c < connects /\ owner[c] \in Nodes
    BY <1>0, <2>1, ConnIdsFinite DEF ViewInv, ConnectionsAreNumbered, TypeOK
  <2>3. /\ owner'[c] = owner[c]
        /\ secondaryUp[c] \/ crashes = 0
    BY <1>0, <2>2, ConnectionSteps
  <2>4. Has(store[owner[c]], id)
    BY <1>0, <1>1, <2>3 DEF AnswersAreStored
  <2>5. ~Crash(owner[c])
    BY <1>0, <2>2, CrashCloses
  <2> QED BY <1>0, <2>2, <2>3, <2>4, <2>5, StoresGrow
<1>2. CASE OnIncomingAddMessage(id, c)
  <2>1. /\ owner' = owner
        /\ secondaryUp[c]
        /\ store' = [store EXCEPT
                ![owner[c]] = Insert(store[owner[c]], id, requests[id].message)]
    BY <1>2 DEF OnIncomingAddMessage, StoreMessage
  <2>2. owner[c] \in Nodes
    BY <1>0, <2>1, ConnIdsFinite DEF ViewInv, ConnectionsAreNumbered, TypeOK
  <2>3. requests[id].message # Absent
    BY <1>0, <1>2 DEF OnIncomingAddMessage, AgreementInv, RequestsMatchStorage, ClaimedHaveMessages
  <2>4. Has(Insert(store[owner[c]], id, requests[id].message), id)
    BY <1>0, <2>2, <2>3 DEF Insert, Has, TypeOK, StorageType
  <2> QED BY <1>0, <2>1, <2>2, <2>4 DEF TypeOK
<1> QED BY <1>0, <1>1, <1>2, KnowledgeNext DEF KnowledgeStep

-----------------------------------------------------------------------------
(* The theorems.                                                           *)

\* What the master believes is true in every reachable state.
LEMMA DeliveryInvariance == Spec => [](ReplicationInv /\ DeliveryInv)
<1>1. Init => DeliveryInv
  BY ViewInit, CallsInit DEF DeliveryInv
<1>2. ReplicationInv /\ DeliveryInv /\ [Next]_vars => DeliveryInv'
  BY ViewNext, CallsNext, AnswersNext DEF DeliveryInv, ReplicationInv
<1> QED BY <1>1, <1>2, Invariance, PTL DEF Spec

\* The master shows a secondary as OPERATIONAL only when the session at the
\* other end of that very connection has filled its storage, however late a
\* secondaryNodeReady call arrives.
THEOREM MasterViewCorrect == Spec => []MasterViewIsSound
<1>1. ReplicationInv /\ DeliveryInv => MasterViewIsSound
  <2> SUFFICES ASSUME ReplicationInv, DeliveryInv, NEW c \in ConnIds,
                      secondaries[c] = "OPERATIONAL", secondaryUp[c]
               PROVE  operational[owner[c]] /\ sessions[owner[c]].conn = c
    BY DEF MasterViewIsSound
  <2>1. owner[c] \in Nodes
    BY ConnIdsFinite DEF ReplicationInv, TypeOK, DeliveryInv, ViewInv, ConnectionsAreNumbered
  <2> QED BY <2>1 DEF DeliveryInv, ViewInv, ReadyIsTrue, SessionsOwnConnections
<1> QED BY <1>1, DeliveryInvariance, PTL

\* A secondary that a request counts as ADDED holds the message for as long as
\* its end of the connection lives.
THEOREM ConfirmationsCorrect == Spec => []ConfirmedIsStored
<1>1. DeliveryInv => ConfirmedIsStored
  BY DEF DeliveryInv, AnswersAreStored, ConfirmedIsStored
<1> QED BY <1>1, DeliveryInvariance, PTL

-----------------------------------------------------------------------------
(* Write concern.                                                          *)

\* The connections on which a request's message has been confirmed, noted or
\* with the callback still to come.
Confirming(id) ==
    {c \in ConnIds : requests[id].statuses[c] = "ADDED" \/ addCalls[id][c] = "answered"}

\* A promise is filled by as many confirmations as the write concern needs.
LEMMA PromiseIsEarned ==
    ASSUME ReplicationInv, CallsAreInSnapshot, [Next]_vars, NEW id \in MessageIds,
           ~requests[id].promiseFilled, requests'[id].promiseFilled
    PROVE  Cardinality(Confirming(id)) >= requests[id].writeConcern
<1>0. /\ TypeOK /\ PendingWritesMatchCalls
      /\ requests[id] \in RequestType
      /\ requests[id].writeConcern \in Nat
      /\ requests[id].statuses \in [ConnIds -> Statuses]
      /\ requests[id].promiseFilled \in BOOLEAN
      /\ IsFiniteSet(Confirming(id)) /\ Cardinality(Confirming(id)) \in Nat
  BY ConnIdsFinite DEF ReplicationInv, TypeOK, RequestType, Confirming
<1>1. ASSUME NEW r \in RequestType,
             \A c \in ConnIds : r.statuses[c] = "ADDED" => c \in Confirming(id),
             SatisfiedWriteConcern(r) >= requests[id].writeConcern
      PROVE  Cardinality(Confirming(id)) >= requests[id].writeConcern
  <2> DEFINE added == {c \in ConnIds : r.statuses[c] = "ADDED"}
  <2>1. added \in SUBSET Confirming(id)
    BY <1>1
  <2>2. Cardinality(added) \in Nat /\ Cardinality(added) >= requests[id].writeConcern
    BY <1>1, ConnIdsFinite DEF SatisfiedWriteConcern
  <2> HIDE DEF added
  <2>3. Cardinality(added) <= Cardinality(Confirming(id))
    BY <1>0, <2>1, FS_Subset
  <2> QED BY <1>0, <2>2, <2>3
<1>2. ASSUME NEW r \in RequestType,
             r.promiseFilled = requests[id].promiseFilled,
             r.writeConcern = requests[id].writeConcern,
             \A c \in ConnIds : r.statuses[c] = "ADDED" => c \in Confirming(id),
             requests'[id] = Start(r, SecondariesSnapshot),
             Start(r, SecondariesSnapshot) \in RequestType
      PROVE  Cardinality(Confirming(id)) >= requests[id].writeConcern
  <2> DEFINE started == Start(r, SecondariesSnapshot)
  <2>0. /\ started.statuses = [c \in ConnIds |-> IF c \in SecondariesSnapshot
                                                THEN r.statuses[c] ELSE "none"]
        /\ \/ SatisfiedWriteConcern(started) >= r.writeConcern
           \/ started.promiseFilled = r.promiseFilled
    BY StartFields, SnapshotType
  <2> HIDE DEF started
  <2>1. SatisfiedWriteConcern(started) >= requests[id].writeConcern
    BY <1>2, <2>0 DEF started
  <2>2. \A c \in ConnIds : started.statuses[c] = "ADDED" => c \in Confirming(id)
    BY <1>2, <2>0
  <2>3. started \in RequestType
    BY <1>2 DEF started
  <2> QED BY <1>1, <2>1, <2>2, <2>3
<1>3. \A c \in ConnIds : requests[id].statuses[c] = "ADDED" => c \in Confirming(id)
  BY DEF Confirming
<1>4. TypeOK'
  BY TypeNext DEF ReplicationInv
<1>5. requests'[id] \in RequestType
  BY <1>4 DEF TypeOK
<1>6. ASSUME NEW i \in MessageIds, i # id, OnlyRequest(i) PROVE FALSE
  BY <1>0, <1>6 DEF OnlyRequest
<1>7. ASSUME NEW t \in Threads, PostMessage(t) PROVE FALSE
  BY <1>6, <1>7, FreshHasNoCalls
<1>8. ASSUME NEW i \in MessageIds, InsertMessage(i) PROVE FALSE
  BY <1>0, <1>8 DEF InsertMessage, TypeOK, RequestType
<1>9. ASSUME NEW i \in MessageIds, RunRequest(i) \/ RetryTimer(i)
      PROVE  Cardinality(Confirming(id)) >= requests[id].writeConcern
  <2>1. /\ StartRequest(i, requests[i], addCalls[i])
        /\ requests[i].phase \in {"inserted", "delay"}
    BY <1>9 DEF RunRequest, RetryTimer
  <2>2. /\ requests'[i] = Start(requests[i], SecondariesSnapshot)
        /\ OnlyRequest(i)
    BY <1>0, <2>1, RunShape
  <2>3. i = id
    BY <1>6, <2>2
  <2> QED BY <1>0, <1>2, <1>3, <1>5, <2>2, <2>3
<1>10. ASSUME NEW i \in MessageIds, NEW c \in ConnIds,
              AddMessageAnswered(i, c) \/ AddMessageFailed(i, c)
       PROVE  Cardinality(Confirming(id)) >= requests[id].writeConcern
  <2>1. PICK status \in {"ADDED", "ERROR"} :
            /\ addCalls[i][c] # "none"
            /\ status = "ADDED" => addCalls[i][c] = "answered"
            /\ AddMessageCallback(i, c, status)
    BY <1>10 DEF AddMessageAnswered, AddMessageFailed
  <2>2. status \in Statuses
    BY DEF Statuses
  <2> DEFINE noted == OnResponseRecieved(requests[i], c, status)
  <2>3. /\ noted \in RequestType
        /\ requests'[i] = noted \/ requests'[i] = Start(noted, SecondariesSnapshot)
        /\ OnlyRequest(i)
    BY <1>0, <2>1, <2>2, CallbackShape
  <2>4. i = id
    BY <1>6, <2>3
  <2>5. /\ noted.writeConcern = requests[id].writeConcern
        /\ noted.statuses = [requests[id].statuses EXCEPT ![c] = status]
        /\ \/ SatisfiedWriteConcern(noted) >= requests[id].writeConcern
           \/ noted.promiseFilled = requests[id].promiseFilled
    BY <1>0, <2>2, <2>4, OnResponseFields
  <2> HIDE DEF noted
  <2>6. \A d \in ConnIds : noted.statuses[d] = "ADDED" => d \in Confirming(id)
    BY <1>0, <2>1, <2>4, <2>5 DEF Confirming
  <2>7. CASE SatisfiedWriteConcern(noted) >= requests[id].writeConcern
    BY <1>1, <2>3, <2>6, <2>7
  <2>8. CASE noted.promiseFilled = requests[id].promiseFilled
    <3>1. requests'[id] # noted
      BY <2>8
    <3> QED BY <1>2, <1>5, <2>3, <2>4, <2>5, <2>6, <2>8, <3>1
  <2> QED BY <2>5, <2>7, <2>8
<1>11. ASSUME \/ ~RequestStep
              \/ \E i \in MessageIds, c \in ConnIds :
                    OnIncomingAddMessage(i, c) \/ OnLateAddMessage(i, c)
       PROVE  FALSE
  BY <1>0, <1>11, OthersLeaveRequests
<1> QED BY <1>7, <1>8, <1>9, <1>10, <1>11 DEF RequestStep

\* A POST with write concern N is answered only when N-1 different secondaries
\* hold the message, unless the snapshot has a secondary twice or one crashed.
THEOREM WriteConcernCorrect == Spec => ConfirmedByDistinctNodes
<1>1. ASSUME ReplicationInv, DeliveryInv, [Next]_vars, NEW id \in MessageIds,
             ~requests[id].promiseFilled, requests'[id].promiseFilled,
             \A c, d \in requests[id].snapshot : owner[c] = owner[d] => c = d,
             crashes = 0
      PROVE  Cardinality({n \in Nodes : Has(store[n], id)}) >= requests[id].writeConcern
  <2> DEFINE S == Confirming(id)
             T == {n \in Nodes : Has(store[n], id)}
             f == [c \in S |-> owner[c]]
  <2>1. requests[id].writeConcern \in Nat
    BY <1>1 DEF ReplicationInv, TypeOK, RequestType
  <2>2. S \in SUBSET ConnIds /\ T \in SUBSET Nodes
    BY DEF Confirming
  <2>3. /\ IsFiniteSet(S) /\ Cardinality(S) \in Nat
        /\ IsFiniteSet(T) /\ Cardinality(T) \in Nat
    BY <2>2, ConnIdsFinite, ReplicationAssumption, FS_Subset, FS_CardinalityType
  <2>4. Cardinality(S) >= requests[id].writeConcern
    BY <1>1, PromiseIsEarned DEF DeliveryInv
  <2>5. \A c \in S : c \in requests[id].snapshot /\ c < secondaryIdCounter
    BY <1>1 DEF DeliveryInv, CallsAreInSnapshot, Confirming
  <2>6. \A c \in S : owner[c] \in Nodes
    <3>1. /\ secondaryIdCounter \in Nat /\ connects \in Nat
          /\ secondaryIdCounter <= connects
          /\ \A c \in ConnIds : c \in Nat /\ (c < connects => owner[c] \in Nodes)
      BY <1>1, ConnIdsFinite
      DEF DeliveryInv, ViewInv, ConnectionsAreNumbered, ReplicationInv, TypeOK
    <3> HIDE DEF S
    <3> QED BY <2>2, <2>5, <3>1
  <2>7. \A c \in S : Has(store[owner[c]], id)
    BY <1>1 DEF DeliveryInv, AnswersAreStored, Confirming
  <2>8. f \in [S -> T]
    BY <2>6, <2>7
  <2>9. ~ \E c, d \in S : c # d /\ f[c] = f[d]
    BY <1>1, <2>5
  <2> HIDE DEF S, T, f
  <2>10. ~(Cardinality(T) < Cardinality(S))
    BY <2>3, <2>8, <2>9, FS_PigeonHole
  <2>11. Cardinality(T) >= requests[id].writeConcern
    BY <2>1, <2>3, <2>4, <2>10
  <2> QED BY <2>11 DEF T
<1>2. ReplicationInv /\ DeliveryInv /\ [Next]_vars =>
        [\A id \in MessageIds :
            /\ ~requests[id].promiseFilled /\ requests'[id].promiseFilled
            /\ \A c, d \in requests[id].snapshot : owner[c] = owner[d] => c = d
            /\ crashes = 0
            => Cardinality({n \in Nodes : Has(store[n], id)})
                    >= requests[id].writeConcern]_vars
  BY <1>1
<1> QED BY <1>2, DeliveryInvariance, PTL DEF Spec, ConfirmedByDistinctNodes

-----------------------------------------------------------------------------
(* No message is lost when one HTTP thread adds them all.  With two, the   *)
(* chunk a secondary fetches may stop at an id that is claimed and not     *)
(* inserted (ReplicationLostMessage).                                      *)

\* The ids below the counter are taken, and the one that is claimed and not
\* inserted is the last: the master's map has no gap.
IdsAreInOrder ==
    \A id \in MessageIds :
        /\ id < nextMessageId => requests[id].phase # "free"
        /\ requests[id].phase = "claimed" => /\ requests[id].thread \in Threads
                                             /\ id + 1 = nextMessageId

\* A secondary asks for messages from the first one it misses.
AskedFromGap ==
    \A n \in Nodes :
        sessions[n].phase = "ask" =>
            \A id \in MessageIds : id < sessions[n].gap => Has(store[n], id)

\* A session has its answer from a registered connection, and only then the
\* node becomes operational.
AnsweredWhenRegistered ==
    \A n \in Nodes :
        /\ operational[n] => sessions[n].phase \in Filled
        /\ \/ sessions[n].phase = "ask" /\ sessions[n].call = "answered"
           \/ sessions[n].phase \in Filled
           => secondaries[sessions[n].conn] # "UNKNOWN"

\* A secondary in the registry holds every message whose request is gone, or
\* has it in the chunk on its way.
CaughtUp ==
    \A n \in Nodes, id \in MessageIds :
        /\ requests[id].phase = "destroyed"
        /\ sessions[n].conn \in SecondariesSnapshot
        => /\ sessions[n].phase \in Filled => Has(store[n], id)
           /\ sessions[n].phase = "ask" /\ sessions[n].call = "answered" =>
                \/ Has(store[n], id)
                \/ id \in sessions[n].gap .. (sessions[n].gap + Len(sessions[n].chunk) - 1)

CatchUpInv == IdsAreInOrder /\ AskedFromGap /\ AnsweredWhenRegistered /\ CaughtUp

\* Requests are destroyed only when every secondary in the registry has
\* confirmed the message.
LEMMA DestroyedIsConfirmed ==
    ASSUME ReplicationInv, DeliveryInv, [Next]_vars, NEW id \in MessageIds,
           requests[id].phase # "destroyed", requests'[id].phase = "destroyed"
    PROVE  /\ RequestStep
           /\ \A c \in SecondariesSnapshot : requests'[id].statuses[c] = "ADDED"
           /\ store' = store
<1>0. /\ TypeOK /\ PendingWritesMatchCalls /\ CallsAreInSnapshot
      /\ requests[id] \in RequestType
  BY DEF ReplicationInv, DeliveryInv, TypeOK
<1>1. ASSUME NEW r \in RequestType, requests'[id] = Start(r, SecondariesSnapshot),
             KnowledgeStep(id)
      PROVE  \A c \in SecondariesSnapshot : requests'[id].statuses[c] = "ADDED"
  <2> DEFINE good == {c \in ConnIds : requests'[id].statuses[c] \notin {"none", "ERROR"}}
  <2>0. /\ Start(r, SecondariesSnapshot).snapshot = SecondariesSnapshot
        /\ Start(r, SecondariesSnapshot).phase = "destroyed"
             => AllSecondariesSuccessfullyAnswered(Start(r, SecondariesSnapshot))
    BY StartFields, SnapshotType
  <2>1. requests'[id].snapshot = SecondariesSnapshot
    BY <1>1, <2>0
  <2>2. AllSecondariesSuccessfullyAnswered(requests'[id])
    BY <1>1, <2>0
  <2>3. Cardinality(good) = Cardinality(SecondariesSnapshot)
    BY <2>1, <2>2 DEF AllSecondariesSuccessfullyAnswered
  <2>4. good \subseteq SecondariesSnapshot
    BY <1>1, <2>1 DEF KnowledgeStep
  <2>5. IsFiniteSet(SecondariesSnapshot)
    BY SnapshotType, ConnIdsFinite
  <2>6. good = SecondariesSnapshot
    <3> HIDE DEF good
    <3> QED BY <2>3, <2>4, <2>5, FS_Subset
  <2>7. TypeOK'
    BY TypeNext DEF ReplicationInv
  <2>8. \A c \in ConnIds : requests'[id].statuses[c] \in Statuses
    BY <2>7 DEF TypeOK, RequestType
  <2> QED BY <1>1, <2>6, <2>8 DEF KnowledgeStep, Statuses
<1>2. KnowledgeStep(id)
  BY <1>0, KnowledgeNext
<1>3. ASSUME NEW i \in MessageIds, OnlyRequest(i) PROVE i = id
  BY <1>3 DEF OnlyRequest
<1>4. ASSUME NEW t \in Threads, PostMessage(t) PROVE FALSE
  <2>1. PICK m \in Messages, w \in WriteConcerns : ClaimId(t, m, w)
    BY <1>4 DEF PostMessage
  <2> QED BY <1>0, <2>1 DEF ClaimId, NewRequest, TypeOK
<1>5. ASSUME NEW i \in MessageIds, InsertMessage(i) PROVE FALSE
  BY <1>0, <1>5 DEF InsertMessage, TypeOK, RequestType
<1>6. ASSUME NEW i \in MessageIds, RunRequest(i) \/ RetryTimer(i)
      PROVE  /\ \A c \in SecondariesSnapshot : requests'[id].statuses[c] = "ADDED"
             /\ store' = store
  <2>1. /\ StartRequest(i, requests[i], addCalls[i])
        /\ requests[i].phase \in {"inserted", "delay"}
        /\ store' = store
    BY <1>6 DEF RunRequest, RetryTimer
  <2>2. /\ requests'[i] = Start(requests[i], SecondariesSnapshot)
        /\ OnlyRequest(i)
    BY <1>0, <2>1, RunShape
  <2> QED BY <1>0, <1>1, <1>2, <1>3, <2>1, <2>2
<1>7. ASSUME NEW i \in MessageIds, NEW c \in ConnIds,
             AddMessageAnswered(i, c) \/ AddMessageFailed(i, c)
      PROVE  /\ \A d \in SecondariesSnapshot : requests'[id].statuses[d] = "ADDED"
             /\ store' = store
  <2>1. PICK status \in Statuses :
            /\ addCalls[i][c] # "none"
            /\ AddMessageCallback(i, c, status)
    BY <1>7 DEF AddMessageAnswered, AddMessageFailed, Statuses
  <2>2. store' = store
    BY <2>1 DEF AddMessageCallback
  <2> DEFINE noted == OnResponseRecieved(requests[i], c, status)
  <2>3. /\ noted \in RequestType
        /\ requests'[i] = noted \/ requests'[i] = Start(noted, SecondariesSnapshot)
        /\ OnlyRequest(i)
    BY <1>0, <2>1, CallbackShape
  <2>4. i = id
    BY <1>3, <2>3
  <2>5. noted.phase = requests[id].phase
    BY <1>0, <2>1, <2>4, OpenCallIsCounted, OnResponseResult
  <2> HIDE DEF noted
  <2> QED BY <1>1, <1>2, <2>2, <2>3, <2>4, <2>5
<1>8. ASSUME \/ ~RequestStep
             \/ \E i \in MessageIds, c \in ConnIds :
                    OnIncomingAddMessage(i, c) \/ OnLateAddMessage(i, c)
      PROVE  FALSE
  BY <1>0, <1>8, OthersLeaveRequests
<1> QED BY <1>4, <1>5, <1>6, <1>7, <1>8 DEF RequestStep

\* Every step of a single-threaded master keeps the ids in order.
LEMMA InOrderNext ==
    ASSUME NEW t, Threads = {t}
    PROVE  ReplicationInv /\ IdsAreInOrder /\ [Next]_vars => IdsAreInOrder'
<1> SUFFICES ASSUME ReplicationInv, IdsAreInOrder, [Next]_vars PROVE IdsAreInOrder'
  OBVIOUS
<1>0. /\ TypeOK /\ PendingWritesMatchCalls
      /\ nextMessageId \in Nat
      /\ \A id \in MessageIds : id \in Nat
  BY StorageAssumption DEF ReplicationInv, TypeOK, MessageIds
<1>1. ASSUME NEW s \in Threads, PostMessage(s) PROVE IdsAreInOrder'
  <2>1. PICK m \in Messages, w \in WriteConcerns : ClaimId(s, m, w)
    BY <1>1 DEF PostMessage
  <2>2. \A id \in MessageIds : requests[id].phase # "claimed"
    BY <2>1 DEF ClaimId, Idle, IdsAreInOrder
  <2>3. nextMessageId' = nextMessageId + 1 /\ nextMessageId \in MessageIds
    BY <1>1, <2>1, FreshHasNoCalls DEF ClaimId
  <2>4. /\ requests'[nextMessageId].phase = "claimed"
        /\ requests'[nextMessageId].thread = s
        /\ \A id \in MessageIds \ {nextMessageId} : requests'[id] = requests[id]
    BY <1>0, <2>1, <2>3 DEF ClaimId, NewRequest, TypeOK
  <2> QED BY <1>0, <2>2, <2>3, <2>4 DEF IdsAreInOrder
<1>2. ASSUME NEW id \in MessageIds, nextMessageId' = nextMessageId,
             requests'[id].phase \notin {"free", "claimed"},
             \A i \in MessageIds \ {id} : requests'[i] = requests[i]
      PROVE  IdsAreInOrder'
  BY <1>2 DEF IdsAreInOrder
<1>3. ASSUME NEW id \in MessageIds, InsertMessage(id) PROVE IdsAreInOrder'
  <2>1. /\ nextMessageId' = nextMessageId
        /\ requests'[id].phase = "inserted"
        /\ \A i \in MessageIds \ {id} : requests'[i] = requests[i]
    BY <1>0, <1>3 DEF InsertMessage, TypeOK, RequestType
  <2> QED BY <1>2, <2>1
<1>4. ASSUME NEW id \in MessageIds, RunRequest(id) \/ RetryTimer(id) PROVE IdsAreInOrder'
  <2>1. /\ StartRequest(id, requests[id], addCalls[id])
        /\ requests[id].phase \in {"inserted", "delay"}
        /\ nextMessageId' = nextMessageId
    BY <1>4 DEF RunRequest, RetryTimer
  <2>2. /\ requests'[id].phase \in {"waiting", "delay", "destroyed"}
        /\ \A i \in MessageIds \ {id} : requests'[i] = requests[i]
    BY <1>0, <2>1, StartStep
  <2> QED BY <1>2, <2>1, <2>2
<1>5. ASSUME NEW id \in MessageIds, NEW c \in ConnIds,
             AddMessageAnswered(id, c) \/ AddMessageFailed(id, c)
      PROVE  IdsAreInOrder'
  <2>1. PICK status \in Statuses :
            addCalls[id][c] # "none" /\ AddMessageCallback(id, c, status)
    BY <1>5 DEF AddMessageAnswered, AddMessageFailed, Statuses
  <2>2. /\ requests'[id].phase \in {"waiting", "delay", "destroyed"}
        /\ \A i \in MessageIds \ {id} : requests'[i] = requests[i]
    BY <1>0, <2>1, CallbackStep
  <2>3. nextMessageId' = nextMessageId
    BY <2>1 DEF AddMessageCallback
  <2> QED BY <1>2, <2>2, <2>3
<1>6. ASSUME \/ ~RequestStep
             \/ \E i \in MessageIds, c \in ConnIds :
                    OnIncomingAddMessage(i, c) \/ OnLateAddMessage(i, c)
      PROVE  IdsAreInOrder'
  <2>1. requests' = requests
    BY <1>0, <1>6, OthersLeaveRequests
  <2>2. nextMessageId' = nextMessageId
    BY <1>6 DEF Next, MasterNext, SecondaryNext, RequestStep, AddSecondaryImpl,
        MasterSocketInvalidated, OnInvalidated, OnLateSecondaryNodeReady,
        OnIncomingGetMessages, OnIncomingSecondaryNodeReady, Connect, ConnectFails,
        ReconnectTimer, GetMessagesAnswered, GetMessagesFailed,
        SecondaryNodeReadyAnswered, SecondaryNodeReadyFailed, OnSessionInvalidated,
        Crash, OnIncomingAddMessage, OnLateAddMessage, vars
  <2> QED BY <2>1, <2>2 DEF IdsAreInOrder
<1> QED BY <1>1, <1>3, <1>4, <1>5, <1>6 DEF RequestStep

\* While ids are in order the master's map is complete up to its last message.
LEMMA MapHasNoGap ==
    ASSUME ReplicationInv, IdsAreInOrder,
           NEW id \in MessageIds, Has(messages, id), NEW i \in MessageIds, i <= id
    PROVE  Has(messages, i)
<1>0. /\ nextMessageId \in Nat /\ id \in Nat /\ i \in Nat
      /\ FreshIdsAreFree /\ RequestsMatchStorage
  BY StorageAssumption DEF ReplicationInv, AgreementInv, TypeOK, MessageIds
<1>1. CASE i = id
  BY <1>1
<1>2. CASE i < id
  <2>1. requests[id].phase # "free"
    BY <1>0 DEF RequestsMatchStorage, Has
  <2>2. id < nextMessageId
    BY <1>0, <2>1 DEF FreshIdsAreFree
  <2>3. requests[i].phase \notin {"free", "claimed"}
    BY <1>0, <1>2, <2>2 DEF IdsAreInOrder
  <2> QED BY <1>0, <2>3 DEF RequestsMatchStorage, Has
<1> QED BY <1>0, <1>1, <1>2

\* The steps that change the session of a node other than to reset it.
SessionStep(n) ==
    \/ OnIncomingGetMessages(n) \/ OnIncomingSecondaryNodeReady(n)
    \/ Connect(n) \/ GetMessagesAnswered(n) \/ GetMessagesFailed(n)
    \/ SecondaryNodeReadyAnswered(n) \/ SecondaryNodeReadyFailed(n)

\* Any other step leaves the session alone or ends it.
LEMMA OtherSessionSteps ==
    ASSUME TypeOK, [Next]_vars, NEW n \in Nodes, ~SessionStep(n)
    PROVE  \/ sessions'[n] = sessions[n] /\ operational'[n] = operational[n] /\ ~Crash(n)
           \/ /\ sessions'[n].phase \in {"connecting", "backoff"}
              /\ operational'[n] = FALSE \/ operational'[n] = operational[n]
              /\ sessions[n].phase \in {"connecting", "backoff"} \/ operational'[n] = FALSE
<1> DEFINE Goal ==
           \/ sessions'[n] = sessions[n] /\ operational'[n] = operational[n] /\ ~Crash(n)
           \/ /\ sessions'[n].phase \in {"connecting", "backoff"}
              /\ operational'[n] = FALSE \/ operational'[n] = operational[n]
              /\ sessions[n].phase \in {"connecting", "backoff"} \/ operational'[n] = FALSE
<1>0. /\ sessions \in [Nodes -> SessionType] /\ operational \in [Nodes -> BOOLEAN]
      /\ sessions[n] \in SessionType
  BY DEF TypeOK
<1>1. ASSUME Crash(n) PROVE Goal
  BY <1>0, <1>1 DEF Crash, NoSession, Session
<1>2. ASSUME UNCHANGED <<sessions, operational>> PROVE Goal
  BY <1>1, <1>2
<1>3. ASSUME NEW m \in Nodes, m # n,
             SessionStep(m) \/ OnSessionInvalidated(m) \/ Crash(m)
      PROVE  Goal
  <2>1. sessions'[n] = sessions[n] /\ operational'[n] = operational[n]
    BY <1>0, <1>3
    DEF SessionStep, OnIncomingGetMessages, OnIncomingSecondaryNodeReady, Connect,
        GetMessagesAnswered, GetMessagesFailed, SecondaryNodeReadyAnswered,
        SecondaryNodeReadyFailed, OnSessionInvalidated, Crash
  <2> QED BY <1>1, <2>1
<1>4. ASSUME OnSessionInvalidated(n) PROVE Goal
  BY <1>0, <1>4 DEF OnSessionInvalidated, NoSession, Session
<1>5. ASSUME NEW m \in Nodes, ConnectFails(m) \/ ReconnectTimer(m) PROVE Goal
  <2>1. CASE m = n
    BY <1>0, <1>5, <2>1 DEF ConnectFails, ReconnectTimer, SessionType
  <2>2. CASE m # n
    <3>1. sessions'[n] = sessions[n] /\ operational'[n] = operational[n]
      BY <1>0, <1>5, <2>2 DEF ConnectFails, ReconnectTimer
    <3> QED BY <1>1, <3>1
  <2> QED BY <2>1, <2>2
<1>6. ASSUME RequestStep \/ UNCHANGED vars PROVE Goal
  BY <1>2, <1>6, RequestsLeaveTheView
<1>7. ASSUME AddSecondaryImpl \/ \E c \in ConnIds : \/ MasterSocketInvalidated(c)
                                                    \/ OnInvalidated(c)
                                                    \/ OnLateSecondaryNodeReady(c)
      PROVE  Goal
  BY <1>2, <1>7
  DEF AddSecondaryImpl, MasterSocketInvalidated, OnInvalidated, OnLateSecondaryNodeReady
<1> HIDE DEF Goal
<1>8. Goal
  BY <1>1, <1>3, <1>4, <1>5, <1>6, <1>7
  DEF Next, MasterNext, SecondaryNext, RequestStep, SessionStep
<1> QED BY <1>8 DEF Goal

\* The registry forgets no secondary: an id that was handed out is not UNKNOWN
\* again, and one that was removed is not in the map again.
LEMMA RegistrySteps ==
    ASSUME TypeOK, ViewInv, [Next]_vars, NEW c \in ConnIds, secondaries[c] # "UNKNOWN"
    PROVE  /\ secondaries'[c] # "UNKNOWN"
           /\ c \in SecondariesSnapshot' => c \in SecondariesSnapshot
<1> DEFINE Goal == /\ secondaries'[c] # "UNKNOWN"
                   /\ c \in SecondariesSnapshot' => c \in SecondariesSnapshot
<1>0. secondaries \in [ConnIds -> SecondaryStates]
  BY DEF TypeOK
<1>1. ASSUME secondaries' = secondaries PROVE Goal
  BY <1>1 DEF SecondariesSnapshot
<1>2. ASSUME AddSecondaryImpl PROVE Goal
  <2>1. secondaryIdCounter # c
    BY ConnIdsFinite DEF ViewInv, ConnectionsAreNumbered, TypeOK
  <2> QED BY <1>0, <1>2, <2>1 DEF AddSecondaryImpl, SecondariesSnapshot
<1>3. ASSUME NEW d \in ConnIds, OnInvalidated(d) \/ OnLateSecondaryNodeReady(d) PROVE Goal
  BY <1>0, <1>3
  DEF OnInvalidated, OnLateSecondaryNodeReady, SetOperational, SecondariesSnapshot
<1>4. ASSUME NEW n \in Nodes, OnIncomingSecondaryNodeReady(n) PROVE Goal
  BY <1>0, <1>4 DEF OnIncomingSecondaryNodeReady, SetOperational, SecondariesSnapshot
<1>5. ASSUME NEW n \in Nodes,
              \/ OnIncomingGetMessages(n) \/ Connect(n) \/ ConnectFails(n)
              \/ ReconnectTimer(n) \/ GetMessagesAnswered(n) \/ GetMessagesFailed(n)
              \/ SecondaryNodeReadyAnswered(n) \/ SecondaryNodeReadyFailed(n)
              \/ OnSessionInvalidated(n) \/ Crash(n)
      PROVE  Goal
  BY <1>1, <1>5 DEF OnIncomingGetMessages, Connect, ConnectFails, ReconnectTimer,
               GetMessagesAnswered, GetMessagesFailed, SecondaryNodeReadyAnswered,
               SecondaryNodeReadyFailed, OnSessionInvalidated, Crash
<1>6. ASSUME NEW d \in ConnIds, MasterSocketInvalidated(d) PROVE Goal
  BY <1>1, <1>6 DEF MasterSocketInvalidated
<1>7. ASSUME RequestStep \/ UNCHANGED vars PROVE Goal
  BY <1>1, <1>7, RequestsLeaveTheView
<1> HIDE DEF Goal
<1>8. Goal
  BY <1>2, <1>3, <1>4, <1>5, <1>6, <1>7 DEF Next, MasterNext, SecondaryNext, RequestStep
<1> QED BY <1>8 DEF Goal

\* Every step keeps what is below the gap that a session asks from.
LEMMA AskedNext == TypeOK /\ AskedFromGap /\ [Next]_vars => AskedFromGap'
<1> SUFFICES ASSUME TypeOK, AskedFromGap, [Next]_vars, NEW n \in Nodes,
                    sessions'[n].phase = "ask",
                    NEW id \in MessageIds, id < sessions'[n].gap
             PROVE  Has(store'[n], id)
  BY DEF AskedFromGap, Has
<1>0. /\ sessions \in [Nodes -> SessionType] /\ sessions[n] \in SessionType
      /\ store[n] \in StorageType
  BY DEF TypeOK
<1>1. ASSUME sessions[n].phase = "ask", sessions'[n].gap = sessions[n].gap, ~Crash(n)
      PROVE  Has(store'[n], id)
  BY <1>1, StoresGrow DEF AskedFromGap
<1>2. ASSUME Connect(n) \/ GetMessagesFailed(n) PROVE Has(store'[n], id)
  <2>1. sessions'[n].gap = FirstMissing(store[n], 0) /\ store' = store
    BY <1>0, <1>2 DEF Connect, GetMessagesFailed, Session, FirstGap
  <2>2. /\ 0 \in 0 .. MaxMessages /\ id \in Nat
        /\ FirstMissing(store[n], 0) \in Int
        /\ \A i \in 0 .. (FirstMissing(store[n], 0) - 1) : Has(store[n], i)
    BY <1>0, FirstMissingIsFirst, StorageAssumption DEF MessageIds
  <2> QED BY <2>1, <2>2
<1>3. ASSUME \/ OnIncomingSecondaryNodeReady(n) \/ GetMessagesAnswered(n)
             \/ SecondaryNodeReadyAnswered(n) \/ SecondaryNodeReadyFailed(n)
      PROVE  FALSE
  BY <1>0, <1>3
  DEF OnIncomingSecondaryNodeReady, GetMessagesAnswered, SecondaryNodeReadyAnswered,
      SecondaryNodeReadyFailed, Session, SessionType
<1>4. ASSUME OnIncomingGetMessages(n) PROVE Has(store'[n], id)
  <2>1. /\ sessions[n].phase = "ask" /\ sessions'[n].gap = sessions[n].gap
        /\ store' = store
    BY <1>0, <1>4 DEF OnIncomingGetMessages, SessionType
  <2> QED BY <2>1 DEF AskedFromGap
<1>5. ASSUME ~SessionStep(n) PROVE Has(store'[n], id)
  <2>1. sessions'[n] = sessions[n] /\ ~Crash(n)
    BY <1>5, OtherSessionSteps
  <2> QED BY <1>1, <2>1
<1> QED BY <1>2, <1>3, <1>4, <1>5 DEF SessionStep

\* Every step keeps answered sessions on registered connections.
LEMMA AnsweredNext ==
    TypeOK /\ ViewInv /\ AnsweredWhenRegistered /\ [Next]_vars => AnsweredWhenRegistered'
<1> SUFFICES ASSUME TypeOK, ViewInv, AnsweredWhenRegistered, [Next]_vars, NEW n \in Nodes
             PROVE  /\ operational'[n] => sessions'[n].phase \in Filled
                    /\ \/ sessions'[n].phase = "ask" /\ sessions'[n].call = "answered"
                       \/ sessions'[n].phase \in Filled
                       => secondaries'[sessions'[n].conn] # "UNKNOWN"
  BY DEF AnsweredWhenRegistered
<1> DEFINE Goal == /\ operational'[n] => sessions'[n].phase \in Filled
                   /\ \/ sessions'[n].phase = "ask" /\ sessions'[n].call = "answered"
                      \/ sessions'[n].phase \in Filled
                      => secondaries'[sessions'[n].conn] # "UNKNOWN"
<1>0. /\ sessions \in [Nodes -> SessionType] /\ operational \in [Nodes -> BOOLEAN]
      /\ sessions[n] \in SessionType /\ sessions[n].conn \in ConnIds
  BY DEF TypeOK, SessionType
<1>1. ASSUME secondaries[sessions[n].conn] # "UNKNOWN",
             sessions'[n].conn = sessions[n].conn,
             operational'[n] => sessions'[n].phase \in Filled
      PROVE  Goal
  BY <1>0, <1>1, RegistrySteps
<1>2. ASSUME Connect(n) \/ GetMessagesFailed(n) PROVE Goal
  <2>1. /\ sessions'[n].phase = "ask" /\ sessions'[n].call # "answered"
        /\ operational'[n] => sessions[n].phase \in Filled /\ operational[n]
    BY <1>0, <1>2
    DEF Connect, GetMessagesFailed, Session, Frame, AnsweredWhenRegistered
  <2>2. ~operational'[n]
    BY <1>0, <1>2, <2>1 DEF Connect, GetMessagesFailed, Filled
  <2> QED BY <2>1, <2>2 DEF Filled
<1>3. ASSUME OnIncomingGetMessages(n) PROVE Goal
  <2>1. /\ sessions'[n].conn = sessions[n].conn /\ sessions'[n].phase = sessions[n].phase
        /\ operational' = operational
        /\ secondaries[sessions[n].conn] # "UNKNOWN"
    BY <1>0, <1>3 DEF OnIncomingGetMessages, SessionType, SecondariesSnapshot
  <2> QED BY <1>1, <2>1 DEF AnsweredWhenRegistered
<1>4. ASSUME \/ OnIncomingSecondaryNodeReady(n) \/ GetMessagesAnswered(n)
             \/ SecondaryNodeReadyAnswered(n) \/ SecondaryNodeReadyFailed(n)
      PROVE  Goal
  <2>1. /\ sessions'[n].conn = sessions[n].conn /\ sessions'[n].phase \in Filled
        /\ \/ sessions[n].phase = "ask" /\ sessions[n].call = "answered"
           \/ sessions[n].phase \in Filled
    BY <1>0, <1>4
    DEF OnIncomingSecondaryNodeReady, GetMessagesAnswered, SecondaryNodeReadyAnswered,
        SecondaryNodeReadyFailed, Session, SessionType, Filled
  <2>2. secondaries[sessions[n].conn] # "UNKNOWN"
    BY <2>1 DEF AnsweredWhenRegistered
  <2> QED BY <1>1, <2>1, <2>2
<1>5. ASSUME ~SessionStep(n) PROVE Goal
  <2>1. CASE sessions'[n] = sessions[n] /\ operational'[n] = operational[n]
    BY <1>0, <2>1, RegistrySteps DEF AnsweredWhenRegistered
  <2>2. CASE /\ sessions'[n].phase \in {"connecting", "backoff"}
             /\ operational'[n] = FALSE \/ operational'[n] = operational[n]
             /\ sessions[n].phase \in {"connecting", "backoff"} \/ operational'[n] = FALSE
    BY <1>0, <2>2 DEF AnsweredWhenRegistered, Filled
  <2> QED BY <1>5, <2>1, <2>2, OtherSessionSteps
<1> HIDE DEF Goal
<1>6. Goal
  BY <1>2, <1>3, <1>4, <1>5 DEF SessionStep
<1> QED BY <1>6 DEF Goal

\* The chunk from a gap on contains everything the master's map has from there.
LEMMA ChunkIsComplete ==
    ASSUME ReplicationInv, IdsAreInOrder,
           NEW id \in MessageIds, Has(messages, id), NEW gap \in 0 .. MaxMessages, gap <= id
    PROVE  id \in gap .. (gap + Len(ContiguousChunk(messages, gap)) - 1)
<1> DEFINE first == FirstMissing(messages, gap)
<1>1. messages \in StorageType /\ MaxMessages \in Nat /\ id \in 0 .. (MaxMessages - 1)
  BY StorageAssumption DEF ReplicationInv, TypeOK, MessageIds
<1>2. /\ first \in gap .. MaxMessages
      /\ ~Has(messages, first)
  BY <1>1, FirstMissingIsFirst
<1>3. ContiguousChunk(messages, gap) = [i \in 1 .. (first - gap) |-> messages[gap + i - 1]]
  BY DEF ContiguousChunk
<1> HIDE DEF first
<1>4. Len(ContiguousChunk(messages, gap)) = first - gap
  BY <1>2, <1>3
<1>5. first > id
  <2> SUFFICES ASSUME first <= id PROVE FALSE
    BY <1>1, <1>2
  <2>1. first \in MessageIds
    BY <1>1, <1>2 DEF MessageIds
  <2> QED BY <1>2, <2>1, MapHasNoGap
<1> QED BY <1>1, <1>2, <1>4, <1>5

\* Every step keeps the secondaries in the registry caught up.
LEMMA CaughtUpNext ==
    ReplicationInv /\ DeliveryInv /\ CatchUpInv /\ AnswersAreStored' /\ [Next]_vars => CaughtUp'
<1> SUFFICES ASSUME ReplicationInv, DeliveryInv, CatchUpInv, AnswersAreStored', [Next]_vars,
                    NEW n \in Nodes, NEW id \in MessageIds,
                    requests'[id].phase = "destroyed",
                    sessions'[n].conn \in SecondariesSnapshot'
             PROVE  /\ sessions'[n].phase \in Filled => Has(store'[n], id)
                    /\ sessions'[n].phase = "ask" /\ sessions'[n].call = "answered" =>
                        \/ Has(store'[n], id)
                        \/ id \in sessions'[n].gap ..
                                    (sessions'[n].gap + Len(sessions'[n].chunk) - 1)
  BY DEF CaughtUp, Has
<1> DEFINE Goal == /\ sessions'[n].phase \in Filled => Has(store'[n], id)
                   /\ sessions'[n].phase = "ask" /\ sessions'[n].call = "answered" =>
                        \/ Has(store'[n], id)
                        \/ id \in sessions'[n].gap ..
                                    (sessions'[n].gap + Len(sessions'[n].chunk) - 1)
<1>0. /\ TypeOK /\ ViewInv /\ IdsAreInOrder /\ AskedFromGap
      /\ AnsweredWhenRegistered /\ CaughtUp
      /\ sessions \in [Nodes -> SessionType] /\ store \in [Nodes -> StorageType]
      /\ sessions[n] \in SessionType /\ sessions[n].conn \in ConnIds
      /\ sessions[n].gap \in 0 .. MaxMessages
      /\ sessions[n].chunk \in Seq(Messages)
      /\ id \in Nat /\ MaxMessages \in Nat /\ Absent \notin Messages
  BY StorageAssumption DEF ReplicationInv, DeliveryInv, CatchUpInv, TypeOK, SessionType, MessageIds
<1>1. CASE requests[id].phase # "destroyed"
  <2>1. /\ RequestStep
        /\ \A c \in SecondariesSnapshot : requests'[id].statuses[c] = "ADDED"
    BY <1>1, DestroyedIsConfirmed
  <2>2. UNCHANGED <<registryVars, connectionVars, sessions>>
    BY <2>1, RequestsLeaveTheView
  <2>3. requests'[id].statuses[sessions[n].conn] = "ADDED"
    BY <2>1, <2>2 DEF SecondariesSnapshot
  <2>4. ASSUME Connected(n) PROVE Has(store'[n], id)
    <3>1. owner'[sessions[n].conn] = n /\ secondaryUp'[sessions[n].conn]
      BY <1>0, <2>2, <2>4 DEF ViewInv, SessionsOwnConnections
    <3>2. Has(store'[owner'[sessions[n].conn]], id)
      BY <1>0, <2>3, <3>1 DEF AnswersAreStored, Has
    <3> QED BY <3>1, <3>2
  <2> QED BY <2>2, <2>4 DEF Connected, Filled
<1>2. CASE requests[id].phase = "destroyed"
  <2>1. Has(messages, id)
    BY <1>2 DEF ReplicationInv, AgreementInv, RequestsMatchStorage, Has
  <2>2. ASSUME Connect(n) \/ GetMessagesFailed(n) PROVE Goal
    BY <1>0, <2>2 DEF Connect, GetMessagesFailed, Session, Frame, Filled
  <2>3. ASSUME OnIncomingGetMessages(n) PROVE Goal
    <3>1. /\ sessions[n].phase = "ask" /\ sessions'[n].phase = "ask"
          /\ sessions'[n].gap = sessions[n].gap
          /\ sessions'[n].chunk = ContiguousChunk(messages, sessions[n].gap)
          /\ store' = store
      BY <1>0, <2>3 DEF OnIncomingGetMessages, SessionType
    <3>2. CASE id < sessions[n].gap
      BY <1>0, <3>1, <3>2 DEF AskedFromGap, Filled
    <3>3. CASE sessions[n].gap <= id
      <4>1. id \in sessions[n].gap ..
                (sessions[n].gap + Len(ContiguousChunk(messages, sessions[n].gap)) - 1)
        BY <1>0, <2>1, <3>3, ChunkIsComplete
      <4> QED BY <3>1, <4>1 DEF Filled
    <3> QED BY <1>0, <3>2, <3>3
  <2>4. ASSUME GetMessagesAnswered(n) PROVE Goal
    <3>1. /\ sessions[n].phase = "ask" /\ sessions[n].call = "answered"
          /\ sessions'[n].phase = "notify" /\ sessions'[n].conn = sessions[n].conn
          /\ secondaries' = secondaries
          /\ store'[n] = AddMessages(store[n], sessions[n].gap, sessions[n].chunk)
      BY <1>0, <2>4 DEF GetMessagesAnswered, Session
    <3>2. \/ Has(store[n], id)
          \/ id \in sessions[n].gap .. (sessions[n].gap + Len(sessions[n].chunk) - 1)
      BY <1>0, <1>2, <3>1 DEF CaughtUp, SecondariesSnapshot
    <3>3. CASE Has(store[n], id)
      BY <3>1, <3>3 DEF AddMessages, Has
    <3>4. CASE /\ ~Has(store[n], id)
               /\ id \in sessions[n].gap .. (sessions[n].gap + Len(sessions[n].chunk) - 1)
      <4>1. store'[n][id] = sessions[n].chunk[id - sessions[n].gap + 1]
        BY <3>1, <3>4 DEF AddMessages
      <4>2. id - sessions[n].gap + 1 \in 1 .. Len(sessions[n].chunk)
        BY <1>0, <3>4
      <4>3. store'[n][id] \in Messages
        BY <1>0, <4>1, <4>2
      <4> QED BY <1>0, <3>1, <4>3 DEF Has
    <3> QED BY <3>2, <3>3, <3>4
  <2>5. ASSUME \/ OnIncomingSecondaryNodeReady(n) \/ SecondaryNodeReadyAnswered(n)
               \/ SecondaryNodeReadyFailed(n)
        PROVE  Goal
    <3>1. /\ sessions[n].phase = "notify" /\ sessions'[n].phase # "ask"
          /\ sessions'[n].conn = sessions[n].conn
          /\ store' = store
      BY <1>0, <2>5
      DEF OnIncomingSecondaryNodeReady, SecondaryNodeReadyAnswered,
          SecondaryNodeReadyFailed, Session, SessionType
    <3>2. secondaries[sessions[n].conn] # "UNKNOWN"
      BY <1>0, <3>1 DEF AnsweredWhenRegistered, Filled
    <3>3. sessions[n].conn \in SecondariesSnapshot
      BY <1>0, <3>1, <3>2, RegistrySteps
    <3> QED BY <1>0, <1>2, <3>1, <3>3 DEF CaughtUp, Filled
  <2>6. ASSUME ~SessionStep(n) PROVE Goal
    <3>1. CASE sessions'[n] = sessions[n] /\ ~Crash(n)
      <4>1. CASE \/ sessions[n].phase = "ask" /\ sessions[n].call = "answered"
                 \/ sessions[n].phase \in Filled
        <5>1. secondaries[sessions[n].conn] # "UNKNOWN"
          BY <1>0, <4>1 DEF AnsweredWhenRegistered
        <5>2. sessions[n].conn \in SecondariesSnapshot
          BY <1>0, <3>1, <5>1, RegistrySteps
        <5>3. Has(store[n], id) => Has(store'[n], id)
          BY <1>0, <3>1, StoresGrow
        <5> QED BY <1>0, <1>2, <3>1, <5>2, <5>3 DEF CaughtUp
      <4>2. CASE ~\/ sessions[n].phase = "ask" /\ sessions[n].call = "answered"
                  \/ sessions[n].phase \in Filled
        BY <3>1, <4>2
      <4> QED BY <4>1, <4>2
    <3>2. CASE sessions'[n].phase \in {"connecting", "backoff"}
      BY <3>2 DEF Filled
    <3> QED BY <1>0, <2>6, <3>1, <3>2, OtherSessionSteps
  <2> HIDE DEF Goal
  <2>7. Goal
    BY <2>2, <2>3, <2>4, <2>5, <2>6 DEF SessionStep
  <2> QED BY <2>7 DEF Goal
<1> QED BY <1>1, <1>2

\* When one HTTP thread adds all messages, a message whose request has been
\* destroyed is held by every operational secondary in the registry: nobody
\* who connected, reconnected or restarted meanwhile has missed it.
THEOREM NothingLostWithOneThread ==
    ASSUME NEW CONSTANT t, Threads = {t}
    PROVE  Spec => []NoLostMessage
<1>1. Init => CatchUpInv
  <2> SUFFICES ASSUME Init PROVE CatchUpInv
    OBVIOUS
  <2>1. /\ nextMessageId = 0
        /\ \A id \in MessageIds : id \in Nat /\ requests[id].phase = "free"
        /\ \A n \in Nodes : sessions[n].phase = "connecting" /\ ~operational[n]
    BY StorageAssumption
    DEF Init, FreeRequest, NewRequest, NoSession, Session, MessageIds
  <2> QED BY <2>1
      DEF CatchUpInv, IdsAreInOrder, AskedFromGap, AnsweredWhenRegistered, CaughtUp, Filled
<1>2. /\ ReplicationInv /\ DeliveryInv /\ CatchUpInv /\ [Next]_vars
      /\ (ReplicationInv /\ DeliveryInv)'
      => CatchUpInv'
  <2> SUFFICES ASSUME ReplicationInv, DeliveryInv, CatchUpInv, [Next]_vars,
                      (ReplicationInv /\ DeliveryInv)'
               PROVE  CatchUpInv'
    OBVIOUS
  <2>1. IdsAreInOrder'
    BY InOrderNext DEF CatchUpInv
  <2>2. AskedFromGap' /\ AnsweredWhenRegistered'
    BY AskedNext, AnsweredNext DEF CatchUpInv, ReplicationInv, DeliveryInv
  <2>3. CaughtUp'
    BY CaughtUpNext DEF DeliveryInv
  <2> QED BY <2>1, <2>2, <2>3 DEF CatchUpInv
<1>3. CatchUpInv => NoLostMessage
  BY DEF CatchUpInv, AnsweredWhenRegistered, CaughtUp, NoLostMessage
<1> QED BY <1>1, <1>2, <1>3, DeliveryInvariance, PTL DEF Spec
=============================================================================
