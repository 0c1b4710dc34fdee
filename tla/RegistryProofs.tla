--------------------------- MODULE RegistryProofs ---------------------------
(***************************************************************************)
(* What MasterNode's handlers may rely on in the registry, for any number  *)
(* of secondaries and HTTP sessions.  Neither property holds by itself     *)
(* along a step: a removal that is posted to a destroyed MasterNode is     *)
(* lost, which is harmless because such a node has no secondaries left.    *)
(***************************************************************************)
EXTENDS HttpSessions, TLAPS

\* The part of the type invariant that the handlers need.
HandlerTypes ==
    /\ accepted \in Nat
    /\ queue \in Seq(Handlers)
    /\ handler \in [call : Handlers, at : Positions] \cup {Nothing}
    /\ up \in [Ids -> BOOLEAN]

\* Nothing is registered, posted or running once MasterNode is gone.
DestroyedIsEmpty ==
    node = "destroyed" => secondaries = {} /\ queue = << >> /\ handler = Nothing

RegistryInv ==
    /\ HandlerTypes
    /\ DestroyedIsEmpty
    /\ FoundStaysValid
    /\ RemovalIsPending

\* All that RegistryInv looks at.
handlerVars == <<node, accepted, queue, handler, secondaries, up>>

-----------------------------------------------------------------------------
\* A session leaves the handlers and what they work on alone: it only reads.
LEMMA SessionsOnlyRead ==
    ASSUME NEW s \in Sessions, SessionNext(s)
    PROVE  UNCHANGED handlerVars
  BY DEF SessionNext, handlerVars, Serve, Run, ReadFails, ResponseWritten,
         GetMessages, InvalidRequest, GetSecondaryMessages, CallMasterNode,
         NodeIsDead, RequestMarkSuccess, RequestMarkFailure, FutureFailed,
         AddMessageReturns, SendPings, PingEnds, CollectPings, AnswerFromFuture,
         Destroyed, SnapshotDestroyed, registryVars, postedVars, nodeVars

\* So does a snapshot.
LEMMA SnapshotsOnlyRead ==
    ASSUME NEW r \in Sessions, SnapshotStep(r)
    PROVE  UNCHANGED handlerVars
  BY DEF SnapshotStep, handlerVars, LockShared, CopyEntry, SnapshotReturns,
         postedVars, nodeVars

\* The invariant depends on nothing else.
LEMMA UnchangedRegistry ==
    ASSUME RegistryInv, UNCHANGED handlerVars
    PROVE  RegistryInv'
  BY DEF RegistryInv, handlerVars, HandlerTypes, DestroyedIsEmpty, FoundStaysValid,
         RemovalIsPending

\* The removal of id is posted or runs.
Removal(id)        == [name |-> "invalidated", id |-> id]
RemovalQueued(id)  == \E i \in 1 .. Len(queue) : queue[i] = Removal(id)
RemovalRunning(id) == handler # Nothing /\ handler.call = Removal(id)

\* Posting keeps what is queued; with MasterNode alive it adds the handler.
LEMMA PostKeeps ==
    ASSUME RegistryInv, NEW h \in Handlers, Post(h.name, h.id)
    PROVE  /\ queue' \in Seq(Handlers)
           /\ node = "destroyed" => queue' = << >>
           /\ \A id \in Ids : RemovalQueued(id) => RemovalQueued(id)'
           /\ node # "destroyed" => \E i \in 1 .. Len(queue') : queue'[i] = h
  <1>1. queue \in Seq(Handlers) /\ (node = "destroyed" => queue = << >>)
    BY DEF RegistryInv, HandlerTypes, DestroyedIsEmpty
  <1>2. CASE node = "destroyed"
    BY <1>1, <1>2 DEF Post, RemovalQueued, Removal
  <1>3. CASE node # "destroyed"
    <2>1. h = [name |-> h.name, id |-> h.id]
      BY DEF Handlers
    <2>2. queue' = Append(queue, h)
      BY <1>3, <2>1 DEF Post
    <2>3. /\ queue' \in Seq(Handlers)
          /\ Len(queue') = Len(queue) + 1
          /\ queue'[Len(queue) + 1] = h
          /\ \A i \in 1 .. Len(queue) : queue'[i] = queue[i]
      BY <1>1, <2>2
    <2>4. \A id \in Ids : RemovalQueued(id) => RemovalQueued(id)'
      BY <1>1, <2>3 DEF RemovalQueued, Removal
    <2>5. Len(queue) + 1 \in 1 .. Len(queue')
      BY <1>1, <2>3
    <2> QED BY <1>3, <2>3, <2>4, <2>5
  <1> QED BY <1>2, <1>3

-----------------------------------------------------------------------------
(* The steps that post.                                                    *)

\* addSecondary only adds to the queue.
LEMMA AddSecondaryStep ==
    ASSUME RegistryInv, AddSecondary
    PROVE  RegistryInv'
  <1> DEFINE h == [name |-> "add", id |-> accepted]
  <1>1. h \in Handlers /\ Post(h.name, h.id) /\ accepted' \in Nat
    BY RegistryAssumption
    DEF RegistryInv, HandlerTypes, AddSecondary, Handlers, Ids
  <1> HIDE DEF h
  <1>2. /\ queue' \in Seq(Handlers)
        /\ \A id \in Ids : RemovalQueued(id) => RemovalQueued(id)'
    BY <1>1, PostKeeps
  <1>3. HandlerTypes'
    BY <1>1, <1>2 DEF RegistryInv, HandlerTypes, AddSecondary
  <1>4. RemovalIsPending'
    BY <1>2 DEF RegistryInv, RemovalIsPending, RemovalQueued, Removal, AddSecondary,
                nodeVars
  <1> QED
    BY <1>3, <1>4
    DEF RegistryInv, DestroyedIsEmpty, FoundStaysValid, AddSecondary, nodeVars

\* So does an announcement.
LEMMA SecondaryAnnouncedStep ==
    ASSUME RegistryInv, NEW id \in Ids, SecondaryAnnounced(id)
    PROVE  RegistryInv'
  <1> DEFINE h == [name |-> "ready", id |-> id]
  <1>1. h \in Handlers /\ Post(h.name, h.id)
    BY DEF SecondaryAnnounced, Handlers
  <1> HIDE DEF h
  <1>2. /\ queue' \in Seq(Handlers)
        /\ \A i \in Ids : RemovalQueued(i) => RemovalQueued(i)'
    BY <1>1, PostKeeps
  <1>3. HandlerTypes'
    BY <1>2 DEF RegistryInv, HandlerTypes, SecondaryAnnounced
  <1>4. RemovalIsPending'
    BY <1>2 DEF RegistryInv, RemovalIsPending, RemovalQueued, Removal,
                SecondaryAnnounced, nodeVars
  <1> QED
    BY <1>3, <1>4
    DEF RegistryInv, DestroyedIsEmpty, FoundStaysValid, SecondaryAnnounced, nodeVars

\* The one that makes a removal necessary also posts it, unless MasterNode is
\* gone and has nothing to remove.
LEMMA EndpointInvalidatedStep ==
    ASSUME RegistryInv, NEW id \in Ids, EndpointInvalidated(id)
    PROVE  RegistryInv'
  <1> DEFINE h == Removal(id)
  <1>1. h \in Handlers /\ Post(h.name, h.id)
    BY DEF EndpointInvalidated, Handlers, Removal
  <1> HIDE DEF h
  <1>2. /\ queue' \in Seq(Handlers)
        /\ node = "destroyed" => queue' = << >>
        /\ \A i \in Ids : RemovalQueued(i) => RemovalQueued(i)'
        /\ node # "destroyed" => \E i \in 1 .. Len(queue') : queue'[i] = h
    BY <1>1, PostKeeps
  <1>3. HandlerTypes'
    BY <1>2 DEF RegistryInv, HandlerTypes, EndpointInvalidated
  <1>4. node # "destroyed" => RemovalQueued(id)'
    BY <1>2 DEF RemovalQueued, h
  <1>5. \A i \in Ids : i # id => up'[i] = up[i]
    BY DEF RegistryInv, HandlerTypes, EndpointInvalidated
  <1>6. RemovalIsPending'
    <2> SUFFICES ASSUME NEW i \in Ids, i \in secondaries', ~up'[i]
                 PROVE  RemovalQueued(i)' \/ RemovalRunning(i)'
      BY DEF RemovalIsPending, RemovalQueued, RemovalRunning, Removal
    <2>1. node # "destroyed" /\ i \in secondaries
      BY DEF RegistryInv, DestroyedIsEmpty, EndpointInvalidated, nodeVars
    <2>2. CASE i = id
      BY <1>4, <2>1, <2>2
    <2>3. CASE i # id
      <3>1. RemovalQueued(i) \/ RemovalRunning(i)
        BY <1>5, <2>1, <2>3
        DEF RegistryInv, RemovalIsPending, RemovalQueued, RemovalRunning, Removal
      <3> QED BY <3>1, <1>2 DEF RemovalRunning, EndpointInvalidated, Removal
    <2> QED BY <2>2, <2>3
  <1> QED
    BY <1>2, <1>3, <1>6
    DEF RegistryInv, DestroyedIsEmpty, FoundStaysValid, EndpointInvalidated, nodeVars

-----------------------------------------------------------------------------
(* The steps of the handlers.                                              *)

\* A handler that starts has found its id; a removal that leaves the queue
\* runs, or has nothing to remove.
LEMMA StartHandlerStep ==
    ASSUME RegistryInv, StartHandler
    PROVE  RegistryInv'
  <1>1. /\ queue \in Seq(Handlers) /\ queue # << >> /\ queue' = Tail(queue)
        /\ node # "destroyed"
    BY DEF RegistryInv, HandlerTypes, DestroyedIsEmpty, StartHandler
  <1>2. /\ Head(queue) \in Handlers /\ queue' \in Seq(Handlers)
        /\ Head(queue) = queue[1]
        /\ Len(queue') = Len(queue) - 1
        /\ \A i \in 1 .. Len(queue') : queue'[i] = queue[i + 1]
    BY <1>1
  <1>3. HandlerTypes'
    BY <1>2 DEF RegistryInv, HandlerTypes, StartHandler, Positions
  <1>4. FoundStaysValid'
    BY <1>2 DEF FoundStaysValid, StartHandler, nodeVars
  <1>5. RemovalIsPending'
    <2> SUFFICES ASSUME NEW id \in Ids, id \in secondaries', ~up'[id]
                 PROVE  RemovalQueued(id)' \/ RemovalRunning(id)'
      BY DEF RemovalIsPending, RemovalQueued, RemovalRunning, Removal
    <2>1. RemovalQueued(id)
      BY DEF RegistryInv, RemovalIsPending, RemovalQueued, Removal, StartHandler, nodeVars
    <2>2. PICK i \in 1 .. Len(queue) : queue[i] = Removal(id)
      BY <2>1 DEF RemovalQueued
    <2>3. CASE i = 1
      <3>1. Head(queue) = Removal(id) /\ id \in secondaries
        BY <1>2, <2>2, <2>3 DEF StartHandler, nodeVars
      <3>2. handler' = [call |-> Head(queue), at |-> "lock"]
        BY <3>1 DEF StartHandler, Removal
      <3>3. handler' # Nothing
        BY <3>2, <1>2, RegistryAssumption DEF Positions
      <3> QED BY <3>1, <3>2, <3>3 DEF RemovalRunning, Removal
    <2>4. CASE i # 1
      <3>1. i - 1 \in 1 .. Len(queue') /\ queue'[i - 1] = queue[i]
        BY <1>1, <1>2, <2>4
      <3> QED BY <3>1, <2>2 DEF RemovalQueued, Removal
    <2> QED BY <2>3, <2>4
  <1> QED
    BY <1>1, <1>3, <1>4, <1>5 DEF RegistryInv, DestroyedIsEmpty, StartHandler, nodeVars

\* Inside a handler: the steps that neither end it nor touch the map.
LEMMA InHandlerStep ==
    ASSUME RegistryInv, Lock \/ SetFriendlyName \/ SetInvalidated
    PROVE  RegistryInv'
  <1>1. /\ handler # Nothing
        /\ handler \in [call : Handlers, at : Positions]
        /\ \E at \in Positions : handler' = [handler EXCEPT !.at = at]
        /\ UNCHANGED <<node, accepted, queue, secondaries, up>>
    BY DEF RegistryInv, HandlerTypes, Lock, SetFriendlyName, SetInvalidated, At,
           Positions, postedVars, nodeVars
  <1>2. /\ handler' \in [call : Handlers, at : Positions]
        /\ handler'.call = handler.call
    BY <1>1
  <1>3. handler' # Nothing
    BY <1>2, RegistryAssumption
  <1>4. RemovalIsPending'
    BY <1>1, <1>2, <1>3 DEF RegistryInv, RemovalIsPending
  <1> QED
    BY <1>1, <1>2, <1>3, <1>4
    DEF RegistryInv, HandlerTypes, DestroyedIsEmpty, FoundStaysValid

\* The handlers that leave the map as it is, or add to it.
LEMMA ReturnStep ==
    ASSUME RegistryInv, AddSecondaryImpl \/ SetOperational
    PROVE  RegistryInv'
  <1>1. /\ handler # Nothing /\ handler' = Nothing
        /\ handler.call.name # "invalidated"
        /\ node' = node /\ accepted' = accepted /\ queue' = queue
        /\ up' \in [Ids -> BOOLEAN]
    BY DEF RegistryInv, HandlerTypes, AddSecondaryImpl, SetOperational, At, Return,
           postedVars, nodeVars
  <1>2. \A id \in Ids : id \in secondaries' /\ ~up'[id] => id \in secondaries /\ ~up[id]
    BY DEF RegistryInv, HandlerTypes, AddSecondaryImpl, SetOperational, postedVars, nodeVars
  <1>3. RemovalIsPending'
    BY <1>1, <1>2 DEF RegistryInv, RemovalIsPending
  <1> QED
    BY <1>1, <1>3 DEF RegistryInv, HandlerTypes, DestroyedIsEmpty, FoundStaysValid

\* The only step that takes a secondary out of the map ends the only handler
\* that is in the middle of something.
LEMMA EraseStep ==
    ASSUME RegistryInv, Erase
    PROVE  RegistryInv'
  <1>1. /\ handler # Nothing /\ handler' = Nothing
        /\ secondaries' = secondaries \ {handler.call.id}
        /\ UNCHANGED <<node, accepted, queue, up>>
    BY DEF Erase, At, Return, postedVars
  <1>2. \A id \in Ids : id \in secondaries' => handler.call # Removal(id)
    BY <1>1 DEF Removal
  <1>3. RemovalIsPending'
    BY <1>1, <1>2 DEF RegistryInv, RemovalIsPending, Removal
  <1> QED
    BY <1>1, <1>3 DEF RegistryInv, HandlerTypes, DestroyedIsEmpty, FoundStaysValid

\* With MasterNode go the map and the queue.
LEMMA MasterNodeDestroyedStep ==
    ASSUME RegistryInv, MasterNodeDestroyed
    PROVE  RegistryInv'
  BY DEF RegistryInv, MasterNodeDestroyed, MainReturns, HandlerTypes, DestroyedIsEmpty,
         FoundStaysValid, RemovalIsPending

-----------------------------------------------------------------------------
\* RegistryInv holds at the start and along every step.
LEMMA RegistryInvInductive ==
    /\ Init => RegistryInv
    /\ RegistryInv /\ [Next]_vars => RegistryInv'
  <1>1. Init => RegistryInv
    BY DEF Init, RegistryInit, RegistryInv, HandlerTypes, DestroyedIsEmpty,
           FoundStaysValid, RemovalIsPending
  <1>2. ASSUME RegistryInv, [Next]_vars
        PROVE  RegistryInv'
    <2>1. CASE RegistryNext
      <3>1. CASE AddSecondary
        BY <1>2, <3>1, AddSecondaryStep
      <3>2. ASSUME NEW id \in Ids, SecondaryAnnounced(id) \/ EndpointInvalidated(id)
            PROVE  RegistryInv'
        BY <1>2, <3>2, SecondaryAnnouncedStep, EndpointInvalidatedStep
      <3>3. CASE HandlerStep
        BY <1>2, <3>3, StartHandlerStep, InHandlerStep, ReturnStep, EraseStep
        DEF HandlerStep
      <3>4. ASSUME NEW r \in Sessions, SnapshotStep(r)
            PROVE  RegistryInv'
        BY <1>2, <3>4, SnapshotsOnlyRead, UnchangedRegistry
      <3> QED BY <2>1, <3>1, <3>2, <3>3, <3>4 DEF RegistryNext
    <2>2. ASSUME NEW s \in Sessions, SessionNext(s)
          PROVE  RegistryInv'
      BY <1>2, <2>2, SessionsOnlyRead, UnchangedRegistry
    <2>3. CASE MasterNodeDestroyed
      BY <1>2, <2>3, MasterNodeDestroyedStep
    <2>4. CASE UNCHANGED vars
      <3>1. UNCHANGED handlerVars
        BY <2>4 DEF vars, registryVars, postedVars, nodeVars, handlerVars
      <3> QED BY <1>2, <3>1, UnchangedRegistry
    <2> QED BY <1>2, <2>1, <2>2, <2>3, <2>4 DEF Next
  <1> QED BY <1>1, <1>2

\* What onInvalidated and onIncomingSecondaryNodeReady found without the mutex
\* is still in the map whenever they use it, for any number of secondaries
\* and HTTP sessions.
THEOREM FoundCorrect == Spec => []FoundStaysValid
  <1>1. RegistryInv => FoundStaysValid
    BY DEF RegistryInv
  <1> QED BY <1>1, RegistryInvInductive, PTL DEF Spec

\* A registered secondary whose connection is gone always has its removal
\* posted or running: the registry forgets no dead secondary.
THEOREM RemovalCorrect == Spec => []RemovalIsPending
  <1>1. RegistryInv => RemovalIsPending
    BY DEF RegistryInv
  <1> QED BY <1>1, RegistryInvInductive, PTL DEF Spec
=============================================================================
