------------------------------ MODULE Registry ------------------------------
(***************************************************************************)
(* MasterNode's registry of secondaries, step by step under                *)
(* secondariesMutex_.  One thread runs the io_context of MasterNode and is *)
(* the only writer; other threads post to it: the acceptor (addSecondary)  *)
(* and the endpoints (invalidated, incoming_secondaryNodeReady).  Its      *)
(* handlers look a secondary up without the mutex and take it afterwards.  *)
(* HTTP threads copy the registry entry by entry under the shared lock.    *)
(***************************************************************************)
EXTENDS Naturals, Sequences

CONSTANTS MaxSecondaries,  \* bound: connections of secondaries accepted
          Sessions,        \* HTTP sessions; a handler of one takes a snapshot
          Nothing          \* no handler, no snapshot

Ids == 0 .. (MaxSecondaries - 1)

VARIABLES
    node,                \* whether MasterNode exists
    accepted,            \* connections handed to addSecondary
    queue,               \* handlers posted to the io_context of MasterNode
    handler,             \* the handler that runs, and where it stands
    secondaryIdCounter,  \* MasterNode::secondaryIdCounter_
    secondaries,         \* the keys of MasterNode::secondaries_
    state,               \* SecondaryNode::state_; REGISTERING without a node
    friendlyName,        \* SecondaryNode::friendlyName_ has a value
    writer,              \* secondariesMutex_ is held by the handler
    readers,             \* who holds secondariesMutex_ shared
    copying,             \* how far secondariesSnapshot() is
    snapshot,            \* what it has copied
    up,                  \* the endpoint of a secondary runs, not invalidated
    announced            \* secondaries whose secondaryNodeReady call arrived

postedVars   == <<accepted, queue, up, announced>>
nodeVars     == <<node, secondaryIdCounter, secondaries, state, friendlyName>>
snapshotVars == <<readers, copying, snapshot>>
registryVars == <<postedVars, nodeVars, handler, writer, snapshotVars>>

SecondaryStates == {"INVALIDATED", "REGISTERING", "OPERATIONAL"}
Entries         == [id : Ids, state : SecondaryStates, friendlyName : BOOLEAN]
Handlers        == [name : {"add", "ready", "invalidated"}, id : Ids]
Positions       == {"lock", "locked", "named", "marked"}

ASSUME RegistryAssumption ==
    /\ MaxSecondaries \in Nat
    /\ Nothing \notin [call : Handlers, at : Positions]

\* What each variable ranges over.
RegistryTypeOK ==
    /\ node \in {"alive", "destroyed"}
    /\ accepted \in 0 .. MaxSecondaries
    /\ queue \in Seq(Handlers)
    /\ handler \in [call : Handlers, at : Positions] \cup {Nothing}
    /\ secondaryIdCounter \in 0 .. MaxSecondaries
    /\ secondaries \subseteq Ids
    /\ state \in [Ids -> SecondaryStates]
    /\ friendlyName \in [Ids -> BOOLEAN]
    /\ writer \in BOOLEAN
    /\ readers \subseteq Sessions
    /\ copying \in [Sessions -> {"no", "lock", "copy", "done"}]
    /\ snapshot \in [Sessions -> Seq(Entries)]
    /\ up \in [Ids -> BOOLEAN]
    /\ announced \subseteq Ids

RegistryInit ==
    /\ node = "alive"
    /\ accepted = 0
    /\ queue = << >>
    /\ handler = Nothing
    /\ secondaryIdCounter = 0
    /\ secondaries = {}
    /\ state = [id \in Ids |-> "REGISTERING"]
    /\ friendlyName = [id \in Ids |-> FALSE]
    /\ writer = FALSE
    /\ readers = {}
    /\ copying = [r \in Sessions |-> "no"]
    /\ snapshot = [r \in Sessions |-> << >>]
    /\ up = [id \in Ids |-> FALSE]
    /\ announced = {}

-----------------------------------------------------------------------------
(* Other threads post to the io_context of MasterNode.                     *)

\* A handler that finds weakSelf expired returns: it is left out.
Post(name, id) ==
    queue' = IF node = "destroyed" THEN queue
                                   ELSE Append(queue, [name |-> name, id |-> id])

\* addSecondary, on the acceptor's thread; ids are given in this order.
AddSecondary ==
    /\ node # "destroyed"
    /\ accepted < MaxSecondaries
    /\ Post("add", accepted)
    /\ accepted' = accepted + 1
    /\ UNCHANGED <<up, announced, nodeVars, handler, writer, snapshotVars>>

\* incoming_secondaryNodeReady, on the endpoint's thread: a frame whose read
\* has completed is handled even if the socket was invalidated since.
SecondaryAnnounced(id) ==
    /\ node # "destroyed"
    /\ id < secondaryIdCounter
    /\ id \notin announced
    /\ Post("ready", id)
    /\ announced' = announced \cup {id}
    /\ UNCHANGED <<accepted, up, nodeVars, handler, writer, snapshotVars>>

\* Mutant: the slot calls onInvalidated on the endpoint's own thread.
InvalidateAtOnce(id) ==
    /\ up[id]
    /\ ~writer /\ readers = {}
    /\ up' = [up EXCEPT ![id] = FALSE]
    /\ secondaries' = secondaries \ {id}
    /\ state' = [state EXCEPT ![id] = "REGISTERING"]
    /\ friendlyName' = [friendlyName EXCEPT ![id] = FALSE]
    /\ UNCHANGED <<node, accepted, queue, announced, secondaryIdCounter, handler,
                   writer, snapshotVars>>

\* invalidated, on the endpoint's thread; it is emitted once.
EndpointInvalidated(id) ==
    /\ up[id]
    /\ Post("invalidated", id)
    /\ up' = [up EXCEPT ![id] = FALSE]
    /\ UNCHANGED <<accepted, announced, nodeVars, handler, writer, snapshotVars>>

-----------------------------------------------------------------------------
(* The handlers on the io_context of MasterNode.                           *)

\* The next handler starts.  onInvalidated and onIncomingSecondaryNodeReady
\* look the id up, without the mutex, and return if it is not there.
StartHandler ==
    /\ handler = Nothing
    /\ queue # << >>
    /\ queue' = Tail(queue)
    /\ handler' = IF Head(queue).name = "add" \/ Head(queue).id \in secondaries
                  THEN [call |-> Head(queue), at |-> "lock"]
                  ELSE Nothing
    /\ UNCHANGED <<accepted, up, announced, nodeVars, writer, snapshotVars>>

At(name, position) ==
    /\ handler # Nothing
    /\ handler.call.name = name
    /\ handler.at = position

\* Mutant: readers are not waited for.
LockAmongReaders ==
    /\ handler # Nothing
    /\ handler.at = "lock"
    /\ writer' = TRUE
    /\ handler' = [handler EXCEPT !.at = "locked"]
    /\ UNCHANGED <<postedVars, nodeVars, snapshotVars>>

\* std::unique_lock, in all three handlers.
Lock ==
    /\ handler # Nothing
    /\ handler.at = "lock"
    /\ ~writer
    /\ readers = {}
    /\ writer' = TRUE
    /\ handler' = [handler EXCEPT !.at = "locked"]
    /\ UNCHANGED <<postedVars, nodeVars, snapshotVars>>

\* The handler returns and its lock dies.
Return == handler' = Nothing /\ writer' = FALSE

\* addSecondaryImpl: the last thing it does is endpoint->run().
AddSecondaryImpl ==
    /\ At("add", "locked")
    /\ secondaryIdCounter' = secondaryIdCounter + 1
    /\ secondaries' = secondaries \cup {secondaryIdCounter}
    /\ up' = [up EXCEPT ![secondaryIdCounter] = TRUE]
    /\ Return
    /\ UNCHANGED <<node, accepted, queue, announced, state, friendlyName,
                   snapshotVars>>

SetFriendlyName ==
    /\ At("ready", "locked")
    /\ friendlyName' = [friendlyName EXCEPT ![handler.call.id] = TRUE]
    /\ handler' = [handler EXCEPT !.at = "named"]
    /\ UNCHANGED <<postedVars, node, secondaryIdCounter, secondaries, state, writer,
                   snapshotVars>>

\* After it the lock is given back and the call is answered.
SetOperational ==
    /\ At("ready", "named")
    /\ state' = [state EXCEPT ![handler.call.id] = "OPERATIONAL"]
    /\ Return
    /\ UNCHANGED <<postedVars, node, secondaryIdCounter, secondaries, friendlyName,
                   snapshotVars>>

SetInvalidated ==
    /\ At("invalidated", "locked")
    /\ state' = [state EXCEPT ![handler.call.id] = "INVALIDATED"]
    /\ handler' = [handler EXCEPT !.at = "marked"]
    /\ UNCHANGED <<postedVars, node, secondaryIdCounter, secondaries, friendlyName,
                   writer, snapshotVars>>

\* Mutant: the invalidated secondary stays in the map.
ReturnWithoutErase ==
    /\ At("invalidated", "marked")
    /\ Return
    /\ UNCHANGED <<postedVars, nodeVars, snapshotVars>>

\* secondaries_.erase, which destroys the SecondaryNode.
Erase ==
    /\ At("invalidated", "marked")
    /\ secondaries' = secondaries \ {handler.call.id}
    /\ state' = [state EXCEPT ![handler.call.id] = "REGISTERING"]
    /\ friendlyName' = [friendlyName EXCEPT ![handler.call.id] = FALSE]
    /\ Return
    /\ UNCHANGED <<postedVars, node, secondaryIdCounter, snapshotVars>>

HandlerStep ==
    \/ StartHandler
    \/ Lock
    \/ AddSecondaryImpl
    \/ SetFriendlyName \/ SetOperational
    \/ SetInvalidated \/ Erase

-----------------------------------------------------------------------------
(* secondariesSnapshot, on an HTTP thread.                                 *)

\* std::shared_lock
LockShared(r) ==
    /\ copying[r] = "lock"
    /\ ~writer
    /\ readers' = readers \cup {r}
    /\ copying' = [copying EXCEPT ![r] = "copy"]
    /\ UNCHANGED <<postedVars, nodeVars, handler, writer, snapshot>>

Copied(r) == {snapshot[r][i].id : i \in 1 .. Len(snapshot[r])}

\* One round of the loop; the order is that of the unordered_map.
CopyEntry(r, id) ==
    /\ copying[r] = "copy"
    /\ id \in secondaries \ Copied(r)
    /\ snapshot' = [snapshot EXCEPT ![r] =
            Append(@, [id |-> id, state |-> state[id], friendlyName |-> friendlyName[id]])]
    /\ UNCHANGED <<postedVars, nodeVars, handler, writer, readers, copying>>

SnapshotReturns(r) ==
    /\ copying[r] = "copy"
    /\ secondaries \subseteq Copied(r)
    /\ readers' = readers \ {r}
    /\ copying' = [copying EXCEPT ![r] = "done"]
    /\ UNCHANGED <<postedVars, nodeVars, handler, writer, snapshot>>

\* The snapshot is destroyed with the handler, request or session that has it.
SnapshotDestroyed(r) ==
    /\ copying' = [copying EXCEPT ![r] = "no"]
    /\ snapshot' = [snapshot EXCEPT ![r] = << >>]
    /\ UNCHANGED <<postedVars, nodeVars, handler, writer, readers>>

SnapshotStep(r) ==
    \/ LockShared(r)
    \/ \E id \in Ids : CopyEntry(r, id)
    \/ SnapshotReturns(r)

-----------------------------------------------------------------------------
(* The life of MasterNode.                                                 *)

\* The HTTP acceptor has met an error, so context.run() has nothing left to do
\* and main() returns: it lets go of MasterNode while the pools still run.  A
\* handler that holds MasterNode (self) delays this to its end.
MainReturns ==
    /\ node = "alive"
    /\ handler = Nothing
    /\ node' = "destroyed"
    /\ queue' = << >>
    /\ secondaries' = {}
    /\ state' = [id \in Ids |-> "REGISTERING"]
    /\ friendlyName' = [id \in Ids |-> FALSE]
    /\ UNCHANGED <<accepted, up, announced, secondaryIdCounter, handler, writer,
                   snapshotVars>>

RegistryNext ==
    \/ AddSecondary
    \/ \E id \in Ids : SecondaryAnnounced(id) \/ EndpointInvalidated(id)
    \/ HandlerStep
    \/ \E r \in Sessions : SnapshotStep(r)

-----------------------------------------------------------------------------
(* Properties.                                                             *)

\* The iterator that onInvalidated and onIncomingSecondaryNodeReady got from
\* their unlocked find() still points into the map when they use it after
\* waiting for the mutex: nobody else erases, because endpoints post.
FoundStaysValid ==
    handler # Nothing /\ handler.call.name # "add" =>
        handler.call.id \in secondaries

\* What an entry amounts to; a name without OPERATIONAL, or the reverse, is
\* half an announcement, INVALIDATED half a removal.
Shown(entry) ==
    CASE entry.state = "REGISTERING" /\ ~entry.friendlyName -> "REGISTERING"
      [] entry.state = "OPERATIONAL" /\ entry.friendlyName -> "OPERATIONAL"
      [] OTHER -> "torn"

ShownSnapshot(r) ==
    [id \in Ids |->
        IF id \in Copied(r)
        THEN Shown(CHOOSE entry \in {snapshot[r][i] : i \in 1 .. Len(snapshot[r])} :
                        entry.id = id)
        ELSE "absent"]

\* The registry as of the last completed write.
Registered(id) == id \in secondaries /\ state[id] # "INVALIDATED"

\* The promise of AtomicRegistry: every snapshot shows the registry as it was
\* at one moment, never a secondary with a name and without its state, in the
\* middle of being removed, or some entries from before and some from after.
Atomic == INSTANCE AtomicRegistry WITH
    Readers  <- Sessions,
    registry <- [id \in Ids |-> IF Registered(id) THEN state[id] ELSE "absent"],
    gone     <- {id \in Ids : id < secondaryIdCounter /\ ~Registered(id)},
    taken    <- [r \in Sessions |-> IF copying[r] = "done" THEN ShownSnapshot(r)
                                                          ELSE Nothing]

RefinesAtomicRegistry == Atomic!Spec

\* A secondary whose connection is gone is never forgotten in the registry: as
\* long as it is there, its onInvalidated is queued or running, whatever else
\* was posted, announced or copied meanwhile.
RemovalIsPending ==
    \A id \in Ids :
        LET removal == [name |-> "invalidated", id |-> id] IN
        id \in secondaries /\ ~up[id] =>
            \/ \E i \in 1 .. Len(queue) : queue[i] = removal
            \/ handler # Nothing /\ handler.call = removal
=============================================================================
