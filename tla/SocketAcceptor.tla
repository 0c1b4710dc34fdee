--------------------------- MODULE SocketAcceptor ---------------------------
(***************************************************************************)
(* NetUtils::SocketAcceptor with the IOContextPool it draws io_contexts    *)
(* from.  The master runs one acceptor per policy: "random" (HTTP clients) *)
(* takes contexts in turn, "leastLoaded" (secondaries) takes the one with  *)
(* the fewest LoadGuards.  The context is chosen when accept is armed, so  *)
(* the acceptor itself holds a guard while it waits.                       *)
(***************************************************************************)
EXTENDS Naturals, FiniteSets, FiniteSetsExt

CONSTANTS PoolSize,   \* the size given to IOContextPool::create
          Clients,    \* peers that connect, each once
          Policies,   \* policies to consider
          None        \* no context

ASSUME SocketAcceptorAssumption ==
    /\ PoolSize \in Nat
    /\ IsFiniteSet(Clients)
    /\ Policies \subseteq {"random", "leastLoaded"}
    /\ None \notin Nat

\* std::max(size, 1)
Size     == IF PoolSize = 0 THEN 1 ELSE PoolSize
Contexts == 0 .. (Size - 1)

VARIABLES
    policy,       \* which acceptOne run() chose; fixed
    nextCounter,  \* IOContextPool::nextCounter_
    load,         \* IOContextPool::load_
    armed,        \* the context of the outstanding async_accept
    backlog,      \* clients connected and not accepted
    sessions,     \* the context each accepted client's session runs on
    closed        \* clients that have come and gone

vars == <<policy, nextCounter, load, armed, backlog, sessions, closed>>

\* One type invariant: what each variable ranges over.
TypeOK ==
    /\ policy \in Policies
    /\ nextCounter \in Nat
    /\ load \in [Contexts -> Nat]
    /\ armed \in Contexts \cup {None}
    /\ backlog \subseteq Clients
    /\ sessions \in [Clients -> Contexts \cup {None}]
    /\ closed \subseteq Clients

-----------------------------------------------------------------------------
(* IOContextPool.                                                          *)

\* Mutant: the counter is used as it is.
GetCounter(counter) == counter

GetNext(counter) == counter % Size

\* Mutant: the comparison is the wrong way round.
GetMostLoaded(l) ==
    Min({i \in Contexts : \A j \in Contexts : l[i] >= l[j]})

\* The first context of least load.
GetLeastLoaded(l) ==
    Min({i \in Contexts : \A j \in Contexts : l[i] <= l[j]})

IncLoad(l, i) == [l EXCEPT ![i] = @ + 1]

\* Mutant: a guard that dies leaves its load behind.
KeepLoad(l, i) == l

\* LoadGuard's destructor.
DecLoad(l, i) == [l EXCEPT ![i] = IF @ > 0 THEN @ - 1 ELSE @]

-----------------------------------------------------------------------------
(* SocketAcceptor.                                                         *)

\* acceptOne with the loads l: choose a context and wait for a socket.
AcceptOne(l) ==
    IF policy = "random"
    THEN /\ armed' = GetNext(nextCounter)
         /\ nextCounter' = nextCounter + 1
         /\ load' = l
    ELSE /\ armed' = GetLeastLoaded(l)
         /\ load' = IncLoad(l, GetLeastLoaded(l))
         /\ UNCHANGED nextCounter

Init ==
    /\ policy \in Policies
    /\ backlog = {}
    /\ sessions = [c \in Clients |-> None]
    /\ closed = {}
    /\ IF policy = "random"
       THEN armed = GetNext(0) /\ nextCounter = 1 /\ load = [i \in Contexts |-> 0]
       ELSE /\ armed = GetLeastLoaded([i \in Contexts |-> 0])
            /\ nextCounter = 0
            /\ load = IncLoad([i \in Contexts |-> 0], armed)

Arrive(c) ==
    /\ c \notin backlog \cup closed
    /\ sessions[c] = None
    /\ backlog' = backlog \cup {c}
    /\ UNCHANGED <<policy, nextCounter, load, armed, sessions, closed>>

\* The accept handler: the new socket callback, then acceptOne again.
Accept(c) ==
    /\ armed # None
    /\ c \in backlog
    /\ backlog' = backlog \ {c}
    /\ sessions' = [sessions EXCEPT ![c] = armed]
    /\ AcceptOne(load)
    /\ UNCHANGED <<policy, closed>>

\* The accept handler with an error: return; its LoadGuard dies with it.
AcceptFails ==
    /\ armed # None
    /\ backlog # {}
    /\ load' = IF policy = "random" THEN load ELSE DecLoad(load, armed)
    /\ armed' = None
    /\ UNCHANGED <<policy, nextCounter, backlog, sessions, closed>>

\* The owner of the client's session lets go of it and of its LoadGuard.
SessionEnds(c) ==
    /\ sessions[c] # None
    /\ sessions' = [sessions EXCEPT ![c] = None]
    /\ closed' = closed \cup {c}
    /\ load' = IF policy = "random" THEN load ELSE DecLoad(load, sessions[c])
    /\ UNCHANGED <<policy, nextCounter, armed, backlog>>

Next ==
    \/ \E c \in Clients : Arrive(c) \/ Accept(c) \/ SessionEnds(c)
    \/ AcceptFails

Spec == Init /\ [][Next]_vars

\* An accept that is armed while somebody waits completes.
FairSpec == Spec /\ WF_vars(AcceptFails \/ \E c \in Clients : Accept(c))

-----------------------------------------------------------------------------
(* Properties.                                                             *)

OnContext(i) == {c \in Clients : sessions[c] = i}

\* load_[i] is the number of LoadGuards on context i, those of sessions and
\* the acceptor's own; no guard is lost or counted twice.
LoadMatchesGuards ==
    policy = "leastLoaded" =>
        \A i \in Contexts :
            load[i] = Cardinality(OnContext(i)) + (IF armed = i THEN 1 ELSE 0)

\* Contexts are shared out evenly until sessions end: a context is chosen one
\* session ahead, on loads that already count the session before it.
SessionsAreSpread ==
    closed = {} =>
        \A i, j \in Contexts :
            Cardinality(OnContext(i)) <= Cardinality(OnContext(j)) + 1

\* "forever accepts sockets and calls new_socket_callback_fn": whoever
\* connects is accepted in the end.
AcceptsForever == \A c \in Clients : c \in backlog ~> c \notin backlog
=============================================================================
