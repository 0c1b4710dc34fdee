------------------------ MODULE SocketAcceptorProofs ------------------------
(***************************************************************************)
(* Proofs about SocketAcceptor, for every pool size and any number of      *)
(* clients: no LoadGuard is lost, and sessions are shared out evenly.      *)
(***************************************************************************)
EXTENDS SocketAcceptor, FiniteSetTheorems, WellFoundedInduction, TLAPS

-----------------------------------------------------------------------------
(* The strengthening.                                                      *)

\* Who waits has no session yet.
BacklogWaits == \A c \in backlog : sessions[c] = None

\* Where "random" is in its round: the armed context comes from the counter.
ArmedInTurn ==
    policy = "random" =>
        /\ nextCounter > 0
        /\ armed # None => armed = GetNext(nextCounter - 1)

\* Until sessions end, "random" has gone round some number of times and has
\* reached context m.
RoundsAreFull ==
    policy = "random" /\ closed = {} =>
        \E q \in Nat, m \in Contexts :
            /\ \A i \in Contexts : Cardinality(OnContext(i)) = q + (IF i < m THEN 1 ELSE 0)
            /\ armed # None => armed = m

\* Until sessions end, the loads are at most one apart and the context that
\* was armed last is among the fullest.
LoadsAreLevel ==
    policy = "leastLoaded" /\ closed = {} =>
        /\ \A i, j \in Contexts : load[i] <= load[j] + 1
        /\ armed # None => \A i \in Contexts : load[i] <= load[armed]

AcceptorInv ==
    /\ TypeOK
    /\ BacklogWaits
    /\ LoadMatchesGuards
    /\ ArmedInTurn
    /\ RoundsAreFull
    /\ LoadsAreLevel

-----------------------------------------------------------------------------
(* Helpers.                                                                *)

\* std::max(size, 1): there is a context 0, and None is not a context.
LEMMA SizeProps ==
    /\ Size \in Nat \ {0}
    /\ 0 \in Contexts
    /\ Contexts \subseteq Nat
    /\ None \notin Contexts
<1>1. Size \in Nat \ {0}
  BY SocketAcceptorAssumption DEF Size
<1>. QED
  BY <1>1, SocketAcceptorAssumption DEF Contexts

\* A non-empty set of naturals has a minimum, which is what Min returns.
LEMMA MinIsLeast ==
    ASSUME NEW S \in SUBSET Nat, S # {}
    PROVE  Min(S) \in S /\ \A y \in S : Min(S) <= y
<1>1. \E x \in S : \A y \in S : ~(<<y, x>> \in OpToRel(<, Nat))
  BY WFMin, NatLessThanWellFounded
<1>2. ASSUME NEW x \in Nat, NEW y \in Nat, y < x
      PROVE  <<y, x>> \in OpToRel(<, Nat)
  BY <1>2, Zenon DEF OpToRel
<1>3. PICK x \in S : \A y \in S : ~(<<y, x>> \in OpToRel(<, Nat))
  BY <1>1
<1>4. \A y \in S : ~(y < x)
  BY <1>2, <1>3
<1>5. \E z \in S : \A y \in S : z <= y
  BY <1>4
<1>. QED
  BY <1>5 DEF Min

\* getLeastLoaded yields a context, and none has less load.
LEMMA GetLeastLoadedIsLeast ==
    ASSUME NEW l \in [Contexts -> Nat]
    PROVE  /\ GetLeastLoaded(l) \in Contexts
           /\ \A j \in Contexts : l[GetLeastLoaded(l)] <= l[j]
<1>. DEFINE loads == {l[i] : i \in Contexts}
            least == {i \in Contexts : \A j \in Contexts : l[i] <= l[j]}
<1>1. loads \in SUBSET Nat /\ loads # {}
  BY SizeProps
<1>2. Min(loads) \in loads /\ \A y \in loads : Min(loads) <= y
  <2>. HIDE DEF loads
  <2>. QED
    BY <1>1, MinIsLeast
<1>3. least # {}
  <2>1. PICK i \in Contexts : Min(loads) = l[i]
    BY <1>2
  <2>2. \A j \in Contexts : l[j] \in loads
    OBVIOUS
  <2>3. \A j \in Contexts : l[i] <= l[j]
    <3>. HIDE DEF loads
    <3>. QED
      BY <1>2, <2>1, <2>2
  <2>. QED
    BY <2>3
<1>4. least \in SUBSET Nat
  BY SizeProps
<1>5. Min(least) \in least
  <2>. HIDE DEF least
  <2>. QED
    BY <1>3, <1>4, MinIsLeast
<1>. QED
  BY <1>5 DEF GetLeastLoaded

\* getNext walks through the contexts and starts over after the last.
LEMMA GetNextWalks ==
    ASSUME NEW k \in Nat
    PROVE  /\ GetNext(k) \in Contexts
           /\ GetNext(k + 1) = IF GetNext(k) = Size - 1 THEN 0 ELSE GetNext(k) + 1
<1>1. Size \in Nat \ {0}
  BY SizeProps
<1>2. GetNext(k) \in 0 .. (Size - 1) /\ GetNext(k + 1) \in 0 .. (Size - 1)
  BY <1>1 DEF GetNext
<1>. DEFINE q == k \div Size
            p == (k + 1) \div Size
            r == GetNext(k)
            t == GetNext(k + 1)
<1>3. /\ q \in Int /\ p \in Int
      /\ k = Size * q + r
      /\ k + 1 = Size * p + t
  BY <1>1 DEF GetNext
<1>. HIDE DEF q, p, r, t
<1>4. \A a, b \in Int : a <= b => Size * a <= Size * b
  BY <1>1, SMTT(30)
<1>5. /\ Size * (q - 1) = Size * q - Size
      /\ Size * (q + 1) = Size * q + Size
      /\ Size * (q + 2) = Size * q + Size + Size
      /\ Size * q \in Int /\ Size * p \in Int
  BY <1>1, <1>3, SMTT(30)
<1>6. r \in 0 .. (Size - 1) /\ t \in 0 .. (Size - 1)
  BY <1>2 DEF r, t
<1>7. p = q \/ p = q + 1
  <2>1. ~(p <= q - 1)
    <3>. SUFFICES ASSUME p <= q - 1 PROVE FALSE
      OBVIOUS
    <3>1. Size * p <= Size * (q - 1)
      BY <1>3, <1>4
    <3>. QED
      BY <1>1, <1>3, <1>5, <1>6, <3>1
  <2>2. ~(q + 2 <= p)
    <3>. SUFFICES ASSUME q + 2 <= p PROVE FALSE
      OBVIOUS
    <3>1. Size * (q + 2) <= Size * p
      BY <1>3, <1>4
    <3>. QED
      BY <1>1, <1>3, <1>5, <1>6, <3>1
  <2>. QED
    BY <1>3, <2>1, <2>2
<1>8. t = IF r = Size - 1 THEN 0 ELSE r + 1
  BY <1>1, <1>3, <1>5, <1>6, <1>7
<1>. QED
  BY <1>2, <1>8 DEF Contexts, r, t

\* The sessions of a context are finitely many.
LEMMA OnContextFinite ==
    \A i : IsFiniteSet(OnContext(i)) /\ Cardinality(OnContext(i)) \in Nat
<1>1. \A i : IsFiniteSet(OnContext(i))
  BY SocketAcceptorAssumption, FS_Subset DEF OnContext
<1>. QED
  BY <1>1, FS_CardinalityType

\* A session that starts is counted on its context and on no other.
LEMMA SessionStartsOn ==
    ASSUME TypeOK, NEW c \in Clients, NEW a \in Contexts, sessions[c] = None,
           sessions' = [sessions EXCEPT ![c] = a], NEW i \in Contexts
    PROVE  Cardinality(OnContext(i)') = Cardinality(OnContext(i)) + (IF i = a THEN 1 ELSE 0)
<1>1. i # None
  BY SizeProps
<1>2. \A d \in Clients : sessions'[d] = IF d = c THEN a ELSE sessions[d]
  BY DEF TypeOK
<1>3. CASE i = a
  <2>1. OnContext(i)' = OnContext(i) \cup {c} /\ c \notin OnContext(i)
    BY <1>1, <1>2, <1>3 DEF OnContext
  <2>. QED
    BY <1>3, <2>1, OnContextFinite, FS_AddElement
<1>4. CASE i # a
  <2>1. OnContext(i)' = OnContext(i)
    BY <1>1, <1>2, <1>4 DEF OnContext
  <2>. QED
    BY <1>4, <2>1, OnContextFinite
<1>. QED
  BY <1>3, <1>4

\* A session that ends is no longer counted on its context.
LEMMA SessionEndsOn ==
    ASSUME TypeOK, NEW c \in Clients, sessions[c] # None,
           sessions' = [sessions EXCEPT ![c] = None], NEW i \in Contexts
    PROVE  /\ Cardinality(OnContext(i)') \in Nat
           /\ Cardinality(OnContext(i)) = Cardinality(OnContext(i)') + (IF i = sessions[c] THEN 1 ELSE 0)
<1>1. i # None
  BY SizeProps
<1>2. \A d \in Clients : sessions'[d] = IF d = c THEN None ELSE sessions[d]
  BY DEF TypeOK
<1>0. IsFiniteSet(OnContext(i)')
  BY SocketAcceptorAssumption, FS_Subset DEF OnContext
<1>3. CASE i = sessions[c]
  <2>1. OnContext(i) = OnContext(i)' \cup {c} /\ c \notin OnContext(i)'
    BY <1>1, <1>2, <1>3 DEF OnContext
  <2>. QED
    BY <1>0, <1>3, <2>1, FS_CardinalityType, FS_AddElement
<1>4. CASE i # sessions[c]
  <2>1. OnContext(i)' = OnContext(i)
    BY <1>1, <1>2, <1>4 DEF OnContext
  <2>. QED
    BY <1>4, <2>1, OnContextFinite
<1>. QED
  BY <1>3, <1>4

-----------------------------------------------------------------------------
(* The invariants.                                                         *)

\* The acceptor starts with one accept armed.
LEMMA AcceptorInit == Init => AcceptorInv
<1>. SUFFICES ASSUME Init PROVE AcceptorInv
  OBVIOUS
<1>. DEFINE zero == [i \in Contexts |-> 0]
<1>0. /\ zero \in [Contexts -> Nat]
      /\ GetLeastLoaded(zero) \in Contexts
      /\ GetNext(0) \in Contexts
  BY GetLeastLoadedIsLeast, GetNextWalks
<1>p. policy \in Policies /\ policy \in {"random", "leastLoaded"}
  BY SocketAcceptorAssumption DEF Init
<1>1. TypeOK
  <2>1. CASE policy = "random"
    BY <1>0, <1>p, <2>1 DEF Init, TypeOK
  <2>2. CASE policy # "random"
    <3>1. armed = GetLeastLoaded(zero) /\ nextCounter = 0 /\ load = IncLoad(zero, armed)
      BY <2>2 DEF Init
    <3>. HIDE DEF zero
    <3>2. load \in [Contexts -> Nat] /\ armed \in Contexts
      BY <1>0, <3>1 DEF IncLoad
    <3>. QED
      BY <1>p, <3>1, <3>2 DEF Init, TypeOK
  <2>. QED
    BY <2>1, <2>2
<1>2. \A i \in Contexts : Cardinality(OnContext(i)) = 0
  <2>1. \A i \in Contexts : OnContext(i) = {}
    BY SizeProps DEF Init, OnContext
  <2>. QED
    BY <2>1, FS_EmptySet
<1>3. BacklogWaits
  BY DEF Init, BacklogWaits
<1>4. policy = "leastLoaded" => \A i \in Contexts : load[i] = IF armed = i THEN 1 ELSE 0
  BY <1>0 DEF Init, IncLoad
<1>5. LoadMatchesGuards /\ LoadsAreLevel
  BY <1>1, <1>2, <1>4, SizeProps DEF LoadMatchesGuards, LoadsAreLevel, TypeOK
<1>6. ArmedInTurn
  BY DEF Init, ArmedInTurn
<1>7. RoundsAreFull
  <2>1. Size \in Nat \ {0} /\ GetNext(0) = 0
    BY SizeProps DEF GetNext
  <2>. QED
    BY <1>2, <2>1, SizeProps DEF RoundsAreFull, Init, Contexts
<1>. QED
  BY <1>1, <1>3, <1>5, <1>6, <1>7 DEF AcceptorInv

\* A client that connects disturbs nothing.
LEMMA ArriveKeeps ==
    ASSUME AcceptorInv, NEW c \in Clients, Arrive(c)
    PROVE  AcceptorInv'
<1>1. /\ backlog' = backlog \cup {c} /\ sessions[c] = None
      /\ UNCHANGED <<policy, nextCounter, load, armed, sessions, closed>>
  BY DEF Arrive
<1>2. TypeOK' /\ BacklogWaits'
  BY <1>1 DEF AcceptorInv, TypeOK, BacklogWaits
<1>3. \A i \in Contexts : OnContext(i)' = OnContext(i)
  BY <1>1 DEF OnContext
<1>4. LoadMatchesGuards'
  BY <1>1, <1>3 DEF AcceptorInv, LoadMatchesGuards
<1>5. RoundsAreFull'
  BY <1>1, <1>3 DEF AcceptorInv, RoundsAreFull
<1>6. ArmedInTurn' /\ LoadsAreLevel'
  BY <1>1 DEF AcceptorInv, ArmedInTurn, LoadsAreLevel
<1>. QED
  BY <1>2, <1>4, <1>5, <1>6 DEF AcceptorInv

\* An accept under "random": the round goes on by one context.
LEMMA AcceptRandomKeeps ==
    ASSUME AcceptorInv, NEW c \in Clients, Accept(c), policy = "random"
    PROVE  AcceptorInv'
<1>t. TypeOK /\ BacklogWaits /\ ArmedInTurn /\ RoundsAreFull
  BY DEF AcceptorInv
<1>1. /\ armed \in Contexts /\ armed # None /\ c \in backlog
      /\ backlog' = backlog \ {c}
      /\ sessions' = [sessions EXCEPT ![c] = armed]
      /\ armed' = GetNext(nextCounter) /\ nextCounter' = nextCounter + 1
      /\ UNCHANGED <<policy, closed, load>>
  BY <1>t DEF Accept, AcceptOne, TypeOK
<1>2. nextCounter \in Nat /\ nextCounter - 1 \in Nat /\ armed = GetNext(nextCounter - 1)
  BY <1>t, <1>1 DEF TypeOK, ArmedInTurn
<1>3. /\ armed' \in Contexts
      /\ armed' = IF armed = Size - 1 THEN 0 ELSE armed + 1
  <2>1. (nextCounter - 1) + 1 = nextCounter
    BY <1>2
  <2>2. GetNext((nextCounter - 1) + 1) = IF GetNext(nextCounter - 1) = Size - 1 THEN 0 ELSE GetNext(nextCounter - 1) + 1
    BY <1>2, GetNextWalks
  <2>3. GetNext(nextCounter) \in Contexts
    BY <1>2, GetNextWalks
  <2>. QED
    BY <1>1, <1>2, <2>1, <2>2, <2>3
<1>4. sessions[c] = None
  BY <1>t, <1>1 DEF BacklogWaits
<1>5. TypeOK'
  BY <1>t, <1>1, <1>2, <1>3 DEF TypeOK
<1>6. BacklogWaits'
  BY <1>t, <1>1 DEF BacklogWaits, TypeOK
<1>7. ArmedInTurn'
  BY <1>1, <1>2 DEF ArmedInTurn
<1>8. LoadMatchesGuards' /\ LoadsAreLevel'
  BY <1>1 DEF LoadMatchesGuards, LoadsAreLevel
<1>9. RoundsAreFull'
  <2>. SUFFICES ASSUME closed = {}
                PROVE  \E q \in Nat, m \in Contexts :
                          /\ \A i \in Contexts : Cardinality(OnContext(i)') = q + (IF i < m THEN 1 ELSE 0)
                          /\ armed' # None => armed' = m
    BY <1>1 DEF RoundsAreFull
  <2>1. PICK q \in Nat : \A i \in Contexts : Cardinality(OnContext(i)) = q + (IF i < armed THEN 1 ELSE 0)
    BY <1>t, <1>1 DEF RoundsAreFull
  <2>2. \A i \in Contexts : Cardinality(OnContext(i)') = Cardinality(OnContext(i)) + (IF i = armed THEN 1 ELSE 0)
    BY <1>t, <1>1, <1>4, SessionStartsOn
  <2>3. \A i \in Contexts : i \in 0 .. (Size - 1)
    BY DEF Contexts
  <2>4. armed \in 0 .. (Size - 1) /\ Size \in Nat \ {0}
    BY <1>1, SizeProps DEF Contexts
  <2>5. \A i \in Contexts : Cardinality(OnContext(i)') = q + (IF i <= armed THEN 1 ELSE 0)
    BY <2>1, <2>2, <2>3, <2>4
  <2>6. CASE armed = Size - 1
    <3>1. armed' = 0 /\ q + 1 \in Nat
      BY <1>3, <2>6
    <3>2. \A i \in Contexts : Cardinality(OnContext(i)') = (q + 1) + (IF i < 0 THEN 1 ELSE 0)
      BY <2>3, <2>4, <2>5, <2>6
    <3>. QED
      BY <3>1, <3>2, SizeProps
  <2>7. CASE armed # Size - 1
    <3>1. armed' = armed + 1
      BY <1>3, <2>7
    <3>2. \A i \in Contexts : Cardinality(OnContext(i)') = q + (IF i < armed' THEN 1 ELSE 0)
      BY <2>3, <2>4, <2>5, <3>1
    <3>. QED
      BY <1>3, <3>2
  <2>. QED
    BY <2>6, <2>7
<1>. QED
  BY <1>5, <1>6, <1>7, <1>8, <1>9 DEF AcceptorInv

\* An accept under "leastLoaded": the guard that waited becomes the session's
\* and the next one is taken where there are fewest.
LEMMA AcceptLeastLoadedKeeps ==
    ASSUME AcceptorInv, NEW c \in Clients, Accept(c), policy = "leastLoaded"
    PROVE  AcceptorInv'
<1>. DEFINE a == GetLeastLoaded(load)
<1>t. TypeOK /\ BacklogWaits /\ LoadMatchesGuards /\ LoadsAreLevel
  BY DEF AcceptorInv
<1>0. a \in Contexts /\ \A j \in Contexts : load[a] <= load[j]
  BY <1>t, GetLeastLoadedIsLeast DEF TypeOK
<1>1. /\ armed \in Contexts /\ armed # None /\ c \in backlog
      /\ backlog' = backlog \ {c}
      /\ sessions' = [sessions EXCEPT ![c] = armed]
      /\ armed' = a /\ load' = IncLoad(load, a)
      /\ UNCHANGED <<policy, closed, nextCounter>>
  BY <1>t DEF Accept, AcceptOne, TypeOK
<1>. HIDE DEF a
<1>2. load' \in [Contexts -> Nat] /\ \A i \in Contexts : load'[i] = load[i] + (IF i = a THEN 1 ELSE 0)
  BY <1>t, <1>0, <1>1 DEF IncLoad, TypeOK
<1>4. sessions[c] = None
  BY <1>t, <1>1 DEF BacklogWaits
<1>5. TypeOK'
  BY <1>t, <1>0, <1>1, <1>2 DEF TypeOK
<1>6. BacklogWaits'
  BY <1>t, <1>1 DEF BacklogWaits, TypeOK
<1>7. ArmedInTurn' /\ RoundsAreFull'
  BY <1>1 DEF ArmedInTurn, RoundsAreFull
<1>8. LoadMatchesGuards'
  <2>1. \A i \in Contexts : Cardinality(OnContext(i)') = Cardinality(OnContext(i)) + (IF i = armed THEN 1 ELSE 0)
    BY <1>t, <1>1, <1>4, SessionStartsOn
  <2>2. \A i \in Contexts : load[i] = Cardinality(OnContext(i)) + (IF armed = i THEN 1 ELSE 0)
    BY <1>t DEF LoadMatchesGuards
  <2>3. ASSUME NEW i \in Contexts
        PROVE  load'[i] = Cardinality(OnContext(i)') + (IF armed' = i THEN 1 ELSE 0)
    <3>1. Cardinality(OnContext(i)') = load[i]
      BY <2>1, <2>2
    <3>. QED
      BY <1>1, <1>2, <3>1
  <2>. QED
    BY <2>3 DEF LoadMatchesGuards
<1>9. LoadsAreLevel'
  <2>. SUFFICES ASSUME closed = {}
                PROVE  /\ \A i, j \in Contexts : load'[i] <= load'[j] + 1
                       /\ \A i \in Contexts : load'[i] <= load'[a]
    BY <1>1 DEF LoadsAreLevel
  <2>1. \A i, j \in Contexts : load[i] <= load[j] + 1
    BY <1>t DEF LoadsAreLevel
  <2>2. \A i \in Contexts : load[i] \in Nat
    BY <1>t DEF TypeOK
  <2>. QED
    BY <1>0, <1>2, <2>1, <2>2
<1>. QED
  BY <1>5, <1>6, <1>7, <1>8, <1>9 DEF AcceptorInv

\* An accept that fails gives its guard back.
LEMMA AcceptFailsKeeps ==
    ASSUME AcceptorInv, AcceptFails
    PROVE  AcceptorInv'
<1>t. TypeOK /\ BacklogWaits /\ LoadMatchesGuards /\ LoadsAreLevel /\ ArmedInTurn /\ RoundsAreFull
  BY DEF AcceptorInv
<1>1. /\ armed \in Contexts /\ armed # None /\ armed' = None
      /\ UNCHANGED <<policy, nextCounter, backlog, sessions, closed>>
  BY <1>t DEF AcceptFails, TypeOK
<1>2. policy = "random" \/ policy = "leastLoaded"
  BY <1>t, SocketAcceptorAssumption DEF TypeOK
<1>3. /\ load' \in [Contexts -> Nat]
      /\ policy = "leastLoaded" =>
            \A i \in Contexts : load[i] = load'[i] + (IF i = armed THEN 1 ELSE 0)
  <2>1. CASE policy = "random"
    BY <1>t, <2>1 DEF AcceptFails, TypeOK
  <2>2. CASE policy = "leastLoaded"
    <3>1. load' = DecLoad(load, armed)
      BY <2>2 DEF AcceptFails
    <3>2. load[armed] > 0
      BY <1>t, <1>1, <2>2, OnContextFinite DEF LoadMatchesGuards
    <3>. QED
      BY <1>t, <1>1, <3>1, <3>2 DEF DecLoad, TypeOK
  <2>. QED
    BY <1>2, <2>1, <2>2
<1>4. TypeOK' /\ BacklogWaits' /\ ArmedInTurn'
  BY <1>t, <1>1, <1>3 DEF TypeOK, BacklogWaits, ArmedInTurn
<1>5. RoundsAreFull'
  BY <1>t, <1>1 DEF RoundsAreFull, OnContext
<1>6. LoadMatchesGuards'
  <2>. SUFFICES ASSUME policy = "leastLoaded", NEW i \in Contexts
                PROVE  load'[i] = Cardinality(OnContext(i)') + (IF armed' = i THEN 1 ELSE 0)
    BY <1>1 DEF LoadMatchesGuards
  <2>1. OnContext(i)' = OnContext(i) /\ armed' # i
    BY <1>1, SizeProps DEF OnContext
  <2>2. load[i] = Cardinality(OnContext(i)) + (IF armed = i THEN 1 ELSE 0)
    BY <1>t DEF LoadMatchesGuards
  <2>3. load[i] = load'[i] + (IF i = armed THEN 1 ELSE 0) /\ load'[i] \in Nat
    BY <1>3
  <2>. QED
    BY <2>1, <2>2, <2>3, OnContextFinite
<1>7. LoadsAreLevel'
  <2>. SUFFICES ASSUME policy = "leastLoaded", closed = {}
                PROVE  \A i, j \in Contexts : load'[i] <= load'[j] + 1
    BY <1>1 DEF LoadsAreLevel
  <2>1. \A i, j \in Contexts : load[i] <= load[j] + 1 /\ load[i] <= load[armed]
    BY <1>t, <1>1 DEF LoadsAreLevel
  <2>2. \A i \in Contexts : load'[i] \in Nat
    BY <1>3
  <2>. QED
    BY <1>1, <1>3, <2>1, <2>2
<1>. QED
  BY <1>4, <1>5, <1>6, <1>7 DEF AcceptorInv

\* A session that ends gives its guard back.
LEMMA SessionEndsKeeps ==
    ASSUME AcceptorInv, NEW c \in Clients, SessionEnds(c)
    PROVE  AcceptorInv'
<1>t. TypeOK /\ BacklogWaits /\ LoadMatchesGuards /\ ArmedInTurn
  BY DEF AcceptorInv
<1>1. /\ sessions[c] # None /\ sessions[c] \in Contexts
      /\ sessions' = [sessions EXCEPT ![c] = None]
      /\ closed' = closed \cup {c}
      /\ UNCHANGED <<policy, nextCounter, armed, backlog>>
  BY <1>t DEF SessionEnds, TypeOK
<1>2. policy = "random" \/ policy = "leastLoaded"
  BY <1>t, SocketAcceptorAssumption DEF TypeOK
<1>c. \A i \in Contexts :
        /\ Cardinality(OnContext(i)') \in Nat
        /\ Cardinality(OnContext(i)) = Cardinality(OnContext(i)') + (IF i = sessions[c] THEN 1 ELSE 0)
  BY <1>t, <1>1, SessionEndsOn
<1>3. /\ load' \in [Contexts -> Nat]
      /\ policy = "leastLoaded" =>
            \A i \in Contexts : load[i] = load'[i] + (IF i = sessions[c] THEN 1 ELSE 0)
  <2>1. CASE policy = "random"
    BY <1>t, <2>1 DEF SessionEnds, TypeOK
  <2>2. CASE policy = "leastLoaded"
    <3>1. load' = DecLoad(load, sessions[c])
      BY <2>2 DEF SessionEnds
    <3>2. load[sessions[c]] > 0
      BY <1>t, <1>1, <1>c, <2>2 DEF LoadMatchesGuards
    <3>. QED
      BY <1>t, <1>1, <3>1, <3>2 DEF DecLoad, TypeOK
  <2>. QED
    BY <1>2, <2>1, <2>2
<1>4. TypeOK' /\ BacklogWaits' /\ ArmedInTurn'
  BY <1>t, <1>1, <1>3 DEF TypeOK, BacklogWaits, ArmedInTurn
<1>5. RoundsAreFull' /\ LoadsAreLevel'
  BY <1>1 DEF RoundsAreFull, LoadsAreLevel
<1>6. LoadMatchesGuards'
  <2>. SUFFICES ASSUME policy = "leastLoaded", NEW i \in Contexts
                PROVE  load'[i] = Cardinality(OnContext(i)') + (IF armed = i THEN 1 ELSE 0)
    BY <1>1 DEF LoadMatchesGuards
  <2>1. load[i] = Cardinality(OnContext(i)) + (IF armed = i THEN 1 ELSE 0)
    BY <1>t DEF LoadMatchesGuards
  <2>2. load[i] = load'[i] + (IF i = sessions[c] THEN 1 ELSE 0) /\ load'[i] \in Nat
    BY <1>3
  <2>. QED
    BY <1>c, <2>1, <2>2
<1>. QED
  BY <1>4, <1>5, <1>6 DEF AcceptorInv

\* The strengthened invariant holds in every reachable state.
LEMMA AcceptorInvariance == Spec => []AcceptorInv
<1>1. AcceptorInv /\ [Next]_vars => AcceptorInv'
  <2>. SUFFICES ASSUME AcceptorInv, [Next]_vars PROVE AcceptorInv'
    OBVIOUS
  <2>1. policy = "random" \/ policy = "leastLoaded"
    BY SocketAcceptorAssumption DEF AcceptorInv, TypeOK
  <2>2. CASE Next
    BY <2>1, <2>2, ArriveKeeps, AcceptRandomKeeps, AcceptLeastLoadedKeeps, AcceptFailsKeeps,
       SessionEndsKeeps DEF Next
  <2>3. CASE UNCHANGED vars
    <3>1. UNCHANGED <<policy, nextCounter, load, armed, backlog, sessions, closed>>
      BY <2>3 DEF vars
    <3>2. TypeOK' /\ BacklogWaits'
      BY <3>1 DEF AcceptorInv, TypeOK, BacklogWaits
    <3>c. \A i \in Contexts : OnContext(i)' = OnContext(i)
      BY <3>1 DEF OnContext
    <3>l. LoadMatchesGuards'
      BY <3>1, <3>c DEF AcceptorInv, LoadMatchesGuards
    <3>r. RoundsAreFull'
      BY <3>1, <3>c DEF AcceptorInv, RoundsAreFull
    <3>3. LoadMatchesGuards' /\ RoundsAreFull'
      BY <3>l, <3>r
    <3>4. ArmedInTurn' /\ LoadsAreLevel'
      BY <3>1 DEF AcceptorInv, ArmedInTurn, LoadsAreLevel
    <3>. QED
      BY <3>2, <3>3, <3>4 DEF AcceptorInv
  <2>. QED
    BY <2>2, <2>3
<1>. QED
  BY <1>1, AcceptorInit, PTL DEF Spec

\* The variables of the acceptor keep their types: in particular every
\* context that is chosen exists.
THEOREM AcceptorTypeCorrect == Spec => []TypeOK
<1>1. AcceptorInv => TypeOK
  BY DEF AcceptorInv
<1>. QED
  BY <1>1, AcceptorInvariance, PTL

\* load_ counts the LoadGuards: none is lost or released twice, whatever the
\* order in which sessions start and end and an accept fails.
THEOREM LoadsCorrect == Spec => []LoadMatchesGuards
<1>1. AcceptorInv => LoadMatchesGuards
  BY DEF AcceptorInv
<1>. QED
  BY <1>1, AcceptorInvariance, PTL

\* Both policies share sessions out evenly over a pool of any size until the
\* first session ends.
THEOREM SharedEvenly == Spec => []SessionsAreSpread
<1>1. AcceptorInv => SessionsAreSpread
  <2>. SUFFICES ASSUME AcceptorInv, closed = {}, NEW i \in Contexts, NEW j \in Contexts
                PROVE  Cardinality(OnContext(i)) <= Cardinality(OnContext(j)) + 1
    BY DEF SessionsAreSpread
  <2>0. policy = "random" \/ policy = "leastLoaded"
    BY SocketAcceptorAssumption DEF AcceptorInv, TypeOK
  <2>1. CASE policy = "random"
    BY <2>1 DEF AcceptorInv, RoundsAreFull
  <2>2. CASE policy = "leastLoaded"
    <3>1. /\ load[i] = Cardinality(OnContext(i)) + (IF armed = i THEN 1 ELSE 0)
          /\ load[j] = Cardinality(OnContext(j)) + (IF armed = j THEN 1 ELSE 0)
          /\ load[i] <= load[j] + 1
          /\ armed = j => load[i] <= load[j]
      BY <2>2, SizeProps DEF AcceptorInv, LoadMatchesGuards, LoadsAreLevel
    <3>. QED
      BY <3>1, OnContextFinite
  <2>. QED
    BY <2>0, <2>1, <2>2
<1>. QED
  BY <1>1, AcceptorInvariance, PTL
=============================================================================
