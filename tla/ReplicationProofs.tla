-------------------------- MODULE ReplicationProofs --------------------------
(***************************************************************************)
(* Proofs about Replication, for every set of nodes, threads and messages  *)
(* and every bound.                                                        *)
(***************************************************************************)
EXTENDS Replication, FiniteSetTheorems, WellFoundedInduction, TLAPS

-----------------------------------------------------------------------------
(* Lemmas about the operators of Storage.                                  *)

\* A non-empty set of naturals has a minimum, which is what Min returns.
LEMMA MinOfNaturals ==
    ASSUME NEW S \in SUBSET Nat, S # {}
    PROVE  Min(S) \in S /\ \A y \in S : Min(S) <= y
<1>1. \E x \in S : \A y \in S : ~(<<y, x>> \in OpToRel(<, Nat))
  BY WFMin, NatLessThanWellFounded
<1>2. ASSUME NEW x \in Nat, NEW y \in Nat, y < x
      PROVE  <<y, x>> \in OpToRel(<, Nat)
  BY <1>2, Zenon DEF OpToRel
<1>3. \E x \in S : \A y \in S : x <= y
  <2>1. PICK x \in S : \A y \in S : ~(<<y, x>> \in OpToRel(<, Nat))
    BY <1>1
  <2>2. ASSUME NEW y \in S PROVE ~(y < x)
    BY <1>2, <2>1
  <2> QED BY <2>2
<1> QED BY <1>3 DEF Min

\* The walk of getFirstGap and getContiguousChunk ends, at the first id from
\* start on that the storage does not hold.
LEMMA FirstMissingIsFirst ==
    ASSUME NEW storage \in StorageType, NEW start \in 0 .. MaxMessages
    PROVE  /\ FirstMissing(storage, start) \in start .. MaxMessages
           /\ ~Has(storage, FirstMissing(storage, start))
           /\ \A i \in start .. (FirstMissing(storage, start) - 1) : Has(storage, i)
<1> DEFINE Gaps == {i \in start .. MaxMessages : ~Has(storage, i)}
<1>1. Gaps \in SUBSET Nat /\ MaxMessages \in Gaps
  BY StorageAssumption DEF Has, MessageIds
<1>2. FirstMissing(storage, start) \in Gaps
      /\ \A y \in Gaps : FirstMissing(storage, start) <= y
  <2> HIDE DEF Gaps
  <2>1. Min(Gaps) \in Gaps /\ \A y \in Gaps : Min(Gaps) <= y
    BY <1>1, MinOfNaturals
  <2>2. FirstMissing(storage, start) = Min(Gaps)
    BY DEF FirstMissing, Gaps
  <2> QED BY <2>1, <2>2
<1>3. FirstMissing(storage, start) \in start .. MaxMessages
      /\ ~Has(storage, FirstMissing(storage, start))
  BY <1>2
<1>4. ASSUME NEW i \in start .. (FirstMissing(storage, start) - 1)
      PROVE  Has(storage, i)
  <2>1. i \in start .. MaxMessages /\ i < FirstMissing(storage, start)
    BY <1>3, StorageAssumption
  <2> QED BY <1>2, <2>1, StorageAssumption
<1> QED BY <1>3, <1>4

\* getContiguousChunk returns payloads of consecutive ids from start on.
LEMMA ContiguousChunkIsPiece ==
    ASSUME NEW storage \in StorageType, NEW start \in 0 .. MaxMessages
    PROVE  LET chunk == ContiguousChunk(storage, start)
           IN  /\ chunk \in Seq(Messages)
               /\ \A i \in 1 .. Len(chunk) :
                        /\ Has(storage, start + i - 1)
                        /\ chunk[i] = storage[start + i - 1]
<1> DEFINE len   == FirstMissing(storage, start) - start
           chunk == [i \in 1 .. len |-> storage[start + i - 1]]
<1>1. len \in Nat /\ \A i \in 1 .. len : Has(storage, start + i - 1)
  BY FirstMissingIsFirst, StorageAssumption
<1>2. chunk \in [1 .. len -> Messages]
  BY <1>1 DEF StorageType, Has
<1>3. chunk \in Seq(Messages) /\ Len(chunk) = len
  <2> HIDE DEF len, chunk
  <2>1. chunk \in Seq(Messages) BY <1>1, <1>2
  <2>2. DOMAIN chunk = 1 .. len BY <1>2
  <2> QED BY <1>1, <2>1, <2>2
<1>4. ContiguousChunk(storage, start) = chunk
  BY DEF ContiguousChunk
<1> QED BY <1>1, <1>3, <1>4

\* The chunk of a storage that holds only what another holds, from the first
\* id on, is a beginning of the other's chunk.
LEMMA ChunkOfPart ==
    ASSUME NEW part \in StorageType, NEW whole \in StorageType,
           \A id \in MessageIds : Has(part, id) => part[id] = whole[id]
    PROVE  LET p == ContiguousChunk(part, 0)
               w == ContiguousChunk(whole, 0)
           IN  Len(p) <= Len(w) /\ \A i \in 1 .. Len(p) : p[i] = w[i]
<1> DEFINE p == FirstMissing(part, 0)
           w == FirstMissing(whole, 0)
<1>1. /\ p \in 0 .. MaxMessages /\ \A i \in 0 .. (p - 1) : Has(part, i)
      /\ w \in 0 .. MaxMessages /\ ~Has(whole, w)
  BY FirstMissingIsFirst, StorageAssumption
<1>2. \A id \in MessageIds : Has(part, id) => Has(whole, id) /\ whole[id] = part[id]
  BY DEF Has
<1>3. p <= w
  <2>1. SUFFICES ASSUME w < p PROVE FALSE
    BY <1>1, StorageAssumption
  <2>2. w \in MessageIds /\ Has(part, w)
    BY <1>1, <2>1, StorageAssumption DEF MessageIds
  <2> QED BY <1>1, <1>2, <2>2
<1>4. \A i \in 1 .. p : part[0 + i - 1] = whole[0 + i - 1]
  <2>1. ASSUME NEW i \in 1 .. p PROVE 0 + i - 1 \in MessageIds /\ Has(part, 0 + i - 1)
    BY <1>1, StorageAssumption DEF MessageIds
  <2> QED BY <1>2, <2>1
<1>5. /\ Len(ContiguousChunk(part, 0)) = p
      /\ Len(ContiguousChunk(whole, 0)) = w
  BY <1>1, StorageAssumption DEF ContiguousChunk
<1>6. \A i \in 1 .. p : /\ ContiguousChunk(part, 0)[i] = part[0 + i - 1]
                        /\ ContiguousChunk(whole, 0)[i] = whole[0 + i - 1]
  BY <1>1, <1>3, StorageAssumption DEF ContiguousChunk
<1> HIDE DEF p, w
<1> QED BY <1>3, <1>4, <1>5, <1>6

\* insert() keeps a storage a storage.
LEMMA InsertType ==
    ASSUME NEW storage \in StorageType, NEW id, NEW message \in Messages \cup {Absent}
    PROVE  Insert(storage, id, message) \in StorageType
BY DEF Insert, StorageType

\* getFirstGap returns an id or the number of ids.
LEMMA FirstGapType ==
    ASSUME NEW storage \in StorageType
    PROVE  FirstGap(storage) \in 0 .. MaxMessages
BY FirstMissingIsFirst, StorageAssumption DEF FirstGap

\* addMessages() keeps a storage a storage.
LEMMA AddMessagesType ==
    ASSUME NEW storage \in StorageType, NEW start \in 0 .. MaxMessages,
           NEW chunk \in Seq(Messages)
    PROVE  AddMessages(storage, start, chunk) \in StorageType
<1>1. ASSUME NEW id \in MessageIds, id \in start .. (start + Len(chunk) - 1)
      PROVE  chunk[id - start + 1] \in Messages
  <2>1. id - start + 1 \in 1 .. Len(chunk)
    BY <1>1, StorageAssumption DEF MessageIds
  <2> QED BY <2>1
<1> QED BY <1>1 DEF AddMessages, StorageType

\* A new storage is a storage.
LEMMA EmptyStorageType == EmptyStorage \in StorageType
BY DEF EmptyStorage, StorageType

-----------------------------------------------------------------------------
(* Facts about the constants and about AddMessageRequest's operators.      *)

\* There are finitely many connections, and so finitely many of any kind.
LEMMA ConnIdsFinite ==
    /\ MaxConns \in Nat
    /\ ConnIds \subseteq Nat
    /\ IsFiniteSet(ConnIds)
    /\ \A S \in SUBSET ConnIds : IsFiniteSet(S) /\ Cardinality(S) \in Nat
<1>1. MaxConns \in Nat
  BY ReplicationAssumption, FS_CardinalityType DEF MaxConns
<1>2. ConnIds \subseteq Nat /\ IsFiniteSet(ConnIds)
  BY <1>1, FS_Interval DEF ConnIds
<1> QED BY <1>1, <1>2, FS_Subset, FS_CardinalityType

\* A new request has its type.
LEMMA NewRequestType ==
    ASSUME NEW phase \in RequestPhases, NEW thread \in Threads \cup {"none"},
           NEW message \in Messages \cup {Absent}, NEW writeConcern \in Nat
    PROVE  /\ NewRequest(phase, thread, message, writeConcern) \in RequestType
           /\ NewRequest(phase, thread, message, writeConcern).phase = phase
           /\ NewRequest(phase, thread, message, writeConcern).message = message
           /\ NewRequest(phase, thread, message, writeConcern).pendingWrites = 0
           /\ NewRequest(phase, thread, message, writeConcern).promiseFilled = FALSE
BY DEF NewRequest, RequestType, NeededConfirmations, Statuses

\* start() on a request without open calls counts the calls it makes.
LEMMA StartResult ==
    ASSUME NEW r \in RequestType, r.pendingWrites = 0,
           NEW present \in SUBSET ConnIds
    PROVE  /\ Start(r, present) \in RequestType
           /\ SentByStart(r, present) \in SUBSET ConnIds
           /\ Start(r, present).pendingWrites = Cardinality(SentByStart(r, present))
           /\ Start(r, present).phase \in {"waiting", "delay", "destroyed"}
           /\ Start(r, present).phase = "waiting" <=> SentByStart(r, present) # {}
           /\ Start(r, present).message = r.message
           /\ r.promiseFilled => Start(r, present).promiseFilled
<1> DEFINE updated   == UpdateData(r, present)
           satisfied == SatisfiedWriteConcern(updated) >= r.writeConcern
           marked    == IF satisfied THEN RequestMarkSuccess(updated) ELSE updated
           need      == NeedToSend(updated)
<1>1. /\ updated \in RequestType
      /\ updated.pendingWrites = 0
      /\ updated.message = r.message
      /\ updated.snapshot = present
      /\ updated.promiseFilled = r.promiseFilled
  BY DEF UpdateData, RequestType, Statuses
<1>2. /\ marked \in RequestType
      /\ marked.pendingWrites = 0
      /\ marked.message = r.message
      /\ marked.snapshot = updated.snapshot
      /\ marked.statuses = updated.statuses
      /\ r.promiseFilled => marked.promiseFilled
  <2> HIDE DEF updated, satisfied
  <2> QED BY <1>1 DEF RequestMarkSuccess, RequestType
<1>3. NeedToSend(marked) = need
  <2> HIDE DEF updated, marked
  <2> QED BY <1>2 DEF NeedToSend
<1>4. need \in SUBSET ConnIds /\ Cardinality(need) \in Nat
  <2> HIDE DEF updated
  <2> QED BY <1>1, ConnIdsFinite DEF NeedToSend
<1>5. CASE satisfied /\ AllSecondariesSuccessfullyAnswered(marked)
  <2>1. Start(r, present) = [marked EXCEPT !.phase = "destroyed"]
    BY <1>5 DEF Start
  <2>2. /\ Start(r, present) \in RequestType
        /\ Start(r, present).phase = "destroyed"
        /\ Start(r, present).pendingWrites = 0
        /\ Start(r, present).message = r.message
        /\ r.promiseFilled => Start(r, present).promiseFilled
    <3> HIDE DEF marked
    <3> QED BY <1>2, <2>1 DEF RequestType, RequestPhases
  <2>3. SentByStart(r, present) = {}
    BY <2>2 DEF SentByStart
  <2> QED BY <2>2, <2>3, FS_EmptySet
<1>6. CASE ~(satisfied /\ AllSecondariesSuccessfullyAnswered(marked))
  <2>1. Start(r, present) = SendRequestToSecondaries(marked)
    BY <1>6 DEF Start
  <2>2. Start(r, present) =
            [marked EXCEPT !.pendingWrites = Cardinality(need),
                           !.phase = IF need = {} THEN "delay" ELSE "waiting"]
    <3> HIDE DEF marked, need
    <3> QED BY <1>2, <1>3, <2>1 DEF SendRequestToSecondaries
  <2>3. /\ Start(r, present) \in RequestType
        /\ Start(r, present).phase = IF need = {} THEN "delay" ELSE "waiting"
        /\ Start(r, present).pendingWrites = Cardinality(need)
        /\ Start(r, present).message = r.message
        /\ r.promiseFilled => Start(r, present).promiseFilled
    <3> HIDE DEF marked, need
    <3> QED BY <1>2, <1>4, <2>2 DEF RequestType, RequestPhases
  <2>4. SentByStart(r, present) = need
    <3>1. SentByStart(r, present) =
            IF Start(r, present).phase = "waiting" THEN need ELSE {}
      BY DEF SentByStart
    <3> HIDE DEF need
    <3> QED BY <3>1, <2>3
  <2> HIDE DEF need
  <2> QED BY <1>4, <2>3, <2>4
<1> QED BY <1>5, <1>6

\* One callback: the status is noted and the counter goes down.
LEMMA OnResponseResult ==
    ASSUME NEW r \in RequestType, NEW c \in ConnIds, NEW status \in Statuses,
           r.pendingWrites > 0
    PROVE  /\ OnResponseRecieved(r, c, status) \in RequestType
           /\ OnResponseRecieved(r, c, status).pendingWrites = r.pendingWrites - 1
           /\ OnResponseRecieved(r, c, status).phase = r.phase
           /\ OnResponseRecieved(r, c, status).message = r.message
           /\ r.promiseFilled => OnResponseRecieved(r, c, status).promiseFilled
<1> DEFINE noted == [r EXCEPT !.statuses[c] = status,
                              !.pendingWrites = r.pendingWrites - 1]
<1>1. /\ noted \in RequestType
      /\ noted.pendingWrites = r.pendingWrites - 1
      /\ noted.phase = r.phase
      /\ noted.message = r.message
      /\ noted.promiseFilled = r.promiseFilled
  <2>1. r.statuses \in [ConnIds -> Statuses] /\ r.pendingWrites \in Nat
    BY DEF RequestType
  <2>2. [r.statuses EXCEPT ![c] = status] \in [ConnIds -> Statuses]
    BY <2>1
  <2>3. noted = [r EXCEPT !.statuses = [r.statuses EXCEPT ![c] = status],
                          !.pendingWrites = r.pendingWrites - 1]
    BY DEF RequestType
  <2>4. r.pendingWrites - 1 \in Nat
    BY <2>1
  <2> HIDE DEF noted
  <2> QED BY <2>2, <2>3, <2>4 DEF RequestType
<1>2. \/ OnResponseRecieved(r, c, status) = noted
      \/ OnResponseRecieved(r, c, status) = RequestMarkSuccess(noted)
  BY DEF OnResponseRecieved
<1> HIDE DEF noted
<1> QED BY <1>1, <1>2 DEF RequestMarkSuccess, RequestType

-----------------------------------------------------------------------------
(* Type correctness.  The counter pendingWrites_ is unsigned, so its type  *)
(* needs PendingWritesMatchCalls: a callback only runs for an open call.   *)

\* The chunk of a session that has none is a chunk.
LEMMA EmptyChunk == << >> \in Seq(Messages)
OBVIOUS

\* The sessions of the initial state have their type.
LEMMA NoSessionType == [n \in Nodes |-> NoSession] \in [Nodes -> SessionType]
<1> SUFFICES ASSUME NEW n \in Nodes PROVE NoSession \in SessionType
  OBVIOUS
<1>1. Cardinality(Nodes) \in Nat /\ Cardinality(Nodes) # 0
  BY ReplicationAssumption, FS_CardinalityType, FS_EmptySet
<1>2. 0 \in ConnIds
  BY <1>1, ReplicationAssumption DEF ConnIds, MaxConns
<1> QED BY <1>2, StorageAssumption
    DEF NoSession, Session, SessionType, SessionPhases, CallStates

\* A call on its way and an answered call are in one of the call states.
LEMMA FrameType == \A c : Frame(c) \in CallStates /\ Answer(c) \in CallStates
                          /\ Frame(c) # "none" /\ Answer(c) # "none"
BY DEF Frame, Answer, CallStates

\* An open call has been counted.
LEMMA OpenCallIsCounted ==
    ASSUME TypeOK, PendingWritesMatchCalls,
           NEW id \in MessageIds, NEW c \in ConnIds, addCalls[id][c] # "none"
    PROVE  /\ requests[id].pendingWrites > 0
           /\ requests[id].phase = "waiting"
           /\ LET open == {d \in ConnIds : addCalls[id][d] # "none"}
              IN  /\ IsFiniteSet(open)
                  /\ Cardinality(open \ {c}) = requests[id].pendingWrites - 1
                  /\ requests[id].pendingWrites = 1 => open = {c}
<1> DEFINE open == {d \in ConnIds : addCalls[id][d] # "none"}
<1>1. c \in open /\ open \in SUBSET ConnIds
  OBVIOUS
<1>2. /\ requests[id].pendingWrites = Cardinality(open)
      /\ requests[id].phase = "waiting"
  BY <1>1 DEF PendingWritesMatchCalls
<1> HIDE DEF open
<1>3. IsFiniteSet(open) /\ Cardinality(open) \in Nat
  BY <1>1, ConnIdsFinite
<1>4. Cardinality(open \ {c}) = Cardinality(open) - 1 /\ IsFiniteSet(open \ {c})
  BY <1>1, <1>3, FS_RemoveElement
<1>5. Cardinality(open \ {c}) \in Nat
  BY <1>4, FS_CardinalityType
<1>6. ASSUME Cardinality(open) = 1 PROVE open = {c}
  <2>1. open \ {c} = {}
    BY <1>4, <1>6, FS_EmptySet
  <2> QED BY <2>1, <1>1
<1>7. Cardinality(open) > 0
  BY <1>3, <1>4, <1>5
<1> QED BY <1>2, <1>3, <1>4, <1>6, <1>7 DEF open

\* The registry's snapshot is a set of connections.
LEMMA SnapshotType == SecondariesSnapshot \in SUBSET ConnIds
BY DEF SecondariesSnapshot

\* StartRequest on a request without open calls.
LEMMA StartRequestStep ==
    ASSUME TypeOK, NEW id \in MessageIds, NEW r \in RequestType,
           r.pendingWrites = 0,
           NEW calls, calls = [c \in ConnIds |-> "none"],
           StartRequest(id, r, calls)
    PROVE  LET open == {c \in ConnIds : addCalls'[id][c] # "none"}
           IN  /\ requests' \in [MessageIds -> RequestType]
               /\ addCalls' \in [MessageIds -> [ConnIds -> CallStates]]
               /\ requests'[id].message = r.message
               /\ r.promiseFilled => requests'[id].promiseFilled
               /\ requests'[id].phase \in {"waiting", "delay", "destroyed"}
               /\ requests'[id].pendingWrites = Cardinality(open)
               /\ requests'[id].phase = "waiting" <=> open # {}
               /\ \A i \in MessageIds \ {id} : /\ requests'[i] = requests[i]
                                               /\ addCalls'[i] = addCalls[i]
<1> DEFINE s    == Start(r, SecondariesSnapshot)
           sent == SentByStart(r, SecondariesSnapshot)
           row  == [c \in ConnIds |-> IF c \in sent THEN Frame(c) ELSE calls[c]]
<1>1. /\ s \in RequestType
      /\ sent \in SUBSET ConnIds
      /\ s.pendingWrites = Cardinality(sent)
      /\ s.phase \in {"waiting", "delay", "destroyed"}
      /\ s.phase = "waiting" <=> sent # {}
      /\ s.message = r.message
      /\ r.promiseFilled => s.promiseFilled
  BY StartResult, SnapshotType
<1>2. requests' = [requests EXCEPT ![id] = s] /\ addCalls' = [addCalls EXCEPT ![id] = row]
  BY DEF StartRequest
<1> HIDE DEF s, sent
<1>3. row \in [ConnIds -> CallStates] /\ {c \in ConnIds : row[c] # "none"} = sent
  BY <1>1, FrameType DEF CallStates
<1> HIDE DEF row
<1>4. requests'[id] = s /\ addCalls'[id] = row
  BY <1>2 DEF TypeOK
<1> QED BY <1>1, <1>2, <1>3, <1>4 DEF TypeOK


\* One callback of a request, the last one included.
LEMMA CallbackStep ==
    ASSUME TypeOK, PendingWritesMatchCalls,
           NEW id \in MessageIds, NEW c \in ConnIds, NEW status \in Statuses,
           addCalls[id][c] # "none",
           AddMessageCallback(id, c, status)
    PROVE  LET open == {d \in ConnIds : addCalls'[id][d] # "none"}
           IN  /\ requests' \in [MessageIds -> RequestType]
               /\ addCalls' \in [MessageIds -> [ConnIds -> CallStates]]
               /\ requests'[id].message = requests[id].message
               /\ requests[id].promiseFilled => requests'[id].promiseFilled
               /\ requests'[id].phase \in {"waiting", "delay", "destroyed"}
               /\ requests'[id].pendingWrites = Cardinality(open)
               /\ requests'[id].phase = "waiting" <=> open # {}
               /\ \A i \in MessageIds \ {id} : /\ requests'[i] = requests[i]
                                               /\ addCalls'[i] = addCalls[i]
<1> DEFINE old   == {d \in ConnIds : addCalls[id][d] # "none"}
           calls == [addCalls[id] EXCEPT ![c] = "none"]
           r     == OnResponseRecieved(requests[id], c, status)
<1>1. /\ requests[id] \in RequestType
      /\ addCalls[id] \in [ConnIds -> CallStates]
  BY DEF TypeOK
<1>2. /\ requests[id].pendingWrites > 0
      /\ requests[id].phase = "waiting"
      /\ Cardinality(old \ {c}) = requests[id].pendingWrites - 1
      /\ IsFiniteSet(old)
      /\ requests[id].pendingWrites = 1 => old = {c}
  BY OpenCallIsCounted
<1>3. /\ r \in RequestType
      /\ r.pendingWrites = requests[id].pendingWrites - 1
      /\ r.phase = "waiting"
      /\ r.message = requests[id].message
      /\ requests[id].promiseFilled => r.promiseFilled
  BY <1>1, <1>2, OnResponseResult
<1>4. /\ calls \in [ConnIds -> CallStates]
      /\ {d \in ConnIds : calls[d] # "none"} = old \ {c}
  BY <1>1 DEF CallStates
<1>5. IF r.pendingWrites = 0
      THEN StartRequest(id, r, calls)
      ELSE /\ requests' = [requests EXCEPT ![id] = r]
           /\ addCalls' = [addCalls EXCEPT ![id] = calls]
  BY DEF AddMessageCallback
<1>6. requests[id].pendingWrites \in Nat
  BY <1>1 DEF RequestType
<1> HIDE DEF r, calls, old
<1>7. CASE r.pendingWrites = 0
  <2>1. old \ {c} = {}
    BY <1>2, <1>3, <1>6, <1>7
  <2>2. calls = [d \in ConnIds |-> "none"]
    BY <1>4, <2>1
  <2> QED BY <1>3, <1>5, <1>7, <2>2, StartRequestStep
<1>8. CASE r.pendingWrites # 0
  <2>1. requests'[id] = r /\ addCalls'[id] = calls
    BY <1>5, <1>8 DEF TypeOK
  <2>2. old \ {c} # {}
    BY <1>2, <1>3, <1>8, FS_EmptySet
  <2>3. /\ requests' \in [MessageIds -> RequestType]
        /\ addCalls' \in [MessageIds -> [ConnIds -> CallStates]]
        /\ \A i \in MessageIds \ {id} : /\ requests'[i] = requests[i]
                                        /\ addCalls'[i] = addCalls[i]
    BY <1>3, <1>4, <1>5, <1>8 DEF TypeOK
  <2> QED BY <1>2, <1>3, <1>4, <2>1, <2>2, <2>3
<1> QED BY <1>7, <1>8

\* RunRequest and RetryTimer start a request that has no open calls.
LEMMA StartStep ==
    ASSUME TypeOK, PendingWritesMatchCalls,
           NEW id \in MessageIds,
           requests[id].phase \in {"inserted", "delay"},
           StartRequest(id, requests[id], addCalls[id])
    PROVE  LET open == {d \in ConnIds : addCalls'[id][d] # "none"}
           IN  /\ requests' \in [MessageIds -> RequestType]
               /\ addCalls' \in [MessageIds -> [ConnIds -> CallStates]]
               /\ requests'[id].message = requests[id].message
               /\ requests[id].promiseFilled => requests'[id].promiseFilled
               /\ requests'[id].phase \in {"waiting", "delay", "destroyed"}
               /\ requests'[id].pendingWrites = Cardinality(open)
               /\ requests'[id].phase = "waiting" <=> open # {}
               /\ \A i \in MessageIds \ {id} : /\ requests'[i] = requests[i]
                                               /\ addCalls'[i] = addCalls[i]
<1>1. /\ requests[id] \in RequestType
      /\ addCalls[id] \in [ConnIds -> CallStates]
  BY DEF TypeOK
<1>2. {d \in ConnIds : addCalls[id][d] # "none"} = {}
  BY DEF PendingWritesMatchCalls
<1>3. requests[id].pendingWrites = 0
  BY <1>2, FS_EmptySet DEF PendingWritesMatchCalls
<1>4. addCalls[id] = [d \in ConnIds |-> "none"]
  BY <1>1, <1>2
<1> QED BY <1>1, <1>3, <1>4, StartRequestStep

\* The frames that a closed end of a connection takes with it.
LEMMA CloseStep ==
    ASSUME TypeOK, NEW c, CloseSecondaryEnd(c)
    PROVE  /\ secondaryUp' \in [ConnIds -> BOOLEAN]
           /\ addCalls' \in [MessageIds -> [ConnIds -> CallStates]]
           /\ lateAdds' \subseteq lateAdds
           /\ \A id \in MessageIds, d \in ConnIds :
                    addCalls'[id][d] = "none" <=> addCalls[id][d] = "none"
BY DEF TypeOK, CloseSecondaryEnd, CallStates

USE DEF masterVars, requestVars, registryVars, connectionVars, secondaryVars

\* The initial state is type-correct.
LEMMA TypeInit == Init => TypeOK
<1> SUFFICES ASSUME Init PROVE TypeOK
  OBVIOUS
<1>1. FreeRequest \in RequestType
  BY NewRequestType DEF FreeRequest, RequestPhases
<1>2. MaxConns \in Nat
  BY ConnIdsFinite
<1> QED BY <1>1, <1>2, NoSessionType, EmptyStorageType, StorageAssumption,
           ReplicationAssumption
    DEF Init, TypeOK, CallStates, SecondaryStates


\* Every step keeps the types, given the write counters are right.
LEMMA TypeNext == TypeOK /\ PendingWritesMatchCalls /\ [Next]_vars => TypeOK'
<1> SUFFICES ASSUME TypeOK, PendingWritesMatchCalls, [Next]_vars PROVE TypeOK'
  OBVIOUS
<1>0. /\ MaxConns \in Nat
      /\ MaxMessages \in Nat
      /\ MaxCrashes \in Nat
      /\ WriteConcerns \subseteq Nat
  BY ConnIdsFinite, StorageAssumption, ReplicationAssumption
<1>1. ASSUME NEW t \in Threads, PostMessage(t) PROVE TypeOK'
  <2>1. PICK m \in Messages, w \in WriteConcerns : ClaimId(t, m, w)
    BY <1>1 DEF PostMessage
  <2>2. NewRequest("claimed", t, m, w) \in RequestType
    BY <1>0, NewRequestType DEF RequestPhases
  <2>3. nextMessageId \in MessageIds /\ nextMessageId + 1 \in 0 .. MaxMessages
    BY <1>0, <2>1 DEF ClaimId, TypeOK, MessageIds
  <2> QED BY <2>1, <2>2, <2>3 DEF ClaimId, TypeOK
<1>2. ASSUME NEW id \in MessageIds, InsertMessage(id) PROVE TypeOK'
  <2>1. requests[id] \in RequestType /\ requests[id].message \in Messages \cup {Absent}
    BY DEF TypeOK, RequestType
  <2>2. Insert(messages, id, requests[id].message) \in StorageType
    BY <2>1, InsertType DEF TypeOK
  <2>3. [requests[id] EXCEPT !.phase = "inserted"] \in RequestType
    BY <2>1 DEF RequestType, RequestPhases
  <2>4. requests' \in [MessageIds -> RequestType]
    BY <1>2, <2>3 DEF InsertMessage, TypeOK
  <2> QED BY <1>2, <2>2, <2>4 DEF InsertMessage, TypeOK
<1>3. ASSUME NEW id \in MessageIds, RunRequest(id) PROVE TypeOK'
  BY <1>3, StartStep DEF RunRequest, TypeOK
<1>4. ASSUME NEW id \in MessageIds, RetryTimer(id) PROVE TypeOK'
  BY <1>4, StartStep DEF RetryTimer, TypeOK
<1>5. ASSUME NEW id \in MessageIds, NEW c \in ConnIds, AddMessageAnswered(id, c)
      PROVE  TypeOK'
  <2>1. AddMessageCallback(id, c, "ADDED") /\ addCalls[id][c] # "none"
    BY <1>5 DEF AddMessageAnswered
  <2>2. /\ requests' \in [MessageIds -> RequestType]
        /\ addCalls' \in [MessageIds -> [ConnIds -> CallStates]]
    BY <2>1, CallbackStep DEF Statuses
  <2> QED BY <1>5, <2>1, <2>2 DEF AddMessageAnswered, AddMessageCallback, TypeOK
<1>6. ASSUME NEW id \in MessageIds, NEW c \in ConnIds, AddMessageFailed(id, c)
      PROVE  TypeOK'
  <2>1. AddMessageCallback(id, c, "ERROR") /\ addCalls[id][c] # "none"
    BY <1>6 DEF AddMessageFailed
  <2>2. /\ requests' \in [MessageIds -> RequestType]
        /\ addCalls' \in [MessageIds -> [ConnIds -> CallStates]]
    BY <2>1, CallbackStep DEF Statuses
  <2>3. lateAdds' \subseteq MessageIds \X ConnIds
    BY <1>6 DEF AddMessageFailed, TypeOK
  <2> QED BY <1>6, <2>1, <2>2, <2>3 DEF AddMessageCallback, TypeOK
<1>7. ASSUME AddSecondaryImpl PROVE TypeOK'
  <2>1. secondaryIdCounter + 1 \in 0 .. MaxConns
    BY <1>0, <1>7 DEF AddSecondaryImpl, TypeOK
  <2> QED BY <1>7, <2>1 DEF AddSecondaryImpl, TypeOK, SecondaryStates
<1>8. ASSUME NEW c \in ConnIds,
             MasterSocketInvalidated(c) \/ OnInvalidated(c) \/ OnLateSecondaryNodeReady(c)
      PROVE  TypeOK'
  <2>1. CASE MasterSocketInvalidated(c)
    BY <2>1 DEF MasterSocketInvalidated, TypeOK
  <2>2. CASE OnInvalidated(c)
    BY <2>2 DEF OnInvalidated, TypeOK, SecondaryStates
  <2>3. CASE OnLateSecondaryNodeReady(c)
    BY <2>3 DEF OnLateSecondaryNodeReady, SetOperational, TypeOK, SecondaryStates
  <2> QED BY <1>8, <2>1, <2>2, <2>3
<1>9. ASSUME NEW n \in Nodes, OnIncomingGetMessages(n) PROVE TypeOK'
  <2>1. sessions[n] \in SessionType /\ sessions[n].gap \in 0 .. MaxMessages
    BY DEF TypeOK, SessionType
  <2>2. ContiguousChunk(messages, sessions[n].gap) \in Seq(Messages)
    BY <2>1, ContiguousChunkIsPiece DEF TypeOK
  <2>3. [sessions[n] EXCEPT !.call = "answered",
                            !.chunk = ContiguousChunk(messages, sessions[n].gap)]
            \in SessionType
    BY <2>1, <2>2 DEF SessionType, CallStates
  <2>4. sessions' \in [Nodes -> SessionType]
    BY <1>9, <2>3 DEF OnIncomingGetMessages, TypeOK
  <2> QED BY <1>9, <2>4 DEF OnIncomingGetMessages, TypeOK
<1>10. ASSUME NEW n \in Nodes, OnIncomingSecondaryNodeReady(n) PROVE TypeOK'
  <2>1. [sessions[n] EXCEPT !.call = Answer(sessions[n].conn)] \in SessionType
    BY FrameType DEF TypeOK, SessionType
  <2>2. sessions' \in [Nodes -> SessionType]
    BY <1>10, <2>1 DEF OnIncomingSecondaryNodeReady, TypeOK
  <2> QED BY <1>10, <2>2
      DEF OnIncomingSecondaryNodeReady, SetOperational, TypeOK, SecondaryStates
<1>11. ASSUME NEW n \in Nodes, Connect(n) PROVE TypeOK'
  <2>1. FirstGap(store[n]) \in 0 .. MaxMessages
    BY FirstGapType DEF TypeOK
  <2>2. connects \in ConnIds /\ connects + 1 \in 0 .. MaxConns
    BY <1>0, <1>11 DEF Connect, TypeOK, ConnIds
  <2>3. Session(connects, "ask", FirstGap(store[n]), "sent", << >>) \in SessionType
    BY <2>1, <2>2, EmptyChunk DEF Session, SessionType, SessionPhases, CallStates
  <2> QED BY <1>11, <2>2, <2>3 DEF Connect, TypeOK
<1>12. ASSUME NEW n \in Nodes, ConnectFails(n) \/ ReconnectTimer(n) PROVE TypeOK'
  <2>1. /\ [sessions[n] EXCEPT !.phase = "backoff"] \in SessionType
        /\ [sessions[n] EXCEPT !.phase = "connecting"] \in SessionType
    BY DEF TypeOK, SessionType, SessionPhases
  <2>2. sessions' \in [Nodes -> SessionType]
    BY <1>12, <2>1 DEF ConnectFails, ReconnectTimer, TypeOK
  <2> QED BY <1>12, <2>2 DEF ConnectFails, ReconnectTimer, TypeOK
<1>13. ASSUME NEW n \in Nodes,
              GetMessagesAnswered(n) \/ GetMessagesFailed(n)
              \/ SecondaryNodeReadyAnswered(n) \/ SecondaryNodeReadyFailed(n)
       PROVE  TypeOK'
  <2>1. /\ sessions[n] \in SessionType
        /\ sessions[n].conn \in ConnIds
        /\ sessions[n].gap \in 0 .. MaxMessages
        /\ sessions[n].chunk \in Seq(Messages)
    BY DEF TypeOK, SessionType
  <2>2. /\ Session(sessions[n].conn, "notify", 0, Frame(sessions[n].conn), << >>) \in SessionType
        /\ Session(sessions[n].conn, "ready", 0, "none", << >>) \in SessionType
    BY <1>0, <2>1, EmptyChunk, FrameType DEF Session, SessionType, SessionPhases, CallStates
  <2>3. Session(sessions[n].conn, "ask", FirstGap(store[n]), Frame(sessions[n].conn), << >>)
            \in SessionType
    <3>1. FirstGap(store[n]) \in 0 .. MaxMessages
      BY FirstGapType DEF TypeOK
    <3> QED BY <2>1, <3>1, EmptyChunk, FrameType DEF Session, SessionType, SessionPhases
  <2>4. AddMessages(store[n], sessions[n].gap, sessions[n].chunk) \in StorageType
    BY <2>1, AddMessagesType DEF TypeOK
  <2>5. GiveUpReady(n) \subseteq ConnIds
    BY <2>1 DEF GiveUpReady, TypeOK
  <2>6. CASE GetMessagesAnswered(n)
    BY <2>2, <2>4, <2>6 DEF GetMessagesAnswered, TypeOK
  <2>7. CASE GetMessagesFailed(n)
    BY <2>3, <2>7 DEF GetMessagesFailed, TypeOK
  <2>8. CASE SecondaryNodeReadyAnswered(n)
    BY <2>2, <2>8 DEF SecondaryNodeReadyAnswered, TypeOK
  <2>9. CASE SecondaryNodeReadyFailed(n)
    BY <2>2, <2>5, <2>9 DEF SecondaryNodeReadyFailed, TypeOK
  <2> QED BY <1>13, <2>6, <2>7, <2>8, <2>9
<1>14. ASSUME NEW n \in Nodes, OnSessionInvalidated(n) PROVE TypeOK'
  <2>1. CloseSecondaryEnd(sessions[n].conn)
    BY <1>14 DEF OnSessionInvalidated
  <2>2. /\ secondaryUp' \in [ConnIds -> BOOLEAN]
        /\ addCalls' \in [MessageIds -> [ConnIds -> CallStates]]
        /\ lateAdds' \subseteq MessageIds \X ConnIds
    BY <2>1, CloseStep DEF TypeOK
  <2>3. GiveUpReady(n) \subseteq ConnIds
    BY DEF GiveUpReady, TypeOK, SessionType
  <2>4. NoSession \in SessionType
    BY NoSessionType
  <2> QED BY <1>14, <2>2, <2>3, <2>4 DEF OnSessionInvalidated, TypeOK
<1>15. ASSUME NEW n \in Nodes, Crash(n) PROVE TypeOK'
  <2>1. /\ secondaryUp' \in [ConnIds -> BOOLEAN]
        /\ addCalls' \in [MessageIds -> [ConnIds -> CallStates]]
        /\ lateAdds' \subseteq MessageIds \X ConnIds
    <3>1. CASE Connected(n)
      <4>1. CloseSecondaryEnd(sessions[n].conn)
        BY <1>15, <3>1 DEF Crash
      <4> QED BY <4>1, CloseStep DEF TypeOK
    <3>2. CASE ~Connected(n)
      BY <1>15, <3>2 DEF Crash, TypeOK
    <3> QED BY <3>1, <3>2
  <2>2. GiveUpReady(n) \subseteq ConnIds
    BY DEF GiveUpReady, TypeOK, SessionType
  <2>3. NoSession \in SessionType
    BY NoSessionType
  <2> QED BY <1>0, <1>15, <2>1, <2>2, <2>3, EmptyStorageType DEF Crash, TypeOK
<1>16. ASSUME NEW id \in MessageIds, NEW c \in ConnIds,
              OnIncomingAddMessage(id, c) \/ OnLateAddMessage(id, c)
       PROVE  TypeOK'
  <2>1. store' \in [Nodes -> StorageType]
    <3>1. requests[id].message \in Messages \cup {Absent}
      BY DEF TypeOK, RequestType
    <3>2. store' = [store EXCEPT
                ![owner[c]] = Insert(store[owner[c]], id, requests[id].message)]
      BY <1>16 DEF OnIncomingAddMessage, OnLateAddMessage, StoreMessage
    <3>3. CASE owner[c] \in Nodes
      BY <3>1, <3>2, <3>3, InsertType DEF TypeOK
    <3>4. CASE owner[c] \notin Nodes
      BY <3>2, <3>4 DEF TypeOK
    <3> QED BY <3>3, <3>4
  <2>2. addCalls' \in [MessageIds -> [ConnIds -> CallStates]]
    <3>1. CASE OnIncomingAddMessage(id, c)
      <4>1. [addCalls[id] EXCEPT ![c] = Answer(c)] \in [ConnIds -> CallStates]
        BY FrameType DEF TypeOK
      <4>2. addCalls' = [addCalls EXCEPT ![id] = [addCalls[id] EXCEPT ![c] = Answer(c)]]
        BY <3>1 DEF OnIncomingAddMessage, TypeOK
      <4> QED BY <4>1, <4>2 DEF TypeOK
    <3>2. CASE OnLateAddMessage(id, c)
      BY <3>2 DEF OnLateAddMessage, TypeOK
    <3> QED BY <1>16, <3>1, <3>2
  <2> QED BY <1>16, <2>1, <2>2
      DEF OnIncomingAddMessage, OnLateAddMessage, StoreMessage, TypeOK
<1>17. CASE UNCHANGED vars
  BY <1>17 DEF vars, TypeOK
<1> QED BY <1>1, <1>2, <1>3, <1>4, <1>5, <1>6, <1>7, <1>8, <1>9, <1>10, <1>11,
           <1>12, <1>13, <1>14, <1>15, <1>16, <1>17
    DEF Next, MasterNext, SecondaryNext


-----------------------------------------------------------------------------
(* The write counter of every request.                                     *)

\* Initially no request has open calls.
LEMMA PendingInit == Init => PendingWritesMatchCalls
<1> SUFFICES ASSUME Init, NEW id \in MessageIds
             PROVE  LET open == {c \in ConnIds : addCalls[id][c] # "none"}
                    IN  /\ requests[id].pendingWrites = Cardinality(open)
                        /\ (requests[id].phase = "waiting") <=> (open # {})
                        /\ requests[id].phase # "quit"
  BY DEF PendingWritesMatchCalls
<1>1. requests[id].pendingWrites = 0 /\ requests[id].phase = "free"
  BY DEF Init, FreeRequest, NewRequest
<1>2. {c \in ConnIds : addCalls[id][c] # "none"} = {}
  BY DEF Init
<1> QED BY <1>1, <1>2, FS_EmptySet

\* Every step keeps the write counters right.
LEMMA PendingNext ==
    TypeOK /\ FreshIdsAreFree /\ PendingWritesMatchCalls /\ [Next]_vars
        => PendingWritesMatchCalls'
<1> DEFINE Open(i) == {c \in ConnIds : addCalls[i][c] # "none"}
           Matches(i) == /\ requests[i].pendingWrites = Cardinality(Open(i))
                         /\ (requests[i].phase = "waiting") <=> (Open(i) # {})
                         /\ requests[i].phase # "quit"
<1> SUFFICES ASSUME TypeOK, FreshIdsAreFree, PendingWritesMatchCalls, [Next]_vars
             PROVE  \A i \in MessageIds : Matches(i)'
  BY DEF PendingWritesMatchCalls
<1>0. \A i \in MessageIds : Matches(i)
  BY DEF PendingWritesMatchCalls
<1>1. ASSUME NEW i \in MessageIds, requests'[i] = requests[i],
             \A c \in ConnIds : addCalls'[i][c] = "none" <=> addCalls[i][c] = "none"
      PROVE  Matches(i)'
  <2>1. Open(i)' = Open(i)
    BY <1>1
  <2> QED BY <1>0, <1>1, <2>1
<1>2. ASSUME NEW t \in Threads, PostMessage(t) PROVE \A i \in MessageIds : Matches(i)'
  <2>1. PICK m \in Messages, w \in WriteConcerns : ClaimId(t, m, w)
    BY <1>2 DEF PostMessage
  <2>2. PICK id \in MessageIds : id = nextMessageId
    BY <2>1, StorageAssumption DEF ClaimId, TypeOK, MessageIds
  <2>3. requests[id].phase = "free"
    BY <2>2, StorageAssumption DEF FreshIdsAreFree, TypeOK
  <2>4. Open(id) = {}
    BY <1>0, <2>2, <2>3
  <2>5. /\ requests'[id].pendingWrites = 0
        /\ requests'[id].phase = "claimed"
    BY <2>1, <2>2 DEF ClaimId, TypeOK, NewRequest
  <2>6. Open(id)' = {}
    BY <2>1, <2>4 DEF ClaimId
  <2>7. Matches(id)'
    BY <2>5, <2>6, FS_EmptySet
  <2>8. ASSUME NEW i \in MessageIds, i # id PROVE Matches(i)'
    BY <1>1, <2>1, <2>2, <2>8 DEF ClaimId, TypeOK
  <2> QED BY <2>7, <2>8
<1>3. ASSUME NEW id \in MessageIds, InsertMessage(id)
      PROVE  \A i \in MessageIds : Matches(i)'
  <2>1. /\ requests'[id].phase = "inserted"
        /\ requests'[id].pendingWrites = requests[id].pendingWrites
    BY <1>3 DEF InsertMessage, TypeOK, RequestType
  <2>2. Open(id)' = Open(id) /\ requests[id].phase = "claimed"
    BY <1>3 DEF InsertMessage
  <2>3. Matches(id)'
    BY <1>0, <2>1, <2>2
  <2>4. ASSUME NEW i \in MessageIds, i # id PROVE Matches(i)'
    BY <1>1, <1>3, <2>4 DEF InsertMessage, TypeOK
  <2> QED BY <2>3, <2>4
<1>4. ASSUME NEW id \in MessageIds, RunRequest(id) \/ RetryTimer(id)
      PROVE  \A i \in MessageIds : Matches(i)'
  <2>1. /\ StartRequest(id, requests[id], addCalls[id])
        /\ requests[id].phase \in {"inserted", "delay"}
    BY <1>4 DEF RunRequest, RetryTimer
  <2>2. Matches(id)'
    BY <2>1, StartStep
  <2>3. ASSUME NEW i \in MessageIds, i # id PROVE Matches(i)'
    BY <1>1, <2>1, <2>3, StartStep
  <2> QED BY <2>2, <2>3
<1>5. ASSUME NEW id \in MessageIds, NEW c \in ConnIds,
             AddMessageAnswered(id, c) \/ AddMessageFailed(id, c)
      PROVE  \A i \in MessageIds : Matches(i)'
  <2>1. PICK status \in Statuses :
            addCalls[id][c] # "none" /\ AddMessageCallback(id, c, status)
    BY <1>5 DEF AddMessageAnswered, AddMessageFailed, Statuses
  <2>2. Matches(id)'
    BY <2>1, CallbackStep
  <2>3. ASSUME NEW i \in MessageIds, i # id PROVE Matches(i)'
    BY <1>1, <2>1, <2>3, CallbackStep
  <2> QED BY <2>2, <2>3
<1>6. ASSUME NEW n \in Nodes, OnSessionInvalidated(n) \/ Crash(n)
      PROVE  \A i \in MessageIds : Matches(i)'
  <2>1. requests' = requests
    BY <1>6 DEF OnSessionInvalidated, Crash
  <2>2. CloseSecondaryEnd(sessions[n].conn) \/ addCalls' = addCalls
    BY <1>6 DEF OnSessionInvalidated, Crash
  <2> QED BY <1>1, <2>1, <2>2, CloseStep
<1>7. ASSUME NEW id \in MessageIds, NEW c \in ConnIds, OnIncomingAddMessage(id, c)
      PROVE  \A i \in MessageIds : Matches(i)'
  <2>1. \A i \in MessageIds, d \in ConnIds :
            addCalls'[i][d] = "none" <=> addCalls[i][d] = "none"
    BY <1>7, FrameType DEF OnIncomingAddMessage, TypeOK
  <2> QED BY <1>1, <1>7, <2>1 DEF OnIncomingAddMessage
<1>8. CASE UNCHANGED <<requests, addCalls>>
  BY <1>1, <1>8
<1>9. ASSUME NEW c \in ConnIds,
             MasterSocketInvalidated(c) \/ OnInvalidated(c) \/ OnLateSecondaryNodeReady(c)
      PROVE  UNCHANGED <<requests, addCalls>>
  BY <1>9 DEF MasterSocketInvalidated, OnInvalidated, OnLateSecondaryNodeReady
<1>10. ASSUME NEW n \in Nodes,
              \/ OnIncomingGetMessages(n) \/ OnIncomingSecondaryNodeReady(n)
              \/ Connect(n) \/ ConnectFails(n) \/ ReconnectTimer(n)
              \/ GetMessagesAnswered(n) \/ GetMessagesFailed(n)
              \/ SecondaryNodeReadyAnswered(n) \/ SecondaryNodeReadyFailed(n)
       PROVE  UNCHANGED <<requests, addCalls>>
  BY <1>10 DEF OnIncomingGetMessages, OnIncomingSecondaryNodeReady, Connect,
               ConnectFails, ReconnectTimer, GetMessagesAnswered, GetMessagesFailed,
               SecondaryNodeReadyAnswered, SecondaryNodeReadyFailed
<1>11. ASSUME \/ AddSecondaryImpl
              \/ \E id \in MessageIds, c \in ConnIds : OnLateAddMessage(id, c)
              \/ UNCHANGED vars
       PROVE  UNCHANGED <<requests, addCalls>>
  BY <1>11 DEF AddSecondaryImpl, OnLateAddMessage, vars
<1> HIDE DEF Matches
<1> QED BY <1>2, <1>3, <1>4, <1>5, <1>6, <1>7, <1>8, <1>9, <1>10, <1>11
    DEF Next, MasterNext, SecondaryNext


-----------------------------------------------------------------------------
(* Agreement of the secondaries with the master.                           *)

\* Initially nothing is stored, claimed or on its way.
LEMMA AgreementInit == Init => AgreementInv
<1> SUFFICES ASSUME Init PROVE AgreementInv
  OBVIOUS
<1>1. \A id \in MessageIds : /\ requests[id].phase = "free"
                             /\ requests[id].promiseFilled = FALSE
                             /\ messages[id] = Absent
  BY DEF Init, FreeRequest, NewRequest, EmptyStorage
<1>2. FreshIdsAreFree /\ ClaimedHaveMessages /\ RequestsMatchStorage
  BY <1>1 DEF FreshIdsAreFree, ClaimedHaveMessages, RequestsMatchStorage, Init
<1>3. ChunksAgree
  BY DEF ChunksAgree, Init, NoSession, Session
<1>4. Agreement
  BY DEF Agreement, Init, EmptyStorage, Has
<1> QED BY <1>2, <1>3, <1>4 DEF AgreementInv

\* What a request's step must keep for the invariants about requests.
LEMMA RequestStepKeeps ==
    ASSUME TypeOK, FreshIdsAreFree, RequestsMatchStorage, ClaimedHaveMessages,
           NEW id \in MessageIds,
           requests[id].phase \notin {"free", "claimed"},
           requests'[id].phase \in {"waiting", "delay", "destroyed"},
           requests'[id].message = requests[id].message,
           \A i \in MessageIds \ {id} : /\ requests'[i] = requests[i]
                                        /\ addCalls'[i] = addCalls[i],
           \A f \in lateAdds' : f \in lateAdds \/ f[1] = id,
           lateAdds' \subseteq MessageIds \X ConnIds,
           UNCHANGED masterVars
    PROVE  FreshIdsAreFree' /\ RequestsMatchStorage' /\ ClaimedHaveMessages'
<1>1. FreshIdsAreFree'
  BY DEF FreshIdsAreFree
<1>2. ClaimedHaveMessages'
  BY DEF ClaimedHaveMessages
<1>3. RequestsMatchStorage'
  <2> SUFFICES ASSUME NEW i \in MessageIds
      PROVE IF requests'[i].phase \in {"free", "claimed"}
            THEN /\ messages'[i] = Absent
                 /\ ~requests'[i].promiseFilled
                 /\ \A c \in ConnIds : addCalls'[i][c] = "none" /\ <<i, c>> \notin lateAdds'
            ELSE /\ messages'[i] = requests'[i].message
                 /\ messages'[i] # Absent
    BY DEF RequestsMatchStorage
  <2>1. CASE i = id
    BY <2>1 DEF RequestsMatchStorage
  <2>2. CASE i # id
    BY <2>2 DEF RequestsMatchStorage
  <2> QED BY <2>1, <2>2
<1> QED BY <1>1, <1>2, <1>3

\* Every step keeps requests and the master's map in line.
LEMMA RequestsNext ==
    TypeOK /\ PendingWritesMatchCalls /\ AgreementInv /\ [Next]_vars
        => FreshIdsAreFree' /\ RequestsMatchStorage' /\ ClaimedHaveMessages'
<1> DEFINE Goal == FreshIdsAreFree' /\ RequestsMatchStorage' /\ ClaimedHaveMessages'
<1> SUFFICES ASSUME TypeOK, PendingWritesMatchCalls, FreshIdsAreFree,
                    RequestsMatchStorage, ClaimedHaveMessages, [Next]_vars
             PROVE  Goal
  BY DEF AgreementInv
<1>1. ASSUME NEW t \in Threads, PostMessage(t) PROVE Goal
  <2>1. PICK m \in Messages, w \in WriteConcerns : ClaimId(t, m, w)
    BY <1>1 DEF PostMessage
  <2>2. PICK id \in MessageIds : id = nextMessageId
    BY <2>1, StorageAssumption DEF ClaimId, TypeOK, MessageIds
  <2>3. requests[id].phase = "free"
    BY <2>2, StorageAssumption DEF FreshIdsAreFree, TypeOK
  <2>4. /\ requests'[id].phase = "claimed"
        /\ requests'[id].message = m
        /\ requests'[id].promiseFilled = FALSE
        /\ \A i \in MessageIds \ {id} : requests'[i] = requests[i]
    BY <2>1, <2>2 DEF ClaimId, TypeOK, NewRequest
  <2>5. nextMessageId' = id + 1 /\ UNCHANGED <<messages, addCalls, lateAdds>>
    BY <2>1, <2>2 DEF ClaimId
  <2>6. FreshIdsAreFree'
    BY <2>2, <2>4, <2>5, StorageAssumption DEF FreshIdsAreFree, MessageIds
  <2>7. RequestsMatchStorage'
    BY <2>3, <2>4, <2>5 DEF RequestsMatchStorage
  <2>8. ClaimedHaveMessages'
    BY <2>4, StorageAssumption DEF ClaimedHaveMessages
  <2> QED BY <2>6, <2>7, <2>8
<1>2. ASSUME NEW id \in MessageIds, InsertMessage(id) PROVE Goal
  <2>1. /\ requests[id].phase = "claimed"
        /\ requests'[id].phase = "inserted"
        /\ requests'[id].message = requests[id].message
        /\ \A i \in MessageIds \ {id} : requests'[i] = requests[i]
    BY <1>2 DEF InsertMessage, TypeOK, RequestType
  <2>2. messages[id] = Absent /\ requests[id].message # Absent
    BY <2>1 DEF RequestsMatchStorage, ClaimedHaveMessages
  <2>3. /\ messages'[id] = requests[id].message
        /\ \A i \in MessageIds \ {id} : messages'[i] = messages[i]
    BY <1>2, <2>2 DEF InsertMessage, Insert, Has, TypeOK, StorageType
  <2>4. UNCHANGED <<nextMessageId, addCalls, lateAdds>>
    BY <1>2 DEF InsertMessage
  <2>5. FreshIdsAreFree' /\ ClaimedHaveMessages'
    BY <2>1, <2>4 DEF FreshIdsAreFree, ClaimedHaveMessages
  <2>6. RequestsMatchStorage'
    BY <2>1, <2>2, <2>3, <2>4 DEF RequestsMatchStorage
  <2> QED BY <2>5, <2>6
<1>3. ASSUME NEW id \in MessageIds, RunRequest(id) \/ RetryTimer(id) PROVE Goal
  <2>1. /\ StartRequest(id, requests[id], addCalls[id])
        /\ requests[id].phase \in {"inserted", "delay"}
        /\ UNCHANGED <<masterVars, lateAdds>>
    BY <1>3 DEF RunRequest, RetryTimer
  <2>2. /\ requests'[id].message = requests[id].message
        /\ requests'[id].phase \in {"waiting", "delay", "destroyed"}
        /\ \A i \in MessageIds \ {id} : /\ requests'[i] = requests[i]
                                        /\ addCalls'[i] = addCalls[i]
    BY <2>1, StartStep
  <2>3. lateAdds' \subseteq MessageIds \X ConnIds
    BY <2>1 DEF TypeOK
  <2> QED BY <2>1, <2>2, <2>3, RequestStepKeeps
<1>4. ASSUME NEW id \in MessageIds, NEW c \in ConnIds,
             AddMessageAnswered(id, c) \/ AddMessageFailed(id, c)
      PROVE  Goal
  <2>1. PICK status \in Statuses :
            addCalls[id][c] # "none" /\ AddMessageCallback(id, c, status)
    BY <1>4 DEF AddMessageAnswered, AddMessageFailed, Statuses
  <2>2. requests[id].phase = "waiting"
    BY <2>1, OpenCallIsCounted
  <2>3. /\ requests'[id].message = requests[id].message
        /\ requests'[id].phase \in {"waiting", "delay", "destroyed"}
        /\ \A i \in MessageIds \ {id} : /\ requests'[i] = requests[i]
                                        /\ addCalls'[i] = addCalls[i]
    BY <2>1, CallbackStep
  <2>4. /\ \A f \in lateAdds' : f \in lateAdds \/ f[1] = id
        /\ lateAdds' \subseteq MessageIds \X ConnIds
    BY <1>4 DEF AddMessageAnswered, AddMessageFailed, TypeOK
  <2>5. UNCHANGED masterVars
    BY <2>1 DEF AddMessageCallback
  <2> QED BY <2>2, <2>3, <2>4, <2>5, RequestStepKeeps
\* The other steps touch neither requests nor the map and send nothing.
<1>5. ASSUME UNCHANGED <<nextMessageId, messages, requests>>,
             lateAdds' \subseteq lateAdds,
             \A id \in MessageIds, c \in ConnIds :
                 addCalls[id][c] = "none" => addCalls'[id][c] = "none"
      PROVE  Goal
  BY <1>5 DEF FreshIdsAreFree, RequestsMatchStorage, ClaimedHaveMessages
<1>6. ASSUME NEW n \in Nodes, OnSessionInvalidated(n) \/ Crash(n) PROVE Goal
  <2>1. UNCHANGED <<nextMessageId, messages, requests>>
    BY <1>6 DEF OnSessionInvalidated, Crash
  <2>2. CloseSecondaryEnd(sessions[n].conn) \/ UNCHANGED <<addCalls, lateAdds>>
    BY <1>6 DEF OnSessionInvalidated, Crash
  <2> HIDE DEF Goal
  <2> QED BY <1>5, <2>1, <2>2, CloseStep
<1>7. ASSUME NEW id \in MessageIds, NEW c \in ConnIds,
             OnIncomingAddMessage(id, c) \/ OnLateAddMessage(id, c)
      PROVE  Goal
  <2>1. UNCHANGED <<nextMessageId, messages, requests>> /\ lateAdds' \subseteq lateAdds
    BY <1>7 DEF OnIncomingAddMessage, OnLateAddMessage
  <2>2. \A i \in MessageIds, d \in ConnIds :
            addCalls[i][d] = "none" => addCalls'[i][d] = "none"
    BY <1>7 DEF OnIncomingAddMessage, OnLateAddMessage, TypeOK
  <2> HIDE DEF Goal
  <2> QED BY <1>5, <2>1, <2>2
<1>8. CASE UNCHANGED <<masterVars, requestVars>>
  <2> HIDE DEF Goal
  <2> QED BY <1>5, <1>8
<1>9. ASSUME NEW c \in ConnIds,
             MasterSocketInvalidated(c) \/ OnInvalidated(c) \/ OnLateSecondaryNodeReady(c)
      PROVE  UNCHANGED <<masterVars, requestVars>>
  BY <1>9 DEF MasterSocketInvalidated, OnInvalidated, OnLateSecondaryNodeReady
<1>10. ASSUME NEW n \in Nodes,
              \/ OnIncomingGetMessages(n) \/ OnIncomingSecondaryNodeReady(n)
              \/ Connect(n) \/ ConnectFails(n) \/ ReconnectTimer(n)
              \/ GetMessagesAnswered(n) \/ GetMessagesFailed(n)
              \/ SecondaryNodeReadyAnswered(n) \/ SecondaryNodeReadyFailed(n)
       PROVE  UNCHANGED <<masterVars, requestVars>>
  BY <1>10 DEF OnIncomingGetMessages, OnIncomingSecondaryNodeReady, Connect,
               ConnectFails, ReconnectTimer, GetMessagesAnswered, GetMessagesFailed,
               SecondaryNodeReadyAnswered, SecondaryNodeReadyFailed
<1>11. ASSUME AddSecondaryImpl \/ UNCHANGED vars
       PROVE  UNCHANGED <<masterVars, requestVars>>
  BY <1>11 DEF AddSecondaryImpl, vars
<1> HIDE DEF Goal
<1> QED BY <1>1, <1>2, <1>3, <1>4, <1>6, <1>7, <1>8, <1>9, <1>10, <1>11
    DEF Next, MasterNext, SecondaryNext


\* The master's map only grows.
LEMMA MapGrows ==
    ASSUME TypeOK, [Next]_vars
    PROVE  \A id \in MessageIds : Has(messages, id) => messages'[id] = messages[id]
<1>1. ASSUME NEW id \in MessageIds, InsertMessage(id)
      PROVE  \A i \in MessageIds : Has(messages, i) => messages'[i] = messages[i]
  BY <1>1 DEF InsertMessage, Insert, Has, TypeOK, StorageType
<1>2. ASSUME NEW t \in Threads, PostMessage(t) PROVE messages' = messages
  BY <1>2 DEF PostMessage, ClaimId
<1>3. ASSUME NEW id \in MessageIds, RunRequest(id) \/ RetryTimer(id)
      PROVE  messages' = messages
  BY <1>3 DEF RunRequest, RetryTimer
<1>4. ASSUME NEW id \in MessageIds, NEW c \in ConnIds,
             \/ AddMessageAnswered(id, c) \/ AddMessageFailed(id, c)
             \/ OnIncomingAddMessage(id, c) \/ OnLateAddMessage(id, c)
      PROVE  messages' = messages
  BY <1>4 DEF AddMessageAnswered, AddMessageFailed, AddMessageCallback,
              OnIncomingAddMessage, OnLateAddMessage
<1>5. ASSUME NEW c \in ConnIds,
             MasterSocketInvalidated(c) \/ OnInvalidated(c) \/ OnLateSecondaryNodeReady(c)
      PROVE  messages' = messages
  BY <1>5 DEF MasterSocketInvalidated, OnInvalidated, OnLateSecondaryNodeReady
<1>6. ASSUME NEW n \in Nodes,
              \/ OnIncomingGetMessages(n) \/ OnIncomingSecondaryNodeReady(n)
              \/ Connect(n) \/ ConnectFails(n) \/ ReconnectTimer(n)
              \/ GetMessagesAnswered(n) \/ GetMessagesFailed(n)
              \/ SecondaryNodeReadyAnswered(n) \/ SecondaryNodeReadyFailed(n)
              \/ OnSessionInvalidated(n) \/ Crash(n)
       PROVE  messages' = messages
  BY <1>6 DEF OnIncomingGetMessages, OnIncomingSecondaryNodeReady, Connect,
              ConnectFails, ReconnectTimer, GetMessagesAnswered, GetMessagesFailed,
              SecondaryNodeReadyAnswered, SecondaryNodeReadyFailed,
              OnSessionInvalidated, Crash
<1>7. ASSUME AddSecondaryImpl \/ UNCHANGED vars PROVE messages' = messages
  BY <1>7 DEF AddSecondaryImpl, vars
<1> QED BY <1>1, <1>2, <1>3, <1>4, <1>5, <1>6, <1>7
    DEF Next, MasterNext, SecondaryNext

\* Every step leaves a session's chunk alone, drops it, or cuts it from the map.
LEMMA ChunkSteps ==
    ASSUME TypeOK, [Next]_vars, NEW n \in Nodes
    PROVE  \/ sessions'[n].chunk = << >>
           \/ /\ sessions'[n].chunk = sessions[n].chunk
              /\ sessions'[n].gap = sessions[n].gap
           \/ /\ sessions'[n].chunk = ContiguousChunk(messages, sessions[n].gap)
              /\ sessions'[n].gap = sessions[n].gap
<1> DEFINE Goal == \/ sessions'[n].chunk = << >>
                   \/ /\ sessions'[n].chunk = sessions[n].chunk
                      /\ sessions'[n].gap = sessions[n].gap
                   \/ /\ sessions'[n].chunk = ContiguousChunk(messages, sessions[n].gap)
                      /\ sessions'[n].gap = sessions[n].gap
<1>0. \A m \in Nodes : sessions[m] \in SessionType
  BY DEF TypeOK
<1>1. ASSUME NEW m \in Nodes, OnIncomingGetMessages(m) PROVE Goal
  BY <1>0, <1>1 DEF OnIncomingGetMessages, SessionType, TypeOK
<1>2. ASSUME NEW m \in Nodes, OnIncomingSecondaryNodeReady(m) PROVE Goal
  BY <1>0, <1>2 DEF OnIncomingSecondaryNodeReady, SessionType, TypeOK
<1>3. ASSUME NEW m \in Nodes, Connect(m) \/ OnSessionInvalidated(m) \/ Crash(m)
      PROVE  Goal
  BY <1>3 DEF Connect, OnSessionInvalidated, Crash, NoSession, Session, TypeOK
<1>4. ASSUME NEW m \in Nodes, ConnectFails(m) \/ ReconnectTimer(m) PROVE Goal
  <2>1. CASE m = n
    BY <1>0, <1>4, <2>1 DEF ConnectFails, ReconnectTimer, SessionType, TypeOK
  <2>2. CASE m # n
    BY <1>4, <2>2 DEF ConnectFails, ReconnectTimer, TypeOK
  <2> QED BY <2>1, <2>2
<1>5. ASSUME NEW m \in Nodes, GetMessagesAnswered(m) \/ GetMessagesFailed(m)
      PROVE  Goal
  BY <1>5 DEF GetMessagesAnswered, GetMessagesFailed, Session, TypeOK
<1>6. ASSUME NEW m \in Nodes,
             SecondaryNodeReadyAnswered(m) \/ SecondaryNodeReadyFailed(m)
      PROVE  Goal
  BY <1>6 DEF SecondaryNodeReadyAnswered, SecondaryNodeReadyFailed, Session, TypeOK
<1>7. ASSUME sessions' = sessions PROVE Goal
  BY <1>7
<1>8. ASSUME NEW id \in MessageIds, NEW c \in ConnIds,
             \/ AddMessageAnswered(id, c) \/ AddMessageFailed(id, c)
             \/ OnIncomingAddMessage(id, c) \/ OnLateAddMessage(id, c)
      PROVE  Goal
  BY <1>7, <1>8 DEF AddMessageAnswered, AddMessageFailed, AddMessageCallback,
              OnIncomingAddMessage, OnLateAddMessage
<1>9. ASSUME NEW c \in ConnIds,
             MasterSocketInvalidated(c) \/ OnInvalidated(c) \/ OnLateSecondaryNodeReady(c)
      PROVE  Goal
  BY <1>7, <1>9 DEF MasterSocketInvalidated, OnInvalidated, OnLateSecondaryNodeReady
<1>10. ASSUME NEW id \in MessageIds, InsertMessage(id) \/ RunRequest(id) \/ RetryTimer(id)
      PROVE  Goal
  BY <1>7, <1>10 DEF InsertMessage, RunRequest, RetryTimer
<1>11. ASSUME NEW t \in Threads, PostMessage(t) PROVE Goal
  BY <1>7, <1>11 DEF PostMessage, ClaimId
<1>12. ASSUME AddSecondaryImpl \/ UNCHANGED vars PROVE Goal
  BY <1>7, <1>12 DEF AddSecondaryImpl, vars
<1> HIDE DEF Goal
<1>13. MasterNext => Goal
  BY <1>1, <1>2, <1>8, <1>9, <1>10, <1>11, <1>12 DEF MasterNext
<1>14. SecondaryNext => Goal
  BY <1>3, <1>4, <1>5, <1>6, <1>8 DEF SecondaryNext
<1>15. Goal
  BY <1>12, <1>13, <1>14 DEF Next
<1> QED BY <1>15 DEF Goal

\* Every step keeps the chunks on their way pieces of the master's map.
LEMMA ChunksNext ==
    TypeOK /\ ChunksAgree /\ [Next]_vars => ChunksAgree'
<1> SUFFICES ASSUME TypeOK, ChunksAgree, [Next]_vars,
                    NEW n \in Nodes, NEW i \in 1 .. Len(sessions'[n].chunk)
             PROVE  /\ Has(messages', sessions'[n].gap + i - 1)
                    /\ sessions'[n].chunk[i] = messages'[sessions'[n].gap + i - 1]
  BY DEF ChunksAgree, Has
<1>1. /\ sessions'[n].gap = sessions[n].gap
      /\ \/ sessions'[n].chunk = sessions[n].chunk
         \/ sessions'[n].chunk = ContiguousChunk(messages, sessions[n].gap)
  BY ChunkSteps
<1>2. sessions[n].gap \in 0 .. MaxMessages /\ messages \in StorageType
  BY DEF TypeOK, SessionType
<1>3. /\ Has(messages, sessions[n].gap + i - 1)
      /\ sessions'[n].chunk[i] = messages[sessions[n].gap + i - 1]
  BY <1>1, <1>2, ContiguousChunkIsPiece DEF ChunksAgree
<1>4. messages'[sessions[n].gap + i - 1] = messages[sessions[n].gap + i - 1]
  BY <1>3, MapGrows DEF Has
<1> QED BY <1>1, <1>3, <1>4 DEF Has


\* What a secondary learns in one step is what the master's map holds.
LEMMA LearnedFromMap ==
    ASSUME TypeOK, PendingWritesMatchCalls, AgreementInv, [Next]_vars,
           NEW n \in Nodes
    PROVE  \/ store'[n] = EmptyStorage
           \/ \A id \in MessageIds :
                 \/ store'[n][id] = store[n][id]
                 \/ Has(messages, id) /\ store'[n][id] = messages[id]
<1> DEFINE Goal == \/ store'[n] = EmptyStorage
                   \/ \A id \in MessageIds :
                         \/ store'[n][id] = store[n][id]
                         \/ Has(messages, id) /\ store'[n][id] = messages[id]
<1>1. ASSUME store'[n] = store[n] PROVE Goal
  BY <1>1
<1>2. ASSUME NEW id \in MessageIds, NEW c \in ConnIds,
             OnIncomingAddMessage(id, c) \/ OnLateAddMessage(id, c)
      PROVE  Goal
  <2>1. requests[id].phase \notin {"free", "claimed"}
    <3>1. CASE OnIncomingAddMessage(id, c)
      BY <3>1 DEF OnIncomingAddMessage, AgreementInv, RequestsMatchStorage
    <3>2. CASE OnLateAddMessage(id, c)
      BY <3>2 DEF OnLateAddMessage, AgreementInv, RequestsMatchStorage
    <3> QED BY <1>2, <3>1, <3>2
  <2>2. requests[id].message = messages[id] /\ Has(messages, id)
    BY <2>1 DEF AgreementInv, RequestsMatchStorage, Has
  <2>3. store' = [store EXCEPT
                ![owner[c]] = Insert(store[owner[c]], id, requests[id].message)]
    BY <1>2 DEF OnIncomingAddMessage, OnLateAddMessage, StoreMessage
  <2>4. CASE owner[c] = n
    <3>1. store'[n] = Insert(store[n], id, messages[id])
      BY <2>2, <2>3, <2>4 DEF TypeOK
    <3>2. store[n] \in [MessageIds -> Messages \cup {Absent}]
      BY DEF TypeOK, StorageType
    <3> QED BY <2>2, <3>1, <3>2 DEF Insert
  <2>5. CASE owner[c] # n
    BY <1>1, <2>3, <2>5 DEF TypeOK
  <2> QED BY <2>4, <2>5
<1>3. ASSUME NEW m \in Nodes, GetMessagesAnswered(m) PROVE Goal
  <2>1. CASE m = n
    <3> DEFINE gap == sessions[n].gap
               chunk == sessions[n].chunk
    <3>1. store'[n] = AddMessages(store[n], gap, chunk)
      BY <1>3, <2>1 DEF GetMessagesAnswered, TypeOK
    <3>2. gap \in 0 .. MaxMessages /\ chunk \in Seq(Messages)
      BY DEF TypeOK, SessionType
    <3>3. \A i \in 1 .. Len(chunk) :
                Has(messages, gap + i - 1) /\ chunk[i] = messages[gap + i - 1]
      BY DEF AgreementInv, ChunksAgree
    <3> HIDE DEF gap, chunk
    <3>4. ASSUME NEW id \in MessageIds, id \in gap .. (gap + Len(chunk) - 1)
          PROVE  Has(messages, id) /\ chunk[id - gap + 1] = messages[id]
      <4>1. id \in Nat
        BY StorageAssumption DEF MessageIds
      <4>2. id - gap + 1 \in 1 .. Len(chunk) /\ gap + (id - gap + 1) - 1 = id
        BY <3>2, <3>4, <4>1
      <4> QED BY <3>3, <4>2
    <3> QED BY <3>1, <3>4 DEF AddMessages
  <2>2. CASE m # n
    BY <1>1, <1>3, <2>2 DEF GetMessagesAnswered, TypeOK
  <2> QED BY <2>1, <2>2
<1>4. ASSUME NEW m \in Nodes, Crash(m) PROVE Goal
  BY <1>4 DEF Crash, TypeOK
<1>5. ASSUME NEW m \in Nodes,
              \/ OnIncomingGetMessages(m) \/ OnIncomingSecondaryNodeReady(m)
              \/ Connect(m) \/ ConnectFails(m) \/ ReconnectTimer(m)
              \/ GetMessagesFailed(m) \/ SecondaryNodeReadyAnswered(m)
              \/ SecondaryNodeReadyFailed(m) \/ OnSessionInvalidated(m)
       PROVE  Goal
  <2>1. store' = store
    BY <1>5 DEF OnIncomingGetMessages, OnIncomingSecondaryNodeReady, Connect,
                ConnectFails, ReconnectTimer, GetMessagesFailed,
                SecondaryNodeReadyAnswered, SecondaryNodeReadyFailed,
                OnSessionInvalidated
  <2> QED BY <1>1, <2>1
<1>6. ASSUME NEW id \in MessageIds, InsertMessage(id) \/ RunRequest(id) \/ RetryTimer(id)
      PROVE  Goal
  BY <1>1, <1>6 DEF InsertMessage, RunRequest, RetryTimer
<1>7. ASSUME NEW id \in MessageIds, NEW c \in ConnIds,
             AddMessageAnswered(id, c) \/ AddMessageFailed(id, c)
      PROVE  Goal
  BY <1>1, <1>7 DEF AddMessageAnswered, AddMessageFailed, AddMessageCallback
<1>8. ASSUME NEW c \in ConnIds,
             MasterSocketInvalidated(c) \/ OnInvalidated(c) \/ OnLateSecondaryNodeReady(c)
      PROVE  Goal
  BY <1>1, <1>8 DEF MasterSocketInvalidated, OnInvalidated, OnLateSecondaryNodeReady
<1>9. ASSUME NEW t \in Threads, PostMessage(t) PROVE Goal
  BY <1>1, <1>9 DEF PostMessage, ClaimId
<1>10. ASSUME AddSecondaryImpl \/ UNCHANGED vars PROVE Goal
  BY <1>1, <1>10 DEF AddSecondaryImpl, vars
<1> HIDE DEF Goal
<1>11. MasterNext => Goal
  BY <1>5, <1>6, <1>7, <1>8, <1>9, <1>10 DEF MasterNext
<1>12. SecondaryNext => Goal
  BY <1>2, <1>3, <1>4, <1>5 DEF SecondaryNext
<1>13. Goal
  BY <1>10, <1>11, <1>12 DEF Next
<1> QED BY <1>13 DEF Goal

\* Every step keeps the agreement invariant.
LEMMA AgreementNext ==
    TypeOK /\ PendingWritesMatchCalls /\ AgreementInv /\ [Next]_vars => AgreementInv'
<1> SUFFICES ASSUME TypeOK, PendingWritesMatchCalls, AgreementInv, [Next]_vars
             PROVE  AgreementInv'
  OBVIOUS
<1>1. FreshIdsAreFree' /\ RequestsMatchStorage' /\ ClaimedHaveMessages'
  BY RequestsNext
<1>2. ChunksAgree'
  BY ChunksNext DEF AgreementInv
<1>3. ASSUME NEW n \in Nodes, NEW id \in MessageIds, store'[n][id] # Absent
      PROVE  store'[n][id] = messages'[id]
  <2>1. store'[n] # EmptyStorage
    BY <1>3 DEF EmptyStorage
  <2>2. \/ store'[n][id] = store[n][id]
        \/ Has(messages, id) /\ store'[n][id] = messages[id]
    BY <2>1, LearnedFromMap
  <2>3. store'[n][id] = messages[id]
    BY <1>3, <2>2 DEF AgreementInv, Agreement, Has
  <2>4. Has(messages, id)
    BY <1>3, <2>3 DEF Has
  <2> QED BY <2>3, <2>4, MapGrows
<1>4. Agreement'
  BY <1>3 DEF Agreement, Has
<1> QED BY <1>1, <1>2, <1>4 DEF AgreementInv

-----------------------------------------------------------------------------
(* The theorems.                                                           *)

\* The inductive invariant holds in every reachable state.
LEMMA Invariance == Spec => []ReplicationInv
<1>1. Init => ReplicationInv
  BY TypeInit, PendingInit, AgreementInit DEF ReplicationInv
<1>2. ReplicationInv /\ [Next]_vars => ReplicationInv'
  BY TypeNext, PendingNext, AgreementNext DEF ReplicationInv, AgreementInv
<1> QED BY <1>1, <1>2, PTL DEF Spec

\* Replication's variables keep their types; in particular the unsigned
\* pendingWrites_ never wraps below zero.
THEOREM TypeCorrect == Spec => []TypeOK
<1>1. ReplicationInv => TypeOK
  BY DEF ReplicationInv
<1> QED BY <1>1, Invariance, PTL

\* pendingWrites_ of every AddMessageRequest is the number of callbacks still
\* to come, and "assumed 0 pending writes, quitting" is never reached.
THEOREM PendingWritesCorrect == Spec => []PendingWritesMatchCalls
<1>1. ReplicationInv => PendingWritesMatchCalls
  BY DEF ReplicationInv
<1> QED BY <1>1, Invariance, PTL

\* Every message a secondary holds, by push, by late push or by catch-up, is
\* the one the master stored under that id.
THEOREM SecondariesAgree == Spec => []Agreement
<1>1. ReplicationInv => Agreement
  BY DEF ReplicationInv, AgreementInv
<1> QED BY <1>1, Invariance, PTL

-----------------------------------------------------------------------------
(* Replication implements ReplicatedLog.                                   *)

\* What a secondary shows is a beginning of what the master shows, for any
\* number of secondaries, threads and messages.
THEOREM ShownCorrect == Spec => []ShownIsPrefix
<1>1. ReplicationInv => ShownIsPrefix
  <2> SUFFICES ASSUME ReplicationInv, NEW n \in Nodes
               PROVE  /\ Len(MessagesOfSecondary(n)) <= Len(MessagesOfMaster)
                      /\ \A i \in 1 .. Len(MessagesOfSecondary(n)) :
                            MessagesOfSecondary(n)[i] = MessagesOfMaster[i]
    BY DEF ShownIsPrefix
  <2>1. store[n] \in StorageType /\ messages \in StorageType
    BY DEF ReplicationInv, TypeOK
  <2>2. \A id \in MessageIds : Has(store[n], id) => store[n][id] = messages[id]
    BY DEF ReplicationInv, AgreementInv, Agreement
  <2> QED BY <2>1, <2>2, ChunkOfPart DEF MessagesOfSecondary, MessagesOfMaster
<1> QED BY <1>1, Invariance, PTL

\* A step of one request confirms its message or nothing.
LEMMA RequestStepRefines ==
    ASSUME ReplicationInv, NEW id \in MessageIds,
           requests[id].phase \notin {"free", "claimed"},
           requests[id].promiseFilled => requests'[id].promiseFilled,
           requests' \in [MessageIds -> RequestType],
           \A i \in MessageIds \ {id} : requests'[i] = requests[i],
           UNCHANGED <<messages, store>>
    PROVE  [Log!Next]_(Log!logVars)
<1> DEFINE confirmed == {i \in MessageIds : requests[i].promiseFilled}
<1>1. messages[id] # Absent
  BY DEF ReplicationInv, AgreementInv, RequestsMatchStorage
<1>2. CASE requests'[id].promiseFilled /\ ~requests[id].promiseFilled
  <2>1. confirmed' = confirmed \cup {id} /\ id \notin confirmed
    BY <1>2
  <2>2. Log!Confirm(id)
    BY <1>1, <2>1 DEF Log!Confirm
  <2> QED BY <2>2 DEF Log!Next
<1>3. CASE ~(requests'[id].promiseFilled /\ ~requests[id].promiseFilled)
  <2>1. requests'[id].promiseFilled <=> requests[id].promiseFilled
    BY <1>3
  <2>2. confirmed' = confirmed
    BY <2>1
  <2> QED BY <2>2 DEF Log!logVars
<1> QED BY <1>2, <1>3

\* A secondary that changes alone learns from the log or forgets.
LEMMA StoreStepRefines ==
    ASSUME ReplicationInv, [Next]_vars, NEW n \in Nodes,
           store' \in [Nodes -> StorageType],
           \A m \in Nodes \ {n} : store'[m] = store[m],
           UNCHANGED <<messages, requests>>
    PROVE  [Log!Next]_(Log!logVars)
<1> DEFINE learned == {id \in MessageIds : store'[n][id] # store[n][id]}
           confirmed == {i \in MessageIds : requests[i].promiseFilled}
<1>1. store \in [Nodes -> StorageType]
  BY DEF ReplicationInv, TypeOK
<1>2. confirmed' = confirmed
  OBVIOUS
<1>3. CASE store'[n] = EmptyStorage
  <2>1. store' = [store EXCEPT ![n] = Log!Empty]
    BY <1>1, <1>3 DEF Log!Empty, EmptyStorage
  <2>2. Log!Forget(n)
    BY <1>2, <2>1 DEF Log!Forget
  <2> QED BY <2>2 DEF Log!Next
<1>4. CASE store'[n] # EmptyStorage
  <2>1. \A id \in MessageIds :
            \/ store'[n][id] = store[n][id]
            \/ Has(messages, id) /\ store'[n][id] = messages[id]
    BY <1>4, LearnedFromMap DEF ReplicationInv
  <2>2. \A id \in learned : messages[id] # Absent /\ store'[n][id] = messages[id]
    BY <2>1 DEF Has
  <2>3. store'[n] = [id \in MessageIds |-> IF id \in learned THEN messages[id]
                                                             ELSE store[n][id]]
    BY <1>1, <2>2 DEF StorageType
  <2>4. store' = [store EXCEPT ![n] =
                    [id \in MessageIds |-> IF id \in learned THEN messages[id]
                                                             ELSE store[n][id]]]
    BY <1>1, <2>3
  <2>5. Log!Learn(n, learned)
    BY <1>2, <2>2, <2>4 DEF Log!Learn
  <2>6. learned \in SUBSET MessageIds
    OBVIOUS
  <2> HIDE DEF learned
  <2> QED BY <2>5, <2>6 DEF Log!Next
<1> QED BY <1>3, <1>4

\* Every step of the system is a step of the log or changes nothing of it.
LEMMA StepRefines == ReplicationInv /\ ReplicationInv' /\ [Next]_vars
                        => [Log!Next]_(Log!logVars)
<1> DEFINE Goal == [Log!Next]_(Log!logVars)
<1> SUFFICES ASSUME ReplicationInv, ReplicationInv', [Next]_vars PROVE Goal
  OBVIOUS
<1>0. /\ TypeOK /\ PendingWritesMatchCalls /\ AgreementInv
      /\ TypeOK'
      /\ store' \in [Nodes -> StorageType]
  BY DEF ReplicationInv, TypeOK
<1>1. ASSUME UNCHANGED <<messages, store, requests>> PROVE Goal
  BY <1>1 DEF Log!logVars
<1>2. ASSUME NEW t \in Threads, PostMessage(t) PROVE Goal
  <2>1. PICK m \in Messages, w \in WriteConcerns : ClaimId(t, m, w)
    BY <1>2 DEF PostMessage
  <2>2. PICK id \in MessageIds : id = nextMessageId
    BY <1>0, <2>1, StorageAssumption DEF ClaimId, TypeOK, MessageIds
  <2>3. ~requests[id].promiseFilled
    BY <1>0, <2>2, StorageAssumption
    DEF AgreementInv, FreshIdsAreFree, RequestsMatchStorage, TypeOK
  <2>4. /\ requests'[id].promiseFilled = FALSE
        /\ \A i \in MessageIds \ {id} : requests'[i] = requests[i]
    BY <1>0, <2>1, <2>2 DEF ClaimId, TypeOK, NewRequest
  <2>5. {i \in MessageIds : requests'[i].promiseFilled}
            = {i \in MessageIds : requests[i].promiseFilled}
    BY <2>3, <2>4
  <2> QED BY <2>1, <2>5 DEF ClaimId, Log!logVars
<1>3. ASSUME NEW id \in MessageIds, InsertMessage(id) PROVE Goal
  <2>1. requests[id].phase = "claimed" /\ requests[id] \in RequestType
    BY <1>0, <1>3 DEF InsertMessage, TypeOK
  <2>2. messages[id] = Absent /\ requests[id].message \in Messages
    BY <1>0, <2>1
    DEF AgreementInv, RequestsMatchStorage, ClaimedHaveMessages, RequestType
  <2>3. messages' = [messages EXCEPT ![id] = requests[id].message]
    BY <1>3, <2>2 DEF InsertMessage, Insert, Has
  <2>4. {i \in MessageIds : requests'[i].promiseFilled}
            = {i \in MessageIds : requests[i].promiseFilled}
    BY <1>0, <1>3, <2>1 DEF InsertMessage, TypeOK, RequestType
  <2>5. Log!Append(id, requests[id].message)
    BY <1>3, <2>2, <2>3, <2>4 DEF Log!Append, InsertMessage
  <2> QED BY <2>2, <2>5 DEF Log!Next
<1>4. ASSUME NEW id \in MessageIds, RunRequest(id) \/ RetryTimer(id) PROVE Goal
  <2>1. /\ StartRequest(id, requests[id], addCalls[id])
        /\ requests[id].phase \in {"inserted", "delay"}
        /\ UNCHANGED <<messages, store>>
    BY <1>4 DEF RunRequest, RetryTimer
  <2>2. /\ requests' \in [MessageIds -> RequestType]
        /\ requests[id].promiseFilled => requests'[id].promiseFilled
        /\ \A i \in MessageIds \ {id} : requests'[i] = requests[i]
    BY <1>0, <2>1, StartStep
  <2> QED BY <2>1, <2>2, RequestStepRefines
<1>5. ASSUME NEW id \in MessageIds, NEW c \in ConnIds,
             AddMessageAnswered(id, c) \/ AddMessageFailed(id, c)
      PROVE  Goal
  <2>1. PICK status \in Statuses :
            addCalls[id][c] # "none" /\ AddMessageCallback(id, c, status)
    BY <1>5 DEF AddMessageAnswered, AddMessageFailed, Statuses
  <2>2. requests[id].phase = "waiting"
    BY <1>0, <2>1, OpenCallIsCounted
  <2>3. /\ requests' \in [MessageIds -> RequestType]
        /\ requests[id].promiseFilled => requests'[id].promiseFilled
        /\ \A i \in MessageIds \ {id} : requests'[i] = requests[i]
    BY <1>0, <2>1, CallbackStep
  <2>4. UNCHANGED <<messages, store>>
    BY <2>1 DEF AddMessageCallback
  <2> QED BY <2>2, <2>3, <2>4, RequestStepRefines
<1>6. ASSUME NEW id \in MessageIds, NEW c \in ConnIds,
             OnIncomingAddMessage(id, c) \/ OnLateAddMessage(id, c)
      PROVE  Goal
  <2>1. UNCHANGED <<messages, requests>>
    BY <1>6 DEF OnIncomingAddMessage, OnLateAddMessage
  <2>2. store' = [store EXCEPT
                ![owner[c]] = Insert(store[owner[c]], id, requests[id].message)]
    BY <1>6 DEF OnIncomingAddMessage, OnLateAddMessage, StoreMessage
  <2>3. CASE owner[c] \in Nodes
    <3>1. \A m \in Nodes \ {owner[c]} : store'[m] = store[m]
      BY <1>0, <2>2, <2>3 DEF TypeOK
    <3> QED BY <1>0, <2>1, <2>3, <3>1, StoreStepRefines
  <2>4. CASE owner[c] \notin Nodes
    BY <1>0, <1>1, <2>1, <2>2, <2>4 DEF TypeOK
  <2> QED BY <2>3, <2>4
<1>7. ASSUME NEW n \in Nodes, GetMessagesAnswered(n) \/ Crash(n) PROVE Goal
  <2>1. /\ UNCHANGED <<messages, requests>>
        /\ \A m \in Nodes \ {n} : store'[m] = store[m]
    BY <1>0, <1>7 DEF GetMessagesAnswered, Crash, TypeOK
  <2> QED BY <1>0, <2>1, StoreStepRefines
<1>8. ASSUME NEW n \in Nodes,
              \/ OnIncomingGetMessages(n) \/ OnIncomingSecondaryNodeReady(n)
              \/ Connect(n) \/ ConnectFails(n) \/ ReconnectTimer(n)
              \/ GetMessagesFailed(n) \/ SecondaryNodeReadyAnswered(n)
              \/ SecondaryNodeReadyFailed(n) \/ OnSessionInvalidated(n)
       PROVE  Goal
  <2>1. UNCHANGED <<messages, store, requests>>
    BY <1>8 DEF OnIncomingGetMessages, OnIncomingSecondaryNodeReady, Connect,
                ConnectFails, ReconnectTimer, GetMessagesFailed,
                SecondaryNodeReadyAnswered, SecondaryNodeReadyFailed,
                OnSessionInvalidated
  <2> QED BY <1>1, <2>1
<1>9. ASSUME NEW c \in ConnIds,
             MasterSocketInvalidated(c) \/ OnInvalidated(c) \/ OnLateSecondaryNodeReady(c)
      PROVE  Goal
  BY <1>1, <1>9 DEF MasterSocketInvalidated, OnInvalidated, OnLateSecondaryNodeReady
<1>10. ASSUME AddSecondaryImpl \/ UNCHANGED vars PROVE Goal
  BY <1>1, <1>10 DEF AddSecondaryImpl, vars
<1> HIDE DEF Goal
<1>11. MasterNext => Goal
  BY <1>2, <1>3, <1>4, <1>5, <1>8, <1>9, <1>10 DEF MasterNext
<1>12. SecondaryNext => Goal
  BY <1>6, <1>7, <1>8 DEF SecondaryNext
<1> QED BY <1>10, <1>11, <1>12 DEF Next

\* The whole machinery of threads, retries, late frames and catch-up amounts
\* to a log whose replicas only learn what it holds.
THEOREM ReplicationRefinesLog == Spec => RefinesLog
<1>1. Init => Log!Init
  <2> SUFFICES ASSUME Init PROVE Log!Init
    OBVIOUS
  <2>1. {id \in MessageIds : requests[id].promiseFilled} = {}
    BY DEF Init, FreeRequest, NewRequest
  <2> QED BY <2>1 DEF Init, Log!Init, Log!Empty, EmptyStorage
<1> QED BY <1>1, StepRefines, Invariance, PTL DEF Spec, RefinesLog, Log!Spec

=============================================================================
