--------------------------- MODULE EndpointProofs ---------------------------
(***************************************************************************)
(* Proofs about Endpoint, for any number of calls in either direction: no  *)
(* call and no context is forgotten, and what an endpoint does is what Rpc *)
(* promises as long as the request ids of a connection are not used up.    *)
(***************************************************************************)
EXTENDS Endpoint, FiniteSetTheorems, SequenceTheorems, TLAPS

-----------------------------------------------------------------------------
(* The strengthening.                                                      *)

\* A call waits in the queue of its caller once, and has no id before it
\* leaves it; a call that was never made has none either.
PostedAreNew ==
    /\ \A e \in Ends : \A i \in 1 .. Len(posted[e]) :
            /\ Caller[posted[e][i]] = e
            /\ future[posted[e][i]] = "open"
            /\ requestId[posted[e][i]] = NoId
            /\ \A j \in 1 .. Len(posted[e]) : posted[e][i] = posted[e][j] => i = j
    /\ \A c \in Calls : future[c] = "idle" => requestId[c] = NoId

\* Both managers hold only calls that were sent, each at its own end.
HeldByCaller ==
    /\ \A c \in delayed : requestId[c] # NoId
    /\ \A e \in Ends : \A c \in pendingRequests[e] : Caller[c] = e

HeldByCallee ==
    \A e \in Ends : \A c \in registeredContexts[e] :
        Caller[c] # e /\ requestId[c] # NoId

\* A frame carries the id of its call.  A request is written once, before the
\* peer has seen the call; a response is written after the peer answered it.
Genuine(e, f) ==
    /\ f.requestId = requestId[f.call]
    /\ f.event = "REQUEST" =>
            /\ Caller[f.call] # e
            /\ promise[f.call] = "no"
            /\ f.call \notin delayed
    /\ f.event = "RESPONSE" => Caller[f.call] = e /\ promise[f.call] = "answered"

FramesAreGenuine ==
    /\ \A e \in Ends : \A i \in 1 .. Len(wire[e]) :
            /\ Genuine(e, wire[e][i])
            /\ \A j \in 1 .. Len(wire[e]) :
                    /\ wire[e][i].event = "REQUEST"
                    /\ wire[e][j].event = "REQUEST"
                    /\ wire[e][j].call = wire[e][i].call
                    => i = j
    /\ \A c \in Calls : c \in delayed \/ requestId[c] = NoId => promise[c] = "no"

EndpointInv ==
    /\ TypeOK
    /\ PostedAreNew
    /\ HeldByCaller
    /\ HeldByCallee
    /\ FramesAreGenuine
    /\ OpenCallsArePending
    /\ ContextsAreAwaited

\* The calls of an end that have an id.
Numbered(e) == {c \in Calls : Caller[c] = e /\ requestId[c] # NoId}

\* While there are ids left, the counter counts the calls that have one, and
\* no two of them have the same.
IdsAreUnique ==
    \A e \in Ends :
        /\ requestIdCounter[e] = Cardinality(Numbered(e)) % IdSpace
        /\ \A c \in Numbered(e) :
                /\ requestId[c] < Cardinality(Numbered(e))
                /\ \A d \in Numbered(e) : requestId[c] = requestId[d] => c = d

-----------------------------------------------------------------------------
(* Helpers.                                                                *)

\* The two ends of a connection are each other's peers.
LEMMA PeerProps ==
    ASSUME NEW e \in Ends
    PROVE  /\ Peer(e) \in Ends
           /\ Peer(e) # e
           /\ \A d \in Ends : d # e => d = Peer(e)
<1>1. PICK a \in Ends, b \in Ends : a # b /\ Ends = {a, b}
  BY EndpointAssumption
<1>2. \E p \in Ends : p # e
  BY <1>1
<1>3. Peer(e) \in Ends /\ Peer(e) # e
  BY <1>2 DEF Peer
<1>. QED
  BY <1>1, <1>3

\* What removing the first element of a queue leaves.
LEMMA TailProps ==
    ASSUME NEW S, NEW s \in Seq(S), s # << >>
    PROVE  /\ Head(s) \in S
           /\ Head(s) = s[1]
           /\ Len(s) \in Nat \ {0}
           /\ Tail(s) \in Seq(S)
           /\ Len(Tail(s)) = Len(s) - 1
           /\ \A i \in 1 .. Len(Tail(s)) : i + 1 \in 1 .. Len(s) /\ Tail(s)[i] = s[i + 1]
  BY HeadTailProperties, EmptySeq

\* What adding an element to a queue yields.
LEMMA AppendProps ==
    ASSUME NEW S, NEW s \in Seq(S), NEW x \in S
    PROVE  /\ Append(s, x) \in Seq(S)
           /\ Len(s) \in Nat
           /\ Len(Append(s, x)) = Len(s) + 1
           /\ \A i \in 1 .. Len(s) : Append(s, x)[i] = s[i]
           /\ Append(s, x)[Len(s) + 1] = x
  BY AppendProperties

\* What a prefix of a queue is.
LEMMA PrefixProps ==
    ASSUME NEW S, NEW s \in Seq(S), NEW k \in Nat, k <= Len(s)
    PROVE  /\ SubSeq(s, 1, k) \in Seq(S)
           /\ Len(SubSeq(s, 1, k)) = k
           /\ \A i \in 1 .. k : SubSeq(s, 1, k)[i] = s[i]
<1>1. \A i \in 1 .. k : s[i] \in S
  BY ElementOfSeq
<1>. QED
  BY <1>1, SubSeqProperties

\* requestIdCounter_ stays an id.
LEMMA NextIdIsId ==
    ASSUME NEW id \in RequestIds
    PROVE  NextId(id) \in RequestIds
  BY EndpointAssumption DEF NextId, RequestIds

\* Frames are only ever written for calls, under an id.
LEMMA WriteFrameType ==
    ASSUME TypeOK, NEW e \in Ends, NEW event \in {"REQUEST", "RESPONSE"},
           NEW id \in RequestIds, NEW c \in Calls
    PROVE  WriteFrame(e, event, id, c) \in [Ends -> Seq(Frames)]
<1>1. [event |-> event, requestId |-> id, call |-> c] \in Frames
  BY DEF Frames
<1>2. Peer(e) \in Ends /\ wire \in [Ends -> Seq(Frames)]
  BY PeerProps DEF TypeOK
<1>3. Append(wire[Peer(e)], [event |-> event, requestId |-> id, call |-> c]) \in Seq(Frames)
  BY <1>1, <1>2, AppendProps
<1>. QED
  BY <1>2, <1>3 DEF WriteFrame

\* What Resolve leaves is well typed.
LEMMA ResolveType ==
    ASSUME TypeOK, NEW e \in Ends, NEW calls, NEW result \in Futures,
           Resolve(e, calls, result)
    PROVE  /\ pendingRequests' \in [Ends -> SUBSET Calls]
           /\ timeoutTimer' \in [Calls -> {"off", "armed", "queued"}]
           /\ future' \in [Calls -> Futures]
<1>. USE DEF TypeOK, Resolve
<1>1. pendingRequests' \in [Ends -> SUBSET Calls]
  OBVIOUS
<1>2. timeoutTimer' \in [Calls -> {"off", "armed", "queued"}]
  OBVIOUS
<1>3. future' \in [Calls -> Futures]
  OBVIOUS
<1>. QED
  BY <1>1, <1>2, <1>3

\* Every queue after frames are lost is a prefix of what it was.
LEMMA LoseFramesProps ==
    ASSUME TypeOK, NEW e \in Ends, NEW kept, NEW sent, LoseFrames(e, kept, sent)
    PROVE  /\ wire' \in [Ends -> Seq(Frames)]
           /\ \A d \in Ends : \E k \in Nat :
                    /\ k <= Len(wire[d])
                    /\ wire'[d] = SubSeq(wire[d], 1, k)
<1>. DEFINE p == Peer(e)
<1>1. p \in Ends /\ p # e /\ \A d \in Ends : d # e => d = p
  BY PeerProps
<1>2. /\ wire \in [Ends -> Seq(Frames)]
      /\ Len(wire[e]) \in Nat /\ Len(wire[p]) \in Nat
      /\ kept \in Nat /\ kept <= Len(wire[e])
      /\ sent \in Nat /\ sent <= Len(wire[p])
  BY <1>1 DEF LoseFrames, TypeOK
<1>3. SubSeq(wire[e], 1, kept) \in Seq(Frames)
  BY <1>1, <1>2, PrefixProps
<1>4. SubSeq(wire[p], 1, sent) \in Seq(Frames)
  BY <1>1, <1>2, PrefixProps
<1>5. wire' = [wire EXCEPT ![e] = SubSeq(@, 1, kept), ![p] = SubSeq(@, 1, sent)]
  BY DEF LoseFrames
<1>. HIDE DEF p
<1>6. wire'[e] = SubSeq(wire[e], 1, kept) /\ wire'[p] = SubSeq(wire[p], 1, sent)
  BY <1>1, <1>2, <1>5
<1>7. wire' \in [Ends -> Seq(Frames)]
  BY <1>1, <1>2, <1>3, <1>4, <1>5
<1>. QED
  BY <1>1, <1>2, <1>6, <1>7

-----------------------------------------------------------------------------
(* Type correctness.                                                       *)

\* Every step of an end or of a call keeps the types.
LEMMA TypeStep ==
    ASSUME EndpointInv, Next
    PROVE  TypeOK'
<1>. USE DEF callerVars, calleeVars, socketVars, vars
<1>t. TypeOK
  BY DEF EndpointInv
<1>f. /\ {"TIMEOUT", "PEER_DISCONNECTED", "value", "open"} \subseteq Futures
      /\ IdSpace \in Nat \ {0}
  BY EndpointAssumption DEF Futures, Failures
<1>1. ASSUME NEW c \in Calls, SendRequest(c) PROVE TypeOK'
  <2>1. Caller[c] \in Ends
    BY EndpointAssumption
  <2>2. Append(posted[Caller[c]], c) \in Seq(Calls)
    BY <1>t, <2>1, AppendProps DEF TypeOK
  <2>. QED
    BY <1>t, <1>f, <1>1, <2>1, <2>2 DEF SendRequest, TypeOK
<1>2. ASSUME NEW c \in Calls, TimerExpires(c) PROVE TypeOK'
  BY <1>t, <1>2 DEF TimerExpires, TypeOK
<1>3. ASSUME NEW c \in Calls, TimeoutHandler(c) PROVE TypeOK'
  <2>1. timeoutTimer' \in [Calls -> {"off", "armed", "queued"}]
    BY <1>t, <1>3 DEF TimeoutHandler, TypeOK
  <2>2. future' \in [Calls -> Futures]
    BY <1>t, <1>f, <1>3 DEF TimeoutHandler, TypeOK
  <2>3. pendingRequests' \in [Ends -> SUBSET Calls]
    BY <1>t, <1>3 DEF TimeoutHandler, TypeOK
  <2>. QED
    BY <1>t, <1>3, <2>1, <2>2, <2>3 DEF TimeoutHandler, TypeOK
<1>4. ASSUME NEW c \in Calls, DelayedWrite(c) PROVE TypeOK'
  <2>1. Caller[c] \in Ends /\ requestId[c] \in RequestIds
    BY <1>t, <1>4, EndpointAssumption DEF DelayedWrite, EndpointInv, HeldByCaller, TypeOK
  <2>2. wire' \in [Ends -> Seq(Frames)]
    BY <1>t, <1>4, <2>1, WriteFrameType DEF DelayedWrite
  <2>3. /\ pendingRequests' \in [Ends -> SUBSET Calls]
        /\ timeoutTimer' \in [Calls -> {"off", "armed", "queued"}]
        /\ future' \in [Calls -> Futures]
    <3>1. CASE alive[Caller[c]] /\ invalidated[Caller[c]]
      BY <1>t, <1>f, <1>4, <2>1, <3>1, ResolveType DEF DelayedWrite
    <3>2. CASE ~(alive[Caller[c]] /\ invalidated[Caller[c]])
      BY <1>t, <1>4, <3>2 DEF DelayedWrite, TypeOK
    <3>. QED
      BY <3>1, <3>2
  <2>. QED
    BY <1>t, <1>4, <2>2, <2>3 DEF DelayedWrite, TypeOK
<1>5. ASSUME NEW c \in Calls, OnPromiseFilled(c) PROVE TypeOK'
  <2>. DEFINE e == Peer(Caller[c])
  <2>1. e \in Ends
    BY EndpointAssumption, PeerProps
  <2>2. wire' \in [Ends -> Seq(Frames)]
    <3>1. CASE c \in registeredContexts[e] /\ promise[c] = "answered"
      <4>1. requestId[c] \in RequestIds
        BY <1>t, <2>1, <3>1 DEF EndpointInv, HeldByCallee, TypeOK
      <4>. QED
        BY <1>t, <1>5, <2>1, <3>1, <4>1, WriteFrameType DEF OnPromiseFilled
    <3>2. CASE ~(c \in registeredContexts[e] /\ promise[c] = "answered")
      BY <1>t, <1>5, <3>2 DEF OnPromiseFilled, TypeOK
    <3>. QED
      BY <3>1, <3>2
  <2>. QED
    BY <1>t, <1>5, <2>2 DEF OnPromiseFilled, TypeOK
<1>6. ASSUME NEW c \in Calls, NEW how \in {"answered", "dropped"}, FinishIncoming(c, how)
      PROVE  TypeOK'
  BY <1>t, <1>6 DEF FinishIncoming, TypeOK
<1>7. ASSUME NEW e \in Ends, SendRequestTooLate(e) PROVE TypeOK'
  <2>1. Tail(posted[e]) \in Seq(Calls) /\ Head(posted[e]) \in Calls
    BY <1>t, <1>7, TailProps DEF SendRequestTooLate, TypeOK
  <2>. QED
    BY <1>t, <1>f, <1>7, <2>1 DEF SendRequestTooLate, TypeOK
<1>8. ASSUME NEW e \in Ends, SendRequestImpl(e) PROVE TypeOK'
  <2>1. Tail(posted[e]) \in Seq(Calls) /\ Head(posted[e]) \in Calls
    BY <1>t, <1>8, TailProps DEF SendRequestImpl, TypeOK
  <2>2. NextId(requestIdCounter[e]) \in RequestIds
    BY <1>t, NextIdIsId DEF TypeOK
  <2>3. posted' \in [Ends -> Seq(Calls)] /\ requestIdCounter' \in [Ends -> RequestIds]
    BY <1>t, <1>8, <2>1, <2>2 DEF SendRequestImpl, TypeOK
  <2>4. CASE Find(e, requestIdCounter[e]) # {}
    BY <1>t, <1>f, <1>8, <2>1, <2>3, <2>4 DEF SendRequestImpl, TypeOK
  <2>5. CASE Find(e, requestIdCounter[e]) = {}
    <3>. DEFINE c == Head(posted[e])
    <3>1. c \in Calls /\ requestIdCounter[e] \in RequestIds
      BY <1>t, <2>1 DEF TypeOK
    <3>2. /\ requestId' = [requestId EXCEPT ![c] = requestIdCounter[e]]
          /\ timeoutTimer' = [timeoutTimer EXCEPT ![c] = "armed"]
          /\ pendingRequests' = [pendingRequests EXCEPT ![e] = @ \cup {c}]
          /\ delayed' = delayed \cup {c}
          /\ UNCHANGED <<future, calleeVars, socketVars>>
      BY <1>8, <2>5 DEF SendRequestImpl
    <3>. HIDE DEF c
    <3>. QED
      BY <1>t, <2>3, <3>1, <3>2 DEF TypeOK
  <2>. QED
    BY <2>4, <2>5
<1>9. ASSUME NEW e \in Ends, OnResponseFrame(e) PROVE TypeOK'
  <2>1. Tail(wire[e]) \in Seq(Frames)
    BY <1>t, <1>9, TailProps DEF OnResponseFrame, TypeOK
  <2>2. /\ pendingRequests' \in [Ends -> SUBSET Calls]
        /\ timeoutTimer' \in [Calls -> {"off", "armed", "queued"}]
        /\ future' \in [Calls -> Futures]
    BY <1>t, <1>f, <1>9, ResolveType DEF OnResponseFrame
  <2>. QED
    BY <1>t, <1>9, <2>1, <2>2 DEF OnResponseFrame, TypeOK
<1>10. ASSUME NEW e \in Ends, OnRequestFrame(e) PROVE TypeOK'
  <2>1. Tail(wire[e]) \in Seq(Frames) /\ Head(wire[e]) \in Frames
    BY <1>t, <1>10, TailProps DEF OnRequestFrame, TypeOK
  <2>2. Head(wire[e]).call \in Calls
    BY <2>1 DEF Frames
  <2>3. registeredContexts' \in [Ends -> SUBSET Calls]
    BY <1>t, <1>10, <2>2 DEF OnRequestFrame, TypeOK
  <2>. QED
    BY <1>t, <1>10, <2>1, <2>2, <2>3 DEF OnRequestFrame, TypeOK
<1>11. ASSUME NEW e \in Ends, Invalidate(e) PROVE TypeOK'
  <2>1. wire' \in [Ends -> Seq(Frames)]
    BY <1>t, <1>11, LoseFramesProps DEF Invalidate
  <2>2. /\ pendingRequests' \in [Ends -> SUBSET Calls]
        /\ timeoutTimer' \in [Calls -> {"off", "armed", "queued"}]
        /\ future' \in [Calls -> Futures]
    BY <1>t, <1>f, <1>11, ResolveType DEF Invalidate
  <2>. QED
    BY <1>t, <1>11, <2>1, <2>2 DEF Invalidate, TypeOK
<1>12. ASSUME NEW e \in Ends, Destroy(e) PROVE TypeOK'
  <2>1. wire' \in [Ends -> Seq(Frames)]
    BY <1>t, <1>12, LoseFramesProps DEF Destroy
  <2>2. /\ pendingRequests' \in [Ends -> SUBSET Calls]
        /\ timeoutTimer' \in [Calls -> {"off", "armed", "queued"}]
        /\ future' \in [Calls -> Futures]
    BY <1>t, <1>f, <1>12, ResolveType DEF Destroy
  <2>. QED
    BY <1>t, <1>12, <2>1, <2>2 DEF Destroy, TypeOK
<1>. HIDE DEF callerVars, calleeVars, socketVars, vars
<1>. QED
  BY <1>1, <1>2, <1>3, <1>4, <1>5, <1>6, <1>7, <1>8, <1>9, <1>10, <1>11, <1>12 DEF Next

-----------------------------------------------------------------------------
(* The calling side.                                                       *)

\* What the steps that fill futures have in common: some pending calls of an
\* end are filled and erased, and nothing else is touched that could let an
\* open call be forgotten.
Fills(e, calls, r) ==
    /\ calls \subseteq pendingRequests[e]
    /\ future' = [c \in Calls |-> IF c \in calls /\ future[c] = "open" THEN r ELSE future[c]]
    /\ pendingRequests' = [pendingRequests EXCEPT ![e] = @ \ calls]
    /\ \A c \in Calls : timeoutTimer'[c] = timeoutTimer[c]
                            \/ c \notin pendingRequests'[Caller[c]]
    /\ \A d \in Ends : alive'[d] = alive[d] \/ pendingRequests'[d] = {}
    /\ delayed' \subseteq delayed
    /\ UNCHANGED <<posted, requestIdCounter, requestId, promise, answers>>

Results == {"value"} \cup Failures

\* Resolve fills, when it is given calls that are pending.
LEMMA ResolveFills ==
    ASSUME EndpointInv, NEW e \in Ends, NEW calls, NEW r \in Results,
           calls \subseteq pendingRequests[e],
           Resolve(e, calls, r),
           \A d \in Ends : alive'[d] = alive[d] \/ (d = e /\ calls = pendingRequests[e]),
           delayed' \subseteq delayed,
           UNCHANGED <<posted, requestIdCounter, requestId, promise, answers>>
    PROVE  Fills(e, calls, r)
<1>1. \A c \in pendingRequests[e] : c \in Calls /\ Caller[c] = e
  BY DEF EndpointInv, HeldByCaller, TypeOK
<1>2. pendingRequests'[e] = pendingRequests[e] \ calls
  BY DEF EndpointInv, TypeOK, Resolve
<1>3. \A c \in Calls : timeoutTimer'[c] = timeoutTimer[c] \/ c \notin pendingRequests'[Caller[c]]
  BY <1>1, <1>2 DEF Resolve
<1>4. \A d \in Ends : alive'[d] = alive[d] \/ pendingRequests'[d] = {}
  BY <1>2
<1>. QED
  BY <1>3, <1>4 DEF Resolve, Fills

\* The handlers that fill futures: a timeout, a delayed write on a dead
\* socket, an answer, a socket that closes, an endpoint that dies.
FillingHandler ==
    \/ \E c \in Calls : TimeoutHandler(c) \/ DelayedWrite(c)
    \/ \E e \in Ends : OnResponseFrame(e) \/ Invalidate(e) \/ Destroy(e)

\* Each of them fills calls of one end, with a value only for an answer.
LEMMA HandlersFill ==
    ASSUME EndpointInv, FillingHandler
    PROVE  \E e \in Ends : \E calls \in SUBSET Calls : \E r \in Results :
              /\ Fills(e, calls, r)
              /\ r = "value" => /\ OnResponseFrame(e)
                                /\ calls = Find(e, Head(wire[e]).requestId)
<1>. DEFINE Goal == \E e \in Ends : \E calls \in SUBSET Calls : \E r \in Results :
              /\ Fills(e, calls, r)
              /\ r = "value" => /\ OnResponseFrame(e)
                                /\ calls = Find(e, Head(wire[e]).requestId)
<1>. USE DEF callerVars, calleeVars, socketVars
<1>t. TypeOK
  BY DEF EndpointInv
<1>f. \A e \in Ends : \A id : Find(e, id) \subseteq pendingRequests[e] /\ Find(e, id) \in SUBSET Calls
  BY <1>t DEF Find, TypeOK
<1>r. "value" \in Results /\ "TIMEOUT" \in Results /\ "PEER_DISCONNECTED" \in Results
  BY DEF Results, Failures
<1>1. ASSUME NEW c \in Calls, TimeoutHandler(c) PROVE Goal
  <2>. DEFINE e == Caller[c]
              found == IF alive[e] THEN Find(e, requestId[c]) ELSE {}
  <2>1. e \in Ends /\ found \subseteq pendingRequests[e] /\ found \in SUBSET Calls
    BY <1>f, EndpointAssumption
  <2>2. pendingRequests' = [pendingRequests EXCEPT ![e] = @ \ found]
    BY <1>1 DEF TimeoutHandler
  <2>3. pendingRequests'[e] = pendingRequests[e] \ found
    BY <1>t, <2>1, <2>2 DEF TypeOK
  <2>4. c \notin pendingRequests'[e]
    <3>1. CASE c \in pendingRequests[e]
      <4>1. alive[e]
        BY <3>1 DEF EndpointInv, OpenCallsArePending
      <4>2. c \in found
        BY <3>1, <4>1 DEF Find
      <4>. QED
        BY <2>3, <4>2
    <3>. QED
      BY <2>3, <3>1
  <2>5. \A d \in found : Caller[d] = e
    BY <2>1 DEF EndpointInv, HeldByCaller
  <2>6. timeoutTimer' = [d \in Calls |->
                IF d = c \/ (d \in found /\ timeoutTimer[d] = "armed")
                THEN "off" ELSE timeoutTimer[d]]
    BY <1>1 DEF TimeoutHandler
  <2>7. \A d \in Calls : timeoutTimer'[d] = timeoutTimer[d] \/ d \notin pendingRequests'[Caller[d]]
    <3>. HIDE DEF found
    <3>. QED
      BY <2>3, <2>4, <2>5, <2>6
  <2>8. Fills(e, found, "TIMEOUT")
    BY <1>1, <2>1, <2>2, <2>7 DEF TimeoutHandler, Fills
  <2>. QED
    BY <1>r, <2>1, <2>8
<1>2. ASSUME NEW c \in Calls, DelayedWrite(c) PROVE Goal
  <2>1. Caller[c] \in Ends
    BY EndpointAssumption
  <2>2. CASE alive[Caller[c]] /\ invalidated[Caller[c]]
    <3>1. Fills(Caller[c], Find(Caller[c], requestId[c]), "PEER_DISCONNECTED")
      <4>1. Resolve(Caller[c], Find(Caller[c], requestId[c]), "PEER_DISCONNECTED")
        BY <1>2, <2>2 DEF DelayedWrite
      <4>2. /\ UNCHANGED <<alive, posted, requestIdCounter, requestId, promise, answers>>
            /\ delayed' \subseteq delayed
        BY <1>2 DEF DelayedWrite
      <4>. QED
        BY <1>f, <1>r, <2>1, <4>1, <4>2, ResolveFills
    <3>. QED
      BY <1>f, <1>r, <2>1, <3>1
  <2>3. CASE ~(alive[Caller[c]] /\ invalidated[Caller[c]])
    <3>1. UNCHANGED <<timeoutTimer, future, pendingRequests>>
      BY <1>2, <2>3 DEF DelayedWrite
    <3>2. /\ future = [d \in Calls |-> future[d]]
          /\ pendingRequests = [pendingRequests EXCEPT ![Caller[c]] = @ \ {}]
      BY <1>t, <2>1 DEF TypeOK
    <3>3. Fills(Caller[c], {}, "TIMEOUT")
      BY <1>2, <3>1, <3>2 DEF DelayedWrite, Fills
    <3>. QED
      BY <1>r, <2>1, <3>3
  <2>. QED
    BY <2>2, <2>3
<1>3. ASSUME NEW e \in Ends, OnResponseFrame(e) PROVE Goal
  <2>1. Fills(e, Find(e, Head(wire[e]).requestId), "value")
    <3>1. Resolve(e, Find(e, Head(wire[e]).requestId), "value")
      BY <1>3 DEF OnResponseFrame
    <3>2. UNCHANGED <<delayed, alive, posted, requestIdCounter, requestId, promise, answers>>
      BY <1>3 DEF OnResponseFrame
    <3>. QED
      BY <1>f, <1>r, <3>1, <3>2, ResolveFills
  <2>. QED
    BY <1>3, <1>f, <1>r, <2>1
<1>4. ASSUME NEW e \in Ends, Invalidate(e) \/ Destroy(e) PROVE Goal
  <2>1. Fills(e, pendingRequests[e], "PEER_DISCONNECTED")
    <3>1. Resolve(e, pendingRequests[e], "PEER_DISCONNECTED")
      BY <1>4 DEF Invalidate, Destroy
    <3>2. UNCHANGED <<delayed, posted, requestIdCounter, requestId, promise, answers>>
      BY <1>4 DEF Invalidate, Destroy
    <3>3. \A d \in Ends : alive'[d] = alive[d] \/ d = e
      BY <1>4, <1>t DEF Invalidate, Destroy, TypeOK
    <3>. QED
      BY <1>r, <3>1, <3>2, <3>3, ResolveFills
  <2>2. pendingRequests[e] \in SUBSET Calls
    BY <1>t DEF TypeOK
  <2>. QED
    BY <1>r, <2>1, <2>2
<1>. HIDE DEF Goal
<1>5. Goal
  BY <1>1, <1>2, <1>3, <1>4 DEF FillingHandler
<1>. QED
  BY <1>5 DEF Goal

CallerInv == PostedAreNew /\ HeldByCaller /\ OpenCallsArePending

\* A step that fills futures forgets no call.
LEMMA FillsKeepCallerInv ==
    ASSUME EndpointInv, TypeOK', NEW e \in Ends, NEW calls, NEW r \in Results, Fills(e, calls, r)
    PROVE  CallerInv'
<1>t. TypeOK /\ PostedAreNew /\ HeldByCaller /\ OpenCallsArePending
  BY DEF EndpointInv
<1>r. r # "open" /\ r # "idle"
  BY DEF Results, Failures
<1>p. \A c \in calls : c \in Calls /\ Caller[c] = e /\ future[c] = "open" /\ requestId[c] # NoId
  BY <1>t DEF Fills, TypeOK, HeldByCaller, OpenCallsArePending
<1>q. /\ pendingRequests'[e] = pendingRequests[e] \ calls
      /\ \A d \in Ends : d # e => pendingRequests'[d] = pendingRequests[d]
      /\ \A c \in Calls : future'[c] = IF c \in calls THEN r ELSE future[c]
      /\ posted' = posted /\ requestId' = requestId /\ delayed' \subseteq delayed
  BY <1>t, <1>p DEF Fills, TypeOK
<1>1. PostedAreNew'
  <2>1. \A d \in Ends : \A i \in 1 .. Len(posted[d]) : posted[d][i] \in Calls
    BY <1>t DEF TypeOK
  <2>. QED
    BY <1>t, <1>p, <1>q, <1>r, <2>1 DEF PostedAreNew
<1>2. HeldByCaller'
  BY <1>t, <1>q DEF HeldByCaller
<1>3. OpenCallsArePending'
  <2>. SUFFICES ASSUME NEW c \in Calls
                PROVE  /\ c \in pendingRequests'[Caller[c]] => alive'[Caller[c]] /\ timeoutTimer'[c] # "off"
                       /\ (c \in pendingRequests'[Caller[c]]) <=> (future'[c] = "open" /\ requestId'[c] # NoId)
    BY DEF OpenCallsArePending
  <2>1. Caller[c] \in Ends
    BY EndpointAssumption
  <2>2. (c \in pendingRequests'[Caller[c]]) <=> (c \in pendingRequests[Caller[c]] /\ c \notin calls)
    BY <1>p, <1>q, <2>1
  <2>3. c \in pendingRequests'[Caller[c]] => alive'[Caller[c]] /\ timeoutTimer'[c] # "off"
    <3>. SUFFICES ASSUME c \in pendingRequests'[Caller[c]]
                  PROVE  alive'[Caller[c]] /\ timeoutTimer'[c] # "off"
      OBVIOUS
    <3>1. alive[Caller[c]] /\ timeoutTimer[c] # "off"
      BY <1>t, <2>2 DEF OpenCallsArePending
    <3>2. alive'[Caller[c]] = alive[Caller[c]]
      BY <2>1 DEF Fills
    <3>3. timeoutTimer'[c] = timeoutTimer[c]
      BY DEF Fills
    <3>. QED
      BY <3>1, <3>2, <3>3
  <2>4. (c \in pendingRequests'[Caller[c]]) <=> (future'[c] = "open" /\ requestId'[c] # NoId)
    BY <1>t, <1>q, <1>r, <2>2 DEF OpenCallsArePending
  <2>. QED
    BY <2>3, <2>4
<1>. QED
  BY <1>1, <1>2, <1>3 DEF CallerInv

\* A step that leaves the caller's state alone keeps the caller's invariant.
LEMMA CallerInvUnchanged ==
    ASSUME CallerInv, UNCHANGED <<callerVars, alive>>
    PROVE  CallerInv'
  BY DEF CallerInv, PostedAreNew, HeldByCaller, OpenCallsArePending, callerVars

\* Every step keeps the caller's invariant.
LEMMA CallerStep ==
    ASSUME EndpointInv, TypeOK', Next
    PROVE  CallerInv'
<1>. USE DEF callerVars, calleeVars, socketVars
<1>t. TypeOK /\ PostedAreNew /\ HeldByCaller /\ OpenCallsArePending /\ CallerInv
  BY DEF EndpointInv, CallerInv
<1>e. \A d \in Ends : \A i \in 1 .. Len(posted[d]) : posted[d][i] \in Calls
  BY <1>t DEF TypeOK
<1>1. ASSUME NEW c \in Calls, SendRequest(c) PROVE CallerInv'
  <2>. DEFINE e == Caller[c]
  <2>1. e \in Ends
    BY EndpointAssumption
  <2>2. /\ \A d \in Calls : future'[d] = IF d = c THEN "open" ELSE future[d]
        /\ posted'[e] = Append(posted[e], c)
        /\ \A d \in Ends : d # e => posted'[d] = posted[d]
        /\ UNCHANGED <<requestId, pendingRequests, timeoutTimer, delayed, alive>>
        /\ future[c] = "idle"
    BY <1>1, <1>t, <2>1 DEF SendRequest, TypeOK
  <2>3. requestId[c] = NoId
    BY <1>t, <2>2 DEF PostedAreNew
  <2>4. /\ Len(posted[e]) \in Nat
        /\ Len(posted'[e]) = Len(posted[e]) + 1
        /\ \A i \in 1 .. Len(posted[e]) : posted'[e][i] = posted[e][i]
        /\ posted'[e][Len(posted[e]) + 1] = c
    BY <1>t, <2>1, <2>2, AppendProps DEF TypeOK
  <2>. HIDE DEF e
  <2>5. PostedAreNew'
    <3>1. ASSUME NEW d \in Ends, NEW i \in 1 .. Len(posted'[d]), d # e
          PROVE  /\ Caller[posted'[d][i]] = d
                 /\ future'[posted'[d][i]] = "open"
                 /\ requestId'[posted'[d][i]] = NoId
                 /\ \A j \in 1 .. Len(posted'[d]) : posted'[d][i] = posted'[d][j] => i = j
      BY <1>t, <1>e, <2>2, <3>1 DEF PostedAreNew
    <3>2. ASSUME NEW i \in 1 .. Len(posted'[e])
          PROVE  /\ Caller[posted'[e][i]] = e
                 /\ future'[posted'[e][i]] = "open"
                 /\ requestId'[posted'[e][i]] = NoId
                 /\ \A j \in 1 .. Len(posted'[e]) : posted'[e][i] = posted'[e][j] => i = j
      <4>1. \A k \in 1 .. Len(posted[e]) : posted[e][k] # c
        BY <1>t, <2>1, <2>2 DEF PostedAreNew
      <4>2. CASE i = Len(posted[e]) + 1
        BY <1>t, <1>e, <2>1, <2>2, <2>3, <2>4, <4>1, <4>2 DEF e
      <4>3. CASE i # Len(posted[e]) + 1
        <5>1. i \in 1 .. Len(posted[e])
          BY <2>4, <4>3
        <5>. QED
          BY <1>t, <1>e, <2>1, <2>2, <2>4, <4>1, <5>1 DEF PostedAreNew
      <4>. QED
        BY <4>2, <4>3
    <3>3. \A d \in Calls : future'[d] = "idle" => requestId'[d] = NoId
      BY <1>t, <2>2 DEF PostedAreNew
    <3>. QED
      BY <3>1, <3>2, <3>3 DEF PostedAreNew
  <2>6. HeldByCaller'
    BY <1>t, <2>2 DEF HeldByCaller
  <2>7. OpenCallsArePending'
    BY <1>t, <2>2, <2>3 DEF OpenCallsArePending
  <2>. QED
    BY <2>5, <2>6, <2>7 DEF CallerInv
<1>2. ASSUME NEW e \in Ends, SendRequestTooLate(e) PROVE CallerInv'
  <2>. DEFINE c == Head(posted[e])
  <2>1. /\ c \in Calls /\ c = posted[e][1]
        /\ Len(posted[e]) \in Nat \ {0}
        /\ Len(Tail(posted[e])) = Len(posted[e]) - 1
        /\ \A i \in 1 .. Len(Tail(posted[e])) :
              i + 1 \in 1 .. Len(posted[e]) /\ Tail(posted[e])[i] = posted[e][i + 1]
    BY <1>t, <1>2, TailProps DEF SendRequestTooLate, TypeOK
  <2>2. /\ \A d \in Calls : future'[d] = IF d = c THEN "PEER_DISCONNECTED" ELSE future[d]
        /\ posted'[e] = Tail(posted[e])
        /\ \A d \in Ends : d # e => posted'[d] = posted[d]
        /\ UNCHANGED <<requestId, pendingRequests, timeoutTimer, delayed, alive>>
    BY <1>2, <1>t, <2>1 DEF SendRequestTooLate, TypeOK
  <2>. HIDE DEF c
  <2>3. Caller[c] = e /\ requestId[c] = NoId /\ future[c] = "open"
    BY <1>t, <2>1 DEF PostedAreNew
  <2>5. PostedAreNew'
    <3>1. ASSUME NEW d \in Ends, NEW i \in 1 .. Len(posted'[d]), d # e
          PROVE  /\ Caller[posted'[d][i]] = d
                 /\ future'[posted'[d][i]] = "open"
                 /\ requestId'[posted'[d][i]] = NoId
                 /\ \A j \in 1 .. Len(posted'[d]) : posted'[d][i] = posted'[d][j] => i = j
      BY <1>t, <1>e, <2>2, <2>3, <3>1 DEF PostedAreNew
    <3>2. ASSUME NEW i \in 1 .. Len(posted'[e])
          PROVE  /\ Caller[posted'[e][i]] = e
                 /\ future'[posted'[e][i]] = "open"
                 /\ requestId'[posted'[e][i]] = NoId
                 /\ \A j \in 1 .. Len(posted'[e]) : posted'[e][i] = posted'[e][j] => i = j
      <4>1. i + 1 \in 1 .. Len(posted[e]) /\ posted'[e][i] = posted[e][i + 1] /\ 1 \in 1 .. Len(posted[e])
        BY <2>1, <2>2
      <4>2. posted[e][i + 1] # c
        BY <1>t, <2>1, <4>1 DEF PostedAreNew
      <4>3. /\ Caller[posted'[e][i]] = e
            /\ future'[posted'[e][i]] = "open"
            /\ requestId'[posted'[e][i]] = NoId
        BY <1>t, <1>e, <2>2, <4>1, <4>2 DEF PostedAreNew
      <4>4. ASSUME NEW j \in 1 .. Len(posted'[e]), posted'[e][i] = posted'[e][j]
            PROVE  i = j
        BY <1>t, <2>1, <2>2, <4>1, <4>4 DEF PostedAreNew
      <4>. QED
        BY <4>3, <4>4
    <3>3. \A d \in Calls : future'[d] = "idle" => requestId'[d] = NoId
      BY <1>t, <2>2 DEF PostedAreNew
    <3>. QED
      BY <3>1, <3>2, <3>3 DEF PostedAreNew
  <2>6. HeldByCaller'
    BY <1>t, <2>2 DEF HeldByCaller
  <2>7. OpenCallsArePending'
    BY <1>t, <2>2, <2>3 DEF OpenCallsArePending
  <2>. QED
    BY <2>5, <2>6, <2>7 DEF CallerInv

<1>3. ASSUME NEW e \in Ends, SendRequestImpl(e) PROVE CallerInv'
  <2>. DEFINE c == Head(posted[e])
              id == requestIdCounter[e]
  <2>1. /\ c \in Calls /\ c = posted[e][1]
        /\ Len(posted[e]) \in Nat \ {0}
        /\ Len(Tail(posted[e])) = Len(posted[e]) - 1
        /\ \A i \in 1 .. Len(Tail(posted[e])) :
              i + 1 \in 1 .. Len(posted[e]) /\ Tail(posted[e])[i] = posted[e][i + 1]
    BY <1>t, <1>3, TailProps DEF SendRequestImpl, TypeOK
  <2>2. /\ posted'[e] = Tail(posted[e])
        /\ \A d \in Ends : d # e => posted'[d] = posted[d]
        /\ alive[e] /\ alive' = alive
    BY <1>3, <1>t, <2>1 DEF SendRequestImpl, TypeOK
  <2>i. id # NoId
    BY <1>t, EndpointAssumption DEF TypeOK, RequestIds
  <2>3. Caller[c] = e /\ requestId[c] = NoId /\ future[c] = "open"
    BY <1>t, <2>1 DEF PostedAreNew
  <2>4. \/ /\ \A d \in Calls : future'[d] = IF d = c THEN "TIMEOUT" ELSE future[d]
           /\ UNCHANGED <<requestId, pendingRequests, timeoutTimer, delayed>>
        \/ /\ \A d \in Calls : requestId'[d] = IF d = c THEN id ELSE requestId[d]
           /\ \A d \in Calls : timeoutTimer'[d] = IF d = c THEN "armed" ELSE timeoutTimer[d]
           /\ pendingRequests'[e] = pendingRequests[e] \cup {c}
           /\ \A d \in Ends : d # e => pendingRequests'[d] = pendingRequests[d]
           /\ delayed' = delayed \cup {c}
           /\ UNCHANGED future
    <3>1. CASE Find(e, id) # {}
      BY <1>3, <1>t, <2>1, <3>1 DEF SendRequestImpl, TypeOK
    <3>2. CASE Find(e, id) = {}
      <4>1. /\ requestId' = [requestId EXCEPT ![c] = id]
            /\ timeoutTimer' = [timeoutTimer EXCEPT ![c] = "armed"]
            /\ pendingRequests' = [pendingRequests EXCEPT ![e] = @ \cup {c}]
            /\ delayed' = delayed \cup {c}
            /\ UNCHANGED future
        BY <1>3, <3>2 DEF SendRequestImpl
      <4>. HIDE DEF c, id
      <4>. QED
        BY <1>t, <2>1, <4>1 DEF TypeOK
    <3>. QED
      BY <3>1, <3>2
  <2>. HIDE DEF c, id
  <2>5. PostedAreNew'
    <3>0. \A d \in Calls : d # c => future'[d] = future[d] /\ requestId'[d] = requestId[d]
      BY <2>4
    <3>1. ASSUME NEW d \in Ends, NEW i \in 1 .. Len(posted'[d]), d # e
          PROVE  /\ Caller[posted'[d][i]] = d
                 /\ future'[posted'[d][i]] = "open"
                 /\ requestId'[posted'[d][i]] = NoId
                 /\ \A j \in 1 .. Len(posted'[d]) : posted'[d][i] = posted'[d][j] => i = j
      BY <1>t, <1>e, <2>2, <2>3, <3>0, <3>1 DEF PostedAreNew
    <3>2. ASSUME NEW i \in 1 .. Len(posted'[e])
          PROVE  /\ Caller[posted'[e][i]] = e
                 /\ future'[posted'[e][i]] = "open"
                 /\ requestId'[posted'[e][i]] = NoId
                 /\ \A j \in 1 .. Len(posted'[e]) : posted'[e][i] = posted'[e][j] => i = j
      <4>1. i + 1 \in 1 .. Len(posted[e]) /\ posted'[e][i] = posted[e][i + 1] /\ 1 \in 1 .. Len(posted[e])
        BY <2>1, <2>2
      <4>2. posted[e][i + 1] # c
        BY <1>t, <2>1, <4>1 DEF PostedAreNew
      <4>3. /\ Caller[posted'[e][i]] = e
            /\ future'[posted'[e][i]] = "open"
            /\ requestId'[posted'[e][i]] = NoId
        BY <1>t, <1>e, <3>0, <4>1, <4>2 DEF PostedAreNew
      <4>4. ASSUME NEW j \in 1 .. Len(posted'[e]), posted'[e][i] = posted'[e][j]
            PROVE  i = j
        BY <1>t, <2>1, <2>2, <4>1, <4>4 DEF PostedAreNew
      <4>. QED
        BY <4>3, <4>4
    <3>3. \A d \in Calls : future'[d] = "idle" => requestId'[d] = NoId
      BY <1>t, <2>3, <2>4 DEF PostedAreNew
    <3>. QED
      BY <3>1, <3>2, <3>3 DEF PostedAreNew
  <2>6. HeldByCaller'
    BY <1>t, <2>1, <2>3, <2>4, <2>i DEF HeldByCaller, TypeOK
  <2>7. OpenCallsArePending'
    <3>. SUFFICES ASSUME NEW d \in Calls
                  PROVE  /\ d \in pendingRequests'[Caller[d]] => alive'[Caller[d]] /\ timeoutTimer'[d] # "off"
                         /\ (d \in pendingRequests'[Caller[d]]) <=> (future'[d] = "open" /\ requestId'[d] # NoId)
      BY DEF OpenCallsArePending
    <3>0. Caller[d] \in Ends
      BY EndpointAssumption
    <3>1. CASE d = c
      BY <1>t, <2>1, <2>2, <2>3, <2>4, <2>i, <3>1 DEF OpenCallsArePending
    <3>2. CASE d # c
      <4>1. /\ d \in pendingRequests'[Caller[d]] <=> d \in pendingRequests[Caller[d]]
            /\ future'[d] = future[d] /\ requestId'[d] = requestId[d]
            /\ timeoutTimer'[d] = timeoutTimer[d]
        BY <2>4, <3>0, <3>2
      <4>. QED
        BY <1>t, <2>2, <4>1 DEF OpenCallsArePending
    <3>. QED
      BY <3>1, <3>2
  <2>. QED
    BY <2>5, <2>6, <2>7 DEF CallerInv
<1>4. ASSUME NEW c \in Calls, TimerExpires(c) PROVE CallerInv'
  <2>1. /\ \A d \in Calls : timeoutTimer'[d] = IF d = c THEN "queued" ELSE timeoutTimer[d]
        /\ UNCHANGED <<posted, requestId, pendingRequests, delayed, future, alive>>
    BY <1>t, <1>4 DEF TimerExpires, TypeOK
  <2>. QED
    BY <1>t, <2>1 DEF CallerInv, PostedAreNew, HeldByCaller, OpenCallsArePending
<1>5. ASSUME FillingHandler PROVE CallerInv'
  BY <1>5, HandlersFill, FillsKeepCallerInv
<1>6. ASSUME NEW c \in Calls,
             \/ OnPromiseFilled(c)
             \/ FinishIncoming(c, "answered") \/ FinishIncoming(c, "dropped")
      PROVE  CallerInv'
  <2>1. UNCHANGED <<callerVars, alive>>
    BY <1>6 DEF OnPromiseFilled, FinishIncoming
  <2>. QED
    BY <1>t, <2>1, CallerInvUnchanged
<1>7. ASSUME NEW e \in Ends, OnRequestFrame(e) PROVE CallerInv'
  <2>1. UNCHANGED <<callerVars, alive>>
    BY <1>7 DEF OnRequestFrame
  <2>. QED
    BY <1>t, <2>1, CallerInvUnchanged
<1>. HIDE DEF callerVars, calleeVars, socketVars
<1>. QED
  BY <1>1, <1>2, <1>3, <1>4, <1>5, <1>6, <1>7 DEF Next, FillingHandler

-----------------------------------------------------------------------------
(* The serving side and the frames between the two.                        *)

\* Frames leave a queue at its front or are cut off at its back.
WireShrinks ==
    \A d \in Ends : \E k \in Nat : \A i \in 1 .. Len(wire'[d]) :
        i + k \in 1 .. Len(wire[d]) /\ wire'[d][i] = wire[d][i + k]

\* The frames of a shorter queue are genuine, if the promises that changed
\* are those of calls that were sent and have no frame left.
LEMMA ShrinkKeepsFrames ==
    ASSUME TypeOK, TypeOK', FramesAreGenuine, WireShrinks,
           requestId' = requestId, delayed' \subseteq delayed,
           \A c \in Calls :
              \/ promise'[c] = promise[c]
              \/ /\ requestId[c] # NoId /\ c \notin delayed
                 /\ \A d \in Ends : \A i \in 1 .. Len(wire'[d]) : wire'[d][i].call # c
    PROVE  FramesAreGenuine'
<1>1. ASSUME NEW d \in Ends, NEW i \in 1 .. Len(wire'[d])
      PROVE  /\ Genuine(d, wire[d][i])'
             /\ \A j \in 1 .. Len(wire'[d]) :
                    /\ wire'[d][i].event = "REQUEST"
                    /\ wire'[d][j].event = "REQUEST"
                    /\ wire'[d][j].call = wire'[d][i].call
                    => i = j
  <2>1. PICK k \in Nat : \A n \in 1 .. Len(wire'[d]) :
            n + k \in 1 .. Len(wire[d]) /\ wire'[d][n] = wire[d][n + k]
    BY DEF WireShrinks
  <2>2. i + k \in 1 .. Len(wire[d]) /\ wire'[d][i] = wire[d][i + k]
    BY <2>1
  <2>3. wire'[d][i] \in Frames
    BY DEF TypeOK
  <2>4. Genuine(d, wire'[d][i])
    BY <2>2 DEF FramesAreGenuine
  <2>5. wire'[d][i].call \in Calls
    BY <2>3 DEF Frames
  <2>6. promise'[wire'[d][i].call] = promise[wire'[d][i].call]
    BY <2>5
  <2>7. Genuine(d, wire[d][i])'
    BY <2>4, <2>6 DEF Genuine
  <2>8. ASSUME NEW j \in 1 .. Len(wire'[d]),
               wire'[d][i].event = "REQUEST", wire'[d][j].event = "REQUEST",
               wire'[d][j].call = wire'[d][i].call
        PROVE  i = j
    <3>1. j + k \in 1 .. Len(wire[d]) /\ wire'[d][j] = wire[d][j + k]
      BY <2>1
    <3>2. i + k = j + k
      BY <2>2, <2>8, <3>1 DEF FramesAreGenuine
    <3>. QED
      BY <3>2
  <2>. QED
    BY <2>7, <2>8
<1>2. \A c \in Calls : c \in delayed' \/ requestId'[c] = NoId => promise'[c] = "no"
  BY DEF FramesAreGenuine
<1>. QED
  BY <1>1, <1>2 DEF FramesAreGenuine

\* A frame that is genuine may be written, a request only once.
LEMMA WriteKeepsFrames ==
    ASSUME TypeOK, TypeOK', FramesAreGenuine, NEW e \in Ends, NEW c \in Calls,
           NEW event \in {"REQUEST", "RESPONSE"},
           requestId[c] \in RequestIds,
           wire' = WriteFrame(e, event, requestId[c], c),
           requestId' = requestId, delayed' \subseteq delayed, promise' = promise,
           event = "REQUEST" => c \in delayed /\ c \notin delayed' /\ Caller[c] = e,
           event = "RESPONSE" => Caller[c] = Peer(e) /\ promise[c] = "answered"
    PROVE  FramesAreGenuine'
<1>. DEFINE p == Peer(e)
            f == [event |-> event, requestId |-> requestId[c], call |-> c]
<1>1. p \in Ends /\ p # e
  BY PeerProps
<1>2. \A d \in Calls : d \in delayed' \/ requestId'[d] = NoId => promise'[d] = "no"
  BY DEF FramesAreGenuine
<1>4. CASE wire' = wire
  <2>1. ASSUME NEW d \in Ends, NEW i \in 1 .. Len(wire'[d])
        PROVE  Genuine(d, wire[d][i])'
    <3>1. Genuine(d, wire[d][i])
      BY <1>4 DEF FramesAreGenuine
    <3>. QED
      BY <1>4, <3>1 DEF Genuine
  <2>. QED
    BY <1>2, <1>4, <2>1 DEF FramesAreGenuine
<1>5. CASE wire' = [wire EXCEPT ![p] = Append(@, f)]
  <2>. HIDE DEF p
  <2>0. f \in Frames
    BY DEF Frames
  <2>1. /\ wire'[p] = Append(wire[p], f)
        /\ \A d \in Ends : d # p => wire'[d] = wire[d]
    BY <1>1, <1>5 DEF TypeOK
  <2>2. /\ Len(wire[p]) \in Nat
        /\ Len(wire'[p]) = Len(wire[p]) + 1
        /\ \A i \in 1 .. Len(wire[p]) : wire'[p][i] = wire[p][i]
        /\ wire'[p][Len(wire[p]) + 1] = f
    BY <1>1, <2>0, <2>1, AppendProps DEF TypeOK
  <2>3. f.event = event /\ f.requestId = requestId[c] /\ f.call = c
    OBVIOUS
  <2>. HIDE DEF f
  <2>4. event = "REQUEST" => promise[c] = "no" /\ Caller[c] # p
    BY <1>1 DEF FramesAreGenuine
  <2>5. ASSUME NEW i \in 1 .. Len(wire[p]), event = "REQUEST", wire[p][i].event = "REQUEST"
        PROVE  wire[p][i].call # c
    BY <1>1, <2>5 DEF FramesAreGenuine, Genuine
  <2>6. ASSUME NEW d \in Ends, NEW i \in 1 .. Len(wire'[d]), d # p
        PROVE  /\ Genuine(d, wire[d][i])'
               /\ \A j \in 1 .. Len(wire'[d]) :
                    /\ wire'[d][i].event = "REQUEST"
                    /\ wire'[d][j].event = "REQUEST"
                    /\ wire'[d][j].call = wire'[d][i].call
                    => i = j
    <3>1. wire'[d] = wire[d]
      BY <2>1, <2>6
    <3>2. Genuine(d, wire'[d][i])
      BY <3>1 DEF FramesAreGenuine
    <3>3. Genuine(d, wire[d][i])'
      BY <3>2 DEF Genuine
    <3>. QED
      BY <3>1, <3>3 DEF FramesAreGenuine
  <2>7. ASSUME NEW i \in 1 .. Len(wire'[p])
        PROVE  /\ Genuine(p, wire[p][i])'
               /\ \A j \in 1 .. Len(wire'[p]) :
                    /\ wire'[p][i].event = "REQUEST"
                    /\ wire'[p][j].event = "REQUEST"
                    /\ wire'[p][j].call = wire'[p][i].call
                    => i = j
    <3>1. CASE i = Len(wire[p]) + 1
      <4>0. wire'[p][i] = f
        BY <2>2, <3>1
      <4>1. Genuine(p, wire[p][i])'
        BY <2>3, <2>4, <4>0 DEF Genuine, p
      <4>2. ASSUME NEW j \in 1 .. Len(wire'[p]),
                   wire'[p][i].event = "REQUEST", wire'[p][j].event = "REQUEST",
                   wire'[p][j].call = wire'[p][i].call
            PROVE  i = j
        BY <2>2, <2>3, <2>5, <3>1, <4>0, <4>2
      <4>. QED
        BY <4>1, <4>2
    <3>2. CASE i # Len(wire[p]) + 1
      <4>0. i \in 1 .. Len(wire[p]) /\ wire'[p][i] = wire[p][i]
        BY <2>2, <3>2
      <4>1. Genuine(p, wire[p][i])'
        <5>1. Genuine(p, wire'[p][i])
          BY <1>1, <4>0 DEF FramesAreGenuine
        <5>. QED
          BY <5>1 DEF Genuine
      <4>2. ASSUME NEW j \in 1 .. Len(wire'[p]),
                   wire'[p][i].event = "REQUEST", wire'[p][j].event = "REQUEST",
                   wire'[p][j].call = wire'[p][i].call
            PROVE  i = j
        <5>1. CASE j = Len(wire[p]) + 1
          BY <2>2, <2>3, <2>5, <4>0, <4>2, <5>1
        <5>2. CASE j # Len(wire[p]) + 1
          <6>1. j \in 1 .. Len(wire[p]) /\ wire'[p][j] = wire[p][j]
            BY <2>2, <5>2
          <6>. QED
            BY <1>1, <4>0, <4>2, <6>1 DEF FramesAreGenuine
        <5>. QED
          BY <5>1, <5>2
      <4>. QED
        BY <4>1, <4>2
    <3>. QED
      BY <3>1, <3>2
  <2>. QED
    BY <1>2, <2>6, <2>7 DEF FramesAreGenuine
<1>. QED
  BY <1>4, <1>5 DEF WriteFrame

CalleeInv == HeldByCallee /\ FramesAreGenuine /\ ContextsAreAwaited

\* Contexts stay where they belong and are awaited when some are dropped and
\* promises and ids are left alone.
LEMMA FewerContexts ==
    ASSUME HeldByCallee, ContextsAreAwaited,
           \A d \in Ends : registeredContexts'[d] \subseteq registeredContexts[d],
           UNCHANGED <<requestId, promise, answers>>
    PROVE  HeldByCallee' /\ ContextsAreAwaited'
  BY DEF HeldByCallee, ContextsAreAwaited

\* Every step keeps the invariant of the serving side.
LEMMA CalleeStep ==
    ASSUME EndpointInv, TypeOK', Next
    PROVE  CalleeInv'
<1>. USE DEF callerVars, calleeVars, socketVars
<1>t. TypeOK /\ HeldByCallee /\ FramesAreGenuine /\ ContextsAreAwaited /\ PostedAreNew /\ HeldByCaller
  BY DEF EndpointInv
<1>l. \A d \in Ends : Len(wire[d]) \in Nat /\ \A i \in 1 .. Len(wire[d]) : wire[d][i] \in Frames
  BY <1>t DEF TypeOK
<1>n. NoId \notin RequestIds
  BY EndpointAssumption DEF RequestIds
<1>s. ASSUME wire' = wire PROVE WireShrinks
  <2>1. \A d \in Ends : \A i \in 1 .. Len(wire'[d]) : i + 0 \in 1 .. Len(wire[d]) /\ wire'[d][i] = wire[d][i + 0]
    BY <1>s, <1>l
  <2>. QED
    BY <2>1 DEF WireShrinks
<1>h. ASSUME NEW e \in Ends, wire[e] # << >>, wire' = [wire EXCEPT ![e] = Tail(@)]
      PROVE  /\ WireShrinks
             /\ Head(wire[e]) \in Frames
             /\ Head(wire[e]) = wire[e][1]
             /\ Len(wire[e]) \in Nat \ {0}
             /\ \A i \in 1 .. Len(wire'[e]) : i + 1 \in 1 .. Len(wire[e]) /\ wire'[e][i] = wire[e][i + 1]
             /\ \A d \in Ends : d # e => wire'[d] = wire[d]
  <2>1. wire'[e] = Tail(wire[e]) /\ \A d \in Ends : d # e => wire'[d] = wire[d]
    BY <1>t, <1>h DEF TypeOK
  <2>2. /\ Head(wire[e]) \in Frames /\ Head(wire[e]) = wire[e][1] /\ Len(wire[e]) \in Nat \ {0}
        /\ \A i \in 1 .. Len(wire'[e]) : i + 1 \in 1 .. Len(wire[e]) /\ wire'[e][i] = wire[e][i + 1]
    BY <1>t, <1>h, <2>1, TailProps DEF TypeOK
  <2>3. \A d \in Ends : d # e => \A i \in 1 .. Len(wire'[d]) : i + 0 \in 1 .. Len(wire[d]) /\ wire'[d][i] = wire[d][i + 0]
    BY <1>l, <2>1
  <2>4. WireShrinks
    BY <2>2, <2>3 DEF WireShrinks
  <2>. QED
    BY <2>1, <2>2, <2>4
<1>k. ASSUME NEW e \in Ends, NEW kept, NEW sent, LoseFrames(e, kept, sent) PROVE WireShrinks
  <2>1. \A d \in Ends : \E k \in Nat : k <= Len(wire[d]) /\ wire'[d] = SubSeq(wire[d], 1, k)
    BY <1>t, <1>k, LoseFramesProps
  <2>2. ASSUME NEW d \in Ends
        PROVE  \A i \in 1 .. Len(wire'[d]) : i + 0 \in 1 .. Len(wire[d]) /\ wire'[d][i] = wire[d][i + 0]
    <3>1. PICK k \in Nat : k <= Len(wire[d]) /\ wire'[d] = SubSeq(wire[d], 1, k)
      BY <2>1
    <3>2. Len(wire'[d]) = k /\ \A i \in 1 .. k : wire'[d][i] = wire[d][i]
      BY <1>t, <3>1, PrefixProps DEF TypeOK
    <3>. QED
      BY <1>l, <3>1, <3>2
  <2>. QED
    BY <2>2 DEF WireShrinks
<1>1. ASSUME NEW c \in Calls, SendRequest(c) \/ TimerExpires(c) \/ TimeoutHandler(c) PROVE CalleeInv'
  <2>1. UNCHANGED <<requestId, delayed, calleeVars, socketVars>>
    BY <1>1 DEF SendRequest, TimerExpires, TimeoutHandler
  <2>2. FramesAreGenuine'
    BY <1>t, <1>s, <2>1, ShrinkKeepsFrames
  <2>. QED
    BY <1>t, <2>1, <2>2, FewerContexts DEF CalleeInv
<1>2. ASSUME NEW e \in Ends, SendRequestTooLate(e) PROVE CalleeInv'
  <2>1. UNCHANGED <<requestId, delayed, calleeVars, socketVars>>
    BY <1>2 DEF SendRequestTooLate
  <2>2. FramesAreGenuine'
    BY <1>t, <1>s, <2>1, ShrinkKeepsFrames
  <2>. QED
    BY <1>t, <2>1, <2>2, FewerContexts DEF CalleeInv
<1>3. ASSUME NEW e \in Ends, SendRequestImpl(e) PROVE CalleeInv'
  <2>0. UNCHANGED <<calleeVars, socketVars>>
    BY <1>3 DEF SendRequestImpl
  <2>1. CASE Find(e, requestIdCounter[e]) # {}
    <3>1. UNCHANGED <<requestId, delayed>>
      BY <1>3, <2>1 DEF SendRequestImpl
    <3>2. FramesAreGenuine'
      BY <1>t, <1>s, <2>0, <3>1, ShrinkKeepsFrames
    <3>. QED
      BY <1>t, <2>0, <3>1, <3>2, FewerContexts DEF CalleeInv
  <2>2. CASE Find(e, requestIdCounter[e]) = {}
    <3>. DEFINE c == Head(posted[e])
    <3>1. /\ c \in Calls /\ c = posted[e][1] /\ Len(posted[e]) \in Nat \ {0}
      BY <1>t, <1>3, TailProps DEF SendRequestImpl, TypeOK
    <3>2. requestId[c] = NoId
      BY <1>t, <3>1 DEF PostedAreNew
    <3>3. /\ requestId' = [requestId EXCEPT ![c] = requestIdCounter[e]]
          /\ delayed' = delayed \cup {c}
      BY <1>3, <2>2 DEF SendRequestImpl
    <3>. HIDE DEF c
    <3>4. requestIdCounter[e] # NoId /\ requestId' \in [Calls -> RequestIds \cup {NoId}]
      BY <1>t, <1>n DEF TypeOK
    <3>5. /\ \A d \in Calls : d # c => requestId'[d] = requestId[d]
          /\ requestId'[c] # NoId
      BY <1>t, <3>1, <3>3, <3>4 DEF TypeOK
    <3>6. promise[c] = "no"
      BY <1>t, <3>1, <3>2 DEF FramesAreGenuine
    <3>7. ASSUME NEW d \in Ends, NEW i \in 1 .. Len(wire[d])
          PROVE  wire[d][i].call # c /\ wire[d][i].call \in Calls /\ Genuine(d, wire[d][i])'
      <4>1. /\ wire[d][i].call \in Calls
            /\ wire[d][i].requestId \in RequestIds
            /\ Genuine(d, wire[d][i])
        BY <1>l, <1>t DEF Frames, FramesAreGenuine
      <4>2. wire[d][i].call # c
        BY <1>n, <3>2, <4>1 DEF Genuine
      <4>3. Genuine(d, wire[d][i])'
        BY <2>0, <3>3, <3>5, <4>1, <4>2 DEF Genuine
      <4>. QED
        BY <4>1, <4>2, <4>3
    <3>8. FramesAreGenuine'
      BY <1>t, <2>0, <3>3, <3>5, <3>6, <3>7 DEF FramesAreGenuine
    <3>9. HeldByCallee' /\ ContextsAreAwaited'
      BY <1>t, <2>0, <3>5 DEF HeldByCallee, ContextsAreAwaited, TypeOK
    <3>. QED
      BY <3>8, <3>9 DEF CalleeInv
  <2>. QED
    BY <2>1, <2>2
<1>4. ASSUME NEW c \in Calls, DelayedWrite(c) PROVE CalleeInv'
  <2>1. /\ UNCHANGED <<requestId, calleeVars>>
        /\ c \in delayed /\ delayed' = delayed \ {c}
        /\ wire' = WriteFrame(Caller[c], "REQUEST", requestId[c], c)
    BY <1>4 DEF DelayedWrite
  <2>2. Caller[c] \in Ends /\ requestId[c] \in RequestIds
    BY <1>t, <2>1, EndpointAssumption DEF HeldByCaller, TypeOK
  <2>3. FramesAreGenuine'
    BY <1>t, <2>1, <2>2, WriteKeepsFrames
  <2>. QED
    BY <1>t, <2>1, <2>3, FewerContexts DEF CalleeInv
<1>5. ASSUME NEW c \in Calls, OnPromiseFilled(c) PROVE CalleeInv'
  <2>. DEFINE e == Peer(Caller[c])
  <2>1. e \in Ends /\ Caller[c] = Peer(e)
    <3>1. Caller[c] \in Ends
      BY EndpointAssumption
    <3>2. e \in Ends /\ e # Caller[c]
      BY <3>1, PeerProps
    <3>. HIDE DEF e
    <3>. QED
      BY <3>1, <3>2, PeerProps
  <2>2. /\ UNCHANGED <<requestId, delayed, promise>>
        /\ answers' = answers \ {c}
        /\ registeredContexts' = [registeredContexts EXCEPT ![e] = @ \ {c}]
    BY <1>5 DEF OnPromiseFilled
  <2>3. FramesAreGenuine'
    <3>1. CASE c \in registeredContexts[e] /\ promise[c] = "answered"
      <4>1. requestId[c] \in RequestIds
        BY <1>t, <2>1, <3>1 DEF HeldByCallee, TypeOK
      <4>2. wire' = WriteFrame(e, "RESPONSE", requestId[c], c)
        BY <1>5, <3>1 DEF OnPromiseFilled
      <4>. QED
        BY <1>t, <2>1, <2>2, <3>1, <4>1, <4>2, WriteKeepsFrames
    <3>2. CASE ~(c \in registeredContexts[e] /\ promise[c] = "answered")
      <4>1. wire' = wire
        BY <1>5, <3>2 DEF OnPromiseFilled
      <4>. QED
        BY <1>t, <1>s, <2>2, <4>1, ShrinkKeepsFrames
    <3>. QED
      BY <3>1, <3>2
  <2>4. \A d \in Ends : d # e => c \notin registeredContexts[d]
    BY <1>t, <2>1, PeerProps DEF HeldByCallee
  <2>5. /\ registeredContexts'[e] = registeredContexts[e] \ {c}
        /\ \A d \in Ends : d # e => registeredContexts'[d] = registeredContexts[d]
    BY <1>t, <2>1, <2>2 DEF TypeOK
  <2>. HIDE DEF e
  <2>6. \A d \in Ends : registeredContexts'[d] \subseteq registeredContexts[d] \ {c}
    BY <2>4, <2>5
  <2>7. HeldByCallee' /\ ContextsAreAwaited'
    BY <1>t, <2>2, <2>6 DEF HeldByCallee, ContextsAreAwaited
  <2>. QED
    BY <2>3, <2>7 DEF CalleeInv
<1>6. ASSUME NEW c \in Calls, NEW how \in {"answered", "dropped"}, FinishIncoming(c, how)
      PROVE  CalleeInv'
  <2>1. /\ promise[c] = "running"
        /\ \A d \in Calls : d # c => promise'[d] = promise[d]
        /\ answers' = answers \cup {c}
        /\ UNCHANGED <<requestId, delayed, registeredContexts, wire>>
    BY <1>t, <1>6 DEF FinishIncoming, TypeOK
  <2>2. requestId[c] # NoId /\ c \notin delayed
    BY <1>t, <2>1 DEF FramesAreGenuine
  <2>3. \A d \in Ends : \A i \in 1 .. Len(wire[d]) : wire[d][i].call # c
    BY <1>t, <1>l, <2>1 DEF FramesAreGenuine, Genuine, Frames
  <2>4. FramesAreGenuine'
    BY <1>t, <1>s, <2>1, <2>2, <2>3, ShrinkKeepsFrames
  <2>5. HeldByCallee' /\ ContextsAreAwaited'
    BY <1>t, <2>1 DEF HeldByCallee, ContextsAreAwaited, TypeOK
  <2>. QED
    BY <2>4, <2>5 DEF CalleeInv
<1>7. ASSUME NEW e \in Ends, OnResponseFrame(e) PROVE CalleeInv'
  <2>1. /\ UNCHANGED <<requestId, delayed, calleeVars>>
        /\ wire[e] # << >> /\ wire' = [wire EXCEPT ![e] = Tail(@)]
    BY <1>7 DEF OnResponseFrame
  <2>2. FramesAreGenuine'
    BY <1>t, <1>h, <2>1, ShrinkKeepsFrames
  <2>. QED
    BY <1>t, <2>1, <2>2, FewerContexts DEF CalleeInv
<1>8. ASSUME NEW e \in Ends, OnRequestFrame(e) PROVE CalleeInv'
  <2>. DEFINE f == Head(wire[e])
              c == f.call
  <2>1. /\ f.event = "REQUEST"
        /\ wire[e] # << >> /\ wire' = [wire EXCEPT ![e] = Tail(@)]
        /\ promise' = [promise EXCEPT ![c] = "running"]
        /\ UNCHANGED <<requestId, delayed, answers>>
        /\ \/ registeredContexts' = registeredContexts
           \/ registeredContexts' = [registeredContexts EXCEPT ![e] = @ \cup {c}]
    BY <1>8 DEF OnRequestFrame
  <2>2. /\ WireShrinks
        /\ f \in Frames
        /\ f = wire[e][1]
        /\ Len(wire[e]) \in Nat \ {0}
        /\ \A i \in 1 .. Len(wire'[e]) : i + 1 \in 1 .. Len(wire[e]) /\ wire'[e][i] = wire[e][i + 1]
        /\ \A d \in Ends : d # e => wire'[d] = wire[d]
    BY <1>h, <2>1
  <2>3. c \in Calls /\ Genuine(e, f) /\ f.requestId \in RequestIds
    BY <1>t, <2>2 DEF FramesAreGenuine, Frames
  <2>. HIDE DEF f
  <2>4. /\ requestId[c] # NoId /\ c \notin delayed /\ promise[c] = "no" /\ Caller[c] # e
    BY <1>n, <2>1, <2>3 DEF Genuine
  <2>. HIDE DEF c
  <2>5. \A d \in Calls : d # c => promise'[d] = promise[d]
    BY <1>t, <2>1, <2>3 DEF TypeOK
  <2>6. ASSUME NEW d \in Ends, NEW i \in 1 .. Len(wire'[d]) PROVE wire'[d][i].call # c
    <3>. SUFFICES ASSUME wire'[d][i].call = c PROVE FALSE
      OBVIOUS
    <3>1. PICK k \in 1 .. Len(wire[d]) : wire'[d][i] = wire[d][k] /\ (d = e => k # 1)
      <4>1. CASE d = e
        BY <2>2, <4>1, <1>l
      <4>2. CASE d # e
        BY <2>2, <4>2
      <4>. QED
        BY <4>1, <4>2
    <3>2. Genuine(d, wire[d][k]) /\ wire[d][k] \in Frames
      BY <1>t, <1>l DEF FramesAreGenuine
    <3>3. wire[d][k].event = "REQUEST"
      BY <2>4, <3>1, <3>2 DEF Genuine, Frames
    <3>4. Caller[c] # d /\ Caller[c] \in Ends
      BY <2>3, <3>1, <3>2, <3>3, EndpointAssumption DEF Genuine
    <3>5. d = e
      BY <2>4, <3>4, PeerProps
    <3>6. 1 \in 1 .. Len(wire[e])
      BY <2>2
    <3>7. wire[e][1].event = "REQUEST" /\ wire[e][1].call = c
      BY <2>1, <2>2 DEF c
    <3>8. k \in 1 .. Len(wire[e]) /\ wire[e][k].event = "REQUEST" /\ wire[e][k].call = c /\ k # 1
      BY <3>1, <3>3, <3>5
    <3>. QED
      BY <1>t, <3>6, <3>7, <3>8 DEF FramesAreGenuine
  <2>7. FramesAreGenuine'
    <3>1. ASSUME NEW d \in Calls
          PROVE  \/ promise'[d] = promise[d]
                 \/ /\ requestId[d] # NoId /\ d \notin delayed
                    /\ \A g \in Ends : \A i \in 1 .. Len(wire'[g]) : wire'[g][i].call # d
      BY <2>4, <2>5, <2>6
    <3>2. TypeOK /\ TypeOK' /\ FramesAreGenuine /\ WireShrinks
      BY <1>t, <2>2
    <3>3. requestId' = requestId /\ delayed' \subseteq delayed
      BY <2>1
    <3>. QED
      BY <3>1, <3>2, <3>3, ShrinkKeepsFrames
  <2>8. promise'[c] = "running"
    BY <1>t, <2>1, <2>3 DEF TypeOK
  <2>9. \A d \in Ends : registeredContexts'[d] \subseteq registeredContexts[d]
                          \/ (d = e /\ registeredContexts'[d] = registeredContexts[d] \cup {c})
    BY <1>t, <2>1 DEF TypeOK
  <2>10. HeldByCallee' /\ ContextsAreAwaited'
    <3>. SUFFICES ASSUME NEW d \in Ends, NEW x \in registeredContexts'[d]
                  PROVE  /\ Caller[x] # d /\ requestId'[x] # NoId
                         /\ promise'[x] = "running" \/ x \in answers'
      BY DEF HeldByCallee, ContextsAreAwaited
    <3>0. x \in Calls
      BY DEF TypeOK
    <3>1. CASE x = c /\ d = e
      BY <2>1, <2>4, <2>8, <3>1
    <3>2. CASE ~(x = c /\ d = e)
      <4>1. x \in registeredContexts[d]
        BY <2>9, <3>2
      <4>. QED
        BY <1>t, <2>1, <2>5, <2>8, <3>0, <4>1 DEF HeldByCallee, ContextsAreAwaited
    <3>. QED
      BY <3>1, <3>2
  <2>. QED
    BY <2>7, <2>10 DEF CalleeInv
<1>9. ASSUME NEW e \in Ends, Invalidate(e) \/ Destroy(e) PROVE CalleeInv'
  <2>1. /\ UNCHANGED <<requestId, delayed, promise, answers>>
        /\ \A d \in Ends : registeredContexts'[d] \subseteq registeredContexts[d]
        /\ \E kept, sent : LoseFrames(e, kept, sent)
    BY <1>t, <1>9 DEF Invalidate, Destroy, TypeOK
  <2>2. FramesAreGenuine'
    BY <1>t, <1>k, <2>1, ShrinkKeepsFrames
  <2>. QED
    BY <1>t, <2>1, <2>2, FewerContexts DEF CalleeInv
<1>. HIDE DEF callerVars, calleeVars, socketVars
<1>. QED
  BY <1>1, <1>2, <1>3, <1>4, <1>5, <1>6, <1>7, <1>8, <1>9 DEF Next

-----------------------------------------------------------------------------
(* The invariants.                                                         *)

\* Nothing is called, held or on its way at the start.
LEMMA EndpointInit == Init => EndpointInv
<1>. SUFFICES ASSUME Init PROVE EndpointInv
  OBVIOUS
<1>1. TypeOK
  BY EndpointAssumption DEF Init, TypeOK, RequestIds, Futures
<1>2. \A e \in Ends : Len(posted[e]) = 0 /\ Len(wire[e]) = 0
  BY DEF Init
<1>3. PostedAreNew /\ HeldByCaller /\ HeldByCallee
  BY <1>2 DEF Init, PostedAreNew, HeldByCaller, HeldByCallee
<1>4. FramesAreGenuine
  BY <1>2 DEF Init, FramesAreGenuine
<1>5. OpenCallsArePending /\ ContextsAreAwaited
  BY EndpointAssumption DEF Init, OpenCallsArePending, ContextsAreAwaited
<1>. QED
  BY <1>1, <1>3, <1>4, <1>5 DEF EndpointInv

\* Every step keeps the strengthened invariant, and so does a stutter.
LEMMA EndpointStep == EndpointInv /\ [Next]_vars => EndpointInv'
<1>. SUFFICES ASSUME EndpointInv, [Next]_vars PROVE EndpointInv'
  OBVIOUS
<1>1. CASE Next
  <2>1. TypeOK'
    BY <1>1, TypeStep
  <2>. QED
    BY <1>1, <2>1, CallerStep, CalleeStep DEF EndpointInv, CallerInv, CalleeInv
<1>2. CASE UNCHANGED vars
  BY <1>2 DEF vars, callerVars, calleeVars, socketVars, EndpointInv, TypeOK, PostedAreNew,
              HeldByCaller, HeldByCallee, FramesAreGenuine, Genuine, OpenCallsArePending,
              ContextsAreAwaited
<1>. QED
  BY <1>1, <1>2

\* The strengthened invariant holds in every reachable state.
LEMMA EndpointInvariance == Spec => []EndpointInv
  BY EndpointInit, EndpointStep, PTL DEF Spec

\* The variables of an endpoint keep their types: in particular
\* requestIdCounter_ stays in its range and frames only name calls under ids.
THEOREM EndpointTypeCorrect == Spec => []TypeOK
<1>1. EndpointInv => TypeOK
  BY DEF EndpointInv
<1>. QED
  BY <1>1, EndpointInvariance, PTL

\* No call is forgotten: from sendRequestImpl to its answer a call is in
\* pendingRequests_ with its timeout ahead, whatever closes or dies meanwhile.
THEOREM NoCallForgotten == Spec => []OpenCallsArePending
<1>1. EndpointInv => OpenCallsArePending
  BY DEF EndpointInv
<1>. QED
  BY <1>1, EndpointInvariance, PTL

\* No context leaks: registeredContexts_ holds only calls whose promise is
\* still to be filled or whose handler is still to run.
THEOREM NoContextLeaks == Spec => []ContextsAreAwaited
<1>1. EndpointInv => ContextsAreAwaited
  BY DEF EndpointInv
<1>. QED
  BY <1>1, EndpointInvariance, PTL

-----------------------------------------------------------------------------
(* Endpoint implements Rpc.                                                *)

CallsOf(e) == {c \in Calls : Caller[c] = e}

\* An end makes no more calls on a connection than there are ids (2^64).
IdsSuffice ==
    /\ IsFiniteSet(Calls)
    /\ \A e \in Ends : Cardinality(CallsOf(e)) <= IdSpace

\* A call that is being numbered finds an id that nobody had: the counter is
\* the number of ids given away, and nothing pending is found under it.
LEMMA FreshId ==
    ASSUME IdsSuffice, EndpointInv, IdsAreUnique, NEW e \in Ends, SendRequestImpl(e)
    PROVE  LET c == Head(posted[e])
               n == Cardinality(Numbered(e))
           IN  /\ c \in Calls /\ Caller[c] = e /\ requestId[c] = NoId
               /\ IsFiniteSet(Numbered(e)) /\ n \in Nat /\ n < IdSpace
               /\ requestIdCounter[e] = n
               /\ Find(e, n) = {}
<1>. DEFINE c == Head(posted[e])
            n == Cardinality(Numbered(e))
<1>t. TypeOK /\ PostedAreNew /\ OpenCallsArePending /\ HeldByCaller
  BY DEF EndpointInv
<1>1. c \in Calls /\ c = posted[e][1] /\ Len(posted[e]) \in Nat \ {0}
  BY <1>t, TailProps DEF SendRequestImpl, TypeOK
<1>2. Caller[c] = e /\ requestId[c] = NoId
  BY <1>t, <1>1 DEF PostedAreNew
<1>. HIDE DEF c
<1>3. c \in CallsOf(e) /\ c \notin Numbered(e) /\ Numbered(e) \subseteq CallsOf(e) \ {c}
  BY <1>1, <1>2 DEF CallsOf, Numbered
<1>4. IsFiniteSet(CallsOf(e))
  BY FS_Subset DEF CallsOf, IdsSuffice
<1>5. /\ IsFiniteSet(CallsOf(e) \ {c})
      /\ Cardinality(CallsOf(e) \ {c}) = Cardinality(CallsOf(e)) - 1
  BY <1>3, <1>4, FS_RemoveElement
<1>6. IsFiniteSet(Numbered(e)) /\ n <= Cardinality(CallsOf(e) \ {c})
  BY <1>3, <1>5, FS_Subset
<1>7. n \in Nat /\ Cardinality(CallsOf(e)) \in Nat /\ IdSpace \in Nat \ {0}
  BY <1>4, <1>6, FS_CardinalityType, EndpointAssumption
<1>. HIDE DEF n
<1>8. n < IdSpace
  BY <1>5, <1>6, <1>7 DEF IdsSuffice
<1>9. n % IdSpace = n
  BY <1>7, <1>8
<1>10. requestIdCounter[e] = n
  BY <1>9 DEF IdsAreUnique, n
<1>11. Find(e, n) = {}
  <2>. SUFFICES ASSUME NEW d \in Find(e, n) PROVE FALSE
    OBVIOUS
  <2>1. d \in Calls /\ Caller[d] = e /\ requestId[d] = n /\ d \in pendingRequests[e]
    BY <1>t DEF Find, TypeOK, HeldByCaller
  <2>2. d \in Numbered(e)
    BY <1>t, <2>1 DEF Numbered, OpenCallsArePending
  <2>3. requestId[d] < n
    BY <2>2 DEF IdsAreUnique, n
  <2>. QED
    BY <1>7, <2>1, <2>3
<1>. QED
  BY <1>1, <1>2, <1>6, <1>7, <1>8, <1>10, <1>11 DEF c, n

\* As long as ids suffice, no id is given twice.
LEMMA IdsStayUnique ==
    ASSUME IdsSuffice, EndpointInv, EndpointInv', IdsAreUnique, [Next]_vars
    PROVE  IdsAreUnique'
<1>. USE DEF callerVars, calleeVars, socketVars
<1>1. CASE UNCHANGED <<requestId, requestIdCounter>>
  BY <1>1 DEF IdsAreUnique, Numbered
<1>2. ASSUME NEW e \in Ends, SendRequestImpl(e) PROVE IdsAreUnique'
  <2>. DEFINE c == Head(posted[e])
              n == Cardinality(Numbered(e))
  <2>1. /\ c \in Calls /\ Caller[c] = e /\ requestId[c] = NoId
        /\ IsFiniteSet(Numbered(e)) /\ n \in Nat /\ n < IdSpace
        /\ requestIdCounter[e] = n
        /\ Find(e, n) = {}
    BY <1>2, FreshId
  <2>2. /\ requestId' = [requestId EXCEPT ![c] = requestIdCounter[e]]
        /\ requestIdCounter' = [requestIdCounter EXCEPT ![e] = NextId(requestIdCounter[e])]
    BY <1>2, <2>1 DEF SendRequestImpl
  <2>. HIDE DEF c
  <2>3. /\ \A d \in Calls : requestId'[d] = IF d = c THEN n ELSE requestId[d]
        /\ \A d \in Ends : d # e => requestIdCounter'[d] = requestIdCounter[d]
        /\ requestIdCounter'[e] = NextId(n)
        /\ n # NoId
        /\ IdSpace \in Nat \ {0}
    BY <2>1, <2>2, EndpointAssumption DEF EndpointInv, TypeOK
  <2>4. Numbered(e)' = Numbered(e) \cup {c} /\ c \notin Numbered(e)
    BY <2>1, <2>3 DEF Numbered
  <2>5. Cardinality(Numbered(e)') = n + 1
    BY <2>1, <2>4, FS_AddElement
  <2>6. ASSUME NEW d \in Ends, d # e PROVE Numbered(d)' = Numbered(d)
    BY <2>1, <2>3, <2>6 DEF Numbered
  <2>. HIDE DEF n
  <2>7. ASSUME NEW d \in Ends
        PROVE  /\ requestIdCounter'[d] = Cardinality(Numbered(d)') % IdSpace
               /\ \A x \in Numbered(d)' :
                     /\ requestId'[x] < Cardinality(Numbered(d)')
                     /\ \A y \in Numbered(d)' : requestId'[x] = requestId'[y] => x = y
    <3>1. CASE d # e
      <4>1. \A x \in Numbered(d) : requestId'[x] = requestId[x]
        BY <2>1, <2>3, <3>1 DEF Numbered
      <4>. QED
        BY <2>3, <2>6, <3>1, <4>1 DEF IdsAreUnique
    <3>2. CASE d = e
      <4>1. \A x \in Numbered(e) : /\ x \in Calls /\ x # c /\ requestId'[x] = requestId[x]
                                   /\ requestId[x] < n /\ requestId[x] \in Nat
        <5>1. \A x \in Numbered(e) : x \in Calls /\ x # c /\ requestId[x] \in RequestIds
          BY <2>4 DEF Numbered, EndpointInv, TypeOK
        <5>. QED
          BY <2>3, <5>1 DEF IdsAreUnique, n, RequestIds
      <4>2. requestId'[c] = n
        BY <2>1, <2>3
      <4>3. \A x \in Numbered(e)' : requestId'[x] < n + 1
        BY <2>1, <2>4, <4>1, <4>2
      <4>4. \A x, y \in Numbered(e) : requestId[x] = requestId[y] => x = y
        BY DEF IdsAreUnique
      <4>5. \A x, y \in Numbered(e)' : requestId'[x] = requestId'[y] => x = y
        BY <2>1, <2>4, <4>1, <4>2, <4>4
      <4>6. requestIdCounter'[e] = (n + 1) % IdSpace
        BY <2>3 DEF NextId
      <4>. QED
        BY <2>5, <3>2, <4>3, <4>5, <4>6
    <3>. QED
      BY <3>1, <3>2
  <2>. QED
    BY <2>7 DEF IdsAreUnique
<1>3. ASSUME ~ \E e \in Ends : SendRequestImpl(e) PROVE UNCHANGED <<requestId, requestIdCounter>>
  <2>1. CASE UNCHANGED vars
    BY <2>1 DEF vars
  <2>2. CASE FillingHandler
    BY <2>2, HandlersFill DEF Fills
  <2>3. ASSUME NEW c \in Calls, SendRequest(c) \/ TimerExpires(c) \/ OnPromiseFilled(c)
                    \/ FinishIncoming(c, "answered") \/ FinishIncoming(c, "dropped")
        PROVE  UNCHANGED <<requestId, requestIdCounter>>
    BY <2>3 DEF SendRequest, TimerExpires, OnPromiseFilled, FinishIncoming
  <2>4. ASSUME NEW e \in Ends, SendRequestTooLate(e) \/ OnRequestFrame(e)
        PROVE  UNCHANGED <<requestId, requestIdCounter>>
    BY <2>4 DEF SendRequestTooLate, OnRequestFrame
  <2>. HIDE DEF callerVars, calleeVars, socketVars
  <2>. QED
    BY <1>3, <2>1, <2>2, <2>3, <2>4 DEF Next, FillingHandler
<1>. QED
  BY <1>1, <1>2, <1>3

\* Filling pending calls with an exception is one Fail step.
LEMMA FillsAreFailures ==
    ASSUME EndpointInv, NEW e \in Ends, NEW calls \in SUBSET Calls, NEW r \in Failures,
           Fills(e, calls, r)
    PROVE  R!Next
<1>1. promise' = promise /\ r \in Failures
  BY DEF Fills
<1>2. \A c \in calls : future[c] = "open" /\ c \in Calls
  BY DEF EndpointInv, HeldByCaller, OpenCallsArePending, Fills
<1>3. \A c \in Calls : future'[c] = IF c \in calls THEN r ELSE future[c]
  BY <1>2 DEF Fills
<1>4. R!Fail(calls)
  BY <1>1, <1>2, <1>3 DEF R!Fail, Failures
<1>. QED
  BY <1>4 DEF R!Next

\* A single call that fails is a Fail step as well.
LEMMA OneFailure ==
    ASSUME TypeOK, NEW c \in Calls, NEW r \in Failures, future[c] = "open",
           future' = [future EXCEPT ![c] = r], promise' = promise
    PROVE  R!Next
<1>1. \A d \in Calls : future'[d] = IF d \in {c} THEN r ELSE future[d]
  BY DEF TypeOK
<1>2. R!Fail({c})
  BY <1>1 DEF R!Fail, Failures
<1>. QED
  BY <1>2 DEF R!Next

\* Every step of the two ends is a step of Rpc or leaves it alone.
LEMMA RpcStep ==
    ASSUME IdsSuffice, EndpointInv, IdsAreUnique, [Next]_vars
    PROVE  [R!Next]_(R!rpcVars)
<1>. DEFINE Goal == [R!Next]_(R!rpcVars)
<1>. USE DEF callerVars, calleeVars, socketVars
<1>t. TypeOK /\ PostedAreNew /\ HeldByCaller /\ OpenCallsArePending /\ FramesAreGenuine
  BY DEF EndpointInv
<1>f. "TIMEOUT" \in Failures /\ "PEER_DISCONNECTED" \in Failures
  BY DEF Failures
<1>n. NoId \notin RequestIds
  BY EndpointAssumption DEF RequestIds
<1>s. ASSUME future' = future, promise' = promise PROVE Goal
  BY <1>s DEF R!rpcVars
<1>1. ASSUME UNCHANGED vars PROVE Goal
  BY <1>1, <1>s DEF vars
<1>2. ASSUME NEW c \in Calls, SendRequest(c) PROVE Goal
  <2>1. R!Call(c)
    <3>1. /\ future[c] = "idle"
          /\ \A d \in Calls : future'[d] = IF d = c THEN "open" ELSE future[d]
          /\ promise' = promise
      BY <1>2, <1>t DEF SendRequest, TypeOK
    <3>. QED
      BY <3>1 DEF R!Call, Failures
  <2>. QED
    BY <2>1 DEF R!Next
<1>3. ASSUME NEW c \in Calls, TimerExpires(c) \/ OnPromiseFilled(c) PROVE Goal
  BY <1>3, <1>s DEF TimerExpires, OnPromiseFilled
<1>4. ASSUME NEW c \in Calls, NEW how \in {"answered", "dropped"}, FinishIncoming(c, how) PROVE Goal
  <2>1. R!Finish(c, how)
    BY <1>4 DEF FinishIncoming, R!Finish
  <2>. QED
    BY <2>1 DEF R!Next
<1>5. ASSUME NEW e \in Ends, SendRequestTooLate(e) PROVE Goal
  <2>1. Head(posted[e]) \in Calls /\ Head(posted[e]) = posted[e][1] /\ Len(posted[e]) \in Nat \ {0}
    BY <1>t, <1>5, TailProps DEF SendRequestTooLate, TypeOK
  <2>2. future[Head(posted[e])] = "open"
    BY <1>t, <2>1 DEF PostedAreNew
  <2>3. future' = [future EXCEPT ![Head(posted[e])] = "PEER_DISCONNECTED"] /\ promise' = promise
    BY <1>5 DEF SendRequestTooLate
  <2>. QED
    BY <1>t, <1>f, <2>1, <2>2, <2>3, OneFailure
<1>6. ASSUME NEW e \in Ends, SendRequestImpl(e) PROVE Goal
  <2>1. Find(e, requestIdCounter[e]) = {}
    BY <1>6, FreshId
  <2>2. future' = future /\ promise' = promise
    BY <1>6, <2>1 DEF SendRequestImpl
  <2>. QED
    BY <2>2, <1>s
<1>7. ASSUME NEW e \in Ends, OnRequestFrame(e) PROVE Goal
  <2>. DEFINE f == Head(wire[e])
              c == f.call
  <2>1. f \in Frames /\ f = wire[e][1] /\ Len(wire[e]) \in Nat \ {0}
    BY <1>t, <1>7, TailProps DEF OnRequestFrame, TypeOK
  <2>2. Genuine(e, f) /\ c \in Calls /\ f.requestId \in RequestIds
    BY <1>t, <2>1 DEF FramesAreGenuine, Frames
  <2>3. f.event = "REQUEST" /\ promise' = [promise EXCEPT ![c] = "running"] /\ future' = future
    BY <1>7 DEF OnRequestFrame
  <2>4. promise[c] = "no" /\ requestId[c] # NoId
    BY <1>n, <2>2, <2>3 DEF Genuine
  <2>. HIDE DEF c, f
  <2>5. future[c] # "idle"
    BY <1>t, <2>2, <2>4 DEF PostedAreNew
  <2>6. R!Serve(c)
    BY <2>2, <2>3, <2>4, <2>5 DEF R!Serve
  <2>. QED
    BY <2>2, <2>6 DEF R!Next
<1>8. ASSUME FillingHandler PROVE Goal
  <2>1. PICK e \in Ends, calls \in SUBSET Calls, r \in Results :
              /\ Fills(e, calls, r)
              /\ r = "value" => /\ OnResponseFrame(e)
                                /\ calls = Find(e, Head(wire[e]).requestId)
    BY <1>8, HandlersFill
  <2>2. CASE r \in Failures
    BY <2>1, <2>2, FillsAreFailures
  <2>3. CASE r = "value"
    <3>. DEFINE f == Head(wire[e])
                c == f.call
    <3>1. f \in Frames /\ f = wire[e][1] /\ Len(wire[e]) \in Nat \ {0}
      BY <1>t, <2>1, <2>3, TailProps DEF OnResponseFrame, TypeOK
    <3>2. Genuine(e, f) /\ c \in Calls /\ f.requestId \in RequestIds
      BY <1>t, <3>1 DEF FramesAreGenuine, Frames
    <3>3. f.event = "RESPONSE" /\ calls = Find(e, f.requestId)
      BY <2>1, <2>3 DEF OnResponseFrame
    <3>4. promise[c] = "answered" /\ Caller[c] = e /\ requestId[c] = f.requestId
      BY <3>2, <3>3 DEF Genuine
    <3>. HIDE DEF c, f
    <3>5. ASSUME NEW d \in calls PROVE d = c /\ future[d] = "open"
      <4>1. d \in pendingRequests[e] /\ d \in Calls /\ Caller[d] = e /\ requestId[d] = f.requestId
        BY <1>t, <3>3 DEF Find, HeldByCaller, TypeOK
      <4>2. future[d] = "open" /\ d \in Numbered(e) /\ c \in Numbered(e)
        BY <1>t, <1>n, <3>2, <3>4, <4>1 DEF Numbered, OpenCallsArePending
      <4>. QED
        BY <3>4, <4>1, <4>2 DEF IdsAreUnique
    <3>6. /\ \A d \in Calls : future'[d] = IF d \in calls THEN "value" ELSE future[d]
          /\ future' = [d \in Calls |-> future'[d]]
          /\ promise' = promise
      BY <2>1, <2>3, <3>5 DEF Fills
    <3>7. CASE calls = {}
      <4>1. future' = future
        BY <1>t, <3>6, <3>7 DEF TypeOK
      <4>. QED
        BY <3>6, <4>1, <1>s
    <3>8. CASE calls # {}
      <4>1. calls = {c} /\ future[c] = "open"
        BY <3>5, <3>8
      <4>2. PICK x \in Calls : x = c
        BY <3>2
      <4>3. R!Return(x)
        BY <3>4, <3>6, <4>1, <4>2 DEF R!Return, Failures
      <4>4. R!Next
        BY <4>3 DEF R!Next
      <4>. QED
        BY <4>4
    <3>. QED
      BY <3>7, <3>8
  <2>. QED
    BY <2>2, <2>3 DEF Results
<1>. HIDE DEF Goal, callerVars, calleeVars, socketVars
<1>9. ASSUME NEW c \in Calls, FinishIncoming(c, "answered") \/ FinishIncoming(c, "dropped")
      PROVE  Goal
  BY <1>4, <1>9
<1>10. ASSUME Next PROVE Goal
  BY <1>2, <1>3, <1>5, <1>6, <1>7, <1>8, <1>9, <1>10 DEF Next, FillingHandler
<1>11. Goal
  BY <1>1, <1>10
<1>. QED
  BY <1>11 DEF Goal

\* An endpoint keeps the promise of Rpc as long as a connection does not use
\* up its request ids: each call is served at most once, its future is filled
\* once, and with a value only when the peer answered this very call.
THEOREM EndpointImplementsRpc ==
    ASSUME IdsSuffice
    PROVE  Spec => RefinesRpc
<1>1. Init => R!Init
  BY DEF Init, R!Init, Failures
<1>2. Init => IdsAreUnique
  <2>. SUFFICES ASSUME Init PROVE IdsAreUnique
    OBVIOUS
  <2>1. \A e \in Ends : Numbered(e) = {} /\ requestIdCounter[e] = 0
    BY DEF Init, Numbered
  <2>2. Cardinality({}) = 0 /\ 0 % IdSpace = 0
    BY FS_EmptySet, EndpointAssumption
  <2>. QED
    BY <2>1, <2>2 DEF IdsAreUnique
<1>3. EndpointInv /\ EndpointInv' /\ IdsAreUnique /\ [Next]_vars => IdsAreUnique'
  BY IdsStayUnique
<1>4. EndpointInv /\ IdsAreUnique /\ [Next]_vars => [R!Next]_(R!rpcVars)
  BY RpcStep
<1>. QED
  BY <1>1, <1>2, <1>3, <1>4, EndpointInvariance, PTL DEF Spec, RefinesRpc, R!Spec
=============================================================================
