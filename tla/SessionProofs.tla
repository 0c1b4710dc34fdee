---------------------------- MODULE SessionProofs ----------------------------
(***************************************************************************)
(* Proofs about HttpSessions, for any number of secondaries and sessions:  *)
(* the copies that sessions take of the registry are those of an atomic    *)
(* one, reports of pings match them, and every request has one response.   *)
(***************************************************************************)
EXTENDS RegistryProofs

-----------------------------------------------------------------------------
(* The strengthening.                                                      *)

Adding  == handler # Nothing /\ handler.call.name = "add"
NextAdd == secondaryIdCounter + (IF Adding THEN 1 ELSE 0)
IsAdd(i) == queue[i].name = "add"

\* addSecondaryImpl runs once per connection and in the order of the accepts:
\* the ids that are still to be given are queued, in order.
IdsInOrder ==
    /\ NextAdd <= accepted
    /\ Adding => handler.call.id = secondaryIdCounter
    /\ \A i \in 1 .. Len(queue) :
            IsAdd(i) => NextAdd <= queue[i].id /\ queue[i].id < accepted
    /\ \A i, j \in 1 .. Len(queue) :
            IsAdd(i) /\ IsAdd(j) /\ i < j => queue[i].id < queue[j].id
    /\ node # "destroyed" =>
            \A id \in NextAdd .. (accepted - 1) :
                \E i \in 1 .. Len(queue) : IsAdd(i) /\ queue[i].id = id

\* secondariesMutex_: the handler holds it alone, or the copiers share it.
LocksExclude ==
    /\ writer <=> handler # Nothing /\ handler.at # "lock"
    /\ writer => readers = {}
    /\ \A s \in Sessions : s \in readers <=> copying[s] = "copy"

\* The handler is between its two writes to this entry.
Midway(id, position) ==
    handler # Nothing /\ handler.call.id = id /\ handler.at = position

\* Name and state of an entry belong together, except where a handler is
\* between its two writes.
EntryMatches(id) ==
    /\ id \in secondaries => id < secondaryIdCounter
    /\ id \notin secondaries => state[id] = "REGISTERING" /\ ~friendlyName[id]
    /\ friendlyName[id] => id \in announced
    /\ Midway(id, "named") => friendlyName[id] /\ state[id] # "INVALIDATED"
    /\ Midway(id, "marked") => state[id] = "INVALIDATED"
    /\ ~Midway(id, "marked") => state[id] # "INVALIDATED"
    /\ ~Midway(id, "named") /\ ~Midway(id, "marked") =>
            (friendlyName[id] <=> state[id] = "OPERATIONAL")

\* Every entry matches, and only secondaries that called secondaryNodeReady
\* have a handler for it.
EntriesMatch ==
    /\ \A id \in Ids : EntryMatches(id)
    /\ \A i \in 1 .. Len(queue) : queue[i].name = "ready" => queue[i].id \in announced
    /\ handler # Nothing /\ handler.call.name = "ready" => handler.call.id \in announced

\* A copy lists a secondary once, never in between, and stays true of the
\* registry as long as the shared lock is held.
CopyIsWhole(s) ==
    /\ copying[s] \in {"no", "lock"} => snapshot[s] = << >>
    /\ \A i \in 1 .. Len(snapshot[s]) :
            /\ snapshot[s][i].friendlyName <=> snapshot[s][i].state = "OPERATIONAL"
            /\ snapshot[s][i].friendlyName => snapshot[s][i].id \in announced
            /\ snapshot[s][i].state # "INVALIDATED"
            /\ \A j \in 1 .. Len(snapshot[s]) : snapshot[s][j].id = snapshot[s][i].id => i = j

CopyIsTrue(s) ==
    copying[s] = "copy" =>
        \A i \in 1 .. Len(snapshot[s]) :
            /\ snapshot[s][i].id \in secondaries
            /\ snapshot[s][i].state = state[snapshot[s][i].id]
            /\ snapshot[s][i].friendlyName = friendlyName[snapshot[s][i].id]

\* What a session has read, copied and written in each phase.
PhaseMatches(s) ==
    /\ copying[s] \in {"lock", "copy"} => phase[s] = "processing"
    /\ phase[s] = "processing" => node # "destroyed" /\ copying[s] # "no"
    /\ phase[s] \in {"new", "reading"} =>
            request[s] = "none" /\ responses[s] = << >> /\ copying[s] = "no"
    /\ phase[s] \in {"processing", "future", "callback", "failed"} =>
            request[s] # "none" /\ responses[s] = << >>
    /\ phase[s] = "writing" => request[s] # "none" /\ Len(responses[s]) = 1
    /\ phase[s] = "future" /\ request[s] = "ping" =>
            copying[s] = "done" /\ Len(pings[s]) = Len(snapshot[s])

SessionInv ==
    /\ RegistryInv
    /\ TypeOK
    /\ IdsInOrder
    /\ LocksExclude
    /\ EntriesMatch
    /\ \A s \in Sessions : CopyIsWhole(s) /\ CopyIsTrue(s) /\ PhaseMatches(s)

-----------------------------------------------------------------------------
(* What the steps leave alone.                                             *)

\* A session leaves the registry, its handlers and the locks alone.
LEMMA SessionFrame ==
    ASSUME NEW s \in Sessions, SessionNext(s)
    PROVE  UNCHANGED <<postedVars, nodeVars, handler, writer, readers>>
  BY DEF SessionNext, Serve, Run, ReadFails, ResponseWritten,
         GetMessages, InvalidRequest, GetSecondaryMessages, CallMasterNode,
         NodeIsDead, RequestMarkSuccess, RequestMarkFailure, FutureFailed,
         AddMessageReturns, SendPings, PingEnds, CollectPings, AnswerFromFuture,
         Destroyed, SnapshotDestroyed, registryVars, snapshotVars

\* A session touches no other session.
SameSession(t) ==
    /\ copying'[t] = copying[t] /\ snapshot'[t] = snapshot[t]
    /\ phase'[t] = phase[t] /\ request'[t] = request[t] /\ pings'[t] = pings[t]
    /\ report'[t] = report[t] /\ responses'[t] = responses[t]

\* A step of one session leaves the others as they are.
LEMMA OtherSessions ==
    ASSUME TypeOK, NEW s \in Sessions, SessionNext(s), NEW t \in Sessions, t # s
    PROVE  SameSession(t)
<1>. USE DEF TypeOK, RegistryTypeOK, SameSession, registryVars, snapshotVars, sessionVars
<1>1. CASE Run(s) \/ ReadFails(s) \/ ResponseWritten(s) \/ CallMasterNode(s, "ping") \/ CallMasterNode(s, "newMessage")
  BY <1>1 DEF Run, ReadFails, ResponseWritten, Destroyed, SnapshotDestroyed, CallMasterNode, Read
<1>2. CASE GetMessages(s) \/ InvalidRequest(s) \/ FutureFailed(s) \/ AnswerFromFuture(s)
  BY <1>2 DEF GetMessages, InvalidRequest, FutureFailed, AnswerFromFuture, Read, WriteResponse, Fallback
<1>3. ASSUME NEW operational \in BOOLEAN, GetSecondaryMessages(s, operational) PROVE SameSession(t)
  BY <1>3 DEF GetSecondaryMessages, Read, WriteResponse, Fallback
<1>4. ASSUME NEW what \in {"messages", "ping", "newMessage"}, NodeIsDead(s, what) PROVE SameSession(t)
  BY <1>4 DEF NodeIsDead, Read, WriteResponse, Fallback
<1>5. CASE RequestMarkSuccess(s) \/ RequestMarkFailure(s) \/ SendPings(s)
  BY <1>5 DEF RequestMarkSuccess, RequestMarkFailure, SendPings
<1>6. ASSUME NEW i \in 1 .. MaxSecondaries, NEW outcome \in {"value", "exception"}, PingEnds(s, i, outcome)
      PROVE  SameSession(t)
  BY <1>6 DEF PingEnds
<1>7. CASE CollectPings(s) \/ AddMessageReturns(s, "callback") \/ AddMessageReturns(s, "future")
  BY <1>7 DEF CollectPings, AddMessageReturns, SnapshotDestroyed
<1>. HIDE DEF SameSession
<1>. QED
  BY <1>1, <1>2, <1>3, <1>4, <1>5, <1>6, <1>7 DEF SessionNext, Serve

-----------------------------------------------------------------------------
(* The steps of a session.                                                 *)

\* The types of what belongs to a session.
SessionTypes ==
    /\ copying \in [Sessions -> {"no", "lock", "copy", "done"}]
    /\ snapshot \in [Sessions -> Seq(Entries)]
    /\ phase \in [Sessions -> Phases]
    /\ request \in [Sessions -> Requests \cup {"none"}]
    /\ pings \in [Sessions -> Seq(Outcomes)]
    /\ report \in [Sessions -> Seq(PingResults)]
    /\ responses \in [Sessions -> Seq({"ok", "bad_request"})]

\* What a step of session s is to it: well typed, with its phase in line with
\* the rest, and neither starting nor ending a copy.
SessionStep(s) ==
    /\ SessionTypes'
    /\ CopyIsWhole(s)'
    /\ PhaseMatches(s)'
    /\ copying'[s] = "copy" <=> copying[s] = "copy"
    /\ copying'[s] = "copy" => snapshot'[s] = snapshot[s]

\* Steps of a session that leave the copy alone.
LEMMA CopyKept ==
    ASSUME NEW s \in Sessions, CopyIsWhole(s), announced' = announced,
           copying'[s] = copying[s] \/ (copying[s] = "no" /\ copying'[s] = "lock"),
           snapshot'[s] = snapshot[s]
    PROVE  CopyIsWhole(s)'
  BY DEF CopyIsWhole

\* A session that is destroyed is empty.
LEMMA DestroyedIsSessionStep ==
    ASSUME SessionInv, NEW s \in Sessions, Destroyed(s), phase[s] # "processing"
    PROVE  SessionStep(s)
<1>1. /\ copying'[s] = "no" /\ snapshot'[s] = << >> /\ phase'[s] = "ended"
      /\ SessionTypes'
  BY DEF Destroyed, SnapshotDestroyed, SessionInv, TypeOK, RegistryTypeOK, SessionTypes, Phases
<1>2. copying[s] # "copy"
  BY DEF SessionInv, PhaseMatches
<1>3. CopyIsWhole(s)' /\ PhaseMatches(s)'
  BY <1>1 DEF CopyIsWhole, PhaseMatches
<1>. QED
  BY <1>1, <1>2, <1>3 DEF SessionStep

\* A response that is written is the first.
LEMMA WriteResponseIsSessionStep ==
    ASSUME SessionInv, NEW s \in Sessions, NEW status \in {"ok", "bad_request"},
           WriteResponse(s, status),
           request' \in [Sessions -> Requests \cup {"none"}], request'[s] # "none",
           report' \in [Sessions -> Seq(PingResults)],
           phase[s] \in {"reading", "callback", "failed"},
           UNCHANGED <<copying, snapshot, pings, announced>>
    PROVE  SessionStep(s)
<1>t. TypeOK /\ RegistryTypeOK /\ CopyIsWhole(s) /\ PhaseMatches(s)
  BY DEF SessionInv, TypeOK
<1>1. responses[s] = << >> /\ copying[s] \notin {"lock", "copy"}
  BY <1>t DEF PhaseMatches
<1>2. /\ responses' = [responses EXCEPT ![s] = Append(@, status)]
      /\ phase' = [phase EXCEPT ![s] = "writing"]
  BY DEF WriteResponse
<1>3. responses'[s] = <<status>> /\ phase'[s] = "writing"
  BY <1>t, <1>1, <1>2 DEF TypeOK
<1>4. responses' \in [Sessions -> Seq({"ok", "bad_request"})] /\ Len(responses'[s]) = 1
  <2>1. <<status>> \in Seq({"ok", "bad_request"}) /\ Len(<<status>>) = 1
    OBVIOUS
  <2>2. responses' = [responses EXCEPT ![s] = <<status>>]
    BY <1>1, <1>2
  <2>3. responses \in [Sessions -> Seq({"ok", "bad_request"})]
    BY <1>t DEF TypeOK
  <2>4. responses' \in [Sessions -> Seq({"ok", "bad_request"})]
    BY <2>1, <2>2, <2>3
  <2>. QED
    BY <1>3, <2>1, <2>4
<1>5. phase' \in [Sessions -> Phases]
  BY <1>t, <1>2 DEF TypeOK, Phases
<1>6. SessionTypes'
  BY <1>t, <1>4, <1>5 DEF TypeOK, RegistryTypeOK, SessionTypes
<1>7. PhaseMatches(s)'
  BY <1>1, <1>3, <1>4 DEF PhaseMatches
<1>8. CopyIsWhole(s)'
  BY <1>t, CopyKept
<1>. QED
  BY <1>6, <1>7, <1>8 DEF SessionStep

\* Every step of a session is one.
LEMMA SessionSteps ==
    ASSUME SessionInv, NEW s \in Sessions, SessionNext(s)
    PROVE  SessionStep(s)
<1>t. TypeOK /\ RegistryTypeOK /\ CopyIsWhole(s) /\ PhaseMatches(s)
  BY DEF SessionInv, TypeOK
<1>f. UNCHANGED <<node, announced>>
  BY SessionFrame DEF postedVars, nodeVars
<1>. USE DEF registryVars, snapshotVars, sessionVars
<1>q. ASSUME NEW what \in Requests, Read(s, what)
      PROVE  /\ request' \in [Sessions -> Requests \cup {"none"}]
             /\ request'[s] = what /\ what # "none"
             /\ phase[s] = "reading"
  BY <1>t, <1>q DEF Read, TypeOK, Requests
<1>1. CASE Run(s)
  <2>1. /\ phase[s] = "new" /\ phase'[s] = "reading" /\ SessionTypes'
        /\ UNCHANGED <<copying, snapshot, request, pings, responses>>
    BY <1>t, <1>1 DEF Run, TypeOK, RegistryTypeOK, SessionTypes, Phases
  <2>2. CopyIsWhole(s)' /\ PhaseMatches(s)'
    BY <1>t, <1>f, <2>1, CopyKept DEF PhaseMatches
  <2>. QED
    BY <2>1, <2>2 DEF SessionStep
<1>2. CASE ReadFails(s) \/ ResponseWritten(s)
  BY <1>2, DestroyedIsSessionStep DEF ReadFails, ResponseWritten
<1>3. CASE GetMessages(s) \/ InvalidRequest(s)
  <2>1. \E what \in Requests : Read(s, what)
    BY <1>3 DEF GetMessages, InvalidRequest, Requests
  <2>2. \E status \in {"ok", "bad_request"} : WriteResponse(s, status)
    BY <1>3 DEF GetMessages, InvalidRequest, Fallback
  <2>3. UNCHANGED <<copying, snapshot, pings, report>>
    BY <1>3 DEF GetMessages, InvalidRequest
  <2>4. report' \in [Sessions -> Seq(PingResults)]
    BY <1>t, <2>3 DEF TypeOK
  <2>. QED
    BY <1>f, <1>q, <2>1, <2>2, <2>3, <2>4, WriteResponseIsSessionStep
<1>4. ASSUME NEW operational \in BOOLEAN, GetSecondaryMessages(s, operational) PROVE SessionStep(s)
  <2>1. \E what \in Requests : Read(s, what)
    BY <1>4 DEF GetSecondaryMessages, Requests
  <2>2. \E status \in {"ok", "bad_request"} : WriteResponse(s, status)
    BY <1>4 DEF GetSecondaryMessages, Fallback
  <2>3. UNCHANGED <<copying, snapshot, pings, report>>
    BY <1>4 DEF GetSecondaryMessages
  <2>4. report' \in [Sessions -> Seq(PingResults)]
    BY <1>t, <2>3 DEF TypeOK
  <2>. QED
    BY <1>f, <1>q, <2>1, <2>2, <2>3, <2>4, WriteResponseIsSessionStep
<1>5. ASSUME NEW what \in {"messages", "ping", "newMessage"}, NodeIsDead(s, what) PROVE SessionStep(s)
  <2>1. \E w \in Requests : Read(s, w)
    BY <1>5 DEF NodeIsDead, Requests
  <2>2. \E status \in {"ok", "bad_request"} : WriteResponse(s, status)
    BY <1>5 DEF NodeIsDead, Fallback
  <2>3. UNCHANGED <<copying, snapshot, pings, report>>
    BY <1>5 DEF NodeIsDead
  <2>4. report' \in [Sessions -> Seq(PingResults)]
    BY <1>t, <2>3 DEF TypeOK
  <2>. QED
    BY <1>f, <1>q, <2>1, <2>2, <2>3, <2>4, WriteResponseIsSessionStep
<1>6. ASSUME NEW what \in {"ping", "newMessage"}, CallMasterNode(s, what) PROVE SessionStep(s)
  <2>1. /\ request' \in [Sessions -> Requests \cup {"none"}]
        /\ request'[s] # "none" /\ phase[s] = "reading"
    BY <1>6, <1>q DEF CallMasterNode, Requests
  <2>2. /\ node # "destroyed"
        /\ phase' = [phase EXCEPT ![s] = "processing"]
        /\ copying' = [copying EXCEPT ![s] = "lock"]
        /\ UNCHANGED <<snapshot, pings, report, responses>>
    BY <1>6 DEF CallMasterNode
  <2>3. phase'[s] = "processing" /\ copying'[s] = "lock" /\ copying[s] = "no"
    BY <1>t, <2>1, <2>2 DEF TypeOK, RegistryTypeOK, PhaseMatches
  <2>4. SessionTypes'
    BY <1>t, <2>1, <2>2 DEF TypeOK, RegistryTypeOK, SessionTypes, Phases
  <2>5. PhaseMatches(s)'
    BY <1>t, <1>f, <2>1, <2>2, <2>3 DEF PhaseMatches
  <2>6. CopyIsWhole(s)'
    BY <1>t, <1>f, <2>2, <2>3, CopyKept
  <2>. QED
    BY <2>3, <2>4, <2>5, <2>6 DEF SessionStep
<1>7. CASE RequestMarkSuccess(s) \/ RequestMarkFailure(s)
  <2>1. /\ phase[s] = "future" /\ UNCHANGED <<copying, snapshot, request, pings, report, responses>>
        /\ phase' = [phase EXCEPT ![s] = "callback"] \/ phase' = [phase EXCEPT ![s] = "failed"]
    BY <1>7 DEF RequestMarkSuccess, RequestMarkFailure
  <2>2. phase'[s] \in {"callback", "failed"} /\ SessionTypes'
    BY <1>t, <2>1 DEF TypeOK, RegistryTypeOK, SessionTypes, Phases
  <2>3. CopyIsWhole(s)' /\ PhaseMatches(s)'
    BY <1>t, <1>f, <2>1, <2>2, CopyKept DEF PhaseMatches
  <2>. QED
    BY <2>1, <2>2, <2>3 DEF SessionStep
<1>8. CASE FutureFailed(s) \/ AnswerFromFuture(s)
  <2>1. /\ phase[s] \in {"failed", "callback"}
        /\ UNCHANGED <<copying, snapshot, pings, request>>
        /\ report' = report \/ report' = [report EXCEPT ![s] = << >>]
        /\ \E status \in {"ok", "bad_request"} : WriteResponse(s, status)
    BY <1>8 DEF FutureFailed, AnswerFromFuture, Fallback
  <2>2. request' \in [Sessions -> Requests \cup {"none"}] /\ request'[s] # "none"
    BY <1>t, <2>1 DEF TypeOK, PhaseMatches
  <2>3. report' \in [Sessions -> Seq(PingResults)]
    <3>1. report \in [Sessions -> Seq(PingResults)] /\ << >> \in Seq(PingResults)
      BY <1>t DEF TypeOK
    <3>2. CASE report' = report
      BY <3>1, <3>2
    <3>3. CASE report' = [report EXCEPT ![s] = << >>]
      BY <3>1, <3>3
    <3>. QED
      BY <2>1, <3>2, <3>3
  <2>. QED
    BY <1>f, <2>1, <2>2, <2>3, WriteResponseIsSessionStep
<1>9. ASSUME NEW future \in {"callback", "future"}, AddMessageReturns(s, future) PROVE SessionStep(s)
  <2>1. /\ phase[s] = "processing" /\ copying[s] = "done" /\ request[s] # "ping"
        /\ phase' = [phase EXCEPT ![s] = future]
        /\ copying' = [copying EXCEPT ![s] = "no"]
        /\ snapshot' = [snapshot EXCEPT ![s] = << >>]
        /\ UNCHANGED <<request, pings, report, responses>>
    BY <1>9 DEF AddMessageReturns, SnapshotDestroyed
  <2>2. phase'[s] = future /\ copying'[s] = "no" /\ snapshot'[s] = << >> /\ SessionTypes'
    BY <1>t, <2>1 DEF TypeOK, RegistryTypeOK, SessionTypes, Phases
  <2>3. CopyIsWhole(s)' /\ PhaseMatches(s)'
    BY <1>t, <1>f, <2>1, <2>2 DEF PhaseMatches, CopyIsWhole
  <2>. QED
    BY <2>1, <2>2, <2>3 DEF SessionStep
<1>10. CASE SendPings(s)
  <2>. DEFINE open == [i \in 1 .. Len(snapshot[s]) |-> "open"]
  <2>1. /\ phase[s] = "processing" /\ copying[s] = "done" /\ request[s] = "ping"
        /\ pings' = [pings EXCEPT ![s] = open]
        /\ phase' = [phase EXCEPT ![s] = IF snapshot[s] = << >> THEN "callback" ELSE "future"]
        /\ UNCHANGED <<copying, snapshot, request, report, responses>>
    BY <1>10 DEF SendPings
  <2>2. Len(snapshot[s]) \in Nat
    BY <1>t DEF RegistryTypeOK
  <2>3. open \in Seq(Outcomes) /\ Len(open) = Len(snapshot[s])
    BY <2>2 DEF Outcomes
  <2>. HIDE DEF open
  <2>4. phase'[s] \in {"callback", "future"} /\ pings'[s] = open /\ SessionTypes'
    BY <1>t, <2>1, <2>3 DEF TypeOK, RegistryTypeOK, SessionTypes, Phases
  <2>5. CopyIsWhole(s)' /\ PhaseMatches(s)'
    BY <1>t, <1>f, <2>1, <2>3, <2>4, CopyKept DEF PhaseMatches
  <2>. QED
    BY <2>1, <2>4, <2>5 DEF SessionStep
<1>11. ASSUME NEW i \in 1 .. MaxSecondaries, NEW outcome \in {"value", "exception"}, PingEnds(s, i, outcome)
       PROVE  SessionStep(s)
  <2>1. /\ i \in 1 .. Len(pings[s])
        /\ pings' = [pings EXCEPT ![s] = [pings[s] EXCEPT ![i] = outcome]]
        /\ UNCHANGED <<copying, snapshot, phase, request, report, responses>>
    BY <1>11 DEF PingEnds
  <2>2. pings[s] \in Seq(Outcomes) /\ outcome \in Outcomes
    BY <1>t DEF TypeOK, Outcomes
  <2>3. [pings[s] EXCEPT ![i] = outcome] \in Seq(Outcomes) /\ Len([pings[s] EXCEPT ![i] = outcome]) = Len(pings[s])
    BY <2>1, <2>2
  <2>4. SessionTypes' /\ Len(pings'[s]) = Len(pings[s])
    BY <1>t, <2>1, <2>3 DEF TypeOK, RegistryTypeOK, SessionTypes
  <2>5. CopyIsWhole(s)' /\ PhaseMatches(s)'
    BY <1>t, <1>f, <2>1, <2>4, CopyKept DEF PhaseMatches
  <2>. QED
    BY <2>1, <2>4, <2>5 DEF SessionStep
<1>12. CASE CollectPings(s)
  <2>1. /\ phase[s] = "future" /\ request[s] = "ping"
        /\ report' = [report EXCEPT ![s] = Results(s)]
        /\ phase' = [phase EXCEPT ![s] = "callback"]
        /\ pings' = [pings EXCEPT ![s] = << >>]
        /\ copying' = [copying EXCEPT ![s] = "no"]
        /\ snapshot' = [snapshot EXCEPT ![s] = << >>]
        /\ UNCHANGED <<request, responses>>
    BY <1>12 DEF CollectPings, SnapshotDestroyed
  <2>2. Len(pings[s]) = Len(snapshot[s]) /\ Len(pings[s]) \in Nat /\ copying[s] = "done"
    BY <1>t, <2>1 DEF PhaseMatches, TypeOK
  <2>3. \A i \in 1 .. Len(pings[s]) : PingResult(snapshot[s][i], pings[s][i]) \in PingResults
    <3>1. \A i \in 1 .. Len(pings[s]) : pings[s][i] \in {"value", "exception"} /\ snapshot[s][i] \in Entries
      BY <1>12, <1>t, <2>2 DEF CollectPings, WhenAll, TypeOK, RegistryTypeOK, Outcomes
    <3>. QED
      BY <3>1 DEF PingResult, PingResults, Entries
  <2>4. Results(s) \in Seq(PingResults)
    BY <2>2, <2>3 DEF Results
  <2>5. phase'[s] = "callback" /\ copying'[s] = "no" /\ snapshot'[s] = << >> /\ SessionTypes'
    BY <1>t, <2>1, <2>4 DEF TypeOK, RegistryTypeOK, SessionTypes, Phases
  <2>6. CopyIsWhole(s)' /\ PhaseMatches(s)'
    BY <1>t, <1>f, <2>1, <2>5 DEF PhaseMatches, CopyIsWhole
  <2>. QED
    BY <2>2, <2>5, <2>6 DEF SessionStep
<1>. HIDE DEF registryVars, snapshotVars, sessionVars
<1>. QED
  BY <1>1, <1>2, <1>3, <1>4, <1>5, <1>6, <1>7, <1>8, <1>9, <1>10, <1>11, <1>12 DEF SessionNext, Serve

\* The types of what the registry and its handlers keep.
RegistryTypes ==
    /\ node \in {"alive", "destroyed"}
    /\ accepted \in 0 .. MaxSecondaries
    /\ queue \in Seq(Handlers)
    /\ handler \in [call : Handlers, at : Positions] \cup {Nothing}
    /\ secondaryIdCounter \in 0 .. MaxSecondaries
    /\ secondaries \subseteq Ids
    /\ state \in [Ids -> SecondaryStates]
    /\ friendlyName \in [Ids -> BOOLEAN]
    /\ writer \in BOOLEAN
    /\ readers \subseteq Sessions
    /\ up \in [Ids -> BOOLEAN]
    /\ announced \subseteq Ids

\* The two halves of the type invariant.
LEMMA TypesSplit == TypeOK <=> RegistryTypes /\ SessionTypes
  BY DEF TypeOK, RegistryTypeOK, RegistryTypes, SessionTypes

\* SessionInv after a step, but for RegistryInv, whose proof covers all steps.
KeepsSessionInv ==
    /\ RegistryTypes' /\ SessionTypes'
    /\ IdsInOrder'
    /\ LocksExclude'
    /\ EntriesMatch'
    /\ \A s \in Sessions : CopyIsWhole(s)' /\ CopyIsTrue(s)' /\ PhaseMatches(s)'

\* What the ids and the entries depend on.
LEMMA UnchangedEntries ==
    ASSUME IdsInOrder, EntriesMatch, UNCHANGED <<postedVars, nodeVars, handler>>
    PROVE  IdsInOrder' /\ EntriesMatch'
<1>. USE DEF postedVars, nodeVars
<1>1. IdsInOrder'
  BY DEF IdsInOrder, NextAdd, Adding, IsAdd
<1>2. EntriesMatch'
  BY DEF EntriesMatch, EntryMatches, Midway
<1>. QED
  BY <1>1, <1>2

\* A session keeps the invariant.
LEMMA SessionKeeps ==
    ASSUME SessionInv, NEW s \in Sessions, SessionNext(s)
    PROVE  KeepsSessionInv
<1>1. UNCHANGED <<postedVars, nodeVars, handler, writer, readers>>
  BY SessionFrame
<1>2. SessionStep(s)
  BY SessionSteps
<1>t. /\ TypeOK /\ IdsInOrder /\ LocksExclude /\ EntriesMatch
      /\ \A t \in Sessions : CopyIsWhole(t) /\ CopyIsTrue(t) /\ PhaseMatches(t)
  BY DEF SessionInv
<1>3. \A t \in Sessions : t # s => SameSession(t)
  BY <1>t, OtherSessions
<1>. USE DEF postedVars, nodeVars
<1>4. RegistryTypes' /\ SessionTypes'
  BY <1>1, <1>2, <1>t, TypesSplit DEF RegistryTypes, SessionStep
<1>5. IdsInOrder' /\ EntriesMatch'
  BY <1>1, <1>t, UnchangedEntries
<1>6. LocksExclude'
  <2>1. \A t \in Sessions : copying'[t] = "copy" <=> copying[t] = "copy"
    BY <1>2, <1>3 DEF SameSession, SessionStep
  <2>. QED
    BY <1>1, <1>t, <2>1 DEF LocksExclude
<1>7. ASSUME NEW t \in Sessions, t # s
      PROVE  CopyIsWhole(t)' /\ CopyIsTrue(t)' /\ PhaseMatches(t)'
  <2>1. SameSession(t)
    BY <1>3, <1>7
  <2>2. CopyIsWhole(t)'
    BY <1>1, <1>t, <2>1 DEF SameSession, CopyIsWhole
  <2>3. CopyIsTrue(t)'
    BY <1>1, <1>t, <2>1 DEF SameSession, CopyIsTrue
  <2>4. PhaseMatches(t)'
    BY <1>1, <1>t, <2>1 DEF SameSession, PhaseMatches
  <2>. QED
    BY <2>2, <2>3, <2>4
<1>8. CopyIsWhole(s)' /\ CopyIsTrue(s)' /\ PhaseMatches(s)'
  <2>1. CopyIsTrue(s)'
    BY <1>1, <1>2, <1>t DEF SessionStep, CopyIsTrue
  <2>. QED
    BY <1>2, <2>1 DEF SessionStep
<1>. QED
  BY <1>4, <1>5, <1>6, <1>7, <1>8 DEF KeepsSessionInv

-----------------------------------------------------------------------------
(* The steps of a snapshot.                                                *)

\* The shared lock, one entry of the copy, the end of the copy.
LEMMA SnapshotKeeps ==
    ASSUME SessionInv, NEW s \in Sessions, SnapshotStep(s), UNCHANGED sessionVars
    PROVE  KeepsSessionInv
<1>t. /\ RegistryTypes /\ SessionTypes /\ IdsInOrder /\ LocksExclude /\ EntriesMatch
      /\ \A t \in Sessions : CopyIsWhole(t) /\ CopyIsTrue(t) /\ PhaseMatches(t)
  BY TypesSplit DEF SessionInv
<1>. USE DEF postedVars, nodeVars, sessionVars
<1>1. UNCHANGED <<postedVars, nodeVars, handler, writer>>
  BY DEF SnapshotStep, LockShared, CopyEntry, SnapshotReturns
<1>2. IdsInOrder' /\ EntriesMatch'
  BY <1>1, <1>t, UnchangedEntries
<1>o. ASSUME \A t \in Sessions : t # s => copying'[t] = copying[t] /\ snapshot'[t] = snapshot[t],
             NEW t \in Sessions, t # s
      PROVE  CopyIsWhole(t)' /\ CopyIsTrue(t)' /\ PhaseMatches(t)'
  <2>1. copying'[t] = copying[t] /\ snapshot'[t] = snapshot[t]
    BY <1>o
  <2>2. CopyIsWhole(t)'
    BY <1>1, <1>t, <2>1 DEF CopyIsWhole
  <2>3. CopyIsTrue(t)'
    BY <1>1, <1>t, <2>1 DEF CopyIsTrue
  <2>4. PhaseMatches(t)'
    BY <1>1, <1>t, <2>1 DEF PhaseMatches
  <2>. QED
    BY <2>2, <2>3, <2>4
<1>3. CASE LockShared(s)
  <2>1. /\ copying[s] = "lock" /\ ~writer /\ readers' = readers \cup {s}
        /\ copying' = [copying EXCEPT ![s] = "copy"] /\ snapshot' = snapshot
    BY <1>3 DEF LockShared
  <2>2. /\ copying'[s] = "copy" /\ \A t \in Sessions : t # s => copying'[t] = copying[t]
        /\ SessionTypes' /\ RegistryTypes'
    BY <1>t, <1>1, <2>1 DEF SessionTypes, RegistryTypes
  <2>3. LocksExclude'
    BY <1>t, <1>1, <2>1, <2>2 DEF LocksExclude
  <2>4. snapshot[s] = << >>
    BY <1>t, <2>1 DEF CopyIsWhole
  <2>5. CopyIsWhole(s)' /\ CopyIsTrue(s)'
    BY <2>1, <2>2, <2>4 DEF CopyIsWhole, CopyIsTrue
  <2>6. PhaseMatches(s)'
    BY <1>t, <1>1, <2>1, <2>2 DEF PhaseMatches
  <2>. QED
    BY <1>2, <1>o, <2>1, <2>2, <2>3, <2>5, <2>6 DEF KeepsSessionInv
<1>4. ASSUME NEW id \in Ids, CopyEntry(s, id) PROVE KeepsSessionInv
  <2>. DEFINE entry == [id |-> id, state |-> state[id], friendlyName |-> friendlyName[id]]
              old == snapshot[s]
  <2>1. /\ copying[s] = "copy" /\ id \in secondaries /\ id \notin Copied(s)
        /\ snapshot' = [snapshot EXCEPT ![s] = Append(old, entry)]
        /\ UNCHANGED <<readers, copying>>
    BY <1>4 DEF CopyEntry
  <2>2. entry \in Entries /\ entry.id = id /\ entry.state = state[id] /\ entry.friendlyName = friendlyName[id]
    BY <1>t DEF Entries, RegistryTypes
  <2>. HIDE DEF entry
  <2>3. /\ old \in Seq(Entries) /\ Len(old) \in Nat
        /\ Append(old, entry) \in Seq(Entries)
        /\ Len(Append(old, entry)) = Len(old) + 1
        /\ \A i \in 1 .. Len(old) : Append(old, entry)[i] = old[i]
        /\ Append(old, entry)[Len(old) + 1] = entry
    BY <1>t, <2>2 DEF SessionTypes
  <2>4. /\ snapshot'[s] = Append(old, entry)
        /\ \A t \in Sessions : t # s => snapshot'[t] = snapshot[t]
        /\ SessionTypes' /\ RegistryTypes'
    BY <1>t, <1>1, <2>1, <2>3 DEF SessionTypes, RegistryTypes
  <2>5. LocksExclude'
    BY <1>t, <1>1, <2>1 DEF LocksExclude
  <2>6. ~writer /\ \A position : position # "lock" => ~Midway(id, position)
    BY <1>t, <2>1 DEF LocksExclude, Midway
  <2>7. /\ friendlyName[id] <=> state[id] = "OPERATIONAL"
        /\ friendlyName[id] => id \in announced
        /\ state[id] # "INVALIDATED"
    BY <1>t, <2>6 DEF EntriesMatch, EntryMatches
  <2>8. \A i \in 1 .. Len(old) : old[i].id # id
    BY <2>1 DEF Copied
  <2>w. CopyIsWhole(s) /\ CopyIsTrue(s)
    BY <1>t
  <2>9. CopyIsWhole(s)'
    <3>1. ASSUME NEW i \in 1 .. Len(snapshot'[s])
          PROVE  /\ snapshot'[s][i].friendlyName <=> snapshot'[s][i].state = "OPERATIONAL"
                 /\ snapshot'[s][i].friendlyName => snapshot'[s][i].id \in announced
                 /\ snapshot'[s][i].state # "INVALIDATED"
                 /\ \A j \in 1 .. Len(snapshot'[s]) : snapshot'[s][j].id = snapshot'[s][i].id => i = j
      <4>1. CASE i = Len(old) + 1
        BY <2>2, <2>3, <2>4, <2>7, <2>8, <4>1
      <4>2. CASE i # Len(old) + 1
        <5>1. i \in 1 .. Len(old) /\ snapshot'[s][i] = old[i]
          BY <2>3, <2>4, <4>2
        <5>2. /\ old[i].friendlyName <=> old[i].state = "OPERATIONAL"
              /\ old[i].friendlyName => old[i].id \in announced
              /\ old[i].state # "INVALIDATED"
              /\ \A j \in 1 .. Len(old) : old[j].id = old[i].id => i = j
          BY <2>w, <5>1 DEF CopyIsWhole
        <5>3. ASSUME NEW j \in 1 .. Len(snapshot'[s]), snapshot'[s][j].id = snapshot'[s][i].id
              PROVE  i = j
          <6>1. CASE j = Len(old) + 1
            BY <2>2, <2>3, <2>4, <2>8, <5>1, <5>3, <6>1
          <6>2. CASE j # Len(old) + 1
            BY <2>3, <2>4, <5>1, <5>2, <5>3, <6>2
          <6>. QED
            BY <6>1, <6>2
        <5>. QED
          BY <5>1, <5>2, <5>3
      <4>. QED
        BY <4>1, <4>2
    <3>2. copying'[s] \notin {"no", "lock"} /\ announced' = announced
      BY <1>1, <2>1
    <3>. QED
      BY <3>1, <3>2 DEF CopyIsWhole
  <2>10. CopyIsTrue(s)'
    <3>1. ASSUME NEW i \in 1 .. Len(snapshot'[s])
          PROVE  /\ snapshot'[s][i].id \in secondaries
                 /\ snapshot'[s][i].state = state[snapshot'[s][i].id]
                 /\ snapshot'[s][i].friendlyName = friendlyName[snapshot'[s][i].id]
      <4>1. CASE i = Len(old) + 1
        BY <2>1, <2>2, <2>3, <2>4, <4>1
      <4>2. CASE i # Len(old) + 1
        BY <2>1, <2>3, <2>4, <2>w, <4>2 DEF CopyIsTrue
      <4>. QED
        BY <4>1, <4>2
    <3>. QED
      BY <1>1, <3>1 DEF CopyIsTrue
  <2>11. PhaseMatches(s)'
    BY <1>t, <1>1, <2>1 DEF PhaseMatches
  <2>. QED
    BY <1>2, <1>o, <2>1, <2>4, <2>5, <2>9, <2>10, <2>11 DEF KeepsSessionInv
<1>5. CASE SnapshotReturns(s)
  <2>1. /\ copying[s] = "copy" /\ readers' = readers \ {s}
        /\ copying' = [copying EXCEPT ![s] = "done"] /\ snapshot' = snapshot
    BY <1>5 DEF SnapshotReturns
  <2>2. /\ copying'[s] = "done" /\ \A t \in Sessions : t # s => copying'[t] = copying[t]
        /\ SessionTypes' /\ RegistryTypes'
    BY <1>t, <1>1, <2>1 DEF SessionTypes, RegistryTypes
  <2>3. LocksExclude'
    BY <1>t, <1>1, <2>1, <2>2 DEF LocksExclude
  <2>5. CopyIsWhole(s)' /\ CopyIsTrue(s)'
    BY <1>t, <1>1, <2>1, <2>2 DEF CopyIsWhole, CopyIsTrue
  <2>6. PhaseMatches(s)'
    BY <1>t, <1>1, <2>1, <2>2 DEF PhaseMatches
  <2>. QED
    BY <1>2, <1>o, <2>1, <2>2, <2>3, <2>5, <2>6 DEF KeepsSessionInv
<1>. QED
  BY <1>3, <1>4, <1>5 DEF SnapshotStep

-----------------------------------------------------------------------------
(* The steps of the handlers and of those who post them.                   *)

\* Copies stay whole and true under a step that writes to the registry only
\* with the mutex, and that touches no session.
LEMMA CopiesUndisturbed ==
    ASSUME SessionInv, UNCHANGED <<sessionVars, copying, snapshot>>,
           node' = node \/ \A s \in Sessions : phase[s] # "processing",
           announced \subseteq announced',
           \/ writer
           \/ \A s \in Sessions : phase[s] # "processing"
           \/ UNCHANGED <<secondaries, state, friendlyName>>
    PROVE  /\ SessionTypes'
           /\ \A s \in Sessions : CopyIsWhole(s)' /\ CopyIsTrue(s)' /\ PhaseMatches(s)'
<1>. USE DEF sessionVars
<1>1. SessionTypes'
  BY TypesSplit DEF SessionInv, SessionTypes
<1>2. ASSUME NEW s \in Sessions PROVE CopyIsWhole(s)' /\ CopyIsTrue(s)' /\ PhaseMatches(s)'
  <2>1. CopyIsWhole(s) /\ CopyIsTrue(s) /\ PhaseMatches(s) /\ LocksExclude
    BY DEF SessionInv
  <2>2. CopyIsWhole(s)'
    BY <2>1 DEF CopyIsWhole
  <2>3. PhaseMatches(s)'
    BY <2>1 DEF PhaseMatches
  <2>4. CopyIsTrue(s)'
    <3>1. copying[s] = "copy" => UNCHANGED <<secondaries, state, friendlyName>>
      BY <2>1 DEF LocksExclude, PhaseMatches
    <3>. QED
      BY <2>1, <3>1 DEF CopyIsTrue
  <2>. QED
    BY <2>2, <2>3, <2>4
<1>. QED
  BY <1>1, <1>2

\* A handler that is posted goes to the back of the queue.
LEMMA PostAppends ==
    ASSUME SessionInv, NEW h \in Handlers, Post(h.name, h.id), node # "destroyed"
    PROVE  /\ queue' \in Seq(Handlers)
           /\ Len(queue) \in Nat
           /\ Len(queue') = Len(queue) + 1
           /\ \A i \in 1 .. Len(queue) : queue'[i] = queue[i]
           /\ queue'[Len(queue) + 1] = h
<1>1. queue \in Seq(Handlers)
  BY DEF SessionInv, TypeOK, RegistryTypeOK
<1>2. h = [name |-> h.name, id |-> h.id]
  BY DEF Handlers
<1>3. queue' = Append(queue, h)
  BY <1>2 DEF Post
<1>. QED
  BY <1>1, <1>3

\* What is queued is about a secondary.
LEMMA QueuedIds ==
    ASSUME SessionInv
    PROVE  \A i \in 1 .. Len(queue) : queue[i] \in Handlers /\ queue[i].id \in Nat
<1>1. queue \in Seq(Handlers)
  BY DEF SessionInv, TypeOK, RegistryTypeOK
<1>2. \A i \in 1 .. Len(queue) : queue[i] \in Handlers
  BY <1>1
<1>3. Ids \subseteq Nat
  BY RegistryAssumption DEF Ids
<1>. QED
  BY <1>2, <1>3 DEF Handlers

\* A connection that is accepted is the next to be given an id.
LEMMA AddSecondaryKeeps ==
    ASSUME SessionInv, AddSecondary, UNCHANGED sessionVars
    PROVE  KeepsSessionInv
<1>. DEFINE h == [name |-> "add", id |-> accepted]
<1>. USE DEF postedVars, nodeVars, snapshotVars
<1>t. RegistryTypes /\ IdsInOrder /\ LocksExclude /\ EntriesMatch
  BY TypesSplit DEF SessionInv
<1>0. accepted \in Nat /\ accepted + 1 \in 0 .. MaxSecondaries /\ accepted \in Ids /\ secondaryIdCounter \in Nat
  BY <1>t, RegistryAssumption DEF AddSecondary, RegistryTypes, Ids
<1>1. /\ node # "destroyed" /\ accepted' = accepted + 1
      /\ UNCHANGED <<up, announced, nodeVars, handler, writer, snapshotVars>>
      /\ Post(h.name, h.id) /\ h \in Handlers /\ h.name = "add" /\ h.id = accepted
  BY <1>0 DEF AddSecondary, Handlers
<1>. HIDE DEF h
<1>2. /\ queue' \in Seq(Handlers)
      /\ Len(queue) \in Nat
      /\ Len(queue') = Len(queue) + 1
      /\ \A i \in 1 .. Len(queue) : queue'[i] = queue[i]
      /\ queue'[Len(queue) + 1] = h
  BY <1>1, PostAppends
<1>3. RegistryTypes'
  BY <1>t, <1>0, <1>1, <1>2 DEF RegistryTypes
<1>4. NextAdd' = NextAdd /\ Adding' = Adding /\ NextAdd \in Nat
  BY <1>0, <1>1 DEF NextAdd, Adding
<1>5. IdsInOrder'
  <2>1. NextAdd' <= accepted' /\ (Adding' => handler'.call.id = secondaryIdCounter')
    BY <1>t, <1>0, <1>1, <1>4 DEF IdsInOrder
  <2>q. \A i \in 1 .. Len(queue) : queue[i].id \in Nat
    BY QueuedIds
  <2>2. ASSUME NEW i \in 1 .. Len(queue'), IsAdd(i)'
        PROVE  NextAdd' <= queue'[i].id /\ queue'[i].id < accepted'
    <3>1. CASE i = Len(queue) + 1
      BY <1>t, <1>0, <1>1, <1>2, <1>4, <3>1 DEF IdsInOrder
    <3>2. CASE i # Len(queue) + 1
      <4>1. i \in 1 .. Len(queue) /\ queue'[i] = queue[i]
        BY <1>2, <3>2
      <4>2. NextAdd <= queue[i].id /\ queue[i].id < accepted
        BY <1>t, <2>2, <4>1 DEF IdsInOrder, IsAdd
      <4>. QED
        BY <1>0, <1>1, <1>4, <2>q, <4>1, <4>2
    <3>. QED
      BY <3>1, <3>2
  <2>3. ASSUME NEW i \in 1 .. Len(queue'), NEW j \in 1 .. Len(queue'), IsAdd(i)', IsAdd(j)', i < j
        PROVE  queue'[i].id < queue'[j].id
    <3>1. i \in 1 .. Len(queue) /\ queue'[i] = queue[i]
      BY <1>2, <2>3
    <3>2. CASE j = Len(queue) + 1
      <4>1. queue[i].id < accepted
        BY <1>t, <2>3, <3>1 DEF IdsInOrder, IsAdd
      <4>. QED
        BY <1>1, <1>2, <3>1, <3>2, <4>1
    <3>3. CASE j # Len(queue) + 1
      <4>1. j \in 1 .. Len(queue) /\ queue'[j] = queue[j]
        BY <1>2, <3>3
      <4>. QED
        BY <1>t, <2>3, <3>1, <4>1 DEF IdsInOrder, IsAdd
    <3>. QED
      BY <3>2, <3>3
  <2>4. ASSUME NEW id \in NextAdd' .. (accepted' - 1)
        PROVE  \E i \in 1 .. Len(queue') : IsAdd(i)' /\ queue'[i].id = id
    <3>1. CASE id = accepted
      <4>1. Len(queue) + 1 \in 1 .. Len(queue')
        BY <1>2
      <4>. QED
        BY <1>1, <1>2, <3>1, <4>1 DEF IsAdd
    <3>2. CASE id # accepted
      <4>1. id \in NextAdd .. (accepted - 1)
        BY <1>0, <1>1, <1>4, <3>2
      <4>2. PICK i \in 1 .. Len(queue) : IsAdd(i) /\ queue[i].id = id
        BY <1>t, <1>1, <4>1 DEF IdsInOrder
      <4>3. i \in 1 .. Len(queue') /\ queue'[i] = queue[i]
        BY <1>2
      <4>. QED
        BY <4>2, <4>3 DEF IsAdd
    <3>. QED
      BY <3>1, <3>2
  <2>. QED
    BY <2>1, <2>2, <2>3, <2>4 DEF IdsInOrder
<1>6. LocksExclude'
  BY <1>t, <1>1 DEF LocksExclude
<1>7. EntriesMatch'
  <2>1. \A i \in 1 .. Len(queue') : queue'[i].name = "ready" => queue'[i].id \in announced
    BY <1>t, <1>1, <1>2 DEF EntriesMatch, EntryMatches
  <2>. QED
    BY <1>t, <1>1, <2>1 DEF EntriesMatch, EntryMatches, Midway
<1>8. /\ SessionTypes'
      /\ \A s \in Sessions : CopyIsWhole(s)' /\ CopyIsTrue(s)' /\ PhaseMatches(s)'
  BY <1>1, CopiesUndisturbed
<1>. QED
  BY <1>3, <1>5, <1>6, <1>7, <1>8 DEF KeepsSessionInv

\* Other handlers that are posted, or dropped because MasterNode is gone,
\* leave the ids in order.
LEMMA OtherPostsKeepOrder ==
    ASSUME SessionInv, NEW h \in Handlers, h.name # "add", Post(h.name, h.id),
           UNCHANGED <<node, accepted, handler, secondaryIdCounter>>
    PROVE  queue' \in Seq(Handlers) /\ IdsInOrder'
<1>t. RegistryTypes /\ IdsInOrder
  BY TypesSplit DEF SessionInv
<1>1. CASE node = "destroyed"
  <2>1. queue' = queue
    BY <1>1 DEF Post
  <2>. QED
    BY <1>t, <2>1 DEF IdsInOrder, RegistryTypes, NextAdd, Adding, IsAdd
<1>2. CASE node # "destroyed"
  <2>1. /\ queue' \in Seq(Handlers)
        /\ Len(queue) \in Nat
        /\ Len(queue') = Len(queue) + 1
        /\ \A i \in 1 .. Len(queue) : queue'[i] = queue[i]
        /\ queue'[Len(queue) + 1] = h
    BY <1>2, PostAppends
  <2>2. ASSUME NEW i \in 1 .. Len(queue'), IsAdd(i)'
        PROVE  i \in 1 .. Len(queue) /\ queue'[i] = queue[i] /\ IsAdd(i)
    <3>1. i # Len(queue) + 1
      BY <2>1, <2>2 DEF IsAdd
    <3>2. i \in 1 .. Len(queue) /\ queue'[i] = queue[i]
      BY <2>1, <3>1
    <3>. QED
      BY <2>2, <3>2 DEF IsAdd
  <2>3. ASSUME NEW i \in 1 .. Len(queue)
        PROVE  i \in 1 .. Len(queue') /\ queue'[i] = queue[i] /\ (IsAdd(i) <=> IsAdd(i)')
    BY <2>1 DEF IsAdd
  <2>4. NextAdd' = NextAdd /\ Adding' = Adding
    BY DEF NextAdd, Adding
  <2>5. \A id \in NextAdd .. (accepted - 1) :
            \E i \in 1 .. Len(queue') : IsAdd(i)' /\ queue'[i].id = id
    <3>. SUFFICES ASSUME NEW id \in NextAdd .. (accepted - 1)
                  PROVE  \E i \in 1 .. Len(queue') : IsAdd(i)' /\ queue'[i].id = id
      OBVIOUS
    <3>1. PICK i \in 1 .. Len(queue) : IsAdd(i) /\ queue[i].id = id
      BY <1>t, <1>2 DEF IdsInOrder
    <3>. QED
      BY <2>3, <3>1
  <2>6. /\ \A i \in 1 .. Len(queue') : IsAdd(i)' => NextAdd <= queue'[i].id /\ queue'[i].id < accepted
        /\ \A i, j \in 1 .. Len(queue') : IsAdd(i)' /\ IsAdd(j)' /\ i < j => queue'[i].id < queue'[j].id
    BY <1>t, <2>2 DEF IdsInOrder
  <2>. QED
    BY <1>t, <2>1, <2>4, <2>5, <2>6 DEF IdsInOrder
<1>. QED
  BY <1>1, <1>2

\* A call of secondaryNodeReady is noted before its handler is posted.
LEMMA SecondaryAnnouncedKeeps ==
    ASSUME SessionInv, NEW id \in Ids, SecondaryAnnounced(id), UNCHANGED sessionVars
    PROVE  KeepsSessionInv
<1>. DEFINE h == [name |-> "ready", id |-> id]
<1>. USE DEF postedVars, nodeVars, snapshotVars
<1>t. RegistryTypes /\ IdsInOrder /\ LocksExclude /\ EntriesMatch
  BY TypesSplit DEF SessionInv
<1>1. /\ node # "destroyed" /\ announced' = announced \cup {id}
      /\ UNCHANGED <<accepted, up, nodeVars, handler, writer, snapshotVars>>
      /\ Post(h.name, h.id) /\ h \in Handlers /\ h.name = "ready" /\ h.id = id
  BY DEF SecondaryAnnounced, Handlers
<1>. HIDE DEF h
<1>2. queue' \in Seq(Handlers) /\ IdsInOrder'
  BY <1>1, OtherPostsKeepOrder
<1>3. RegistryTypes'
  BY <1>t, <1>1, <1>2 DEF RegistryTypes
<1>4. LocksExclude'
  BY <1>t, <1>1 DEF LocksExclude
<1>5. EntriesMatch'
  <2>1. /\ Len(queue) \in Nat
        /\ Len(queue') = Len(queue) + 1
        /\ \A i \in 1 .. Len(queue) : queue'[i] = queue[i]
        /\ queue'[Len(queue) + 1] = h
    BY <1>1, PostAppends
  <2>2. \A i \in 1 .. Len(queue') : queue'[i].name = "ready" => queue'[i].id \in announced'
    BY <1>t, <1>1, <2>1 DEF EntriesMatch, EntryMatches
  <2>. QED
    BY <1>t, <1>1, <2>2 DEF EntriesMatch, EntryMatches, Midway
<1>6. /\ SessionTypes'
      /\ \A s \in Sessions : CopyIsWhole(s)' /\ CopyIsTrue(s)' /\ PhaseMatches(s)'
  BY <1>1, CopiesUndisturbed
<1>. QED
  BY <1>2, <1>3, <1>4, <1>5, <1>6 DEF KeepsSessionInv

\* A removal that is posted, or lost because MasterNode is gone.
LEMMA EndpointInvalidatedKeeps ==
    ASSUME SessionInv, NEW id \in Ids, EndpointInvalidated(id), UNCHANGED sessionVars
    PROVE  KeepsSessionInv
<1>. DEFINE h == [name |-> "invalidated", id |-> id]
<1>. USE DEF postedVars, nodeVars, snapshotVars
<1>t. RegistryTypes /\ IdsInOrder /\ LocksExclude /\ EntriesMatch
  BY TypesSplit DEF SessionInv
<1>1. /\ up' = [up EXCEPT ![id] = FALSE]
      /\ UNCHANGED <<accepted, announced, nodeVars, handler, writer, snapshotVars>>
      /\ Post(h.name, h.id) /\ h \in Handlers /\ h.name = "invalidated"
  BY DEF EndpointInvalidated, Handlers
<1>. HIDE DEF h
<1>2. queue' \in Seq(Handlers) /\ IdsInOrder'
  BY <1>1, OtherPostsKeepOrder
<1>3. RegistryTypes'
  BY <1>t, <1>1, <1>2 DEF RegistryTypes
<1>4. LocksExclude'
  BY <1>t, <1>1 DEF LocksExclude
<1>5. EntriesMatch'
  <2>1. \A i \in 1 .. Len(queue') : queue'[i].name = "ready" => queue'[i].id \in announced
    <3>1. CASE node = "destroyed"
      BY <1>t, <1>1, <3>1 DEF Post, EntriesMatch, EntryMatches
    <3>2. CASE node # "destroyed"
      <4>1. /\ Len(queue) \in Nat
            /\ Len(queue') = Len(queue) + 1
            /\ \A i \in 1 .. Len(queue) : queue'[i] = queue[i]
            /\ queue'[Len(queue) + 1] = h
        BY <1>1, <3>2, PostAppends
      <4>. QED
        BY <1>t, <1>1, <4>1 DEF EntriesMatch, EntryMatches
    <3>. QED
      BY <3>1, <3>2
  <2>. QED
    BY <1>t, <1>1, <2>1 DEF EntriesMatch, EntryMatches, Midway
<1>6. /\ SessionTypes'
      /\ \A s \in Sessions : CopyIsWhole(s)' /\ CopyIsTrue(s)' /\ PhaseMatches(s)'
  BY <1>1, CopiesUndisturbed
<1>. QED
  BY <1>2, <1>3, <1>4, <1>5, <1>6 DEF KeepsSessionInv

\* The next handler takes the mutex only later.  The next id to be given is
\* that of the first connection in the queue.
LEMMA StartHandlerKeeps ==
    ASSUME SessionInv, StartHandler, UNCHANGED sessionVars
    PROVE  KeepsSessionInv
<1>. USE DEF nodeVars, snapshotVars
<1>t. RegistryTypes /\ IdsInOrder /\ LocksExclude /\ EntriesMatch
  BY TypesSplit DEF SessionInv
<1>1. /\ handler = Nothing /\ queue # << >> /\ queue' = Tail(queue)
      /\ UNCHANGED <<accepted, up, announced, nodeVars, writer, snapshotVars>>
  BY DEF StartHandler
<1>n. node # "destroyed"
  BY <1>1 DEF SessionInv, RegistryInv, DestroyedIsEmpty
<1>s. queue \in Seq(Handlers)
  BY <1>t DEF RegistryTypes
<1>2. /\ Len(queue) \in Nat \ {0} /\ 1 \in 1 .. Len(queue)
      /\ queue' \in Seq(Handlers) /\ Len(queue') = Len(queue) - 1
      /\ Head(queue) = queue[1]
      /\ \A i \in 1 .. Len(queue') : i + 1 \in 1 .. Len(queue) /\ queue'[i] = queue[i + 1]
  BY <1>1, <1>s
<1>q. \A i \in 1 .. Len(queue) : queue[i] \in Handlers /\ queue[i].id \in Nat
  BY QueuedIds
<1>3. /\ queue[1].name = "add" \/ queue[1].id \in secondaries
            => handler' = [call |-> queue[1], at |-> "lock"]
      /\ ~(queue[1].name = "add" \/ queue[1].id \in secondaries) => handler' = Nothing
  BY <1>2 DEF StartHandler
<1>4. [call |-> queue[1], at |-> "lock"] \in [call : Handlers, at : Positions]
  BY <1>2, <1>q DEF Positions
<1>5. [call |-> queue[1], at |-> "lock"] # Nothing
  BY <1>4, RegistryAssumption
<1>6. RegistryTypes'
  BY <1>t, <1>1, <1>2, <1>3, <1>4 DEF RegistryTypes
<1>7. handler' # Nothing => handler'.call = queue[1] /\ handler'.at = "lock"
  BY <1>3
<1>8. LocksExclude'
  BY <1>t, <1>1, <1>7 DEF LocksExclude
<1>9. EntriesMatch'
  <2>1. \A i \in 1 .. Len(queue') : queue'[i].name = "ready" => queue'[i].id \in announced
    BY <1>t, <1>2 DEF EntriesMatch, EntryMatches
  <2>2. handler' # Nothing /\ handler'.call.name = "ready" => handler'.call.id \in announced
    BY <1>t, <1>2, <1>7 DEF EntriesMatch, EntryMatches
  <2>3. \A id \in Ids : /\ ~Midway(id, "named") /\ ~Midway(id, "marked")
                        /\ ~Midway(id, "named")' /\ ~Midway(id, "marked")'
    BY <1>1, <1>7 DEF Midway
  <2>. QED
    BY <1>t, <1>1, <2>1, <2>2, <2>3 DEF EntriesMatch, EntryMatches
<1>10. IdsInOrder'
  <2>0. /\ ~Adding /\ NextAdd = secondaryIdCounter /\ NextAdd \in Nat /\ accepted \in Nat
        /\ NextAdd <= accepted
    BY <1>t, <1>1 DEF Adding, NextAdd, RegistryTypes, IdsInOrder
  <2>1. /\ \A i \in 1 .. Len(queue') : IsAdd(i)' <=> IsAdd(i + 1)
        /\ \A i \in 1 .. Len(queue') : queue'[i].id = queue[i + 1].id
    BY <1>2 DEF IsAdd
  <2>2. /\ \A i \in 1 .. Len(queue) :
                IsAdd(i) => NextAdd <= queue[i].id /\ queue[i].id < accepted
        /\ \A i, j \in 1 .. Len(queue) :
                IsAdd(i) /\ IsAdd(j) /\ i < j => queue[i].id < queue[j].id
        /\ \A id \in NextAdd .. (accepted - 1) :
                \E i \in 1 .. Len(queue) : IsAdd(i) /\ queue[i].id = id
    BY <1>t, <1>n DEF IdsInOrder
  <2>3. \A i, j \in 1 .. Len(queue') :
            IsAdd(i)' /\ IsAdd(j)' /\ i < j => queue'[i].id < queue'[j].id
    <3>. SUFFICES ASSUME NEW i \in 1 .. Len(queue'), NEW j \in 1 .. Len(queue'),
                         IsAdd(i)', IsAdd(j)', i < j
                  PROVE  queue'[i].id < queue'[j].id
      OBVIOUS
    <3>1. i + 1 \in 1 .. Len(queue) /\ j + 1 \in 1 .. Len(queue) /\ i + 1 < j + 1
      BY <1>2
    <3>. QED
      BY <2>1, <2>2, <3>1
  <2>4. CASE IsAdd(1)
    <3>1. queue[1].id = NextAdd
      <4>1. NextAdd <= queue[1].id /\ queue[1].id < accepted /\ queue[1].id \in Nat
        BY <1>2, <1>q, <2>2, <2>4
      <4>2. NextAdd \in NextAdd .. (accepted - 1)
        BY <2>0, <4>1
      <4>3. PICK i \in 1 .. Len(queue) : IsAdd(i) /\ queue[i].id = NextAdd
        BY <2>2, <4>2
      <4>4. i # 1 => queue[1].id < queue[i].id
        BY <1>2, <2>2, <2>4, <4>3
      <4>. QED
        BY <2>0, <4>1, <4>3, <4>4
    <3>2. Adding' /\ handler'.call.id = secondaryIdCounter'
      BY <1>1, <1>3, <1>5, <2>0, <2>4, <3>1 DEF Adding, IsAdd
    <3>3. NextAdd' = NextAdd + 1
      BY <1>1, <2>0, <3>2 DEF NextAdd
    <3>4. NextAdd' <= accepted'
      BY <1>1, <1>2, <2>0, <2>2, <2>4, <3>1, <3>3
    <3>5. ASSUME NEW i \in 1 .. Len(queue'), IsAdd(i)'
          PROVE  NextAdd' <= queue'[i].id /\ queue'[i].id < accepted'
      <4>1. i + 1 \in 1 .. Len(queue) /\ IsAdd(i + 1) /\ 1 < i + 1 /\ queue'[i].id = queue[i + 1].id
        BY <1>2, <2>1, <3>5
      <4>2. queue[1].id < queue[i + 1].id /\ queue[i + 1].id < accepted /\ queue[i + 1].id \in Nat
        BY <1>2, <1>q, <2>2, <2>4, <4>1
      <4>. QED
        BY <1>1, <2>0, <3>1, <3>3, <4>1, <4>2
    <3>6. ASSUME NEW id \in NextAdd' .. (accepted' - 1)
          PROVE  \E i \in 1 .. Len(queue') : IsAdd(i)' /\ queue'[i].id = id
      <4>1. id \in NextAdd .. (accepted - 1) /\ id # NextAdd
        BY <1>1, <2>0, <3>3
      <4>2. PICK i \in 1 .. Len(queue) : IsAdd(i) /\ queue[i].id = id
        BY <2>2, <4>1
      <4>3. i # 1
        BY <3>1, <4>1, <4>2
      <4>4. i - 1 \in 1 .. Len(queue') /\ (i - 1) + 1 = i
        BY <1>2, <4>3
      <4>. QED
        BY <2>1, <4>2, <4>4
    <3>. QED
      BY <2>3, <3>2, <3>4, <3>5, <3>6 DEF IdsInOrder
  <2>5. CASE ~IsAdd(1)
    <3>1. ~Adding'
      BY <1>7, <2>5 DEF Adding, IsAdd
    <3>2. NextAdd' = NextAdd
      BY <1>1, <2>0, <3>1 DEF NextAdd
    <3>3. ASSUME NEW i \in 1 .. Len(queue'), IsAdd(i)'
          PROVE  NextAdd' <= queue'[i].id /\ queue'[i].id < accepted'
      BY <1>1, <1>2, <2>1, <2>2, <3>2, <3>3
    <3>4. ASSUME NEW id \in NextAdd' .. (accepted' - 1)
          PROVE  \E i \in 1 .. Len(queue') : IsAdd(i)' /\ queue'[i].id = id
      <4>1. PICK i \in 1 .. Len(queue) : IsAdd(i) /\ queue[i].id = id
        BY <1>1, <2>2, <3>2
      <4>2. i - 1 \in 1 .. Len(queue') /\ (i - 1) + 1 = i
        BY <1>2, <2>5, <4>1
      <4>. QED
        BY <2>1, <4>1, <4>2
    <3>. QED
      BY <1>1, <2>0, <2>3, <3>1, <3>2, <3>3, <3>4 DEF IdsInOrder
  <2>. QED
    BY <2>4, <2>5
<1>11. /\ SessionTypes'
       /\ \A s \in Sessions : CopyIsWhole(s)' /\ CopyIsTrue(s)' /\ PhaseMatches(s)'
  BY <1>1, CopiesUndisturbed
<1>. QED
  BY <1>6, <1>8, <1>9, <1>10, <1>11 DEF KeepsSessionInv

\* The order of the ids does not depend on how far a handler is.
LEMMA OrderKept ==
    ASSUME IdsInOrder, UNCHANGED <<queue, accepted, node>>, NextAdd' = NextAdd,
           Adding' => handler'.call.id = secondaryIdCounter'
    PROVE  IdsInOrder'
  BY DEF IdsInOrder, IsAdd

\* The handler waits until no copy is being taken, and only then is alone.
LEMMA LockKeeps ==
    ASSUME SessionInv, Lock, UNCHANGED sessionVars
    PROVE  KeepsSessionInv
<1>. USE DEF postedVars, nodeVars, snapshotVars
<1>t. RegistryTypes /\ IdsInOrder /\ LocksExclude /\ EntriesMatch
  BY TypesSplit DEF SessionInv
<1>1. /\ handler # Nothing /\ handler.at = "lock" /\ readers = {} /\ writer' = TRUE
      /\ handler' = [handler EXCEPT !.at = "locked"]
      /\ UNCHANGED <<postedVars, nodeVars, snapshotVars>>
  BY DEF Lock
<1>2. /\ handler' \in [call : Handlers, at : Positions]
      /\ handler'.call = handler.call /\ handler'.at = "locked"
  BY <1>t, <1>1 DEF RegistryTypes, Positions
<1>3. handler' # Nothing
  BY <1>2, RegistryAssumption
<1>4. RegistryTypes'
  BY <1>t, <1>1, <1>2 DEF RegistryTypes
<1>5. IdsInOrder'
  BY <1>t, <1>1, <1>2, <1>3, OrderKept DEF NextAdd, Adding, IdsInOrder
<1>6. LocksExclude'
  BY <1>t, <1>1, <1>2, <1>3 DEF LocksExclude
<1>7. EntriesMatch'
  BY <1>t, <1>1, <1>2, <1>3 DEF EntriesMatch, EntryMatches, Midway
<1>8. /\ SessionTypes'
      /\ \A s \in Sessions : CopyIsWhole(s)' /\ CopyIsTrue(s)' /\ PhaseMatches(s)'
  BY <1>1, CopiesUndisturbed
<1>. QED
  BY <1>4, <1>5, <1>6, <1>7, <1>8 DEF KeepsSessionInv

\* A secondary is registered under an id that nothing was registered under.
LEMMA AddSecondaryImplKeeps ==
    ASSUME SessionInv, AddSecondaryImpl, UNCHANGED sessionVars
    PROVE  KeepsSessionInv
<1>. USE DEF postedVars, nodeVars, snapshotVars
<1>t. RegistryTypes /\ IdsInOrder /\ LocksExclude /\ EntriesMatch
  BY TypesSplit DEF SessionInv
<1>1. /\ handler # Nothing /\ handler.call.name = "add" /\ handler.at = "locked"
      /\ handler' = Nothing /\ writer' = FALSE
      /\ secondaryIdCounter' = secondaryIdCounter + 1
      /\ secondaries' = secondaries \cup {secondaryIdCounter}
      /\ up' = [up EXCEPT ![secondaryIdCounter] = TRUE]
      /\ UNCHANGED <<node, accepted, queue, announced, state, friendlyName, snapshotVars>>
  BY DEF AddSecondaryImpl, At, Return
<1>2. Adding /\ ~Adding' /\ handler.call.id = secondaryIdCounter /\ writer
  BY <1>t, <1>1 DEF Adding, IdsInOrder, LocksExclude
<1>3. /\ secondaryIdCounter \in Ids /\ secondaryIdCounter \in Nat
      /\ secondaryIdCounter + 1 \in 0 .. MaxSecondaries
  <2>1. handler.call.id \in Ids
    BY <1>t, <1>1 DEF RegistryTypes, Handlers
  <2>. QED
    BY <1>2, <2>1, RegistryAssumption DEF Ids
<1>4. RegistryTypes'
  BY <1>t, <1>1, <1>3 DEF RegistryTypes
<1>5. NextAdd' = NextAdd
  BY <1>1, <1>2, <1>3 DEF NextAdd
<1>6. IdsInOrder'
  BY <1>t, <1>1, <1>2, <1>5, OrderKept
<1>7. LocksExclude'
  BY <1>t, <1>1, <1>2 DEF LocksExclude
<1>8. EntriesMatch'
  <2>1. \A id \in Ids : id \in Nat
    BY RegistryAssumption DEF Ids
  <2>2. secondaryIdCounter \notin secondaries
    BY <1>t, <1>3 DEF EntriesMatch, EntryMatches
  <2>3. \A id \in Ids : id \in secondaries' => id < secondaryIdCounter'
    BY <1>t, <1>1, <1>3, <2>1 DEF EntriesMatch, EntryMatches
  <2>4. \A id \in Ids : /\ ~Midway(id, "named") /\ ~Midway(id, "marked")
                        /\ ~Midway(id, "named")' /\ ~Midway(id, "marked")'
    BY <1>1 DEF Midway
  <2>. QED
    BY <1>t, <1>1, <2>3, <2>4 DEF EntriesMatch, EntryMatches
<1>9. /\ SessionTypes'
      /\ \A s \in Sessions : CopyIsWhole(s)' /\ CopyIsTrue(s)' /\ PhaseMatches(s)'
  BY <1>1, <1>2, CopiesUndisturbed
<1>. QED
  BY <1>4, <1>6, <1>7, <1>8, <1>9 DEF KeepsSessionInv

\* A step of the handler that holds the mutex to write to entry id.
WritesEntry(id) ==
    /\ handler # Nothing /\ handler.call.id = id /\ id \in Ids /\ id \in secondaries
    /\ writer /\ handler.at # "lock" /\ handler.call.name # "add"
    /\ UNCHANGED <<node, accepted, queue, announced, up, secondaryIdCounter, snapshotVars>>
    /\ \A other \in Ids : other # id =>
            /\ state'[other] = state[other] /\ friendlyName'[other] = friendlyName[other]
            /\ other \in secondaries' <=> other \in secondaries
    /\ secondaries' \subseteq secondaries
    /\ state' \in [Ids -> SecondaryStates] /\ friendlyName' \in [Ids -> BOOLEAN]
    /\ \/ handler' = Nothing /\ writer' = FALSE
       \/ \E at \in {"named", "marked"} : handler' = [handler EXCEPT !.at = at] /\ writer' = writer

\* Such a step disturbs neither the ids, nor the locks, nor another entry.
LEMMA WritesEntryKeeps ==
    ASSUME SessionInv, NEW id, WritesEntry(id), EntryMatches(id)', UNCHANGED sessionVars
    PROVE  KeepsSessionInv
<1>. USE DEF snapshotVars
<1>t. RegistryTypes /\ IdsInOrder /\ LocksExclude /\ EntriesMatch
  BY TypesSplit DEF SessionInv
<1>1. /\ handler # Nothing /\ handler.call.id = id /\ id \in Ids
      /\ writer /\ handler.at # "lock" /\ handler.call.name # "add"
      /\ UNCHANGED <<node, accepted, queue, announced, up, secondaryIdCounter, snapshotVars>>
      /\ secondaries' \subseteq secondaries
      /\ state' \in [Ids -> SecondaryStates] /\ friendlyName' \in [Ids -> BOOLEAN]
  BY DEF WritesEntry
<1>2. handler' # Nothing =>
        /\ handler' \in [call : Handlers, at : Positions]
        /\ handler'.call = handler.call /\ handler'.at \in {"named", "marked"}
        /\ writer' = writer
  <2>1. handler \in [call : Handlers, at : Positions]
    BY <1>t, <1>1 DEF RegistryTypes
  <2>. QED
    BY <2>1 DEF WritesEntry, Positions
<1>3. handler' = Nothing => writer' = FALSE
  <2>1. handler \in [call : Handlers, at : Positions]
    BY <1>t, <1>1 DEF RegistryTypes
  <2>2. \A at \in {"named", "marked"} : [handler EXCEPT !.at = at] # Nothing
    BY <2>1, RegistryAssumption DEF Positions
  <2>. QED
    BY <2>2 DEF WritesEntry
<1>4. RegistryTypes'
  BY <1>t, <1>1, <1>2, <1>3 DEF RegistryTypes
<1>5. IdsInOrder'
  <2>1. ~Adding /\ ~Adding'
    BY <1>1, <1>2 DEF Adding
  <2>. QED
    BY <1>t, <1>1, <2>1, OrderKept DEF NextAdd
<1>6. LocksExclude'
  BY <1>t, <1>1, <1>2, <1>3 DEF LocksExclude
<1>7. EntriesMatch'
  <2>1. ASSUME NEW other \in Ids PROVE EntryMatches(other)'
    <3>1. CASE other = id
      BY <3>1
    <3>2. CASE other # id
      <4>1. EntryMatches(other)
        BY <1>t DEF EntriesMatch, EntryMatches
      <4>2. /\ state'[other] = state[other] /\ friendlyName'[other] = friendlyName[other]
            /\ other \in secondaries' <=> other \in secondaries
        BY <3>2 DEF WritesEntry
      <4>3. \A position : ~Midway(other, position) /\ ~Midway(other, position)'
        BY <1>1, <1>2, <3>2 DEF Midway
      <4>. QED
        BY <1>1, <4>1, <4>2, <4>3 DEF EntryMatches
    <3>. QED
      BY <3>1, <3>2
  <2>2. /\ \A i \in 1 .. Len(queue') : queue'[i].name = "ready" => queue'[i].id \in announced'
        /\ handler' # Nothing /\ handler'.call.name = "ready" => handler'.call.id \in announced'
    BY <1>t, <1>1, <1>2 DEF EntriesMatch, EntryMatches
  <2>. QED
    BY <2>1, <2>2 DEF EntriesMatch, EntryMatches
<1>8. /\ SessionTypes'
      /\ \A s \in Sessions : CopyIsWhole(s)' /\ CopyIsTrue(s)' /\ PhaseMatches(s)'
  BY <1>1, CopiesUndisturbed
<1>. QED
  BY <1>4, <1>5, <1>6, <1>7, <1>8 DEF KeepsSessionInv

\* The two writes of onIncomingSecondaryNodeReady and the two of onInvalidated.
LEMMA EntryStepsKeep ==
    ASSUME SessionInv, UNCHANGED sessionVars,
           SetFriendlyName \/ SetOperational \/ SetInvalidated \/ Erase
    PROVE  KeepsSessionInv
<1>. DEFINE id == handler.call.id
<1>. USE DEF postedVars, nodeVars, snapshotVars
<1>t. RegistryTypes /\ IdsInOrder /\ LocksExclude /\ EntriesMatch
  BY TypesSplit DEF SessionInv
<1>1. /\ handler # Nothing /\ handler.call.name \in {"ready", "invalidated"}
      /\ handler.at # "lock"
  BY DEF SetFriendlyName, SetOperational, SetInvalidated, Erase, At
<1>2. id \in Ids /\ id \in secondaries /\ writer
  <2>1. id \in Ids
    BY <1>t, <1>1 DEF RegistryTypes, Handlers
  <2>2. id \in secondaries
    BY <1>1 DEF SessionInv, RegistryInv, FoundStaysValid
  <2>3. writer
    BY <1>t, <1>1 DEF LocksExclude
  <2>. QED
    BY <2>1, <2>2, <2>3
<1>3. EntryMatches(id) /\ (handler.call.name = "ready" => id \in announced)
  BY <1>t, <1>1, <1>2 DEF EntriesMatch, EntryMatches
<1>4. state \in [Ids -> SecondaryStates] /\ friendlyName \in [Ids -> BOOLEAN]
  BY <1>t DEF RegistryTypes
<1>5. handler \in [call : Handlers, at : Positions]
  BY <1>t, <1>1 DEF RegistryTypes
<1>6. CASE SetFriendlyName
  <2>1. /\ handler.call.name = "ready" /\ handler.at = "locked"
        /\ friendlyName' = [friendlyName EXCEPT ![id] = TRUE]
        /\ handler' = [handler EXCEPT !.at = "named"]
        /\ UNCHANGED <<postedVars, node, secondaryIdCounter, secondaries, state, writer,
                       snapshotVars>>
    BY <1>6 DEF SetFriendlyName, At
  <2>2. handler'.call.id = id /\ handler'.at = "named" /\ handler' # Nothing
    <3>1. handler' \in [call : Handlers, at : Positions]
      BY <1>5, <2>1 DEF Positions
    <3>. QED
      BY <1>5, <2>1, <3>1, RegistryAssumption
  <2>. HIDE DEF id
  <2>3. WritesEntry(id)
    BY <1>1, <1>2, <1>4, <2>1 DEF WritesEntry, id
  <2>4. ~Midway(id, "named") /\ ~Midway(id, "marked") /\ Midway(id, "named")' /\ ~Midway(id, "marked")'
    BY <2>1, <2>2 DEF Midway, id
  <2>5. PICK x \in Ids : x = id
    BY <1>2
  <2>6. EntryMatches(x)'
    BY <1>2, <1>3, <1>4, <2>1, <2>2, <2>4, <2>5 DEF EntryMatches, Midway
  <2>. QED
    BY <2>3, <2>5, <2>6, WritesEntryKeeps
<1>7. CASE SetOperational
  <2>1. /\ handler.call.name = "ready" /\ handler.at = "named"
        /\ state' = [state EXCEPT ![id] = "OPERATIONAL"]
        /\ handler' = Nothing /\ writer' = FALSE
        /\ UNCHANGED <<postedVars, node, secondaryIdCounter, secondaries, friendlyName,
                       snapshotVars>>
    BY <1>7 DEF SetOperational, At, Return
  <2>. HIDE DEF id
  <2>3. WritesEntry(id)
    BY <1>1, <1>2, <1>4, <2>1 DEF WritesEntry, SecondaryStates, id
  <2>4. Midway(id, "named")
    BY <1>1, <2>1 DEF Midway, id
  <2>5. PICK x \in Ids : x = id
    BY <1>2
  <2>6. EntryMatches(x)'
    BY <1>2, <1>3, <1>4, <2>1, <2>4, <2>5 DEF EntryMatches, Midway
  <2>. QED
    BY <2>3, <2>5, <2>6, WritesEntryKeeps
<1>8. CASE SetInvalidated
  <2>1. /\ handler.call.name = "invalidated" /\ handler.at = "locked"
        /\ state' = [state EXCEPT ![id] = "INVALIDATED"]
        /\ handler' = [handler EXCEPT !.at = "marked"]
        /\ UNCHANGED <<postedVars, node, secondaryIdCounter, secondaries, friendlyName,
                       writer, snapshotVars>>
    BY <1>8 DEF SetInvalidated, At
  <2>2. handler'.call.id = id /\ handler'.at = "marked" /\ handler' # Nothing
    <3>1. handler' \in [call : Handlers, at : Positions]
      BY <1>5, <2>1 DEF Positions
    <3>. QED
      BY <1>5, <2>1, <3>1, RegistryAssumption
  <2>. HIDE DEF id
  <2>3. WritesEntry(id)
    BY <1>1, <1>2, <1>4, <2>1 DEF WritesEntry, SecondaryStates, id
  <2>5. PICK x \in Ids : x = id
    BY <1>2
  <2>6. EntryMatches(x)'
    BY <1>2, <1>3, <1>4, <2>1, <2>2, <2>5 DEF EntryMatches, Midway
  <2>. QED
    BY <2>3, <2>5, <2>6, WritesEntryKeeps
<1>9. CASE Erase
  <2>1. /\ handler.call.name = "invalidated" /\ handler.at = "marked"
        /\ secondaries' = secondaries \ {id}
        /\ state' = [state EXCEPT ![id] = "REGISTERING"]
        /\ friendlyName' = [friendlyName EXCEPT ![id] = FALSE]
        /\ handler' = Nothing /\ writer' = FALSE
        /\ UNCHANGED <<postedVars, node, secondaryIdCounter, snapshotVars>>
    BY <1>9 DEF Erase, At, Return
  <2>. HIDE DEF id
  <2>3. WritesEntry(id)
    BY <1>1, <1>2, <1>4, <2>1 DEF WritesEntry, SecondaryStates, id
  <2>5. PICK x \in Ids : x = id
    BY <1>2
  <2>6. EntryMatches(x)'
    BY <1>2, <1>3, <1>4, <2>1, <2>5 DEF EntryMatches, Midway
  <2>. QED
    BY <2>3, <2>5, <2>6, WritesEntryKeeps
<1>. QED
  BY <1>6, <1>7, <1>8, <1>9

\* MasterNode is destroyed when nobody copies the registry.
LEMMA MasterNodeDestroyedKeeps ==
    ASSUME SessionInv, MasterNodeDestroyed
    PROVE  KeepsSessionInv
<1>. USE DEF snapshotVars
<1>t. RegistryTypes /\ IdsInOrder /\ LocksExclude /\ EntriesMatch
  BY TypesSplit DEF SessionInv
<1>1. /\ handler = Nothing /\ node' = "destroyed" /\ queue' = << >> /\ secondaries' = {}
      /\ state' = [id \in Ids |-> "REGISTERING"]
      /\ friendlyName' = [id \in Ids |-> FALSE]
      /\ UNCHANGED <<accepted, up, announced, secondaryIdCounter, handler, writer,
                     snapshotVars, sessionVars>>
      /\ \A s \in Sessions : phase[s] # "processing"
  BY DEF MasterNodeDestroyed, MainReturns
<1>2. RegistryTypes'
  BY <1>t, <1>1 DEF RegistryTypes, SecondaryStates
<1>3. IdsInOrder'
  BY <1>t, <1>1 DEF IdsInOrder, NextAdd, Adding, IsAdd
<1>4. LocksExclude'
  BY <1>t, <1>1 DEF LocksExclude
<1>5. EntriesMatch'
  BY <1>1 DEF EntriesMatch, EntryMatches, Midway
<1>6. /\ SessionTypes'
      /\ \A s \in Sessions : CopyIsWhole(s)' /\ CopyIsTrue(s)' /\ PhaseMatches(s)'
  BY <1>1, CopiesUndisturbed
<1>. QED
  BY <1>2, <1>3, <1>4, <1>5, <1>6 DEF KeepsSessionInv

\* A step that changes nothing.
LEMMA StutterKeeps ==
    ASSUME SessionInv, UNCHANGED vars
    PROVE  KeepsSessionInv
<1>. USE DEF vars, registryVars, postedVars, nodeVars, snapshotVars
<1>t. RegistryTypes /\ IdsInOrder /\ LocksExclude /\ EntriesMatch
  BY TypesSplit DEF SessionInv
<1>1. RegistryTypes'
  BY <1>t DEF RegistryTypes
<1>2. IdsInOrder' /\ EntriesMatch'
  BY <1>t, UnchangedEntries
<1>3. LocksExclude'
  BY <1>t DEF LocksExclude
<1>4. /\ SessionTypes'
      /\ \A s \in Sessions : CopyIsWhole(s)' /\ CopyIsTrue(s)' /\ PhaseMatches(s)'
  BY CopiesUndisturbed
<1>. QED
  BY <1>1, <1>2, <1>3, <1>4 DEF KeepsSessionInv

-----------------------------------------------------------------------------
(* The invariant.                                                          *)

\* SessionInv is inductive.
LEMMA SessionInvInductive ==
    /\ Init => SessionInv
    /\ SessionInv /\ [Next]_vars => SessionInv'
<1>1. ASSUME Init PROVE SessionInv
  <2>. USE <1>1 DEF Init, RegistryInit
  <2>1. RegistryInv
    BY RegistryInvInductive
  <2>2. TypeOK
    <3>1. RegistryTypeOK
      <4>1. 0 \in 0 .. MaxSecondaries
        BY RegistryAssumption
      <4>w. writer \in BOOLEAN
        OBVIOUS
      <4>2. /\ state \in [Ids -> SecondaryStates] /\ friendlyName \in [Ids -> BOOLEAN]
            /\ up \in [Ids -> BOOLEAN]
        BY DEF SecondaryStates
      <4>3. queue \in Seq(Handlers) /\ snapshot \in [Sessions -> Seq(Entries)]
        OBVIOUS
      <4>. QED
        BY <4>1, <4>w, <4>2, <4>3 DEF RegistryTypeOK
    <3>. QED
      BY <3>1 DEF TypeOK, Phases
  <2>3. IdsInOrder
    BY DEF IdsInOrder, NextAdd, Adding, IsAdd
  <2>4. LocksExclude
    BY DEF LocksExclude
  <2>5. EntriesMatch
    BY DEF EntriesMatch, EntryMatches, Midway
  <2>6. ASSUME NEW s \in Sessions PROVE CopyIsWhole(s) /\ CopyIsTrue(s) /\ PhaseMatches(s)
    BY DEF CopyIsWhole, CopyIsTrue, PhaseMatches
  <2>. QED
    BY <2>1, <2>2, <2>3, <2>4, <2>5, <2>6 DEF SessionInv
<1>2. ASSUME SessionInv, [Next]_vars PROVE SessionInv'
  <2>1. RegistryInv'
    BY <1>2, RegistryInvInductive DEF SessionInv
  <2>2. KeepsSessionInv
    <3>1. ASSUME RegistryNext, UNCHANGED sessionVars PROVE KeepsSessionInv
      BY <1>2, <3>1, AddSecondaryKeeps, SecondaryAnnouncedKeeps, EndpointInvalidatedKeeps,
         StartHandlerKeeps, LockKeeps, AddSecondaryImplKeeps, EntryStepsKeep, SnapshotKeeps
      DEF RegistryNext, HandlerStep
    <3>2. ASSUME NEW s \in Sessions, SessionNext(s) PROVE KeepsSessionInv
      BY <1>2, <3>2, SessionKeeps
    <3>3. CASE MasterNodeDestroyed
      BY <1>2, <3>3, MasterNodeDestroyedKeeps
    <3>4. CASE UNCHANGED vars
      BY <1>2, <3>4, StutterKeeps
    <3>. QED
      BY <1>2, <3>1, <3>2, <3>3, <3>4 DEF Next
  <2>3. TypeOK'
    BY <2>2, TypesSplit, PTL DEF KeepsSessionInv
  <2>. QED
    BY <2>1, <2>2, <2>3 DEF SessionInv, KeepsSessionInv
<1>. QED
  BY <1>1, <1>2

\* Every variable of the registry and of the sessions has its type, for any
\* number of secondaries and sessions.
THEOREM SessionsTypeCorrect == Spec => []TypeOK
<1>1. SessionInv => TypeOK
  BY DEF SessionInv
<1>. QED
  BY <1>1, SessionInvInductive, PTL DEF Spec

-----------------------------------------------------------------------------
(* Responses.                                                              *)

\* Whatever the handlers and the other sessions do, a session that is
\* destroyed has written one response, and none only if no request came.
THEOREM OneResponse == Spec => AnsweredOnce
<1>. DEFINE Answered ==
        \A s \in Sessions :
            phase[s] # "ended" /\ phase'[s] = "ended" =>
                Len(responses[s]) = IF request[s] = "none" THEN 0 ELSE 1
<1>1. ASSUME SessionInv, [Next]_vars PROVE Answered
  <2>. SUFFICES ASSUME NEW t \in Sessions, phase[t] # "ended", phase'[t] = "ended"
                PROVE  Len(responses[t]) = IF request[t] = "none" THEN 0 ELSE 1
    OBVIOUS
  <2>1. PICK s \in Sessions : SessionNext(s)
    BY <1>1 DEF Next, MasterNodeDestroyed, vars, sessionVars
  <2>2. TypeOK /\ PhaseMatches(t)
    BY <1>1 DEF SessionInv
  <2>3. s = t
    BY <2>1, <2>2, OtherSessions DEF SameSession
  <2>4. ReadFails(t) \/ ResponseWritten(t)
    BY <2>1, <2>2, <2>3
    DEF SessionNext, Serve, Run, GetMessages, InvalidRequest, GetSecondaryMessages,
        CallMasterNode, NodeIsDead, RequestMarkSuccess, RequestMarkFailure, FutureFailed,
        AddMessageReturns, SendPings, PingEnds, CollectPings, AnswerFromFuture,
        WriteResponse, Fallback, TypeOK
  <2>5. phase[t] \in {"reading", "writing"}
    BY <2>4 DEF ReadFails, ResponseWritten
  <2>6. \/ request[t] = "none" /\ responses[t] = << >>
        \/ request[t] # "none" /\ Len(responses[t]) = 1
    BY <2>2, <2>5 DEF PhaseMatches
  <2>. QED
    BY <2>6
<1>2. ASSUME SessionInv, [Next]_vars PROVE [Answered]_vars
  BY <1>1, <1>2
<1>3. Spec => [][Answered]_vars
  <2>. HIDE DEF Answered
  <2>. QED
    BY <1>2, SessionInvInductive, PTL DEF Spec
<1>. QED
  BY <1>3 DEF AnsweredOnce

-----------------------------------------------------------------------------
(* The reports of pings.                                                   *)

\* The futures are those of the snapshot that the continuation owns, entry by
\* entry: the report lists every secondary copied once, with the outcome of
\* its own ping and the name and state it was copied with.
LEMMA CollectedReportMatches ==
    ASSUME SessionInv, NEW s \in Sessions, CollectPings(s)
    PROVE  ReportMatches(s)
<1>t. TypeOK /\ CopyIsWhole(s) /\ PhaseMatches(s)
  BY DEF SessionInv
<1>1. /\ phase[s] = "future" /\ request[s] = "ping"
      /\ report' = [report EXCEPT ![s] = Results(s)]
  BY DEF CollectPings
<1>2. Len(pings[s]) = Len(snapshot[s]) /\ Len(snapshot[s]) \in Nat
  BY <1>t, <1>1 DEF PhaseMatches, TypeOK, RegistryTypeOK
<1>3. report'[s] = [i \in 1 .. Len(snapshot[s]) |-> PingResult(snapshot[s][i], pings[s][i])]
  BY <1>t, <1>1, <1>2 DEF TypeOK, Results
<1>4. Len(report'[s]) = Len(snapshot[s])
  BY <1>2, <1>3
<1>5. \A i \in 1 .. Len(snapshot[s]) :
        /\ report'[s][i].id = snapshot[s][i].id
        /\ report'[s][i].state = snapshot[s][i].state
        /\ report'[s][i].friendlyName = snapshot[s][i].friendlyName
        /\ report'[s][i].pong = pings[s][i]
  BY <1>3 DEF PingResult
<1>6. Copied(s) = {report'[s][i].id : i \in 1 .. Len(report'[s])}
  BY <1>4, <1>5 DEF Copied
<1>7. \A i, j \in 1 .. Len(snapshot[s]) : snapshot[s][i].id = snapshot[s][j].id => i = j
  BY <1>t DEF CopyIsWhole
<1>8. \A i \in 1 .. Len(snapshot[s]) :
        /\ snapshot[s][i].friendlyName <=> snapshot[s][i].state = "OPERATIONAL"
        /\ snapshot[s][i].friendlyName => snapshot[s][i].id \in announced
  BY <1>t DEF CopyIsWhole
<1>9. \A i, j \in 1 .. Len(snapshot[s]) :
        report'[s][i].id = snapshot[s][j].id => report'[s][i].pong = pings[s][j]
  BY <1>5, <1>7
<1>. QED
  BY <1>4, <1>5, <1>6, <1>8, <1>9 DEF ReportMatches

\* However the secondaries of a snapshot answer, fail or leave, the report of
\* GET /pingSecondaries matches the snapshot, for any number of secondaries.
THEOREM ReportsCorrect == Spec => PingReportsMatch
<1>. DEFINE Matches ==
        \A s \in Sessions :
            request[s] = "ping" /\ phase[s] = "future" /\ phase'[s] = "callback" =>
                ReportMatches(s)
<1>1. ASSUME SessionInv, [Next]_vars, NEW t \in Sessions,
             request[t] = "ping", phase[t] = "future", phase'[t] = "callback"
      PROVE  CollectPings(t)
  <2>1. PICK s \in Sessions : SessionNext(s)
    BY <1>1 DEF Next, MasterNodeDestroyed, vars, sessionVars
  <2>2. TypeOK
    BY <1>1 DEF SessionInv
  <2>3. s = t
    BY <1>1, <2>1, <2>2, OtherSessions DEF SameSession
  <2>. QED
    BY <1>1, <2>1, <2>2, <2>3
    DEF SessionNext, Serve, Run, ReadFails, ResponseWritten, Destroyed, GetMessages,
        InvalidRequest, GetSecondaryMessages, Read,
        CallMasterNode, NodeIsDead, RequestMarkSuccess, RequestMarkFailure, FutureFailed,
        AddMessageReturns, SendPings, PingEnds, AnswerFromFuture,
        WriteResponse, Fallback, TypeOK
<1>2. ASSUME SessionInv, [Next]_vars PROVE [Matches]_vars
  BY <1>1, <1>2, CollectedReportMatches
<1>3. Spec => [][Matches]_vars
  <2>. HIDE DEF Matches
  <2>. QED
    BY <1>2, SessionInvInductive, PTL DEF Spec
<1>. QED
  BY <1>3 DEF PingReportsMatch

-----------------------------------------------------------------------------
(* The registry is atomic.                                                 *)

\* The refinement mapping of Atomic.
RegistryView == [id \in Ids |-> IF Registered(id) THEN state[id] ELSE "absent"]
GoneView     == {id \in Ids : id < secondaryIdCounter /\ ~Registered(id)}
TakenView    == [r \in Sessions |-> IF copying[r] = "done" THEN ShownSnapshot(r) ELSE Nothing]

\* What the registry shows depends on three variables, what is taken on two.
LEMMA ViewsDepend ==
    /\ UNCHANGED <<secondaries, state, secondaryIdCounter>>
            => RegistryView' = RegistryView /\ GoneView' = GoneView
    /\ UNCHANGED <<copying, snapshot>> => TakenView' = TakenView
<1>1. UNCHANGED <<secondaries, state, secondaryIdCounter>>
            => RegistryView' = RegistryView /\ GoneView' = GoneView
  BY DEF RegistryView, GoneView, Registered
<1>2. UNCHANGED <<copying, snapshot>> => TakenView' = TakenView
  BY DEF TakenView, ShownSnapshot, Copied
<1>. QED
  BY <1>1, <1>2

\* A session that changes its copy, which it has not finished before and
\* after the step, takes nothing.
LEMMA NothingTaken ==
    ASSUME NEW s \in Sessions, copying[s] # "done", copying'[s] # "done",
           \A t \in Sessions : t # s => copying'[t] = copying[t] /\ snapshot'[t] = snapshot[t]
    PROVE  TakenView' = TakenView
<1>1. ASSUME NEW t \in Sessions, t # s PROVE ShownSnapshot(t)' = ShownSnapshot(t)
  <2>1. snapshot'[t] = snapshot[t]
    BY <1>1
  <2>. QED
    BY <2>1 DEF ShownSnapshot, Copied
<1>. QED
  BY <1>1 DEF TakenView

\* What a copy shows is the registry, at the moment the copy ends.
LEMMA CopyShowsRegistry ==
    ASSUME SessionInv, NEW s \in Sessions, copying[s] = "copy", secondaries \subseteq Copied(s)
    PROVE  ShownSnapshot(s) = RegistryView
<1>t. RegistryTypes /\ SessionTypes /\ CopyIsWhole(s) /\ CopyIsTrue(s)
  BY TypesSplit DEF SessionInv
<1>. DEFINE entries == {snapshot[s][i] : i \in 1 .. Len(snapshot[s])}
<1>1. ASSUME NEW id \in Ids, id \in Copied(s)
      PROVE  Registered(id) /\ Shown(CHOOSE entry \in entries : entry.id = id) = state[id]
  <2>1. PICK i \in 1 .. Len(snapshot[s]) : snapshot[s][i].id = id
    BY <1>1 DEF Copied
  <2>2. \E entry \in entries : entry.id = id
    BY <2>1
  <2>3. PICK entry \in entries : entry = CHOOSE e \in entries : e.id = id
    BY <2>2
  <2>4. entry.id = id
    BY <2>2, <2>3
  <2>5. PICK j \in 1 .. Len(snapshot[s]) : entry = snapshot[s][j]
    BY <2>3
  <2>. HIDE DEF entries
  <2>6. id \in secondaries /\ entry.state = state[id] /\ entry.friendlyName = friendlyName[id]
    BY <1>t, <2>4, <2>5 DEF CopyIsTrue
  <2>7. /\ entry.friendlyName <=> entry.state = "OPERATIONAL"
        /\ entry.state # "INVALIDATED"
    BY <1>t, <2>5 DEF CopyIsWhole
  <2>8. state[id] \in SecondaryStates
    BY <1>t DEF RegistryTypes
  <2>9. Registered(id)
    BY <2>6, <2>7 DEF Registered
  <2>10. Shown(entry) = state[id]
    BY <2>6, <2>7, <2>8 DEF Shown, SecondaryStates
  <2>. QED
    BY <2>3, <2>9, <2>10
<1>2. ASSUME NEW id \in Ids, id \notin Copied(s) PROVE ~Registered(id)
  BY <1>2 DEF Registered
<1>. QED
  BY <1>1, <1>2 DEF ShownSnapshot, RegistryView

\* The steps that write to the registry.
LEMMA WritesAreAtomic ==
    ASSUME SessionInv,
           AddSecondaryImpl \/ SetOperational \/ SetInvalidated \/ Erase
    PROVE  [Atomic!Next]_Atomic!registryVars
<1>. USE DEF postedVars, nodeVars, snapshotVars
<1>t. RegistryTypes /\ IdsInOrder /\ LocksExclude /\ EntriesMatch
  BY TypesSplit DEF SessionInv
<1>c. \A i \in Ids : i \in Nat
  BY RegistryAssumption DEF Ids
<1>v. TakenView' = TakenView
  BY ViewsDepend DEF AddSecondaryImpl, SetOperational, SetInvalidated, Erase
<1>h. handler # Nothing /\ handler.call.id \in Ids
  BY <1>t DEF AddSecondaryImpl, SetOperational, SetInvalidated, Erase, At, RegistryTypes, Handlers
<1>1. CASE AddSecondaryImpl
  <2>1. /\ handler.call.name = "add"
        /\ secondaryIdCounter' = secondaryIdCounter + 1
        /\ secondaries' = secondaries \cup {secondaryIdCounter}
        /\ state' = state
    BY <1>1 DEF AddSecondaryImpl, At
  <2>2. PICK c \in Ids : c = secondaryIdCounter
    BY <1>t, <1>h, <2>1 DEF IdsInOrder, Adding
  <2>3. c \in Nat /\ c \notin secondaries /\ state[c] = "REGISTERING"
    BY <1>t, <1>c, <2>2 DEF EntriesMatch, EntryMatches
  <2>4. \A i \in Ids : i # c => (Registered(i)' <=> Registered(i))
    BY <2>1, <2>2 DEF Registered
  <2>5. ~Registered(c) /\ Registered(c)'
    BY <2>1, <2>2, <2>3 DEF Registered
  <2>6. RegistryView[c] = "absent" /\ c \notin GoneView
    BY <1>c, <2>2, <2>5 DEF RegistryView, GoneView
  <2>7. RegistryView' = [RegistryView EXCEPT ![c] = "REGISTERING"]
    BY <2>1, <2>3, <2>4, <2>5 DEF RegistryView
  <2>8. GoneView' = GoneView
    <3>1. \A i \in Ids : i < c + 1 <=> i < c \/ i = c
      BY <1>c, <2>3
    <3>2. \A i \in Ids : i < c + 1 /\ ~Registered(i)' <=> i < c /\ ~Registered(i)
      BY <1>c, <2>3, <2>4, <2>5, <3>1
    <3>. QED
      BY <2>1, <2>2, <3>2 DEF GoneView
  <2>9. Atomic!Add(c)
    BY <1>v, <2>6, <2>7, <2>8 DEF Atomic!Add, RegistryView, GoneView, TakenView
  <2>. QED
    BY <2>9 DEF Atomic!Next
<1>2. CASE SetOperational \/ SetInvalidated \/ Erase
  <2>1. PICK d \in Ids : d = handler.call.id
    BY <1>h
  <2>2. d \in secondaries /\ d < secondaryIdCounter
    <3>1. handler.call.name # "add"
      BY <1>2 DEF SetOperational, SetInvalidated, Erase, At
    <3>2. d \in secondaries
      BY <1>h, <2>1, <3>1 DEF SessionInv, RegistryInv, FoundStaysValid
    <3>. QED
      BY <1>t, <3>2 DEF EntriesMatch, EntryMatches
  <2>t. state \in [Ids -> SecondaryStates] /\ secondaryIdCounter' = secondaryIdCounter
    BY <1>t, <1>2 DEF RegistryTypes, SetOperational, SetInvalidated, Erase
  <2>3. CASE SetOperational
    <3>1. /\ handler.at = "named" /\ secondaries' = secondaries
          /\ state' = [state EXCEPT ![d] = "OPERATIONAL"]
      BY <2>1, <2>3 DEF SetOperational, At
    <3>2. state[d] # "INVALIDATED"
      BY <1>t, <1>h, <2>1, <3>1 DEF EntriesMatch, EntryMatches, Midway
    <3>3. Registered(d) /\ \A i \in Ids : Registered(i)' <=> Registered(i)
      BY <2>2, <2>t, <3>1, <3>2 DEF Registered
    <3>4. RegistryView[d] # "absent"
      BY <2>t, <3>3 DEF RegistryView, SecondaryStates
    <3>5. RegistryView' = [RegistryView EXCEPT ![d] = "OPERATIONAL"]
      BY <2>t, <3>1, <3>3 DEF RegistryView
    <3>6. GoneView' = GoneView
      BY <2>t, <3>3 DEF GoneView
    <3>7. Atomic!Ready(d)
      BY <1>v, <3>4, <3>5, <3>6 DEF Atomic!Ready, RegistryView, GoneView, TakenView
    <3>. QED
      BY <3>7 DEF Atomic!Next
  <2>4. CASE SetInvalidated
    <3>1. /\ handler.at = "locked" /\ secondaries' = secondaries
          /\ state' = [state EXCEPT ![d] = "INVALIDATED"]
      BY <2>1, <2>4 DEF SetInvalidated, At
    <3>2. state[d] # "INVALIDATED"
      BY <1>t, <1>h, <2>1, <3>1 DEF EntriesMatch, EntryMatches, Midway
    <3>3. Registered(d) /\ ~Registered(d)' /\ \A i \in Ids : i # d => (Registered(i)' <=> Registered(i))
      BY <2>2, <2>t, <3>1, <3>2 DEF Registered
    <3>4. RegistryView[d] # "absent"
      BY <2>t, <3>3 DEF RegistryView, SecondaryStates
    <3>5. RegistryView' = [RegistryView EXCEPT ![d] = "absent"]
      BY <2>t, <3>1, <3>3 DEF RegistryView
    <3>6. GoneView' = GoneView \cup {d}
      BY <2>2, <2>t, <3>3 DEF GoneView
    <3>7. Atomic!Drop(d)
      BY <1>v, <3>4, <3>5, <3>6 DEF Atomic!Drop, RegistryView, GoneView, TakenView
    <3>. QED
      BY <3>7 DEF Atomic!Next
  <2>5. CASE Erase
    <3>1. /\ handler.at = "marked" /\ secondaries' = secondaries \ {d}
          /\ state' = [state EXCEPT ![d] = "REGISTERING"]
      BY <2>1, <2>5 DEF Erase, At
    <3>2. state[d] = "INVALIDATED"
      BY <1>t, <1>h, <2>1, <3>1 DEF EntriesMatch, EntryMatches, Midway
    <3>3. ~Registered(d) /\ ~Registered(d)' /\ \A i \in Ids : i # d => (Registered(i)' <=> Registered(i))
      BY <2>2, <2>t, <3>1, <3>2 DEF Registered
    <3>4. RegistryView' = RegistryView
      BY <2>t, <3>1, <3>3 DEF RegistryView
    <3>5. GoneView' = GoneView
      BY <2>t, <3>3 DEF GoneView
    <3>. QED
      BY <1>v, <3>4, <3>5 DEF Atomic!registryVars, RegistryView, GoneView, TakenView
  <2>. QED
    BY <1>2, <2>3, <2>4, <2>5
<1>. QED
  BY <1>1, <1>2

\* The steps of a snapshot: it is taken at the moment it returns.
LEMMA SnapshotsAreAtomic ==
    ASSUME SessionInv, NEW s \in Sessions, SnapshotStep(s)
    PROVE  [Atomic!Next]_Atomic!registryVars
<1>. USE DEF postedVars, nodeVars
<1>t. SessionTypes
  BY TypesSplit DEF SessionInv
<1>v. RegistryView' = RegistryView /\ GoneView' = GoneView
  BY ViewsDepend DEF SnapshotStep, LockShared, CopyEntry, SnapshotReturns
<1>1. CASE LockShared(s) \/ \E id \in Ids : CopyEntry(s, id)
  <2>1. /\ copying[s] # "done" /\ copying'[s] # "done"
        /\ \A t \in Sessions : t # s => copying'[t] = copying[t] /\ snapshot'[t] = snapshot[t]
    BY <1>t, <1>1 DEF SessionTypes, LockShared, CopyEntry
  <2>2. TakenView' = TakenView
    BY <2>1, NothingTaken
  <2>. QED
    BY <1>v, <2>2 DEF Atomic!registryVars, RegistryView, GoneView, TakenView
<1>2. CASE SnapshotReturns(s)
  <2>1. /\ copying[s] = "copy" /\ secondaries \subseteq Copied(s)
        /\ copying' = [copying EXCEPT ![s] = "done"] /\ snapshot' = snapshot
    BY <1>2 DEF SnapshotReturns
  <2>2. ShownSnapshot(s) = RegistryView
    BY <2>1, CopyShowsRegistry
  <2>3. \A t \in Sessions : ShownSnapshot(t)' = ShownSnapshot(t)
    BY <2>1 DEF ShownSnapshot, Copied
  <2>4. TakenView[s] = Nothing
    BY <2>1 DEF TakenView
  <2>5. TakenView' = [TakenView EXCEPT ![s] = RegistryView]
    BY <1>t, <2>1, <2>2, <2>3 DEF TakenView, SessionTypes
  <2>6. Atomic!Snapshot(s)
    BY <1>v, <2>4, <2>5 DEF Atomic!Snapshot, RegistryView, GoneView, TakenView
  <2>. QED
    BY <2>6 DEF Atomic!Next
<1>. QED
  BY <1>1, <1>2 DEF SnapshotStep

\* The steps of a session: one that ends a snapshot forgets it.
LEMMA SessionsForget ==
    ASSUME SessionInv, NEW s \in Sessions, SessionNext(s)
    PROVE  [Atomic!Next]_Atomic!registryVars
<1>t. SessionTypes /\ PhaseMatches(s)
  BY TypesSplit DEF SessionInv
<1>v. RegistryView' = RegistryView /\ GoneView' = GoneView
  BY SessionFrame, ViewsDepend DEF postedVars, nodeVars
<1>1. \/ UNCHANGED <<copying, snapshot>>
      \/ /\ copying' = [copying EXCEPT ![s] = "no"]
         /\ snapshot' = [snapshot EXCEPT ![s] = << >>]
      \/ /\ phase[s] = "reading" /\ snapshot' = snapshot
         /\ copying' = [copying EXCEPT ![s] = "lock"]
  BY DEF SessionNext, Serve, Run, ReadFails, ResponseWritten, Destroyed, SnapshotDestroyed,
         GetMessages, InvalidRequest, GetSecondaryMessages, Read, CallMasterNode, NodeIsDead,
         RequestMarkSuccess, RequestMarkFailure, FutureFailed, AddMessageReturns, SendPings,
         PingEnds, CollectPings, AnswerFromFuture, registryVars, snapshotVars
<1>2. CASE UNCHANGED <<copying, snapshot>>
  <2>1. TakenView' = TakenView
    BY <1>2, ViewsDepend
  <2>. QED
    BY <1>v, <2>1 DEF Atomic!registryVars, RegistryView, GoneView, TakenView
<1>3. CASE /\ copying' = [copying EXCEPT ![s] = "no"]
           /\ snapshot' = [snapshot EXCEPT ![s] = << >>]
  <2>1. /\ copying'[s] = "no"
        /\ \A t \in Sessions : t # s => copying'[t] = copying[t] /\ snapshot'[t] = snapshot[t]
    BY <1>t, <1>3 DEF SessionTypes
  <2>2. ASSUME NEW t \in Sessions, t # s PROVE ShownSnapshot(t)' = ShownSnapshot(t)
    <3>1. snapshot'[t] = snapshot[t]
      BY <2>1, <2>2
    <3>. QED
      BY <3>1 DEF ShownSnapshot, Copied
  <2>3. TakenView' = [TakenView EXCEPT ![s] = Nothing]
    BY <2>1, <2>2 DEF TakenView
  <2>4. Atomic!Forget(s)
    BY <1>v, <2>3 DEF Atomic!Forget, RegistryView, GoneView, TakenView
  <2>. QED
    BY <2>4 DEF Atomic!Next
<1>4. CASE /\ phase[s] = "reading" /\ snapshot' = snapshot
           /\ copying' = [copying EXCEPT ![s] = "lock"]
  <2>1. /\ copying[s] # "done" /\ copying'[s] # "done"
        /\ \A t \in Sessions : t # s => copying'[t] = copying[t] /\ snapshot'[t] = snapshot[t]
    BY <1>t, <1>4 DEF SessionTypes, PhaseMatches
  <2>2. TakenView' = TakenView
    BY <2>1, NothingTaken
  <2>. QED
    BY <1>v, <2>2 DEF Atomic!registryVars, RegistryView, GoneView, TakenView
<1>. QED
  BY <1>1, <1>2, <1>3, <1>4

\* The registry closes with MasterNode; the snapshots taken survive it.
LEMMA MasterNodeCloses ==
    ASSUME SessionInv, MasterNodeDestroyed
    PROVE  [Atomic!Next]_Atomic!registryVars
<1>t. RegistryTypes /\ EntriesMatch
  BY TypesSplit DEF SessionInv
<1>1. /\ secondaries' = {} /\ secondaryIdCounter' = secondaryIdCounter
      /\ UNCHANGED <<copying, snapshot>>
  BY DEF MasterNodeDestroyed, MainReturns, snapshotVars
<1>2. TakenView' = TakenView
  BY <1>1, ViewsDepend
<1>3. \A id \in Ids : ~Registered(id)'
  BY <1>1 DEF Registered
<1>4. RegistryView' = [id \in Ids |-> "absent"]
  BY <1>3 DEF RegistryView
<1>5. \A id \in Ids : RegistryView[id] # "absent" <=> Registered(id)
  BY <1>t DEF RegistryTypes, RegistryView, SecondaryStates
<1>6. \A id \in Ids : Registered(id) => id < secondaryIdCounter
  BY <1>t DEF Registered, EntriesMatch, EntryMatches
<1>7. GoneView' = GoneView \cup {id \in Ids : RegistryView[id] # "absent"}
  BY <1>1, <1>3, <1>5, <1>6 DEF GoneView
<1>8. Atomic!Close
  BY <1>2, <1>4, <1>7 DEF Atomic!Close, RegistryView, GoneView, TakenView
<1>. QED
  BY <1>8 DEF Atomic!Next

\* For any number of secondaries and sessions, the registry behind
\* secondariesMutex_ is one whose operations and copies are atomic, although
\* each handler writes in several steps and each copy is taken entry by entry.
THEOREM RegistryIsAtomic == Spec => RefinesAtomicRegistry
<1>1. Init => Atomic!Init
  <2>. SUFFICES ASSUME Init PROVE Atomic!Init
    OBVIOUS
  <2>1. \A id \in Ids : ~Registered(id) /\ ~(id < secondaryIdCounter)
    BY RegistryAssumption DEF Init, RegistryInit, Registered, Ids
  <2>2. \A r \in Sessions : copying[r] = "no"
    BY DEF Init, RegistryInit
  <2>. QED
    BY <2>1, <2>2 DEF Atomic!Init
<1>2. ASSUME SessionInv, [Next]_vars PROVE [Atomic!Next]_Atomic!registryVars
  <2>1. ASSUME UNCHANGED <<secondaries, state, secondaryIdCounter, copying, snapshot>>
        PROVE  [Atomic!Next]_Atomic!registryVars
    BY <2>1, ViewsDepend DEF Atomic!registryVars, RegistryView, GoneView, TakenView
  <2>2. ASSUME RegistryNext PROVE [Atomic!Next]_Atomic!registryVars
    <3>1. ASSUME AddSecondary \/ StartHandler \/ Lock \/ SetFriendlyName \/
                 (\E id \in Ids : SecondaryAnnounced(id) \/ EndpointInvalidated(id))
          PROVE  [Atomic!Next]_Atomic!registryVars
      <4>1. UNCHANGED <<secondaries, state, secondaryIdCounter, copying, snapshot>>
        BY <3>1 DEF AddSecondary, StartHandler, Lock, SetFriendlyName, SecondaryAnnounced,
                    EndpointInvalidated, nodeVars, snapshotVars
      <4>. QED
        BY <2>1, <4>1
    <3>. QED
      BY <1>2, <2>2, <3>1, WritesAreAtomic, SnapshotsAreAtomic DEF RegistryNext, HandlerStep
  <2>3. ASSUME UNCHANGED vars PROVE [Atomic!Next]_Atomic!registryVars
    <3>1. UNCHANGED <<secondaries, state, secondaryIdCounter, copying, snapshot>>
      BY <2>3 DEF vars, registryVars, nodeVars, snapshotVars
    <3>. QED
      BY <2>1, <3>1
  <2>. QED
    BY <1>2, <2>2, <2>3, SessionsForget, MasterNodeCloses DEF Next
<1>3. RefinesAtomicRegistry <=> Atomic!Init /\ [][Atomic!Next]_Atomic!registryVars
  BY DEF RefinesAtomicRegistry, Atomic!Spec
<1>. QED
  BY <1>1, <1>2, <1>3, SessionInvInductive, PTL DEF Spec
=============================================================================
