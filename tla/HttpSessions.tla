---------------------------- MODULE HttpSessions ----------------------------
(***************************************************************************)
(* The HTTP sessions of the two programs and what the master's sessions    *)
(* ask of the registry.  A session reads one request, processes it, writes *)
(* one response and ends.  GET /messages is answered at once; POST         *)
(* /newMessage and GET /pingSecondaries take a snapshot of the registry    *)
(* and are answered from a future, in a handler posted back to the         *)
(* session's io_context.                                                   *)
(*                                                                         *)
(* Handlers of sessions that share an io_context exclude each other; here  *)
(* every session has its own, which allows more interleavings.             *)
(***************************************************************************)
EXTENDS Registry

CONSTANTS Asks   \* the requests that the client of a session may send

\* GET /messages of the master and of a secondary, GET /pingSecondaries, POST
\* /newMessage; anything else is invalid.
Requests == {"messages", "secondaryMessages", "ping", "newMessage", "invalid"}

ASSUME HttpSessionsAssumption == Asks \in [Sessions -> SUBSET Requests]

VARIABLES
    phase,      \* where the session's only continuation is
    request,    \* the request it has read
    pings,      \* the futures of send_ping, one per snapshot entry
    report,     \* the PingResults
    responses   \* the statuses given to writeResponse

sessionVars == <<phase, request, pings, report, responses>>
vars == <<registryVars, sessionVars>>

\* reading: async_read; processing: inside processRequest; future: thenPost
\* waits for the future; callback, failed: its handler is posted, with a value,
\* with an exception; writing: async_write.
Phases   == {"new", "reading", "processing", "future", "callback", "failed",
             "writing", "ended"}
Outcomes == {"open", "value", "exception"}
PingResults == [id : Ids, state : SecondaryStates, friendlyName : BOOLEAN,
                pong : {"value", "exception"}]

\* One type invariant: what each variable ranges over.
TypeOK ==
    /\ RegistryTypeOK
    /\ phase \in [Sessions -> Phases]
    /\ request \in [Sessions -> Requests \cup {"none"}]
    /\ pings \in [Sessions -> Seq(Outcomes)]
    /\ report \in [Sessions -> Seq(PingResults)]
    /\ responses \in [Sessions -> Seq({"ok", "bad_request"})]

Init ==
    /\ RegistryInit
    /\ phase = [s \in Sessions |-> "new"]
    /\ request = [s \in Sessions |-> "none"]
    /\ pings = [s \in Sessions |-> << >>]
    /\ report = [s \in Sessions |-> << >>]
    /\ responses = [s \in Sessions |-> << >>]

-----------------------------------------------------------------------------
(* NetUtils::HttpSession.                                                  *)

\* The last handler has run: the session is destroyed.
Destroyed(s) ==
    /\ phase' = [phase EXCEPT ![s] = "ended"]
    /\ request' = [request EXCEPT ![s] = "none"]
    /\ pings' = [pings EXCEPT ![s] = << >>]
    /\ report' = [report EXCEPT ![s] = << >>]
    /\ responses' = [responses EXCEPT ![s] = << >>]
    /\ SnapshotDestroyed(s)

\* The acceptor's callback: run(), that is setDeadline, which finds no timer
\* because neither program asks for a timeout, and readRequest.
Run(s) ==
    /\ phase[s] = "new"
    /\ phase' = [phase EXCEPT ![s] = "reading"]
    /\ UNCHANGED <<registryVars, request, pings, report, responses>>

\* The client closes: readRequest's handler with an error.
ReadFails(s) == phase[s] = "reading" /\ Destroyed(s)

WriteResponse(s, status) ==
    /\ responses' = [responses EXCEPT ![s] = Append(@, status)]
    /\ phase' = [phase EXCEPT ![s] = "writing"]

Fallback(s) == WriteResponse(s, "bad_request")

\* writeResponse's handler, with or without an error.
ResponseWritten(s) == phase[s] = "writing" /\ Destroyed(s)

-----------------------------------------------------------------------------
(* processRequest, in readRequest's handler.                               *)

Read(s, what) ==
    /\ phase[s] = "reading"
    /\ what \in Asks[s]
    /\ request' = [request EXCEPT ![s] = what]

\* GET /messages of the master.
GetMessages(s) ==
    /\ node # "destroyed"
    /\ Read(s, "messages")
    /\ WriteResponse(s, "ok")
    /\ UNCHANGED <<registryVars, pings, report>>

\* GET /messages of a secondary.
GetSecondaryMessages(s, operational) ==
    /\ Read(s, "secondaryMessages")
    /\ IF operational THEN WriteResponse(s, "ok") ELSE Fallback(s)
    /\ UNCHANGED <<registryVars, pings, report>>

\* Mutant: a malformed body is answered, and then processed all the same.
FallbackWithoutReturn(s) ==
    /\ Read(s, "invalid")
    /\ copying[s] = "no"
    /\ responses' = [responses EXCEPT ![s] = Append(@, "bad_request")]
    /\ phase' = [phase EXCEPT ![s] = "processing"]
    /\ copying' = [copying EXCEPT ![s] = "lock"]
    /\ UNCHANGED <<postedVars, nodeVars, handler, writer, readers, snapshot,
                   pings, report>>

\* Another target, a body that is not the JSON expected, a negative write concern.
InvalidRequest(s) ==
    /\ Read(s, "invalid")
    /\ Fallback(s)
    /\ UNCHANGED <<registryVars, pings, report>>

\* "node is dead (should not happen)"
NodeIsDead(s, what) ==
    /\ node = "destroyed"
    /\ Read(s, what)
    /\ Fallback(s)
    /\ UNCHANGED <<registryVars, pings, report>>

\* GET /pingSecondaries and POST /newMessage of the master, up to the call of
\* secondariesSnapshot (in pingSecondaries, in AddMessageRequest::updateData).
CallMasterNode(s, what) ==
    /\ node # "destroyed"
    /\ Read(s, what)
    /\ phase' = [phase EXCEPT ![s] = "processing"]
    /\ copying' = [copying EXCEPT ![s] = "lock"]
    /\ UNCHANGED <<postedVars, nodeVars, handler, writer, readers, snapshot,
                   pings, report, responses>>

\* addMessage returns: a ready future for write concerns 0 and 1, the future
\* of the AddMessageRequest for others.  The snapshot is the request's.
AddMessageReturns(s, future) ==
    /\ phase[s] = "processing"
    /\ copying[s] = "done"
    /\ request[s] # "ping"
    /\ phase' = [phase EXCEPT ![s] = future]
    /\ SnapshotDestroyed(s)
    /\ UNCHANGED <<request, pings, report, responses>>

\* requestMarkSuccess fills the promise, if the write concern is ever met.
RequestMarkSuccess(s) ==
    /\ phase[s] = "future"
    /\ request[s] # "ping"
    /\ phase' = [phase EXCEPT ![s] = "callback"]
    /\ UNCHANGED <<registryVars, request, pings, report, responses>>

\* start() of the request finds MasterNode gone: requestMarkFailure.
RequestMarkFailure(s) ==
    /\ phase[s] = "future"
    /\ request[s] = "newMessage"
    /\ node = "destroyed"
    /\ phase' = [phase EXCEPT ![s] = "failed"]
    /\ UNCHANGED <<registryVars, request, pings, report, responses>>

\* The session's callback: "error occured for request".
FutureFailed(s) ==
    /\ phase[s] = "failed"
    /\ Fallback(s)
    /\ UNCHANGED <<registryVars, request, pings, report>>

-----------------------------------------------------------------------------
(* MasterNode::pingSecondaries.                                            *)

\* With the snapshot taken: a ready future if it is empty, else send_ping to
\* every endpoint in it.
SendPings(s) ==
    /\ phase[s] = "processing"
    /\ copying[s] = "done"
    /\ request[s] = "ping"
    /\ pings' = [pings EXCEPT ![s] = [i \in 1 .. Len(snapshot[s]) |-> "open"]]
    /\ phase' = [phase EXCEPT ![s] = IF snapshot[s] = << >> THEN "callback" ELSE "future"]
    /\ UNCHANGED <<registryVars, request, report, responses>>

\* The endpoint fills the future of a ping (see Rpc): with a timestamp only
\* while its connection lasts, with an exception at any time.
PingEnds(s, i, outcome) ==
    /\ i \in 1 .. Len(pings[s])
    /\ pings[s][i] = "open"
    /\ outcome = "value" => up[snapshot[s][i].id]
    /\ pings' = [pings EXCEPT ![s][i] = outcome]
    /\ UNCHANGED <<registryVars, phase, request, report, responses>>

\* Mutant: the first future that is ready is enough.
WhenAny(s) == \E i \in 1 .. Len(pings[s]) : pings[s][i] # "open"

\* Mutant: the futures with a timestamp are what is waited for.
AllAnswered(s) == \A i \in 1 .. Len(pings[s]) : pings[s][i] = "value"

\* boost::when_all
WhenAll(s) == \A i \in 1 .. Len(pings[s]) : pings[s][i] # "open"

PingResult(entry, outcome) ==
    [id |-> entry.id, state |-> entry.state, friendlyName |-> entry.friendlyName,
     pong |-> outcome]

\* Mutant: exceptions are dropped first, and the answers left are numbered.
ResultsOfAnswers(s) ==
    LET answers == SelectSeq(pings[s], LAMBDA outcome : outcome = "value")
    IN  [i \in 1 .. Len(answers) |-> PingResult(snapshot[s][i], answers[i])]

\* One result per entry of the snapshot.
Results(s) ==
    [i \in 1 .. Len(pings[s]) |-> PingResult(snapshot[s][i], pings[s][i])]

\* when_all's continuation, posted to the session's io_context: the results,
\* then set_value, which posts the session's callback.  It owns the snapshot.
CollectPings(s) ==
    /\ phase[s] = "future"
    /\ request[s] = "ping"
    /\ WhenAll(s)
    /\ report' = [report EXCEPT ![s] = Results(s)]
    /\ phase' = [phase EXCEPT ![s] = "callback"]
    /\ pings' = [pings EXCEPT ![s] = << >>]
    /\ SnapshotDestroyed(s)
    /\ UNCHANGED <<request, responses>>

\* The session's callback takes the results out of the future and answers
\* with their JSON, or with "ok".
AnswerFromFuture(s) ==
    /\ phase[s] = "callback"
    /\ report' = [report EXCEPT ![s] = << >>]
    /\ WriteResponse(s, "ok")
    /\ UNCHANGED <<registryVars, request, pings>>

\* processRequest holds MasterNode too.
MasterNodeDestroyed ==
    /\ \A s \in Sessions : phase[s] # "processing"
    /\ MainReturns
    /\ UNCHANGED sessionVars

-----------------------------------------------------------------------------
\* What the session and the endpoints do of themselves once a request is read.
Serve(s) ==
    \/ AddMessageReturns(s, "callback") \/ AddMessageReturns(s, "future")
    \/ SendPings(s)
    \/ \E i \in 1 .. MaxSecondaries, outcome \in {"value", "exception"} :
            PingEnds(s, i, outcome)
    \/ CollectPings(s)
    \/ AnswerFromFuture(s)

SessionNext(s) ==
    \/ Run(s) \/ ReadFails(s) \/ ResponseWritten(s)
    \/ GetMessages(s) \/ InvalidRequest(s)
    \/ \E operational \in BOOLEAN : GetSecondaryMessages(s, operational)
    \/ CallMasterNode(s, "ping") \/ CallMasterNode(s, "newMessage")
    \/ \E what \in {"messages", "ping", "newMessage"} : NodeIsDead(s, what)
    \/ RequestMarkSuccess(s) \/ RequestMarkFailure(s) \/ FutureFailed(s)
    \/ Serve(s)

Next ==
    \/ RegistryNext /\ UNCHANGED sessionVars
    \/ \E s \in Sessions : SessionNext(s)
    \/ MasterNodeDestroyed

Spec == Init /\ [][Next]_vars

\* Posted handlers run, threads go on, and a call of an endpoint ends, as
\* FuturesAreFilled of Endpoint says.  Nothing makes a client send, a
\* connection break or a write concern be met, and once main() has returned
\* the process may end at any moment.
Fairness ==
    /\ WF_vars(node = "alive" /\ HandlerStep /\ UNCHANGED sessionVars)
    /\ \A s \in Sessions :
            WF_vars(node = "alive" /\ ((SnapshotStep(s) /\ UNCHANGED sessionVars) \/ Serve(s)))

FairSpec == Spec /\ Fairness

-----------------------------------------------------------------------------
(* Properties.                                                             *)

\* "don't forget to call writeResponse() at the end": whatever the request
\* and however long its future takes, a session writes one response, never a
\* second one, and none only if it could read no request.
AnsweredOnce ==
    [][\A s \in Sessions :
        phase[s] # "ended" /\ phase'[s] = "ended" =>
            Len(responses[s]) = IF request[s] = "none" THEN 0 ELSE 1]_vars

\* A report that is made in this step is that of the snapshot.
ReportMatches(s) ==
    LET listed == 1 .. Len(report'[s]) IN
    /\ Copied(s) = {report'[s][i].id : i \in listed}
    /\ Len(report'[s]) = Len(snapshot[s])
    /\ \A i \in listed, j \in 1 .. Len(snapshot[s]) :
            report'[s][i].id = snapshot[s][j].id => report'[s][i].pong = pings[s][j]
    /\ \A i \in listed :
            /\ report'[s][i].friendlyName <=> report'[s][i].state = "OPERATIONAL"
            /\ report'[s][i].friendlyName => report'[s][i].id \in announced

\* The answer to GET /pingSecondaries has one entry for every secondary of
\* the snapshot, each once; a pong stands only by a secondary that sent one,
\* and a name by those, and only those, that are shown as OPERATIONAL.
PingReportsMatch ==
    [][\A s \in Sessions :
        request[s] = "ping" /\ phase[s] = "future" /\ phase'[s] = "callback" =>
            ReportMatches(s)]_vars

\* GET /pingSecondaries is answered although secondaries of the snapshot fail,
\* vanish from the registry or never answer, unless the program ends.
PingsAreAnswered ==
    \A s \in {t \in Sessions : "ping" \in Asks[t]} :
        request[s] = "ping" ~> responses[s] # << >> \/ node # "alive"
=============================================================================
