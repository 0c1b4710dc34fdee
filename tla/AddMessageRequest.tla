--------------------------- MODULE AddMessageRequest ---------------------------
(***************************************************************************)
(* AddMessageRequest (app/master-node/addmessagerequest): the object that  *)
(* replicates one message.  It lives on the io_context of the HTTP session *)
(* that created it, so its handlers never overlap; each operator below is  *)
(* what one member function does to the object's fields.  Replication      *)
(* composes them with the registry of secondaries and with the endpoints.  *)
(*                                                                         *)
(* phase says where the object's only pending continuation is:             *)
(*   free       no message has this id yet                                 *)
(*   claimed    MasterNode::addMessage holds the id, the map does not      *)
(*   inserted   the message is in the map, run() is next                   *)
(*   waiting    pendingWrites callbacks are still to come                  *)
(*   delay      the retry timer is armed                                   *)
(*   destroyed  "all secondaries answered, destroying request"             *)
(*   quit       "assumed 0 pending writes, quitting"                       *)
(***************************************************************************)
EXTENDS Naturals, FiniteSets

CONSTANTS ConnIds,        \* secondary ids: one per accepted connection
          Threads,        \* HTTP worker threads of the master
          Messages,       \* payloads
          Absent          \* no payload

Statuses == {"none", "ADDED", "NOT_ADDED", "ERROR"}

RequestPhases ==
    {"free", "claimed", "inserted", "waiting", "delay", "destroyed", "quit"}

\* Mutant: the write concern is not clamped.
NeededConfirmationsUnclamped(writeConcern) == writeConcern - 1

\* writeConcern <= 1 ? size_t{} : writeConcern - 1
NeededConfirmations(writeConcern) ==
    IF writeConcern <= 1 THEN 0 ELSE writeConcern - 1

RequestType ==
    [phase         : RequestPhases,
     thread        : Threads \cup {"none"},
     message       : Messages \cup {Absent},
     writeConcern  : Nat,
     snapshot      : SUBSET ConnIds,
     statuses      : [ConnIds -> Statuses],
     pendingWrites : Nat,
     promiseFilled : BOOLEAN]

NewRequest(phase, thread, message, writeConcern) ==
    [phase         |-> phase,
     thread        |-> thread,
     message       |-> message,
     writeConcern  |-> NeededConfirmations(writeConcern),
     snapshot      |-> {},
     statuses      |-> [c \in ConnIds |-> "none"],
     pendingWrites |-> 0,
     promiseFilled |-> FALSE]

FreeRequest == NewRequest("free", "none", Absent, 1)

\* Mutant: every answer counts as a confirmation.
SatisfiedByAnyAnswer(r) == Cardinality({c \in ConnIds : r.statuses[c] # "none"})

SatisfiedWriteConcern(r) == Cardinality({c \in ConnIds : r.statuses[c] = "ADDED"})

\* Mutant: failed calls count as answered.
AllSecondariesAnswered(r) ==
    Cardinality({c \in ConnIds : r.statuses[c] # "none"}) = Cardinality(r.snapshot)

AllSecondariesSuccessfullyAnswered(r) ==
    Cardinality({c \in ConnIds : r.statuses[c] \notin {"none", "ERROR"}})
        = Cardinality(r.snapshot)

RequestMarkSuccess(r) == [r EXCEPT !.promiseFilled = TRUE]

\* A new snapshot; what was known of secondaries that are gone is forgotten.
UpdateData(r, present) ==
    [r EXCEPT !.snapshot = present,
              !.statuses = [c \in ConnIds |->
                               IF c \in present THEN r.statuses[c] ELSE "none"]]

\* The secondaries that need the message (again).
NeedToSend(r) == {c \in r.snapshot : r.statuses[c] \in {"none", "ERROR"}}

\* Mutant: without secondaries to send to, no retry timer is armed.
SendWithoutRetry(r) ==
    [r EXCEPT !.pendingWrites = Cardinality(NeedToSend(r)),
              !.phase = IF NeedToSend(r) = {} THEN "quit" ELSE "waiting"]

SendRequestToSecondaries(r) ==
    IF r.pendingWrites > 0
    THEN [r EXCEPT !.phase = "quit"]
    ELSE [r EXCEPT !.pendingWrites = Cardinality(NeedToSend(r)),
                   !.phase = IF NeedToSend(r) = {} THEN "delay" ELSE "waiting"]

\* start(), with the registry's current content as the snapshot.
Start(r, present) ==
    LET updated   == UpdateData(r, present)
        satisfied == SatisfiedWriteConcern(updated) >= r.writeConcern
        marked    == IF satisfied THEN RequestMarkSuccess(updated) ELSE updated
    IN  IF satisfied /\ AllSecondariesSuccessfullyAnswered(marked)
        THEN [marked EXCEPT !.phase = "destroyed"]
        ELSE SendRequestToSecondaries(marked)

\* The secondaries that Start(r, present) calls send_addMessage on.
SentByStart(r, present) ==
    IF Start(r, present).phase = "waiting"
    THEN NeedToSend(UpdateData(r, present))
    ELSE {}

\* Mutant: the counter is left alone when the call failed.
CountOnlyAnswers(r, c, status) ==
    [r EXCEPT !.statuses[c] = status,
              !.pendingWrites = IF status = "ERROR" THEN @ ELSE @ - 1,
              !.promiseFilled = @ \/ SatisfiedWriteConcern(r) >= r.writeConcern]

\* Mutant: the exception in the future is swallowed.
IgnoreErrors(r, c, status) ==
    [r EXCEPT !.statuses[c] = "ADDED", !.pendingWrites = @ - 1]

\* onResponseRecieved and the --pendingWrites_ of the callback around it.
OnResponseRecieved(r, c, status) ==
    LET noted == [r EXCEPT !.statuses[c] = status,
                           !.pendingWrites = r.pendingWrites - 1]
    IN  IF SatisfiedWriteConcern(noted) >= r.writeConcern
        THEN RequestMarkSuccess(noted)
        ELSE noted
================================================================================
