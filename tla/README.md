# Verification of the replicated log

TLA+ models, TLC runs and TLAPS proofs for DistributedSystemsHW: a master that
takes messages over HTTP and replicates them to secondaries over TCP, with a
write concern per message. Paths below are relative to `src/`.

## 1. The system

| Part | State | Operations | Hard because |
|---|---|---|---|
| Storages (`app/*/storage`) | map id -> message; the master's id counter | add, add chunk, first gap, contiguous chunk | the master's `addMessage` takes its id and inserts in two steps, on three HTTP threads |
| `AddMessageRequest` | snapshot of the secondaries, a status per secondary, `pendingWrites_`, the promise | `start`, `updateData`, `sendRequestToSecondaries`, callbacks, retry timer | stale snapshots, retries of calls that may still arrive |
| `MasterNode` | registry `secondaries_`, `secondaryIdCounter_` | `addMessage`, `addSecondary`, `onInvalidated`, `onIncomingGetMessages`, `onIncomingSecondaryNodeReady`, `pingSecondaries` | ids belong to connections, not to processes; the registry is written on one thread, found in without the mutex, and copied by HTTP threads |
| `SecondaryNode`, `MasterSession` | storage, `operational_`, the session | connect, back off, ask for messages, announce readiness, store pushes, reconnect | crash and reconnect in the middle of pushes |
| `Proto::Endpoint`, request managers | pending calls with timers, registered contexts | `send_*`, timeout, delayed write, answers, invalidation | a timeout races its answer; both directions share a socket and number calls alike |
| `SocketWrapper` | write queue, write flag, size member, read buffer | `writeFrame`, read loop, `invalidate`, destructor | one stream, one size member, failures in every handler |
| Frames, requests, responses | none | serialize, parse | length prefixes, empty values, no op code in responses |
| `IOContextPool`, `SocketAcceptor` | round-robin counter, loads, the armed accept | `getNext`, `getLeastLoaded`, `decLoad`, `acceptOne` | a context is chosen one connection ahead; errors |
| HTTP sessions (`libs/net-utils`, `app/*/httpsession`) | request, response, the future they wait for | `run`, `readRequest`, `processRequest`, `writeResponse`, `fallback` | answers come from other threads, late or as exceptions; each request must be answered once |
| `main`, logger, utils | - | - | `main` may return while sessions run; the rest is in section 7 |

Interaction: an HTTP thread runs `MasterNode::addMessage`, whose request calls
`send_addMessage` on the endpoint of every registered secondary; callbacks come
back to the HTTP thread's `io_context` with `thenPost`. The registry lives on
the `io_context` of `MasterNode`; endpoints live on those of the communication
pool and post their signals there. `pingSecondaries` copies the registry, calls
`send_ping` on every endpoint in the copy and waits for all of them. A secondary
runs everything on one context, except its HTTP sessions.

What makes it correct: nodes agree on messages; what a secondary shows is a
prefix of the master's list; no message is lost for a secondary that connects
at a bad moment; a write concern is what it says; retries neither stop too
early nor go on for ever; every call ends once, with its own answer; frames
arrive whole and in order; a snapshot shows the registry as it was at one
moment; each HTTP request gets one response; resources are given back.

## 2. Modules

| Module | Models | State and actions |
|---|---|---|
| `Storage` | both storages | operators on functions id -> payload |
| `AddMessageRequest` | the request object | one operator per member function on a record of its fields |
| `Replication` | master, registry, secondaries, connections | composes the two; one action per handler |
| `ReplicatedLog` | abstract: append, learn, forget, confirm | refined by `Replication` |
| `Endpoint` | `Endpoint`, `OutcomingRequestsManager`, `IncomingRequestsManager`, at both ends | one action per handler, timer and frame |
| `Rpc` | abstract: calls served at most once, futures filled once | refined by `Endpoint` |
| `SocketWrapper` | the writer of one object, the reader of its peer, the bytes between | one action per handler and per unit transferred |
| `FrameChannel` | abstract: a queue that may stop | refined by `SocketWrapper` |
| `Registry` | `MasterNode::secondaries_` under `secondariesMutex_`: posted handlers, the lock, each write under it, the copying of each entry | one action per step of a handler and of `secondariesSnapshot` |
| `AtomicRegistry` | abstract: add, ready, drop and snapshot at once | refined by `Registry` |
| `HttpSessions` | HTTP sessions of both programs, `pingSecondaries`, the return of the master's `main` | extends `Registry`; one action per handler and per branch of `processRequest` |
| `SocketAcceptor` | acceptor and `IOContextPool` | arrive, accept, fail, end |
| `Codec` | headers, payloads and their parsers | a frame is sent, then parsed by one of the managers |
| `ReplicationProofs`, `DeliveryProofs` | - | proofs about the storages and the replication protocol, the second extending the first |
| `RegistryProofs`, `SessionProofs` | - | proofs about `Registry` and `HttpSessions`, the second extending the first |
| `EndpointProofs`, `SocketWrapperProofs`, `SocketAcceptorProofs`, `CodecProofs` | - | proofs about the module they are named after |
| `MC*` | - | constants and symmetry sets for TLC |

The layers meet at their abstract specifications: `Replication` treats a call
as `Rpc` describes it (it may fail while its request is still on the way, and
that request may arrive late: `lateAdds`, `lateReady`) and the registry as
`AtomicRegistry` describes it; `HttpSessions` treats a ping as `Rpc` does, with
the liveness that `FuturesAreFilled` gives it; and `Endpoint` treats
the wire as `FrameChannel` describes it (in order, may lose its tail) and frames
as values, which `FramesDetermineContent` of `CodecProofs` allows. This
step from layer to layer is an argument by hand; the refinements inside a layer
are checked and proved. Operators commented "Mutant" are deliberately wrong variants of
the definition after them; the properties are tested against them.

### Choices of granularity

* A handler runs to completion on its `io_context`, so it is one action.
  `MasterNode::addMessage` runs on several threads and is split at the shared
  accesses: `ClaimId` (fetch_add), `InsertMessage`, `RunRequest` (the snapshot).
* A walk over a map that only grows returns what the map holds when it meets
  the first miss, so `FirstMissing` evaluates it at that moment.
* `MasterSocketInvalidated` and `OnInvalidated` are two actions: the endpoint
  posts to the registry's context.
* `Registry`: handlers of `MasterNode` are split at the mutex and between the
  writes under it, because HTTP threads read at the same time. Only one thread
  runs these handlers, so a handler that finds nothing returns in the step that
  starts it. A handler posted after `MasterNode` is gone does nothing and is
  left out of `queue`; ids are handed out in the order of the posts.
* `HttpSessions`: what a session waits for decides its `phase`. Sessions that
  share an `io_context` exclude each other in the code and not in the model. A
  request for the secondary's program is one of the requests of the same
  module; it touches nothing of the master. Its `operational` flag is
  arbitrary here and computed in `Replication`.
* `MasterNode` is destroyed in one case: the HTTP acceptor meets an error, so
  `context.run()` has no work left and `main` returns. Its sessions go on until
  the pools stop. `NodeIsDead` and `requestMarkFailure` are reachable there and
  nowhere else; `Replication` leaves this end of the process out.
* `BAD_RESPONSE_FRAME` and `NOT_ALLOWED` are never produced between two
  peers of this program (`Codec` shows the first, `onIncomingAddMessage` always
  answers OK), so no action produces them.
* `Endpoint`: when a socket closes, one frame whose read has already completed
  may still be handled; of the frames sent, any tail may be lost.
* `SocketWrapper`: the size prefix is read from the member when it leaves, not
  when the write starts, as `async_write` does with a buffer that points to it.
* `Codec`: a byte has 4 values and a word 2 bytes in the run; the definitions
  are for any base and width.

## 3. Runs

All runs allow the system to stop (`CHECK_DEADLOCK FALSE`): clients, messages,
breaks and crashes are bounded, and once they are used up nothing has to happen.

| Run | Configuration | Shows |
|---|---|---|
| `catch_up` | 1 secondary, 1 HTTP thread, 2 messages, write concerns 0 and 2, 1 break, 1 crash | `TypeOK`, `NoLostMessage`, `MasterViewIsSound`, `ConfirmedIsStored` |
| `write_concern` | 2 secondaries, write concern 3, 1 break | `ConfirmedByDistinctNodes` |
| `threads` | 2 HTTP threads, 2 messages, 2 payloads, 1 break | `Agreement`, `ShownIsPrefix`, `PendingWritesMatchCalls`, `RefinesLog` |
| `replication_liveness` | 1 message, 1 break, 1 crash, fair | `EventuallyReplicated`, `RequestsComplete` |
| `endpoint_calls` | 2 calls one way, 1 the other, fair | `TypeOK`, `OpenCallsArePending`, `ContextsAreAwaited`, `RefinesRpc`, `FuturesAreFilled` |
| `socket_channel` | 3 frames of sizes 1, 2, 3; reuse limit 2; fair | `TypeOK`, `InvalidatedOnce`, `BufferFits`, `NoCallbackForgotten`, `RefinesChannel`, `CallbacksAreCalled` |
| `acceptor_load` | 3 contexts, 5 clients, both policies | `TypeOK`, `LoadMatchesGuards`, `SessionsAreSpread` |
| `http_sessions` | 2 secondaries, a session that pings or lists, one that posts a message or sends something invalid, fair | `TypeOK`, `FoundStaysValid`, `RemovalIsPending`, `RefinesAtomicRegistry`, `AnsweredOnce`, `PingReportsMatch`, `PingsAreAnswered` |
| `codec` | 4 words, 5 strings, chunks up to 3 | `RoundTrip` |

Three runs end in a counterexample and record where the program does not do
what its documents say:

* `lost_message` (`NoLostMessage` with two HTTP threads). Thread 1 takes id 0
  and stalls before its insert. Thread 2 adds message 1, its request finds no
  secondary and is destroyed. A secondary connects and asks from id 0; the
  master's contiguous chunk is empty because id 0 is missing; the secondary
  becomes operational. Message 0 is pushed later; message 1 never arrives while
  the connection lives. README.md:8 promises replication of each message.
* `double_count` (`DistinctConfirmations`). A secondary that reconnects before
  the master drops its old connection has two ids and confirms twice; a POST
  with write concern 3 returns although one secondary has the message.
  README.md:9 asks for N - 1 confirmations from secondary nodes.
* `acceptor_forever` (`AcceptsForever`). An accept error ends the loop;
  `socketacceptor.h:15` says "forever".

### Bounds

`MaxMessages`, `MaxBreaks`, `MaxCrashes` bound ids, broken connections and
crashes; `MaxConns` follows from them (a node connects once and once more per
break). Two messages are needed for gaps and for chunks that are cut between
them; one break gives a reconnect with frames of the old connection still on
their way and a second id for the same process, and a crash makes that
reconnect start from an empty storage. A single secondary is enough where secondaries
do not interact; `write_concern` has two. Three frames cover a write in
progress with one queued and one posted; sizes lie on both sides of the reuse
limit. Five clients on three contexts wrap the round-robin counter. `IdSpace`
is 2^64 in the code; with as many ids as calls of one end the "wrap around,
should never happen" branch of `sendRequestImpl` does not run, as in the code,
and answers of a call that carried the same id 2^64 calls ago are out of scope.
`http_sessions` has two secondaries, so that a snapshot can be torn between two
entries, and two sessions, so that the writer waits for readers of two threads;
each secondary connects, announces itself and breaks off once, since a
connection never comes back under its id.

### Fairness

* `Replication`: posted handlers run and timers fire (WF); a frame on a whole
  connection arrives (TCP, WF); when one end has closed, the other end notices
  (WF; a half-open connection is assumed to be noticed); a call that can no
  longer be answered times out (WF). Strong fairness for "a call is answered in
  time" and "a connection attempt succeeds": the send delay is drawn anew from
  1000..2000 ms for every attempt while the timeout is 1500 ms
  (`libs/constants`), so repeated attempts succeed again and again. No fairness
  for clients, breaks, crashes or failing calls.
* `Endpoint`: posted handlers run and the timeout timer fires; nothing is
  assumed of the network or the peer.
* `SocketWrapper`: handlers run, an open socket takes the next bytes, a write on
  a closed socket fails; nothing is assumed of the reader.
* `HttpSessions`: posted handlers run, a thread that copies the registry goes
  on, and a ping ends (`FuturesAreFilled`), all of it only while `MasterNode`
  exists: once `main` has returned the process may end. Nothing is assumed of
  clients and of the write concern of a message.
* `SocketAcceptor`: an armed accept with a client waiting completes, with a
  socket or with an error.

## 4. Proofs

The theorems hold for every value of the constants that the named assumptions
allow (finitely many nodes; natural bounds; positive frame sizes; model values
such as `Absent`, `NoNode`, `Nothing`, `NoFrame`, `Bad` outside their sets; a
`size_t` that holds the sizes of strings and chunks). Every safety property that
a passing run checks is proved.

| Module | Theorem | Proves |
|---|---|---|
| `ReplicationProofs` | `TypeCorrect` | `TypeOK` |
| | `PendingWritesCorrect` | `PendingWritesMatchCalls` |
| | `SecondariesAgree` | `Agreement` |
| | `ShownCorrect` | `ShownIsPrefix` |
| | `ReplicationRefinesLog` | `RefinesLog`: `Replication` implements `ReplicatedLog` |
| `DeliveryProofs` | `MasterViewCorrect` | `MasterViewIsSound` |
| | `ConfirmationsCorrect` | `ConfirmedIsStored` |
| | `WriteConcernCorrect` | `ConfirmedByDistinctNodes` |
| | `NothingLostWithOneThread` | `NoLostMessage`, for one HTTP thread |
| `RegistryProofs` | `FoundCorrect`, `RemovalCorrect` | `FoundStaysValid`, `RemovalIsPending` |
| `SessionProofs` | `SessionsTypeCorrect` | `TypeOK` |
| | `OneResponse`, `ReportsCorrect` | `AnsweredOnce`, `PingReportsMatch` |
| | `RegistryIsAtomic` | `RefinesAtomicRegistry`: `Registry` implements `AtomicRegistry` |
| `EndpointProofs` | `EndpointTypeCorrect` | `TypeOK` |
| | `NoCallForgotten`, `NoContextLeaks` | `OpenCallsArePending`, `ContextsAreAwaited` |
| | `EndpointImplementsRpc` | `RefinesRpc`: `Endpoint` implements `Rpc`, while ids last |
| `SocketWrapperProofs` | `SocketWrapperTypeCorrect` | `TypeOK` |
| | `InvalidatedOnceCorrect`, `BufferFitsCorrect` | `InvalidatedOnce`, `BufferFits` |
| | `NoCallbackForgottenCorrect` | `NoCallbackForgotten` |
| | `SocketWrapperIsChannel` | `RefinesChannel`: `SocketWrapper` implements `FrameChannel` |
| `SocketAcceptorProofs` | `AcceptorTypeCorrect` | `TypeOK` |
| | `LoadsCorrect`, `SharedEvenly` | `LoadMatchesGuards`, `SessionsAreSpread` |
| `CodecProofs` | `RoundTripCorrect` | `RoundTrip` |
| | `FramesDetermineContent` | equal frames carry equal requests, or equal answers to calls of one kind, and no frame is both a request and a response |

Two theorems have a hypothesis of their own:

* `NothingLostWithOneThread` assumes `Threads = {t}`. It is needed: with two
  threads the property is false (`lost_message`).
* `EndpointImplementsRpc` assumes `IdsSuffice`: an end makes no more calls on a
  connection than there are request ids, 2^64 in the code. Past that, an answer
  could be taken for that of a call 2^64 calls ago.

Steps of the invariants are proved action by action; each action has a lemma per
part of the invariant it can disturb. TLC checked each strengthened invariant
on the instance of its run before it was proved.

### Replication

One inductive invariant, `ReplicationInv`, for the properties of
`ReplicationProofs`:

* `TypeOK` alone is not inductive: `pendingWrites` is decremented in a
  callback and stays a natural number only because the callback's call is one
  of those it counts. So `PendingWritesMatchCalls` comes with it; its step
  needs that a fresh id has no calls.
* `Agreement` alone is not inductive: a push carries the message of the request
  and a chunk was cut from an earlier state of the map. So `RequestsMatchStorage`
  (from the insert on, the map holds the request's message, and nothing was sent
  before), `FreshIdsAreFree`, `ClaimedHaveMessages` and `ChunksAgree` (a chunk
  on its way is a piece of the present map) come with it.
* `ShownIsPrefix` follows from `Agreement` and the lemmas on `FirstMissing` and
  `ContiguousChunk` at the beginning of `ReplicationProofs`.
* The refinement maps the map, the storages and the filled promises to the log,
  the replicas and the confirmed ids. The step that stores a chunk is a `Learn`
  because of `ChunksAgree`, the one that stores a push because of
  `RequestsMatchStorage`; the callback that fills the promise is a `Confirm`
  because only inserted messages have calls.

`DeliveryInv` comes on top of it and says what connections are:

* `ConnectionsAreNumbered` and `SessionsOwnConnections`: the master registers
  connections in the order they are made, and a secondary's end is up exactly
  while its session uses it. They let a fact about an id in the registry be
  carried to the process at the other end.
* `ReadyIsTrue`: a `secondaryNodeReady` call, even a late one, was made by a
  session that had filled its storage; if that session still lives, it has not
  gone back. `MasterViewIsSound` follows.
* `CallsAreInSnapshot` and `AnswersAreStored`: an answer on its way comes from
  a secondary that holds the message, unless it has crashed. So `ConfirmedIsStored`
  and, counting the filled statuses of the snapshot, `ConfirmedByDistinctNodes`.
* For one thread `IdsAreInOrder` (the map has no gap), `AskedFromGap`,
  `AnsweredWhenRegistered` and `CaughtUp` (a registered secondary has every
  message whose request is gone, or has it in the chunk on its way) give
  `NoLostMessage`. With two threads `IdsAreInOrder` fails, as in the
  counterexample.

### Registry and sessions

`RegistryInv` has both properties of `RegistryProofs`, the types of what the
handlers use, and `DestroyedIsEmpty`. The last is needed because a removal that
is posted to a destroyed `MasterNode` is lost, so `RemovalIsPending` is not
inductive without it. `FoundStaysValid` rests on the fact that the only step
that takes a single secondary out of the map also ends the only handler that
can hold an iterator; sessions and snapshots only read.

`SessionInv` adds what the refinement needs. The operations of the abstract
registry take place at one write of their handler (the insertion, the new
state, the mark that says invalidated), the abstract copy when the shared lock
is released. In between, `LocksExclude` (the handler holds the mutex alone, or
copiers share it), `EntriesMatch` (name and state of an entry belong together
except between the two writes of a handler) and, per session, `CopyIsWhole` and
`CopyIsTrue` (what has been copied is still true while the lock is held) show
that no copy is torn. `IdsInOrder` gives each connection its own id.
`PhaseMatches` ties what a session has read, copied and written to its phase;
`AnsweredOnce` and `PingReportsMatch` follow from it.

### Endpoint

`EndpointInv`: a call waits in its caller's queue once and without an id
(`PostedAreNew`), each manager holds calls of its own direction only
(`HeldByCaller`, `HeldByCallee`), and a frame carries the id of its call, a
request before the peer has seen the call and a response after it was answered
(`FramesAreGenuine`). The refinement also needs `IdsAreUnique`: the counter is
the number of ids given away, so a call never finds its id taken and a response
finds the call it answers. That is where `IdsSuffice` is used.

### SocketWrapper

`WriterInv`: frames wait in the order of the calls and an invalidated writer
keeps none (`QueuesAreInOrder`), `writeInProgress_` guards the frame and the
size member of the only write (`WritesOneAtATime`), and no callback has been
called for a frame that waits or is being written (`ReportedLast`).

`NoCallbackForgotten` is what liveness of the callbacks rests on: at every moment
a frame without its callback has a handler that will see to it. It is proved by
following each frame through the steps (`Lost(f)`: f has neither a callback
called nor a place): every step that takes frames out of a place calls their
callbacks or puts them into another one, and the queue is never left without a
write in progress.

`ChannelInv` adds the stream. The bytes on the wire are units of the frames, in
the order of the calls and without gaps, from where the reader is to where the
writer is, and every frame before any of these places is whole: all of it has
left, so its write can only succeed (`StreamIsWhole`). What has been read is the
beginning of the next frame (`ReadsNextFrame`), what was delivered was whole
(`DeliveredInOrder`). Then `Decode` yields the next frame, and an aborted frame
is never whole, so never delivered.

### SocketAcceptor

`LoadMatchesGuards` needs only that who waits has no session. For
`SessionsAreSpread`, "random" has gone round some number of times and has
reached the context that is armed (`ArmedInTurn`, `RoundsAreFull`), and under
"leastLoaded" the loads are at most one apart and the armed context is among the
fullest (`LoadsAreLevel`): it was given its guard when it was chosen, one
connection ahead.

### Codec

That a word is given back by its bytes and a chunk by its fields is induction
over the data. The library's induction theorems take an operator, which the
provers cannot instantiate; `CodecProofs` states induction and recursion over the
naturals for sets and functions instead (`NatInductionSet`,
`PrimitiveRecursion`), derived from the well-foundedness of `<`.

* `WordInjective`: two numbers below `Power[WordSize]` with the same bytes are
  equal, by downward induction on their quotients. `Value` chooses a number with
  the given bytes, so it finds the one that was written (`ValueOfWord`).
* Headers: `TakeConcat` says that taking as many bytes as were written first
  yields them and leaves the rest, so the parsers find each field where the
  serializers put it.
* Chunks: the loop that writes and the one that reads are followed together.
  After `i` turns the reader has the first `i` messages and what is left is what
  the writer appended from turn `i + 1` on (`WrittenPrefix`, `ChunkRoundTrip`).

The assumptions are those of the code: lengths fit into a `size_t`, an enumerator
into a byte, and `Bad`, an empty `std::optional` or null pointer, is none of the
values it is compared with.

### Only model-checked

* Liveness: `EventuallyReplicated`, `RequestsComplete`, `FuturesAreFilled`,
  `CallbacksAreCalled`, `PingsAreAnswered`. Temporal reasoning with fairness is
  out of the prover's reach. What they rest on is proved: `NoCallForgotten`,
  `PendingWritesCorrect` and `NoCallbackForgottenCorrect` say that nothing that
  is waited for is ever without a handler, timer or call that ends the wait.
* The three counterexamples of section 3.

## 5. Properties and the code

Each property is commented where it is defined; `PROJECT.json` lists for every
hazard of the code the properties that would catch it, and for every property a
mutation of the code that it catches.

## 6. Plan

Done: the modules and runs above, and proofs of all their safety properties and
refinements.

Left: facts that join the layers, now an argument by hand, such as a `Replication`
that uses an instance of `Rpc` for its calls.

## 7. Not modelled

* JSON parsing and the text of responses; a malformed body is one kind of
  request. The deadline timer of `HttpSession`: neither program passes a
  timeout, so it is never created.
* `IOContextPool::runInSeparateThreads` and `stop`: threads start before
  anything else happens and are joined when the process ends.
* Command line parsing and the wiring in both `main` functions. (The master
  logs `--http-workers` and creates its pool with 3 threads whatever it says,
  `app/master-node/main.cpp:86-87`; no property depends on the number.)
* The master's failure: README.md:15 takes it to be online all the time.
* Durations, the logger, command line parsing, the smart pointer and signal
  plumbing except where lifetime decides what a handler does (`alive`).
