---------------------------- MODULE SocketWrapper ----------------------------
(***************************************************************************)
(* SocketWrapper (libs/proto/src/socketwrapper), the writing half of one   *)
(* object and the reading half of its peer, with the bytes between them.   *)
(*                                                                         *)
(* A frame of size n travels as a size prefix and n body units.  The       *)
(* prefix is sent from the member outcomingFrameSize_, so it is read when  *)
(* the bytes leave, not when the write starts.  async_write moves one unit *)
(* at a time and can fail before the last one; a completion that succeeded *)
(* runs even if the socket is closed before its handler does.              *)
(***************************************************************************)
EXTENDS Naturals, Sequences, FiniteSets

CONSTANTS Frames,        \* frames to write, each once
          Size,          \* their sizes
          MaxReuseSize,  \* kIncomingBufferMaxReuseSize
          NoFrame,       \* no write in progress
          Garbage        \* bytes that are not one whole frame

ASSUME SocketWrapperAssumption ==
    /\ Size \in [Frames -> Nat \ {0}]
    /\ MaxReuseSize \in Nat
    /\ NoFrame \notin Frames
    /\ Garbage \notin Frames

Sizes == {Size[f] : f \in Frames}
Units == ({"size"} \X Sizes) \cup ({"body"} \X Frames)

VARIABLES
    written,    \* the writeFrame calls so far, in order
    posted,     \* those whose posted handler has not run
    sender,     \* the writing SocketWrapper
    alive,      \* it exists
    wire,       \* units on their way
    receiver,   \* the reading SocketWrapper
    delivered   \* what its incomingFrame signal carried

vars == <<written, posted, sender, alive, wire, receiver, delivered>>

\* One type invariant: what each variable ranges over.
TypeOK ==
    /\ written \in Seq(Frames)
    /\ posted \in Seq(Frames)
    /\ sender \in [pendingWrites      : Seq(Frames),
                   writeInProgress    : BOOLEAN,
                   writing            : Frames \cup {NoFrame},
                   left               : Nat,
                   outcomingFrameSize : Sizes \cup {0},
                   callbacks          : [Frames -> Seq({"ok", "aborted"})],
                   reading            : BOOLEAN,
                   invalidated        : BOOLEAN,
                   emitted            : Nat]
    /\ alive \in BOOLEAN
    /\ wire \in Seq(Units)
    /\ receiver \in [phase             : {"size", "frame", "stopped"},
                     incomingFrameSize : Sizes \cup {0},
                     buffer            : Sizes \cup {0},
                     got               : Seq(Units),
                     invalidated       : BOOLEAN,
                     emitted           : Nat]
    /\ delivered \in Seq(Frames \cup {Garbage})

Init ==
    /\ written = << >>
    /\ posted = << >>
    /\ sender = [pendingWrites |-> << >>, writeInProgress |-> FALSE,
                 writing |-> NoFrame, left |-> 0, outcomingFrameSize |-> 0,
                 callbacks |-> [f \in Frames |-> << >>],
                 reading |-> TRUE, invalidated |-> FALSE, emitted |-> 0]
    /\ alive = TRUE
    /\ wire = << >>
    /\ receiver = [phase |-> "size", incomingFrameSize |-> 0, buffer |-> 0,
                   got |-> << >>, invalidated |-> FALSE, emitted |-> 0]
    /\ delivered = << >>

-----------------------------------------------------------------------------
(* Writing.                                                                *)

Call(s, frames, result) ==
    [s EXCEPT !.callbacks = [f \in Frames |->
        IF f \in frames THEN Append(s.callbacks[f], result) ELSE s.callbacks[f]]]

Queued(s) == {s.pendingWrites[i] : i \in 1 .. Len(s.pendingWrites)}

\* Mutant: a write starts although one is in progress.
StartNextWrite(s) ==
    CASE s.invalidated ->
            [Call(s, Queued(s), "aborted") EXCEPT !.pendingWrites = << >>]
      [] ~s.invalidated /\ s.pendingWrites = << >> -> s
      [] OTHER ->
            [s EXCEPT !.writeInProgress    = TRUE,
                      !.pendingWrites      = Tail(s.pendingWrites),
                      !.writing            = Head(s.pendingWrites),
                      !.left               = Size[Head(s.pendingWrites)] + 1,
                      !.outcomingFrameSize = Size[Head(s.pendingWrites)]]

\* Abort what is queued once invalidated, else start the next write.
CheckPendingWrites(s) ==
    CASE s.invalidated ->
            [Call(s, Queued(s), "aborted") EXCEPT !.pendingWrites = << >>]
      [] ~s.invalidated /\ (s.writeInProgress \/ s.pendingWrites = << >>) -> s
      [] OTHER ->
            [s EXCEPT !.writeInProgress    = TRUE,
                      !.pendingWrites      = Tail(s.pendingWrites),
                      !.writing            = Head(s.pendingWrites),
                      !.left               = Size[Head(s.pendingWrites)] + 1,
                      !.outcomingFrameSize = Size[Head(s.pendingWrites)]]

\* Mutant: the signal is emitted every time.
InvalidateEveryTime(s) ==
    [CheckPendingWrites([s EXCEPT !.invalidated = TRUE]) EXCEPT !.emitted = s.emitted + 1]

\* The invalidated signal is emitted the first time only.
InvalidateSender(s) ==
    LET closed == CheckPendingWrites([s EXCEPT !.invalidated = TRUE])
    IN  IF s.invalidated THEN closed ELSE [closed EXCEPT !.emitted = s.emitted + 1]

InvalidateReceiver(r) ==
    [r EXCEPT !.invalidated = TRUE,
              !.emitted = IF r.invalidated THEN r.emitted ELSE r.emitted + 1]

\* writeFrame, from any thread.
WriteFrame(f) ==
    /\ alive
    /\ \A i \in 1 .. Len(written) : written[i] # f
    /\ written' = Append(written, f)
    /\ posted' = Append(posted, f)
    /\ UNCHANGED <<sender, alive, wire, receiver, delivered>>

\* Mutant: the frame is forgotten if the object is gone.
ForgetIfDead ==
    /\ posted # << >>
    /\ posted' = Tail(posted)
    /\ sender' = IF alive
                 THEN CheckPendingWrites([sender EXCEPT
                        !.pendingWrites = Append(@, Head(posted))])
                 ELSE sender
    /\ UNCHANGED <<written, alive, wire, receiver, delivered>>

\* Its handler: queue the frame, or abort it if the object is gone.
WriteFramePosted ==
    /\ posted # << >>
    /\ posted' = Tail(posted)
    /\ sender' = IF alive
                 THEN CheckPendingWrites([sender EXCEPT
                        !.pendingWrites = Append(@, Head(posted))])
                 ELSE Call(sender, {Head(posted)}, "aborted")
    /\ UNCHANGED <<written, alive, wire, receiver, delivered>>

\* async_write hands the next unit to the socket.
Transfer ==
    LET f    == sender.writing
        unit == IF sender.left = Size[f] + 1
                THEN <<"size", sender.outcomingFrameSize>>
                ELSE <<"body", f>>
    IN  /\ f # NoFrame
        /\ sender.left > 0
        /\ ~sender.invalidated
        /\ sender' = [sender EXCEPT !.left = @ - 1]
        /\ wire' = IF receiver.invalidated THEN wire ELSE Append(wire, unit)
        /\ UNCHANGED <<written, posted, alive, receiver, delivered>>

\* Mutant: the completion does not look at the queue.
CompleteWithoutNext(result) ==
    LET called == Call([sender EXCEPT !.writing = NoFrame, !.left = 0],
                       {sender.writing}, result)
        closed == IF result = "ok" THEN called ELSE InvalidateSender(called)
    IN  /\ sender.writing # NoFrame
        /\ (result = "ok") <=> (sender.left = 0)
        /\ sender' = IF alive THEN [closed EXCEPT !.writeInProgress = FALSE] ELSE called
        /\ UNCHANGED <<written, posted, alive, wire, receiver, delivered>>

\* The completion handler of async_write.
WriteCompletes(result) ==
    LET called == Call([sender EXCEPT !.writing = NoFrame, !.left = 0],
                       {sender.writing}, result)
        closed == IF result = "ok" THEN called ELSE InvalidateSender(called)
    IN  /\ sender.writing # NoFrame
        /\ (result = "ok") <=> (sender.left = 0)
        /\ sender' = IF alive
                     THEN CheckPendingWrites([closed EXCEPT !.writeInProgress = FALSE])
                     ELSE called
        /\ UNCHANGED <<written, posted, alive, wire, receiver, delivered>>

WriteSucceeds == WriteCompletes("ok")
WriteFails    == WriteCompletes("aborted")

\* The writer's own pending read fails.
SenderReadFails ==
    /\ alive
    /\ sender.reading
    /\ sender' = InvalidateSender([sender EXCEPT !.reading = FALSE])
    /\ UNCHANGED <<written, posted, alive, wire, receiver, delivered>>

\* The destructor closes and aborts, and emits nothing.
Destroy ==
    /\ alive
    /\ alive' = FALSE
    /\ sender' = CheckPendingWrites([sender EXCEPT !.invalidated = TRUE])
    /\ UNCHANGED <<written, posted, wire, receiver, delivered>>

-----------------------------------------------------------------------------
(* Reading.                                                                *)

\* What readFrameSize makes of a unit: body bytes would be an arbitrary size.
SizesRead(unit) == IF unit[1] = "size" THEN {unit[2]} ELSE Sizes

\* Mutant: a large buffer is kept.
OnlyGrow(buffer, size) == IF size > buffer THEN {size, 0} ELSE {buffer}

\* Mutant: the buffer grows by the size of the frame.
GrowBySize(buffer, size) ==
    IF size > buffer \/ buffer > MaxReuseSize THEN {buffer + size, 0} ELSE {buffer}

\* Buffer::resize, when readFrame asks for it; allocation can fail.
Resized(buffer, size) ==
    IF size > buffer \/ buffer > MaxReuseSize
    THEN IF size = buffer THEN {size} ELSE {size, 0}
    ELSE {buffer}

\* readFrameSize completes, and readFrame.
ReadFrameSize ==
    /\ receiver.phase = "size"
    /\ ~receiver.invalidated
    /\ wire # << >>
    /\ wire' = Tail(wire)
    /\ \E size \in SizesRead(Head(wire)) : \E buffer \in Resized(receiver.buffer, size) :
        LET r == [receiver EXCEPT !.incomingFrameSize = size, !.buffer = buffer]
        IN  receiver' = IF buffer < size
                        THEN [InvalidateReceiver(r) EXCEPT !.phase = "stopped"]
                        ELSE [r EXCEPT !.phase = "frame"]
    /\ UNCHANGED <<written, posted, sender, alive, delivered>>

ReadFrame ==
    /\ receiver.phase = "frame"
    /\ ~receiver.invalidated
    /\ wire # << >>
    /\ Len(receiver.got) < receiver.incomingFrameSize
    /\ wire' = Tail(wire)
    /\ receiver' = [receiver EXCEPT !.got = Append(@, Head(wire))]
    /\ UNCHANGED <<written, posted, sender, alive, delivered>>

\* The frame that the units got make up.
Decode(got) ==
    LET whole == {f \in Frames : Len(got) = Size[f]
                                 /\ \A i \in 1 .. Len(got) : got[i] = <<"body", f>>}
    IN  IF whole = {} THEN Garbage ELSE CHOOSE f \in whole : TRUE

\* The read is complete: emit incomingFrame, read the next size.
IncomingFrame ==
    /\ receiver.phase = "frame"
    /\ Len(receiver.got) = receiver.incomingFrameSize
    /\ delivered' = Append(delivered, Decode(receiver.got))
    /\ receiver' = [receiver EXCEPT !.phase = "size", !.got = << >>]
    /\ UNCHANGED <<written, posted, sender, alive, wire>>

\* The pending read fails: reset, end of stream, or the socket was closed.
ReadFails ==
    /\ receiver.phase # "stopped"
    /\ receiver.phase = "frame" => Len(receiver.got) < receiver.incomingFrameSize
    /\ receiver' = [InvalidateReceiver(receiver) EXCEPT !.phase = "stopped"]
    /\ UNCHANGED <<written, posted, sender, alive, wire, delivered>>

\* One of the reader's own writes fails.
ReceiverWriteFails ==
    /\ ~receiver.invalidated
    /\ receiver' = InvalidateReceiver(receiver)
    /\ UNCHANGED <<written, posted, sender, alive, wire, delivered>>

-----------------------------------------------------------------------------
Next ==
    \/ \E f \in Frames : WriteFrame(f)
    \/ WriteFramePosted \/ Transfer \/ WriteSucceeds \/ WriteFails
    \/ SenderReadFails \/ Destroy
    \/ ReadFrameSize \/ ReadFrame \/ IncomingFrame \/ ReadFails \/ ReceiverWriteFails

Spec == Init /\ [][Next]_vars

\* Posted and completed handlers run, an open socket takes the next bytes, a
\* closed one fails the write.  Nothing is assumed of the reader.
Fairness ==
    /\ WF_vars(WriteFramePosted)
    /\ WF_vars(Transfer)
    /\ WF_vars(WriteSucceeds)
    /\ WF_vars(sender.invalidated /\ WriteFails)

FairSpec == Spec /\ Fairness

-----------------------------------------------------------------------------
(* Properties.                                                             *)

\* The promise of FrameChannel: although all writes share one socket, one
\* write flag and one size member, frames arrive whole, in order and without
\* gaps, and callbacks are called at most once.
Channel == INSTANCE FrameChannel WITH completed <- sender.callbacks

RefinesChannel == Channel!Spec

\* The owner hears of an invalidation once, although the read, the write in
\* progress and the writes behind it may all report the same broken socket.
InvalidatedOnce ==
    /\ sender.emitted <= 1
    /\ receiver.emitted <= 1
    /\ receiver.invalidated => receiver.emitted = 1
    /\ alive => (sender.invalidated <=> sender.emitted = 1)

\* The read buffer has room for the frame being read, and one that grew past
\* the reuse limit is not kept for smaller frames.
BufferFits ==
    receiver.phase = "frame" =>
        /\ receiver.incomingFrameSize <= receiver.buffer
        /\ receiver.buffer > MaxReuseSize => receiver.buffer = receiver.incomingFrameSize

\* No callback is lost sight of: while a frame has not been reported on, its
\* handler is posted, it is queued or it is being written, and whatever is
\* queued is behind a write whose completion will look at the queue again.
NoCallbackForgotten ==
    /\ \A i \in 1 .. Len(written) :
            sender.callbacks[written[i]] = << >> =>
                \/ \E j \in 1 .. Len(posted) : posted[j] = written[i]
                \/ written[i] \in Queued(sender)
                \/ written[i] = sender.writing
    /\ sender.pendingWrites # << >> => sender.writing # NoFrame

\* "The callback is called when frame was successfully/unsuccessfully written":
\* every callback is called, also of frames queued behind a write that fails
\* and of frames whose handler runs after the object died.
CallbacksAreCalled ==
    \A f \in Frames :
        (\E i \in 1 .. Len(written) : written[i] = f) ~> sender.callbacks[f] # << >>
=============================================================================
