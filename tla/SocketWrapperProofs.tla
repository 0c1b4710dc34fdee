------------------------- MODULE SocketWrapperProofs -------------------------
(***************************************************************************)
(* Proofs about SocketWrapper, for any frames of any sizes: its types, its *)
(* single report of an invalidation, its read buffer, and that two of them *)
(* are a FrameChannel.                                                     *)
(***************************************************************************)
EXTENDS SocketWrapper, TLAPS

-----------------------------------------------------------------------------
(* The strengthening: the writer.                                          *)

\* A SocketWrapper reports its invalidation when it is invalidated, unless it
\* is its destructor that does it.
Reported ==
    /\ ~alive => sender.invalidated
    /\ ~sender.invalidated => sender.emitted = 0
    /\ ~receiver.invalidated => receiver.emitted = 0
    /\ receiver.phase = "stopped" => receiver.invalidated

\* How many of the frames have left the queues, the one being written included.
Begun == Len(written) - Len(posted) - Len(sender.pendingWrites)

\* Frames wait in the order of the calls; an invalidated writer keeps none.
QueuesAreInOrder ==
    /\ \A i, j \in 1 .. Len(written) : written[i] = written[j] => i = j
    /\ Begun \in Nat
    /\ \A i \in 1 .. Len(posted) : written[Len(written) - Len(posted) + i] = posted[i]
    /\ \A i \in 1 .. Len(sender.pendingWrites) :
            written[Begun + i] = sender.pendingWrites[i]
    /\ sender.invalidated => sender.pendingWrites = << >>

\* writeInProgress_ guards the frame and the size of the only write.
WritesOneAtATime ==
    /\ alive => (sender.writeInProgress <=> sender.writing # NoFrame)
    /\ alive /\ ~sender.invalidated /\ sender.writing = NoFrame
            => sender.pendingWrites = << >>
    /\ sender.writing # NoFrame =>
            /\ sender.outcomingFrameSize = Size[sender.writing]
            /\ sender.left <= Size[sender.writing] + 1
            /\ \E i \in 1 .. Begun : written[i] = sender.writing
            /\ ~sender.invalidated => written[Begun] = sender.writing
    /\ sender.writing = NoFrame => sender.left = 0

\* Frames that are not written, wait or are being written have not been
\* reported on.
ReportedLast ==
    /\ \A f \in Frames : (\A i \in 1 .. Len(written) : written[i] # f)
                                => sender.callbacks[f] = << >>
    /\ \A i \in 1 .. Len(written) : i > Begun => sender.callbacks[written[i]] = << >>
    /\ sender.writing # NoFrame => sender.callbacks[sender.writing] = << >>

-----------------------------------------------------------------------------
(* The strengthening: what is on its way.                                  *)

\* All of the frame has left; its write can only succeed.
Whole(f) ==
    \/ sender.callbacks[f] = <<"ok">>
    \/ sender.writing = f /\ sender.left = 0

\* Every frame before the k-th is whole.
WholeBefore(k) ==
    /\ k <= Len(written) + 1
    /\ \A i \in 1 .. Len(written) : i < k => Whole(written[i])

\* A unit of the stream is the j-th of the k-th frame: its size, then its body.
Carries(unit, k, j) ==
    /\ k \in 1 .. Len(written)
    /\ j \in 0 .. Size[written[k]]
    /\ unit = IF j = 0 THEN <<"size", Size[written[k]]>> ELSE <<"body", written[k]>>

\* The unit after the j-th of the k-th frame is the next one, or begins a frame.
Follows(k, j, nextK, nextJ) ==
    IF j < Size[written[k]] THEN nextK = k /\ nextJ = j + 1
                            ELSE nextK = k + 1 /\ nextJ = 0

\* What the reader expects next.
ReaderAt(k, j) ==
    IF receiver.phase = "frame" /\ Len(receiver.got) < receiver.incomingFrameSize
    THEN k = Len(delivered) + 1 /\ j = Len(receiver.got) + 1
    ELSE /\ k = Len(delivered) + (IF receiver.phase = "frame" THEN 2 ELSE 1)
         /\ j = 0

\* What the writer sends next.
WriterAt(k, j) ==
    IF sender.left > 0
    THEN k = Begun /\ j = Size[sender.writing] + 1 - sender.left
    ELSE k = Begun + 1 /\ j = 0

\* The bytes on the wire are those of the frames, in the order of the calls
\* and without gaps, from where the reader is to where the writer is.
StreamIs(frame, unit) ==
    /\ ReaderAt(frame[1], unit[1])
    /\ \A i \in 1 .. Len(wire) :
            /\ Carries(wire[i], frame[i], unit[i])
            /\ Follows(frame[i], unit[i], frame[i + 1], unit[i + 1])
    /\ \A i \in 1 .. Len(wire) + 1 : WholeBefore(frame[i])
    /\ ~sender.invalidated => WriterAt(frame[Len(wire) + 1], unit[Len(wire) + 1])

\* That is so until the reader is invalidated.
StreamIsWhole ==
    ~receiver.invalidated =>
        \E frame, unit \in [1 .. Len(wire) + 1 -> Nat] : StreamIs(frame, unit)

\* What was delivered was written, and whole.
DeliveredInOrder ==
    /\ Len(delivered) <= Len(written)
    /\ \A i \in 1 .. Len(delivered) : delivered[i] = written[i] /\ Whole(written[i])

\* What has been read is the beginning of the next frame.
ReadsNextFrame ==
    /\ receiver.phase = "size" => receiver.got = << >>
    /\ receiver.phase = "frame" =>
        LET next == Len(delivered) + 1 IN
        /\ next <= Len(written)
        /\ receiver.incomingFrameSize = Size[written[next]]
        /\ Len(receiver.got) <= receiver.incomingFrameSize
        /\ \A i \in 1 .. Len(receiver.got) : receiver.got[i] = <<"body", written[next]>>
        /\ Len(receiver.got) = receiver.incomingFrameSize => Whole(written[next])

WriterInv ==
    /\ TypeOK
    /\ InvalidatedOnce
    /\ Reported
    /\ QueuesAreInOrder
    /\ WritesOneAtATime
    /\ ReportedLast

ChannelInv == WriterInv /\ StreamIsWhole /\ DeliveredInOrder /\ ReadsNextFrame

-----------------------------------------------------------------------------
(* What the operators on the writer's record do.                           *)

Senders == [pendingWrites      : Seq(Frames),
            writeInProgress    : BOOLEAN,
            writing            : Frames \cup {NoFrame},
            left               : Nat,
            outcomingFrameSize : Sizes \cup {0},
            callbacks          : [Frames -> Seq({"ok", "aborted"})],
            reading            : BOOLEAN,
            invalidated        : BOOLEAN,
            emitted            : Nat]

\* The callbacks of a set of frames, each called once more.
Called(callbacks, frames, result) ==
    [f \in Frames |-> IF f \in frames THEN Append(callbacks[f], result) ELSE callbacks[f]]

\* Calling callbacks keeps their type.
LEMMA CalledType ==
    ASSUME NEW callbacks \in [Frames -> Seq({"ok", "aborted"})], NEW frames,
           NEW result \in {"ok", "aborted"}
    PROVE  Called(callbacks, frames, result) \in [Frames -> Seq({"ok", "aborted"})]
<1>1. \A f \in Frames : Append(callbacks[f], result) \in Seq({"ok", "aborted"})
  OBVIOUS
<1>. QED
  BY <1>1 DEF Called

\* Call touches the callbacks only.
LEMMA CallFields ==
    ASSUME NEW s \in Senders, NEW frames, NEW result \in {"ok", "aborted"}
    PROVE  /\ Call(s, frames, result) \in Senders
           /\ Call(s, frames, result) =
                [s EXCEPT !.callbacks = Called(s.callbacks, frames, result)]
<1>1. Call(s, frames, result) = [s EXCEPT !.callbacks = Called(s.callbacks, frames, result)]
  BY DEF Call, Called
<1>2. Called(s.callbacks, frames, result) \in [Frames -> Seq({"ok", "aborted"})]
  BY CalledType DEF Senders
<1>. QED
  BY <1>1, <1>2 DEF Senders

\* checkPendingWrites of an invalidated writer aborts what is queued.
LEMMA CheckAborts ==
    ASSUME NEW s \in Senders, s.invalidated
    PROVE  /\ CheckPendingWrites(s) \in Senders
           /\ CheckPendingWrites(s) =
                [s EXCEPT !.callbacks = Called(s.callbacks, Queued(s), "aborted"),
                          !.pendingWrites = << >>]
<1>1. CheckPendingWrites(s) = [Call(s, Queued(s), "aborted") EXCEPT !.pendingWrites = << >>]
  BY DEF CheckPendingWrites
<1>2. /\ Call(s, Queued(s), "aborted") \in Senders
      /\ Call(s, Queued(s), "aborted") =
            [s EXCEPT !.callbacks = Called(s.callbacks, Queued(s), "aborted")]
  BY CallFields
<1>3. ASSUME NEW x \in Senders PROVE [x EXCEPT !.pendingWrites = << >>] \in Senders
  <2>1. << >> \in Seq(Frames)
    OBVIOUS
  <2>. QED
    BY <2>1 DEF Senders
<1>4. CheckPendingWrites(s) \in Senders
  BY <1>1, <1>2, <1>3
<1>. QED
  BY <1>1, <1>2, <1>4 DEF Senders

\* With nothing to do it does nothing.
LEMMA CheckIdles ==
    ASSUME NEW s \in Senders, ~s.invalidated, s.writeInProgress \/ s.pendingWrites = << >>
    PROVE  CheckPendingWrites(s) = s
  BY DEF CheckPendingWrites

\* Otherwise it begins the next write.
LEMMA CheckStarts ==
    ASSUME NEW s \in Senders, ~s.invalidated, ~s.writeInProgress, s.pendingWrites # << >>,
           NEW f, f = Head(s.pendingWrites)
    PROVE  /\ f \in Frames
           /\ CheckPendingWrites(s) \in Senders
           /\ CheckPendingWrites(s) =
                [s EXCEPT !.writeInProgress    = TRUE,
                          !.pendingWrites      = Tail(s.pendingWrites),
                          !.writing            = f,
                          !.left               = Size[f] + 1,
                          !.outcomingFrameSize = Size[f]]
<1>1. s.pendingWrites \in Seq(Frames)
  BY DEF Senders
<1>2. f \in Frames /\ Tail(s.pendingWrites) \in Seq(Frames)
  BY <1>1
<1>3. Size[f] \in Sizes /\ Size[f] + 1 \in Nat
  BY <1>2, SocketWrapperAssumption DEF Sizes
<1>4. CheckPendingWrites(s) =
                [s EXCEPT !.writeInProgress    = TRUE,
                          !.pendingWrites      = Tail(s.pendingWrites),
                          !.writing            = f,
                          !.left               = Size[f] + 1,
                          !.outcomingFrameSize = Size[f]]
  BY DEF CheckPendingWrites
<1>. QED
  BY <1>2, <1>3, <1>4 DEF Senders

\* invalidate() aborts what is queued, and emits the first time.
LEMMA InvalidateFields ==
    ASSUME NEW s \in Senders
    PROVE  /\ InvalidateSender(s) \in Senders
           /\ InvalidateSender(s) =
                [s EXCEPT !.callbacks = Called(s.callbacks, Queued(s), "aborted"),
                          !.pendingWrites = << >>,
                          !.invalidated = TRUE,
                          !.emitted = IF s.invalidated THEN s.emitted ELSE s.emitted + 1]
<1>. DEFINE t == [s EXCEPT !.invalidated = TRUE]
<1>1. t \in Senders /\ t.invalidated /\ Queued(t) = Queued(s) /\ t.callbacks = s.callbacks
  BY DEF Senders, Queued
<1>2. /\ CheckPendingWrites(t) \in Senders
      /\ CheckPendingWrites(t) =
                [t EXCEPT !.callbacks = Called(t.callbacks, Queued(t), "aborted"),
                          !.pendingWrites = << >>]
  BY <1>1, CheckAborts
<1>3. InvalidateSender(s) = IF s.invalidated THEN CheckPendingWrites(t)
                            ELSE [CheckPendingWrites(t) EXCEPT !.emitted = s.emitted + 1]
  BY DEF InvalidateSender
<1>4. s.emitted \in Nat
  BY DEF Senders
<1>5. InvalidateSender(s) \in Senders
  <2>1. ASSUME NEW x \in Senders PROVE [x EXCEPT !.emitted = s.emitted + 1] \in Senders
    <3>1. s.emitted + 1 \in Nat
      BY <1>4
    <3>. QED
      BY <3>1 DEF Senders
  <2>. QED
    BY <1>2, <1>3, <2>1
<1>6. InvalidateSender(s) =
                [s EXCEPT !.callbacks = Called(s.callbacks, Queued(s), "aborted"),
                          !.pendingWrites = << >>,
                          !.invalidated = TRUE,
                          !.emitted = IF s.invalidated THEN s.emitted ELSE s.emitted + 1]
  <2>1. t = [s EXCEPT !.invalidated = TRUE]
    OBVIOUS
  <2>2. PICK called : called = Called(s.callbacks, Queued(s), "aborted")
    OBVIOUS
  <2>3. CheckPendingWrites(t) = [t EXCEPT !.callbacks = called, !.pendingWrites = << >>]
    BY <1>1, <1>2, <2>2
  <2>. HIDE DEF t
  <2>4. CheckPendingWrites(t) = [s EXCEPT !.callbacks = called, !.pendingWrites = << >>,
                                          !.invalidated = TRUE]
    BY <2>1, <2>3 DEF Senders
  <2>5. CASE s.invalidated
    <3>1. InvalidateSender(s) = CheckPendingWrites(t)
      BY <1>3, <2>5
    <3>. QED
      BY <2>2, <2>4, <2>5, <3>1 DEF Senders
  <2>6. CASE ~s.invalidated
    <3>1. InvalidateSender(s) = [CheckPendingWrites(t) EXCEPT !.emitted = s.emitted + 1]
      BY <1>3, <2>6
    <3>. QED
      BY <2>2, <2>4, <2>6, <3>1 DEF Senders
  <2>. QED
    BY <2>5, <2>6
<1>. QED
  BY <1>5, <1>6

-----------------------------------------------------------------------------
(* What the actions of the writer do to its record.                        *)

\* Calling the callbacks of no frame.
LEMMA CalledNone ==
    ASSUME NEW callbacks \in [Frames -> Seq({"ok", "aborted"})], NEW result
    PROVE  Called(callbacks, {}, result) = callbacks
  BY DEF Called

\* Calling the callbacks of two sets in turn.
LEMMA CalledTwice ==
    ASSUME NEW callbacks \in [Frames -> Seq({"ok", "aborted"})], NEW result,
           NEW first, NEW second, first \cap second = {}
    PROVE  Called(Called(callbacks, first, result), second, result)
                = Called(callbacks, first \cup second, result)
  BY DEF Called

\* No write, and none that waits.
Idle == sender'.writing = NoFrame /\ sender'.left = 0 /\ sender'.pendingWrites = << >>

\* A write of f begins.
Begins(f) ==
    /\ sender'.writeInProgress
    /\ sender'.writing = f
    /\ sender'.left = Size[f] + 1
    /\ sender'.outcomingFrameSize = Size[f]

\* The write in progress, or its absence, stays.
WriteStays ==
    /\ sender'.writeInProgress = sender.writeInProgress
    /\ sender'.writing = sender.writing
    /\ sender'.left = sender.left
    /\ sender'.outcomingFrameSize = sender.outcomingFrameSize

\* A frame that reaches the writer waits behind a write, is written at once,
\* or is aborted because the writer is invalidated or gone.
LEMMA WriteFramePostedEffect ==
    ASSUME WriterInv, WriteFramePosted, NEW h, h = Head(posted)
    PROVE  /\ h \in Frames
           /\ sender' \in Senders
           /\ sender'.invalidated = sender.invalidated /\ sender'.emitted = sender.emitted
           /\ \/ /\ ~sender.invalidated /\ alive /\ sender.writing # NoFrame
                 /\ sender'.pendingWrites = Append(sender.pendingWrites, h)
                 /\ sender'.callbacks = sender.callbacks /\ WriteStays
              \/ /\ ~sender.invalidated /\ alive /\ sender.writing = NoFrame
                 /\ sender.pendingWrites = << >> /\ sender'.pendingWrites = << >>
                 /\ sender'.callbacks = sender.callbacks /\ Begins(h)
              \/ /\ sender.invalidated
                 /\ sender.pendingWrites = << >> /\ sender'.pendingWrites = << >>
                 /\ sender'.callbacks = Called(sender.callbacks, {h}, "aborted")
                 /\ WriteStays
<1>t. sender \in Senders /\ posted \in Seq(Frames) /\ alive \in BOOLEAN
  BY DEF WriterInv, TypeOK, Senders
<1>1. h \in Frames
  BY <1>t DEF WriteFramePosted
<1>. DEFINE s == [sender EXCEPT !.pendingWrites = Append(@, h)]
<1>2. /\ sender' = IF alive THEN CheckPendingWrites(s) ELSE Call(sender, {h}, "aborted")
  BY DEF WriteFramePosted
<1>p. sender.pendingWrites \in Seq(Frames)
  BY <1>t DEF Senders
<1>3. Append(sender.pendingWrites, h) \in Seq(Frames) /\ Append(sender.pendingWrites, h) # << >>
  BY <1>p, <1>1
<1>4. s \in Senders
  BY <1>t, <1>3 DEF Senders
<1>5. /\ s.pendingWrites = Append(sender.pendingWrites, h)
      /\ s.invalidated = sender.invalidated /\ s.emitted = sender.emitted
      /\ s.writeInProgress = sender.writeInProgress /\ s.writing = sender.writing
      /\ s.left = sender.left /\ s.outcomingFrameSize = sender.outcomingFrameSize
      /\ s.callbacks = sender.callbacks
  BY <1>t DEF Senders
<1>. HIDE DEF s
<1>i. /\ alive => (sender.writeInProgress <=> sender.writing # NoFrame)
      /\ alive /\ ~sender.invalidated /\ sender.writing = NoFrame
            => sender.pendingWrites = << >>
      /\ sender.invalidated => sender.pendingWrites = << >>
      /\ ~alive => sender.invalidated
  BY DEF WriterInv, WritesOneAtATime, QueuesAreInOrder, Reported
<1>6. CASE ~alive
  <2>1. /\ sender' \in Senders
        /\ sender' = [sender EXCEPT !.callbacks = Called(sender.callbacks, {h}, "aborted")]
    BY <1>t, <1>2, <1>6, CallFields
  <2>. QED
    BY <1>t, <1>i, <1>1, <1>6, <2>1 DEF Senders, WriteStays
<1>7. CASE alive /\ sender.invalidated
  <2>1. sender.pendingWrites = << >> /\ Queued(s) = {h}
    <3>1. sender.pendingWrites = << >>
      BY <1>i, <1>7
    <3>2. s.pendingWrites = <<h>>
      BY <1>5, <3>1
    <3>3. Queued(s) = {h}
      BY <3>2 DEF Queued
    <3>. QED
      BY <3>1, <3>3
  <2>2. /\ sender' \in Senders
        /\ sender' = [s EXCEPT !.callbacks = Called(s.callbacks, {h}, "aborted"),
                               !.pendingWrites = << >>]
    BY <1>2, <1>4, <1>5, <1>7, <2>1, CheckAborts
  <2>. QED
    BY <1>1, <1>4, <1>5, <1>7, <2>1, <2>2 DEF Senders, WriteStays
<1>8. CASE alive /\ ~sender.invalidated /\ sender.writing # NoFrame
  <2>1. sender' = s
    BY <1>2, <1>4, <1>5, <1>i, <1>8, CheckIdles
  <2>. QED
    BY <1>1, <1>4, <1>5, <1>8, <2>1 DEF WriteStays
<1>9. CASE alive /\ ~sender.invalidated /\ sender.writing = NoFrame
  <2>1. sender.pendingWrites = << >>
    BY <1>i, <1>9
  <2>2. h = Head(s.pendingWrites) /\ Tail(s.pendingWrites) = << >>
    BY <1>1, <1>5, <2>1
  <2>3. ~s.writeInProgress /\ ~s.invalidated /\ s.pendingWrites # << >>
    BY <1>3, <1>5, <1>i, <1>9
  <2>4. /\ sender' \in Senders
        /\ sender' = [s EXCEPT !.writeInProgress    = TRUE,
                               !.pendingWrites      = Tail(s.pendingWrites),
                               !.writing            = h,
                               !.left               = Size[h] + 1,
                               !.outcomingFrameSize = Size[h]]
    BY <1>2, <1>4, <1>9, <2>2, <2>3, CheckStarts
  <2>. QED
    BY <1>1, <1>4, <1>5, <1>9, <2>1, <2>2, <2>4 DEF Senders, Begins
<1>. QED
  BY <1>t, <1>6, <1>7, <1>8, <1>9

\* A write that succeeds is followed by the next, or by none.
LEMMA WriteSucceedsEffect ==
    ASSUME WriterInv, WriteSucceeds
    PROVE  /\ sender.writing \in Frames /\ sender.left = 0
           /\ sender' \in Senders
           /\ sender'.invalidated = sender.invalidated /\ sender'.emitted = sender.emitted
           /\ sender'.callbacks = Called(sender.callbacks, {sender.writing}, "ok")
           /\ \/ /\ sender.pendingWrites = << >> /\ Idle
                 /\ alive => ~sender'.writeInProgress
              \/ /\ alive /\ ~sender.invalidated /\ sender.pendingWrites # << >>
                 /\ sender'.pendingWrites = Tail(sender.pendingWrites)
                 /\ Begins(Head(sender.pendingWrites))
<1>t. sender \in Senders /\ alive \in BOOLEAN
  BY DEF WriterInv, TypeOK, Senders
<1>. DEFINE s == [sender EXCEPT !.writing = NoFrame, !.left = 0]
            called == Call(s, {sender.writing}, "ok")
            t == [called EXCEPT !.writeInProgress = FALSE]
<1>1. /\ sender.writing # NoFrame /\ sender.left = 0
      /\ sender' = IF alive THEN CheckPendingWrites(t) ELSE called
  BY DEF WriteSucceeds, WriteCompletes
<1>u. sender.writing \in Frames
  BY <1>t, <1>1 DEF Senders
<1>2. s \in Senders /\ s.callbacks = sender.callbacks
  BY <1>t DEF Senders
<1>3. /\ called \in Senders
      /\ called = [s EXCEPT !.callbacks = Called(s.callbacks, {sender.writing}, "ok")]
  BY <1>2, CallFields
<1>4. /\ called.pendingWrites = sender.pendingWrites /\ called.invalidated = sender.invalidated
      /\ called.emitted = sender.emitted /\ called.writing = NoFrame /\ called.left = 0
      /\ called.callbacks = Called(sender.callbacks, {sender.writing}, "ok")
  BY <1>t, <1>2, <1>3 DEF Senders
<1>. HIDE DEF called
<1>5. /\ t \in Senders /\ t.pendingWrites = sender.pendingWrites
      /\ t.invalidated = sender.invalidated
      /\ t.emitted = sender.emitted /\ t.writing = NoFrame /\ t.left = 0
      /\ t.callbacks = Called(sender.callbacks, {sender.writing}, "ok")
      /\ t.writeInProgress = FALSE
  BY <1>3, <1>4 DEF Senders
<1>. HIDE DEF t, s
<1>i. /\ sender.invalidated => sender.pendingWrites = << >>
      /\ ~alive => sender.invalidated
  BY DEF WriterInv, QueuesAreInOrder, Reported
<1>6. CASE ~alive
  BY <1>1, <1>u, <1>3, <1>4, <1>6, <1>i DEF Idle
<1>7. CASE alive /\ sender.invalidated
  <2>1. sender.pendingWrites = << >> /\ Queued(t) = {}
    BY <1>5, <1>7, <1>i DEF Queued
  <2>2. /\ sender' \in Senders
        /\ sender' = [t EXCEPT !.callbacks = Called(t.callbacks, {}, "aborted"),
                               !.pendingWrites = << >>]
    BY <1>1, <1>5, <1>7, <2>1, CheckAborts
  <2>3. Called(t.callbacks, {}, "aborted") = t.callbacks
    BY <1>5, CalledNone DEF Senders
  <2>. QED
    BY <1>1, <1>u, <1>5, <1>7, <2>1, <2>2, <2>3 DEF Idle, Senders
<1>8. CASE alive /\ ~sender.invalidated /\ sender.pendingWrites = << >>
  <2>1. sender' = t
    BY <1>1, <1>5, <1>8, CheckIdles
  <2>. QED
    BY <1>1, <1>u, <1>5, <1>8, <2>1 DEF Idle
<1>9. CASE alive /\ ~sender.invalidated /\ sender.pendingWrites # << >>
  <2>1. PICK f : f = Head(sender.pendingWrites)
    OBVIOUS
  <2>2. /\ sender' \in Senders
        /\ sender' = [t EXCEPT !.writeInProgress    = TRUE,
                               !.pendingWrites      = Tail(t.pendingWrites),
                               !.writing            = f,
                               !.left               = Size[f] + 1,
                               !.outcomingFrameSize = Size[f]]
    BY <1>1, <1>5, <1>9, <2>1, CheckStarts
  <2>3. /\ sender'.pendingWrites = Tail(sender.pendingWrites) /\ Begins(f)
        /\ sender'.invalidated = t.invalidated /\ sender'.emitted = t.emitted
        /\ sender'.callbacks = t.callbacks
    BY <1>5, <2>2 DEF Begins, Senders
  <2>. QED
    BY <1>1, <1>u, <1>5, <1>9, <2>1, <2>2, <2>3
<1>. QED
  BY <1>t, <1>6, <1>7, <1>8, <1>9

\* A frame that is being written does not wait.
LEMMA WritingNotQueued ==
    ASSUME WriterInv, sender.writing # NoFrame
    PROVE  {sender.writing} \cap Queued(sender) = {}
<1>t. sender.pendingWrites \in Seq(Frames) /\ written \in Seq(Frames) /\ posted \in Seq(Frames)
  BY DEF WriterInv, TypeOK
<1>1. PICK i \in 1 .. Begun : written[i] = sender.writing
  BY DEF WriterInv, WritesOneAtATime
<1>2. ASSUME NEW j \in 1 .. Len(sender.pendingWrites), sender.pendingWrites[j] = sender.writing
      PROVE  FALSE
  <2>1. written[Begun + j] = sender.writing /\ Begun \in Nat
    BY <1>2 DEF WriterInv, QueuesAreInOrder
  <2>2. i \in 1 .. Len(written) /\ Begun + j \in 1 .. Len(written) /\ i # Begun + j
    BY <1>t, <2>1 DEF Begun
  <2>. QED
    BY <1>1, <2>1, <2>2 DEF WriterInv, QueuesAreInOrder
<1>. QED
  BY <1>2 DEF Queued

\* A write that fails takes what waits behind it with it.
LEMMA WriteFailsEffect ==
    ASSUME WriterInv, WriteFails
    PROVE  /\ sender.writing \in Frames /\ sender.left > 0
           /\ sender' \in Senders
           /\ sender'.invalidated
           /\ sender'.emitted = IF sender.invalidated THEN sender.emitted ELSE sender.emitted + 1
           /\ sender'.callbacks =
                Called(sender.callbacks, {sender.writing} \cup Queued(sender), "aborted")
           /\ Idle
           /\ alive => ~sender'.writeInProgress
<1>t. sender \in Senders /\ alive \in BOOLEAN
  BY DEF WriterInv, TypeOK, Senders
<1>. DEFINE s == [sender EXCEPT !.writing = NoFrame, !.left = 0]
            called == Call(s, {sender.writing}, "aborted")
            closed == InvalidateSender(called)
            t == [closed EXCEPT !.writeInProgress = FALSE]
<1>1. /\ sender.writing # NoFrame /\ sender.left # 0
      /\ sender' = IF alive THEN CheckPendingWrites(t) ELSE called
  BY DEF WriteFails, WriteCompletes
<1>u. sender.writing \in Frames /\ sender.left > 0
  BY <1>t, <1>1 DEF Senders
<1>2. s \in Senders /\ s.callbacks = sender.callbacks
  BY <1>t DEF Senders
<1>3. /\ called \in Senders
      /\ called = [s EXCEPT !.callbacks = Called(s.callbacks, {sender.writing}, "aborted")]
  BY <1>2, CallFields
<1>4. /\ called.pendingWrites = sender.pendingWrites /\ called.invalidated = sender.invalidated
      /\ called.emitted = sender.emitted /\ called.writing = NoFrame /\ called.left = 0
      /\ called.callbacks = Called(sender.callbacks, {sender.writing}, "aborted")
  BY <1>t, <1>2, <1>3 DEF Senders
<1>w. Queued(called) = Queued(sender)
  BY <1>4 DEF Queued
<1>. HIDE DEF called
<1>5. Called(called.callbacks, Queued(sender), "aborted") =
        Called(sender.callbacks, {sender.writing} \cup Queued(sender), "aborted")
  <2>1. {sender.writing} \cap Queued(sender) = {}
    BY <1>1, WritingNotQueued
  <2>2. sender.callbacks \in [Frames -> Seq({"ok", "aborted"})]
    BY <1>t DEF Senders
  <2>. QED
    BY <1>4, <2>1, <2>2, CalledTwice
<1>6. /\ closed \in Senders
      /\ closed = [called EXCEPT !.callbacks = Called(called.callbacks, Queued(called), "aborted"),
                          !.pendingWrites = << >>,
                          !.invalidated = TRUE,
                          !.emitted = IF called.invalidated THEN called.emitted
                                                            ELSE called.emitted + 1]
  BY <1>3, InvalidateFields
<1>. HIDE DEF closed
<1>e. closed.emitted = IF sender.invalidated THEN sender.emitted ELSE sender.emitted + 1
  BY <1>3, <1>4, <1>6 DEF Senders
<1>7. /\ closed.pendingWrites = << >> /\ closed.invalidated /\ closed.writing = NoFrame
      /\ closed.left = 0
      /\ closed.callbacks =
            Called(sender.callbacks, {sender.writing} \cup Queued(sender), "aborted")
  <2>1. closed.callbacks = Called(called.callbacks, Queued(called), "aborted")
    BY <1>3, <1>6 DEF Senders
  <2>2. closed.pendingWrites = << >> /\ closed.invalidated /\ closed.writing = NoFrame
        /\ closed.left = 0
    BY <1>3, <1>4, <1>6 DEF Senders
  <2>. QED
    BY <1>5, <1>w, <2>1, <2>2
<1>8. /\ t \in Senders /\ t.pendingWrites = << >> /\ t.invalidated /\ t.writing = NoFrame
      /\ t.left = 0 /\ t.writeInProgress = FALSE
      /\ t.callbacks =
            Called(sender.callbacks, {sender.writing} \cup Queued(sender), "aborted")
      /\ t.emitted = closed.emitted
  BY <1>6, <1>7 DEF Senders
<1>. HIDE DEF t, s
<1>9. CASE ~alive
  <2>1. sender.invalidated /\ sender.pendingWrites = << >> /\ Queued(sender) = {}
    BY <1>9 DEF WriterInv, QueuesAreInOrder, Reported, Queued
  <2>. QED
    <3>1. {sender.writing} \cup Queued(sender) = {sender.writing}
      BY <2>1
    <3>. QED
      BY <1>1, <1>u, <1>3, <1>4, <1>9, <2>1, <3>1 DEF Idle
<1>10. CASE alive
  <2>1. Queued(t) = {}
    BY <1>8 DEF Queued
  <2>2. /\ sender' \in Senders
        /\ sender' = [t EXCEPT !.callbacks = Called(t.callbacks, {}, "aborted"),
                               !.pendingWrites = << >>]
    BY <1>1, <1>8, <1>10, <2>1, CheckAborts
  <2>3. Called(t.callbacks, {}, "aborted") = t.callbacks
    BY <1>8, CalledNone DEF Senders
  <2>4. /\ Idle /\ sender'.invalidated /\ sender'.emitted = t.emitted
        /\ sender'.callbacks = t.callbacks /\ ~sender'.writeInProgress
    BY <1>8, <2>2, <2>3 DEF Idle, Senders
  <2>. QED
    BY <1>u, <1>e, <1>8, <1>10, <2>2, <2>4
<1>. QED
  BY <1>t, <1>9, <1>10

\* An invalidation and the destructor abort what waits; the write in progress
\* is left to its completion.
LEMMA CloseEffect ==
    ASSUME WriterInv, SenderReadFails \/ Destroy
    PROVE  /\ sender' \in Senders
           /\ sender'.invalidated
           /\ sender'.pendingWrites = << >>
           /\ sender'.callbacks = Called(sender.callbacks, Queued(sender), "aborted")
           /\ WriteStays
           /\ \/ Destroy /\ sender'.emitted = sender.emitted
              \/ /\ SenderReadFails
                 /\ sender'.emitted = IF sender.invalidated THEN sender.emitted
                                                            ELSE sender.emitted + 1
<1>t. sender \in Senders
  BY DEF WriterInv, TypeOK, Senders
<1>1. CASE SenderReadFails
  <2>. DEFINE s == [sender EXCEPT !.reading = FALSE]
  <2>1. s \in Senders /\ Queued(s) = Queued(sender) /\ sender' = InvalidateSender(s)
    BY <1>t, <1>1 DEF Senders, Queued, SenderReadFails
  <2>2. /\ s.callbacks = sender.callbacks /\ s.invalidated = sender.invalidated
        /\ s.emitted = sender.emitted /\ s.writeInProgress = sender.writeInProgress
        /\ s.writing = sender.writing /\ s.left = sender.left
        /\ s.outcomingFrameSize = sender.outcomingFrameSize
    BY <1>t DEF Senders
  <2>. HIDE DEF s
  <2>3. /\ sender' \in Senders
        /\ sender' = [s EXCEPT !.callbacks = Called(s.callbacks, Queued(s), "aborted"),
                          !.pendingWrites = << >>,
                          !.invalidated = TRUE,
                          !.emitted = IF s.invalidated THEN s.emitted ELSE s.emitted + 1]
    BY <2>1, InvalidateFields
  <2>. QED
    BY <1>1, <2>1, <2>2, <2>3 DEF Senders, WriteStays
<1>2. CASE Destroy
  <2>. DEFINE s == [sender EXCEPT !.invalidated = TRUE]
  <2>1. s \in Senders /\ Queued(s) = Queued(sender) /\ sender' = CheckPendingWrites(s)
    BY <1>t, <1>2 DEF Senders, Queued, Destroy
  <2>2. /\ s.callbacks = sender.callbacks /\ s.invalidated
        /\ s.emitted = sender.emitted /\ s.writeInProgress = sender.writeInProgress
        /\ s.writing = sender.writing /\ s.left = sender.left
        /\ s.outcomingFrameSize = sender.outcomingFrameSize
    BY <1>t DEF Senders
  <2>. HIDE DEF s
  <2>3. /\ sender' \in Senders
        /\ sender' = [s EXCEPT !.callbacks = Called(s.callbacks, Queued(s), "aborted"),
                               !.pendingWrites = << >>]
    BY <2>1, <2>2, CheckAborts
  <2>. QED
    BY <1>2, <2>1, <2>2, <2>3 DEF Senders, WriteStays
<1>. QED
  BY <1>1, <1>2

-----------------------------------------------------------------------------
(* The writer keeps its invariant.                                         *)

\* The types of what the reader has, and of the wire.
ReaderTypes ==
    /\ wire \in Seq(Units)
    /\ receiver \in [phase             : {"size", "frame", "stopped"},
                     incomingFrameSize : Sizes \cup {0},
                     buffer            : Sizes \cup {0},
                     got               : Seq(Units),
                     invalidated       : BOOLEAN,
                     emitted           : Nat]
    /\ delivered \in Seq(Frames \cup {Garbage})

\* The types of what the writer has.
WriterTypes ==
    /\ written \in Seq(Frames)
    /\ posted \in Seq(Frames)
    /\ sender \in Senders
    /\ alive \in BOOLEAN

\* The two halves of the type invariant.
LEMMA TypesSplit == TypeOK <=> WriterTypes /\ ReaderTypes
  BY DEF TypeOK, WriterTypes, ReaderTypes, Senders

\* What is said of the writer in Reported and InvalidatedOnce.
WriterReports ==
    /\ ~alive => sender.invalidated
    /\ ~sender.invalidated => sender.emitted = 0
    /\ sender.emitted <= 1
    /\ alive => (sender.invalidated <=> sender.emitted = 1)

\* And of the reader.
ReaderReports ==
    /\ ~receiver.invalidated => receiver.emitted = 0
    /\ receiver.phase = "stopped" => receiver.invalidated
    /\ receiver.emitted <= 1
    /\ receiver.invalidated => receiver.emitted = 1

\* The two halves of what is said of invalidation.
LEMMA ReportsSplit == Reported /\ InvalidatedOnce <=> WriterReports /\ ReaderReports
  BY DEF Reported, InvalidatedOnce, WriterReports, ReaderReports

\* The part of WriterInv that is the writer's own.
WriterOwn ==
    WriterTypes /\ WriterReports /\ QueuesAreInOrder /\ WritesOneAtATime /\ ReportedLast

\* Steps that leave the writer alone keep what is its own.
LEMMA WriterUnchanged ==
    ASSUME WriterOwn, UNCHANGED <<written, posted, sender, alive>>
    PROVE  WriterOwn'
<1>1. WriterTypes' /\ WriterReports'
  BY DEF WriterOwn, WriterTypes, WriterReports
<1>2. QueuesAreInOrder'
  BY DEF WriterOwn, QueuesAreInOrder, Begun
<1>3. WritesOneAtATime'
  BY DEF WriterOwn, WritesOneAtATime, Begun
<1>4. ReportedLast'
  BY DEF WriterOwn, ReportedLast, Begun
<1>. QED
  BY <1>1, <1>2, <1>3, <1>4 DEF WriterOwn

\* What the callbacks are after a call.
LEMMA CalledAt ==
    ASSUME NEW callbacks, NEW frames, NEW result \in {"ok", "aborted"}, NEW f \in Frames
    PROVE  /\ f \notin frames => Called(callbacks, frames, result)[f] = callbacks[f]
           /\ f \in frames /\ callbacks[f] = << >> =>
                Called(callbacks, frames, result)[f] = <<result>>
<1>1. Append(<< >>, result) = <<result>>
  OBVIOUS
<1>. QED
  BY <1>1 DEF Called

\* Lengths are numbers.
LEMMA Lengths ==
    ASSUME WriterTypes
    PROVE  /\ Len(written) \in Nat /\ Len(posted) \in Nat /\ Len(sender.pendingWrites) \in Nat
           /\ sender.pendingWrites \in Seq(Frames)
           /\ sender.callbacks \in [Frames -> Seq({"ok", "aborted"})]
           /\ sender.left \in Nat /\ sender.emitted \in Nat
           /\ sender.writing \in Frames \cup {NoFrame}
           /\ \A i \in 1 .. Len(written) : written[i] \in Frames
<1>1. sender.pendingWrites \in Seq(Frames)
  BY DEF WriterTypes, Senders
<1>2. /\ sender.callbacks \in [Frames -> Seq({"ok", "aborted"})]
      /\ sender.left \in Nat /\ sender.emitted \in Nat
      /\ sender.writing \in Frames \cup {NoFrame}
  BY DEF WriterTypes, Senders
<1>. QED
  BY <1>1, <1>2 DEF WriterTypes

\* writeFrame adds a frame that was not written before to what is posted.
LEMMA WriteFrameKeeps ==
    ASSUME WriterOwn, NEW f \in Frames, WriteFrame(f)
    PROVE  WriterOwn'
<1>t. WriterTypes /\ QueuesAreInOrder /\ WritesOneAtATime /\ ReportedLast
  BY DEF WriterOwn
<1>l. /\ Len(written) \in Nat /\ Len(posted) \in Nat /\ Len(sender.pendingWrites) \in Nat
      /\ \A i \in 1 .. Len(written) : written[i] \in Frames
  BY <1>t, Lengths
<1>1. /\ alive /\ \A i \in 1 .. Len(written) : written[i] # f
      /\ written' = Append(written, f) /\ posted' = Append(posted, f)
      /\ UNCHANGED <<sender, alive>>
  BY DEF WriteFrame
<1>s. written \in Seq(Frames) /\ posted \in Seq(Frames)
  BY <1>t DEF WriterTypes
<1>2. /\ written' \in Seq(Frames) /\ Len(written') = Len(written) + 1
      /\ \A i \in 1 .. Len(written) : written'[i] = written[i]
      /\ written'[Len(written) + 1] = f
  BY <1>1, <1>s
<1>3. /\ posted' \in Seq(Frames) /\ Len(posted') = Len(posted) + 1
      /\ \A i \in 1 .. Len(posted) : posted'[i] = posted[i]
      /\ posted'[Len(posted) + 1] = f
  BY <1>1, <1>s
<1>4. WriterTypes' /\ WriterReports'
  BY <1>1, <1>2, <1>3 DEF WriterOwn, WriterTypes, WriterReports
<1>5. Begun' = Begun /\ Begun \in Nat
  BY <1>t, <1>l, <1>1, <1>2, <1>3 DEF Begun, QueuesAreInOrder
<1>b. Begun + Len(sender.pendingWrites) + Len(posted) = Len(written)
  BY <1>l, <1>5 DEF Begun
<1>6. QueuesAreInOrder'
  <2>1. \A i, j \in 1 .. Len(written') : written'[i] = written'[j] => i = j
    BY <1>t, <1>l, <1>1, <1>2 DEF QueuesAreInOrder
  <2>2. ASSUME NEW i \in 1 .. Len(posted')
        PROVE  written'[Len(written') - Len(posted') + i] = posted'[i]
    <3>0. Len(written') - Len(posted') + i = Len(written) - Len(posted) + i
      BY <1>l, <1>2, <1>3
    <3>1. CASE i = Len(posted) + 1
      BY <1>l, <1>2, <1>3, <3>0, <3>1
    <3>2. CASE i # Len(posted) + 1
      <4>1. i \in 1 .. Len(posted) /\ Len(written) - Len(posted) + i \in 1 .. Len(written)
        BY <1>l, <1>3, <1>5, <1>b, <3>2
      <4>. QED
        BY <1>t, <1>2, <1>3, <3>0, <4>1 DEF QueuesAreInOrder
    <3>. QED
      BY <3>1, <3>2
  <2>3. ASSUME NEW i \in 1 .. Len(sender'.pendingWrites)
        PROVE  written'[Begun' + i] = sender'.pendingWrites[i]
    <3>1. i \in 1 .. Len(sender.pendingWrites) /\ Begun + i \in 1 .. Len(written)
      BY <1>l, <1>1, <1>5, <1>b
    <3>. QED
      BY <1>t, <1>1, <1>2, <1>5, <3>1 DEF QueuesAreInOrder
  <2>. QED
    BY <1>t, <1>1, <1>5, <2>1, <2>2, <2>3 DEF QueuesAreInOrder
<1>7. WritesOneAtATime'
  <2>1. \A i \in 1 .. Begun : i \in 1 .. Len(written) /\ written'[i] = written[i]
    BY <1>l, <1>2, <1>5, <1>b
  <2>2. sender.writing # NoFrame => Begun \in 1 .. Begun
    BY <1>t, <1>5 DEF WritesOneAtATime
  <2>. QED
    BY <1>t, <1>1, <1>5, <2>1, <2>2 DEF WritesOneAtATime
<1>8. ReportedLast'
  <2>1. sender.callbacks[f] = << >>
    BY <1>t, <1>1 DEF ReportedLast
  <2>2. ASSUME NEW i \in 1 .. Len(written'), i > Begun
        PROVE  sender.callbacks[written'[i]] = << >>
    <3>1. CASE i = Len(written) + 1
      BY <1>2, <2>1, <3>1
    <3>2. CASE i # Len(written) + 1
      <4>1. i \in 1 .. Len(written)
        BY <1>l, <1>2, <3>2
      <4>. QED
        BY <1>t, <1>2, <2>2, <4>1 DEF ReportedLast
    <3>. QED
      BY <3>1, <3>2
  <2>3. ASSUME NEW g \in Frames, \A i \in 1 .. Len(written') : written'[i] # g
        PROVE  sender.callbacks[g] = << >>
    <3>1. \A i \in 1 .. Len(written) : i \in 1 .. Len(written') /\ written[i] # g
      BY <1>l, <1>2, <2>3
    <3>. QED
      BY <1>t, <3>1 DEF ReportedLast
  <2>. QED
    BY <1>t, <1>1, <1>5, <2>2, <2>3 DEF ReportedLast
<1>. QED
  BY <1>4, <1>6, <1>7, <1>8 DEF WriterOwn

\* What WriterInv says of the writer alone and of the reader alone.
LEMMA OwnOfInv == WriterInv <=> WriterOwn /\ ReaderTypes /\ ReaderReports
  BY TypesSplit, ReportsSplit DEF WriterInv, WriterOwn

\* A frame that reaches the writer is the next in the order of the calls.
LEMMA WriteFramePostedKeeps ==
    ASSUME WriterInv, WriteFramePosted
    PROVE  WriterOwn'
<1>t. WriterTypes /\ WriterReports /\ QueuesAreInOrder /\ WritesOneAtATime /\ ReportedLast
  BY OwnOfInv DEF WriterOwn
<1>l. /\ Len(written) \in Nat /\ Len(posted) \in Nat /\ Len(sender.pendingWrites) \in Nat
      /\ \A i \in 1 .. Len(written) : written[i] \in Frames
      /\ sender.pendingWrites \in Seq(Frames)
  BY <1>t, Lengths
<1>1. posted # << >> /\ posted' = Tail(posted) /\ UNCHANGED <<written, alive>>
  BY DEF WriteFramePosted
<1>s. written \in Seq(Frames) /\ posted \in Seq(Frames)
  BY <1>t DEF WriterTypes
<1>2. /\ posted' \in Seq(Frames) /\ Len(posted') = Len(posted) - 1 /\ Len(posted) > 0
      /\ \A i \in 1 .. Len(posted') : posted'[i] = posted[i + 1]
      /\ Head(posted) = posted[1]
  BY <1>1, <1>s
<1>3. PICK h : h = Head(posted)
  OBVIOUS
<1>4. /\ h \in Frames
      /\ sender' \in Senders
      /\ sender'.invalidated = sender.invalidated /\ sender'.emitted = sender.emitted
      /\ \/ /\ ~sender.invalidated /\ alive /\ sender.writing # NoFrame
            /\ sender'.pendingWrites = Append(sender.pendingWrites, h)
            /\ sender'.callbacks = sender.callbacks /\ WriteStays
         \/ /\ ~sender.invalidated /\ alive /\ sender.writing = NoFrame
            /\ sender.pendingWrites = << >> /\ sender'.pendingWrites = << >>
            /\ sender'.callbacks = sender.callbacks /\ Begins(h)
         \/ /\ sender.invalidated
            /\ sender.pendingWrites = << >> /\ sender'.pendingWrites = << >>
            /\ sender'.callbacks = Called(sender.callbacks, {h}, "aborted")
            /\ WriteStays
  BY <1>3, WriteFramePostedEffect
<1>5. WriterTypes' /\ WriterReports'
  BY <1>t, <1>1, <1>2, <1>4 DEF WriterTypes, WriterReports
<1>b. Begun \in Nat /\ Begun + Len(sender.pendingWrites) + Len(posted) = Len(written)
  BY <1>t, <1>l DEF Begun, QueuesAreInOrder
<1>h. /\ Begun + Len(sender.pendingWrites) + 1 \in 1 .. Len(written)
      /\ written[Begun + Len(sender.pendingWrites) + 1] = h
  <2>1. 1 \in 1 .. Len(posted) /\ Len(written) - Len(posted) + 1 = Begun + Len(sender.pendingWrites) + 1
    BY <1>l, <1>2, <1>b
  <2>2. written[Len(written) - Len(posted) + 1] = posted[1]
    BY <1>t, <2>1 DEF QueuesAreInOrder
  <2>3. Begun + Len(sender.pendingWrites) + 1 \in 1 .. Len(written)
    BY <1>l, <1>b, <1>2
  <2>4. posted[1] = h
    BY <1>2, <1>3
  <2>. QED
    BY <2>1, <2>2, <2>3, <2>4
<1>p. ASSUME NEW i \in 1 .. Len(posted')
      PROVE  written'[Len(written') - Len(posted') + i] = posted'[i]
  <2>1. i + 1 \in 1 .. Len(posted) /\ Len(written') - Len(posted') + i = Len(written) - Len(posted) + (i + 1)
    BY <1>l, <1>1, <1>2
  <2>2. written[Len(written) - Len(posted) + (i + 1)] = posted[i + 1]
    BY <1>t, <2>1 DEF QueuesAreInOrder
  <2>. QED
    BY <1>1, <1>2, <2>1, <2>2
<1>6. CASE /\ ~sender.invalidated /\ alive /\ sender.writing # NoFrame
           /\ sender'.pendingWrites = Append(sender.pendingWrites, h)
           /\ sender'.callbacks = sender.callbacks /\ WriteStays
  <2>1. /\ Len(sender'.pendingWrites) = Len(sender.pendingWrites) + 1
        /\ \A i \in 1 .. Len(sender.pendingWrites) : sender'.pendingWrites[i] = sender.pendingWrites[i]
        /\ sender'.pendingWrites[Len(sender.pendingWrites) + 1] = h
    BY <1>l, <1>4, <1>6
  <2>2. Begun' = Begun
    BY <1>l, <1>1, <1>2, <2>1 DEF Begun
  <2>3. QueuesAreInOrder'
    <3>1. ASSUME NEW i \in 1 .. Len(sender'.pendingWrites)
          PROVE  written'[Begun' + i] = sender'.pendingWrites[i]
      <4>1. CASE i = Len(sender.pendingWrites) + 1
        BY <1>1, <1>b, <1>l, <1>h, <2>1, <2>2, <4>1
      <4>2. CASE i # Len(sender.pendingWrites) + 1
        <5>1. i \in 1 .. Len(sender.pendingWrites)
          BY <1>l, <2>1, <4>2
        <5>. QED
          BY <1>t, <1>1, <2>1, <2>2, <5>1 DEF QueuesAreInOrder
      <4>. QED
        BY <4>1, <4>2
    <3>. QED
      BY <1>t, <1>1, <1>4, <1>6, <1>b, <1>p, <2>2, <3>1 DEF QueuesAreInOrder
  <2>4. WritesOneAtATime'
    BY <1>t, <1>1, <1>4, <1>6, <2>2 DEF WritesOneAtATime, WriteStays
  <2>5. ReportedLast'
    BY <1>t, <1>1, <1>6, <2>2 DEF ReportedLast, WriteStays
  <2>. QED
    BY <1>5, <2>3, <2>4, <2>5 DEF WriterOwn
<1>7. CASE /\ ~sender.invalidated /\ alive /\ sender.writing = NoFrame
           /\ sender.pendingWrites = << >> /\ sender'.pendingWrites = << >>
           /\ sender'.callbacks = sender.callbacks /\ Begins(h)
  <2>1. Len(sender.pendingWrites) = 0 /\ Len(sender'.pendingWrites) = 0
    BY <1>7
  <2>2. Begun' = Begun + 1 /\ Begun' \in 1 .. Begun' /\ Begun' \in 1 .. Len(written) /\ written[Begun'] = h
    BY <1>l, <1>b, <1>h, <1>1, <1>2, <2>1 DEF Begun
  <2>3. QueuesAreInOrder'
    BY <1>t, <1>1, <1>4, <1>7, <1>b, <1>p, <2>1, <2>2 DEF QueuesAreInOrder
  <2>4. WritesOneAtATime'
    <3>1. h # NoFrame /\ Size[h] + 1 \in Nat
      BY <1>4, SocketWrapperAssumption
    <3>. QED
      BY <1>1, <1>4, <1>7, <2>2, <3>1 DEF WritesOneAtATime, Begins
  <2>5. ReportedLast'
    <3>1. \A i \in 1 .. Len(written) : i > Begun' => i > Begun
      BY <1>b, <2>2
    <3>2. sender.callbacks[h] = << >>
      BY <1>t, <1>b, <2>2 DEF ReportedLast
    <3>. QED
      BY <1>t, <1>1, <1>7, <3>1, <3>2 DEF ReportedLast, Begins
  <2>. QED
    BY <1>5, <2>3, <2>4, <2>5 DEF WriterOwn
<1>8. CASE /\ sender.invalidated
           /\ sender.pendingWrites = << >> /\ sender'.pendingWrites = << >>
           /\ sender'.callbacks = Called(sender.callbacks, {h}, "aborted")
           /\ WriteStays
  <2>1. Len(sender.pendingWrites) = 0 /\ Len(sender'.pendingWrites) = 0
    BY <1>8
  <2>2. Begun' = Begun + 1 /\ Begun' \in 1 .. Len(written) /\ written[Begun'] = h
    BY <1>l, <1>b, <1>h, <1>1, <1>2, <2>1 DEF Begun
  <2>3. QueuesAreInOrder'
    BY <1>t, <1>1, <1>4, <1>8, <1>b, <1>p, <2>1, <2>2 DEF QueuesAreInOrder
  <2>4. WritesOneAtATime'
    <3>1. \A i \in 1 .. Begun : i \in 1 .. Begun'
      BY <1>b, <2>2
    <3>. QED
      BY <1>t, <1>1, <1>4, <1>8, <3>1 DEF WritesOneAtATime, WriteStays
  <2>5. ReportedLast'
    <3>1. \A f \in Frames : f # h => sender'.callbacks[f] = sender.callbacks[f]
      BY <1>8, CalledAt
    <3>2. \A i \in 1 .. Len(written) : i > Begun' => i > Begun /\ written[i] # h
      BY <1>t, <1>b, <2>2 DEF QueuesAreInOrder
    <3>3. sender.writing # NoFrame => sender.writing # h /\ sender.writing \in Frames
      <4>1. \A i \in 1 .. Begun : i \in 1 .. Len(written) /\ i # Begun'
        BY <1>b, <1>l, <2>2
      <4>. QED
        BY <1>t, <1>l, <2>2, <4>1 DEF WritesOneAtATime, QueuesAreInOrder
    <3>4. \A f \in Frames : (\A i \in 1 .. Len(written) : written[i] # f) => f # h
      BY <2>2
    <3>. QED
      BY <1>t, <1>l, <1>1, <1>8, <3>1, <3>2, <3>3, <3>4 DEF ReportedLast, WriteStays
  <2>. QED
    BY <1>5, <2>3, <2>4, <2>5 DEF WriterOwn
<1>. QED
  BY <1>4, <1>6, <1>7, <1>8

\* A unit that leaves changes how much is left of the write, and no more.
LEMMA TransferKeeps ==
    ASSUME WriterInv, Transfer
    PROVE  /\ WriterOwn'
           /\ sender.writing \in Frames /\ sender.left \in Nat \ {0} /\ ~sender.invalidated
           /\ sender'.writing = sender.writing /\ sender'.left = sender.left - 1
           /\ sender'.pendingWrites = sender.pendingWrites
           /\ sender'.callbacks = sender.callbacks
           /\ sender'.invalidated = sender.invalidated
<1>t. WriterTypes /\ WriterReports /\ QueuesAreInOrder /\ WritesOneAtATime /\ ReportedLast
  BY OwnOfInv DEF WriterOwn
<1>1. /\ sender.writing # NoFrame /\ sender.left > 0 /\ ~sender.invalidated
      /\ sender' = [sender EXCEPT !.left = sender.left - 1]
      /\ UNCHANGED <<written, posted, alive>>
  BY DEF Transfer
<1>2. sender.left \in Nat \ {0} /\ sender.writing \in Frames
  BY <1>t, <1>1, Lengths
<1>s. sender \in Senders
  BY <1>t DEF WriterTypes
<1>3. sender' \in Senders
  <2>1. sender.left - 1 \in Nat
    BY <1>2
  <2>. QED
    BY <1>s, <1>1, <2>1 DEF Senders
<1>4. /\ sender'.pendingWrites = sender.pendingWrites /\ sender'.invalidated = sender.invalidated
      /\ sender'.emitted = sender.emitted /\ sender'.callbacks = sender.callbacks
      /\ sender'.writing = sender.writing /\ sender'.left = sender.left - 1
      /\ sender'.outcomingFrameSize = sender.outcomingFrameSize
      /\ sender'.writeInProgress = sender.writeInProgress
  BY <1>s, <1>1 DEF Senders
<1>5. Begun' = Begun
  BY <1>1, <1>4 DEF Begun
<1>6. WriterTypes' /\ WriterReports'
  BY <1>t, <1>1, <1>3, <1>4 DEF WriterTypes, WriterReports
<1>7. QueuesAreInOrder'
  BY <1>t, <1>1, <1>4, <1>5 DEF QueuesAreInOrder
<1>8. WritesOneAtATime'
  <2>1. sender'.left <= Size[sender.writing] + 1
    BY <1>t, <1>1, <1>2, <1>4, SocketWrapperAssumption DEF WritesOneAtATime
  <2>. QED
    BY <1>t, <1>1, <1>4, <1>5, <2>1 DEF WritesOneAtATime
<1>9. ReportedLast'
  BY <1>t, <1>1, <1>4, <1>5 DEF ReportedLast
<1>. QED
  BY <1>1, <1>2, <1>4, <1>6, <1>7, <1>8, <1>9 DEF WriterOwn

\* A write that succeeds is reported; the next frame in order begins.
LEMMA WriteSucceedsKeeps ==
    ASSUME WriterInv, WriteSucceeds
    PROVE  WriterOwn'
<1>t. WriterTypes /\ WriterReports /\ QueuesAreInOrder /\ WritesOneAtATime /\ ReportedLast
  BY OwnOfInv DEF WriterOwn
<1>l. /\ Len(written) \in Nat /\ Len(posted) \in Nat /\ Len(sender.pendingWrites) \in Nat
      /\ \A i \in 1 .. Len(written) : written[i] \in Frames
      /\ sender.pendingWrites \in Seq(Frames)
  BY <1>t, Lengths
<1>1. UNCHANGED <<written, posted, alive>>
  BY DEF WriteSucceeds, WriteCompletes
<1>2. /\ sender.writing \in Frames /\ sender.left = 0
      /\ sender' \in Senders
      /\ sender'.invalidated = sender.invalidated /\ sender'.emitted = sender.emitted
      /\ sender'.callbacks = Called(sender.callbacks, {sender.writing}, "ok")
      /\ \/ /\ sender.pendingWrites = << >> /\ Idle
            /\ alive => ~sender'.writeInProgress
         \/ /\ alive /\ ~sender.invalidated /\ sender.pendingWrites # << >>
            /\ sender'.pendingWrites = Tail(sender.pendingWrites)
            /\ Begins(Head(sender.pendingWrites))
  BY WriteSucceedsEffect
<1>3. WriterTypes' /\ WriterReports'
  BY <1>t, <1>1, <1>2 DEF WriterTypes, WriterReports
<1>b. Begun \in Nat /\ Begun + Len(sender.pendingWrites) + Len(posted) = Len(written)
  BY <1>t, <1>l DEF Begun, QueuesAreInOrder
<1>n. sender.writing # NoFrame
  BY <1>2, SocketWrapperAssumption
<1>w. PICK k \in 1 .. Begun : written[k] = sender.writing
  BY <1>t, <1>n DEF WritesOneAtATime
<1>k. k \in 1 .. Len(written)
  BY <1>b, <1>l
<1>c. \A f \in Frames : f # sender.writing => sender'.callbacks[f] = sender.callbacks[f]
  BY <1>2, CalledAt
<1>r. /\ \A i \in 1 .. Len(written) : i > Begun => sender'.callbacks[written[i]] = << >>
      /\ \A f \in Frames : (\A i \in 1 .. Len(written) : written[i] # f) => sender'.callbacks[f] = << >>
  <2>1. \A i \in 1 .. Len(written) : i > Begun => written[i] # sender.writing
    <3>1. \A i \in 1 .. Len(written) : i > Begun => i # k
      BY <1>b
    <3>. QED
      BY <1>t, <1>w, <1>k, <3>1 DEF QueuesAreInOrder
  <2>2. \A f \in Frames : (\A i \in 1 .. Len(written) : written[i] # f) => f # sender.writing
    BY <1>w, <1>k
  <2>. QED
    BY <1>t, <1>l, <1>c, <2>1, <2>2 DEF ReportedLast
<1>4. CASE /\ sender.pendingWrites = << >> /\ Idle
           /\ alive => ~sender'.writeInProgress
  <2>1. sender'.pendingWrites = << >> /\ Begun' = Begun
    BY <1>1, <1>4 DEF Begun, Idle
  <2>2. QueuesAreInOrder'
    BY <1>t, <1>1, <1>2, <1>4, <2>1 DEF QueuesAreInOrder
  <2>3. WritesOneAtATime'
    BY <1>1, <1>4 DEF WritesOneAtATime, Idle
  <2>4. ReportedLast'
    BY <1>1, <1>4, <1>r, <2>1 DEF ReportedLast, Idle
  <2>. QED
    BY <1>3, <2>2, <2>3, <2>4 DEF WriterOwn
<1>5. CASE /\ alive /\ ~sender.invalidated /\ sender.pendingWrites # << >>
           /\ sender'.pendingWrites = Tail(sender.pendingWrites)
           /\ Begins(Head(sender.pendingWrites))
  <2>1. /\ Len(sender.pendingWrites) > 0
        /\ Len(sender'.pendingWrites) = Len(sender.pendingWrites) - 1
        /\ \A i \in 1 .. Len(sender'.pendingWrites) :
                sender'.pendingWrites[i] = sender.pendingWrites[i + 1]
        /\ Head(sender.pendingWrites) = sender.pendingWrites[1]
        /\ Head(sender.pendingWrites) \in Frames
    BY <1>l, <1>5
  <2>2. PICK h \in Frames : h = Head(sender.pendingWrites)
    BY <2>1
  <2>3. Begun' = Begun + 1 /\ Begun + 1 \in 1 .. Begun' /\ Begun + 1 \in 1 .. Len(written)
    BY <1>l, <1>b, <1>1, <2>1 DEF Begun
  <2>4. written[Begun + 1] = h
    <3>1. 1 \in 1 .. Len(sender.pendingWrites)
      BY <1>l, <2>1
    <3>. QED
      BY <1>t, <2>1, <2>2, <3>1 DEF QueuesAreInOrder
  <2>5. QueuesAreInOrder'
    <3>1. ASSUME NEW i \in 1 .. Len(sender'.pendingWrites)
          PROVE  written'[Begun' + i] = sender'.pendingWrites[i]
      <4>1. i + 1 \in 1 .. Len(sender.pendingWrites) /\ Begun' + i = Begun + (i + 1)
        BY <1>l, <1>b, <2>1, <2>3
      <4>2. written[Begun + (i + 1)] = sender.pendingWrites[i + 1]
        BY <1>t, <4>1 DEF QueuesAreInOrder
      <4>. QED
        BY <1>1, <2>1, <4>1, <4>2
    <3>. QED
      BY <1>t, <1>1, <1>2, <1>5, <1>b, <2>3, <3>1 DEF QueuesAreInOrder
  <2>6. WritesOneAtATime'
    <3>1. h # NoFrame /\ Size[h] + 1 \in Nat
      BY <2>2, SocketWrapperAssumption
    <3>. QED
      BY <1>1, <1>5, <2>2, <2>3, <2>4, <3>1 DEF WritesOneAtATime, Begins
  <2>7. ReportedLast'
    <3>1. \A i \in 1 .. Len(written) : i > Begun' => i > Begun
      BY <1>b, <2>3
    <3>2. sender'.callbacks[h] = << >>
      BY <1>r, <1>b, <2>3, <2>4
    <3>. QED
      BY <1>1, <1>5, <1>r, <2>2, <3>1, <3>2 DEF ReportedLast, Begins
  <2>. QED
    BY <1>3, <2>5, <2>6, <2>7 DEF WriterOwn
<1>. QED
  BY <1>2, <1>4, <1>5

\* Once the writer is closed, all but the posted frames have left the queues,
\* and those that were reported on in this step were not posted.
LEMMA ClosedQueues ==
    ASSUME WriterOwn, UNCHANGED <<written, posted>>, NEW done,
           sender'.invalidated, sender'.pendingWrites = << >>,
           sender'.callbacks = Called(sender.callbacks, done, "aborted"),
           done \subseteq {sender.writing} \cup Queued(sender)
    PROVE  /\ QueuesAreInOrder'
           /\ Begun <= Begun'
           /\ \A i \in 1 .. Len(written) : i > Begun' => sender'.callbacks[written[i]] = << >>
           /\ \A f \in Frames : (\A i \in 1 .. Len(written) : written[i] # f)
                                        => sender'.callbacks[f] = << >>
<1>t. WriterTypes /\ WriterReports /\ QueuesAreInOrder /\ WritesOneAtATime /\ ReportedLast
  BY DEF WriterOwn
<1>l. /\ Len(written) \in Nat /\ Len(posted) \in Nat /\ Len(sender.pendingWrites) \in Nat
      /\ \A i \in 1 .. Len(written) : written[i] \in Frames
      /\ sender.pendingWrites \in Seq(Frames)
      /\ sender.writing \in Frames \cup {NoFrame}
  BY <1>t, Lengths
<1>b. Begun \in Nat /\ Begun + Len(sender.pendingWrites) + Len(posted) = Len(written)
  BY <1>t, <1>l DEF Begun, QueuesAreInOrder
<1>1. Len(sender'.pendingWrites) = 0
  OBVIOUS
<1>2. Begun' = Begun + Len(sender.pendingWrites) /\ Begun' \in Nat
  BY <1>l, <1>b, <1>1 DEF Begun
<1>3. QueuesAreInOrder'
  BY <1>t, <1>1, <1>2 DEF QueuesAreInOrder
<1>4. ASSUME NEW f \in done, f \in Frames PROVE \E i \in 1 .. Len(written) : i <= Begun' /\ written[i] = f
  <2>1. CASE f = sender.writing
    <3>1. f # NoFrame
      BY <1>4, SocketWrapperAssumption
    <3>2. PICK i \in 1 .. Begun : written[i] = f
      BY <1>t, <2>1, <3>1 DEF WritesOneAtATime
    <3>3. i \in 1 .. Len(written) /\ i <= Begun'
      BY <1>l, <1>b, <1>2
    <3>. QED
      BY <3>2, <3>3
  <2>2. CASE f \in Queued(sender)
    <3>1. PICK j \in 1 .. Len(sender.pendingWrites) : sender.pendingWrites[j] = f
      BY <2>2 DEF Queued
    <3>2. written[Begun + j] = f
      BY <1>t, <3>1 DEF QueuesAreInOrder
    <3>3. Begun + j \in 1 .. Len(written) /\ Begun + j <= Begun'
      BY <1>l, <1>b, <1>2
    <3>. QED
      BY <3>2, <3>3
  <2>. QED
    BY <2>1, <2>2
<1>5. \A f \in Frames : f \notin done => sender'.callbacks[f] = sender.callbacks[f]
  BY CalledAt
<1>6. ASSUME NEW i \in 1 .. Len(written), i > Begun' PROVE sender'.callbacks[written[i]] = << >>
  <2>1. written[i] \notin done
    <3>. SUFFICES ASSUME written[i] \in done PROVE FALSE
      OBVIOUS
    <3>1. PICK j \in 1 .. Len(written) : j <= Begun' /\ written[j] = written[i]
      BY <1>l, <1>4
    <3>2. i = j
      BY <1>t, <3>1 DEF QueuesAreInOrder
    <3>. QED
      BY <1>2, <1>6, <3>1, <3>2
  <2>2. i > Begun
    BY <1>l, <1>b, <1>2, <1>6
  <2>. QED
    BY <1>t, <1>l, <1>5, <2>1, <2>2 DEF ReportedLast
<1>7. ASSUME NEW f \in Frames, \A i \in 1 .. Len(written) : written[i] # f
      PROVE  sender'.callbacks[f] = << >>
  BY <1>t, <1>4, <1>5, <1>7 DEF ReportedLast
<1>8. Begun <= Begun'
  BY <1>l, <1>b, <1>2
<1>. QED
  BY <1>3, <1>6, <1>7, <1>8

\* A write that fails closes the writer.
LEMMA WriteFailsKeeps ==
    ASSUME WriterInv, WriteFails
    PROVE  WriterOwn'
<1>t. WriterOwn /\ WriterTypes /\ WriterReports
  BY OwnOfInv DEF WriterOwn
<1>1. UNCHANGED <<written, posted, alive>>
  BY DEF WriteFails, WriteCompletes
<1>2. /\ sender' \in Senders
      /\ sender'.invalidated
      /\ sender'.emitted = IF sender.invalidated THEN sender.emitted ELSE sender.emitted + 1
      /\ sender'.callbacks =
            Called(sender.callbacks, {sender.writing} \cup Queued(sender), "aborted")
      /\ Idle
      /\ alive => ~sender'.writeInProgress
  BY WriteFailsEffect
<1>3. WriterTypes'
  BY <1>t, <1>1, <1>2 DEF WriterTypes
<1>4. WriterReports'
  BY <1>t, <1>1, <1>2 DEF WriterReports
<1>5. /\ QueuesAreInOrder'
      /\ \A i \in 1 .. Len(written) : i > Begun' => sender'.callbacks[written[i]] = << >>
      /\ \A f \in Frames : (\A i \in 1 .. Len(written) : written[i] # f)
                                   => sender'.callbacks[f] = << >>
  BY <1>t, <1>1, <1>2, ClosedQueues DEF Idle
<1>6. WritesOneAtATime'
  BY <1>1, <1>2 DEF WritesOneAtATime, Idle
<1>7. ReportedLast'
  BY <1>1, <1>2, <1>5 DEF ReportedLast, Idle
<1>. QED
  BY <1>3, <1>4, <1>5, <1>6, <1>7 DEF WriterOwn

\* So do an error of its own read and its destructor.
LEMMA CloseKeeps ==
    ASSUME WriterInv, SenderReadFails \/ Destroy
    PROVE  WriterOwn'
<1>t. WriterOwn /\ WriterTypes /\ WriterReports /\ WritesOneAtATime /\ ReportedLast
  BY OwnOfInv DEF WriterOwn
<1>1. UNCHANGED <<written, posted>> /\ alive' \in BOOLEAN /\ (alive' => alive)
  BY <1>t DEF SenderReadFails, Destroy, WriterTypes
<1>2. /\ sender' \in Senders
      /\ sender'.invalidated
      /\ sender'.pendingWrites = << >>
      /\ sender'.callbacks = Called(sender.callbacks, Queued(sender), "aborted")
      /\ WriteStays
      /\ \/ Destroy /\ sender'.emitted = sender.emitted
         \/ /\ SenderReadFails
            /\ sender'.emitted = IF sender.invalidated THEN sender.emitted
                                                       ELSE sender.emitted + 1
  BY CloseEffect
<1>3. WriterTypes'
  BY <1>t, <1>1, <1>2 DEF WriterTypes
<1>4. WriterReports'
  BY <1>t, <1>1, <1>2 DEF WriterReports, Destroy, SenderReadFails
<1>5. /\ QueuesAreInOrder'
      /\ Begun <= Begun'
      /\ \A i \in 1 .. Len(written) : i > Begun' => sender'.callbacks[written[i]] = << >>
      /\ \A f \in Frames : (\A i \in 1 .. Len(written) : written[i] # f)
                                   => sender'.callbacks[f] = << >>
  BY <1>t, <1>1, <1>2, ClosedQueues
<1>6. WritesOneAtATime'
  <2>1. Begun \in Nat /\ Begun' \in Nat
    BY <1>t, <1>5 DEF WriterOwn, QueuesAreInOrder
  <2>2. \A i \in 1 .. Begun : i \in 1 .. Begun'
    BY <1>5, <2>1
  <2>. QED
    BY <1>t, <1>1, <1>2, <2>2 DEF WritesOneAtATime, WriteStays
<1>7. ReportedLast'
  <2>1. sender.writing # NoFrame => sender'.callbacks[sender.writing] = << >>
    <3>. SUFFICES ASSUME sender.writing # NoFrame
                  PROVE  sender'.callbacks[sender.writing] = << >>
      OBVIOUS
    <3>1. sender.writing \in Frames /\ sender.writing \notin Queued(sender)
      BY <1>t, Lengths, WritingNotQueued
    <3>. QED
      BY <1>t, <1>2, <3>1, CalledAt DEF ReportedLast
  <2>. QED
    BY <1>1, <1>2, <1>5, <2>1 DEF ReportedLast, WriteStays
<1>. QED
  BY <1>3, <1>4, <1>5, <1>6, <1>7 DEF WriterOwn

-----------------------------------------------------------------------------
(* The reader keeps its own.                                               *)

Receivers == [phase             : {"size", "frame", "stopped"},
              incomingFrameSize : Sizes \cup {0},
              buffer            : Sizes \cup {0},
              got               : Seq(Units),
              invalidated       : BOOLEAN,
              emitted           : Nat]

\* The reader's half of InvalidateReceiver.
LEMMA InvalidateReceiverFields ==
    ASSUME NEW r \in Receivers
    PROVE  /\ InvalidateReceiver(r) \in Receivers
           /\ InvalidateReceiver(r).invalidated
           /\ InvalidateReceiver(r).emitted = IF r.invalidated THEN r.emitted ELSE r.emitted + 1
           /\ InvalidateReceiver(r).phase = r.phase
           /\ InvalidateReceiver(r).incomingFrameSize = r.incomingFrameSize
           /\ InvalidateReceiver(r).buffer = r.buffer
           /\ InvalidateReceiver(r).got = r.got
<1>1. r.emitted \in Nat /\ r.emitted + 1 \in Nat
  BY DEF Receivers
<1>. QED
  BY <1>1 DEF InvalidateReceiver, Receivers

\* A size that is read fits the buffer, which was kept or resized for it, or
\* the reader stops.
LEMMA ReadFrameSizeEffect ==
    ASSUME ReaderTypes, ReadFrameSize
    PROVE  /\ wire # << >> /\ Head(wire) \in Units /\ wire' = Tail(wire)
           /\ receiver.phase = "size" /\ ~receiver.invalidated
           /\ receiver' \in Receivers /\ receiver'.got = receiver.got
           /\ receiver'.incomingFrameSize \in SizesRead(Head(wire))
           /\ \/ /\ receiver'.phase = "frame" /\ ~receiver'.invalidated
                 /\ receiver'.emitted = receiver.emitted
                 /\ receiver'.incomingFrameSize <= receiver'.buffer
                 /\ receiver'.buffer > MaxReuseSize => receiver'.buffer = receiver'.incomingFrameSize
              \/ /\ receiver'.phase = "stopped" /\ receiver'.invalidated
                 /\ receiver'.emitted = receiver.emitted + 1
<1>t. receiver \in Receivers /\ wire \in Seq(Units)
  BY DEF ReaderTypes, Receivers
<1>1. receiver.phase = "size" /\ ~receiver.invalidated /\ wire # << >> /\ wire' = Tail(wire)
  BY DEF ReadFrameSize
<1>2. Head(wire) \in Units
  BY <1>t, <1>1
<1>3. SizesRead(Head(wire)) \subseteq Sizes
  BY <1>2 DEF SizesRead, Units
<1>4. PICK size \in SizesRead(Head(wire)) : \E buffer \in Resized(receiver.buffer, size) :
        LET r == [receiver EXCEPT !.incomingFrameSize = size, !.buffer = buffer]
        IN  receiver' = IF buffer < size
                        THEN [InvalidateReceiver(r) EXCEPT !.phase = "stopped"]
                        ELSE [r EXCEPT !.phase = "frame"]
  BY DEF ReadFrameSize
<1>5. PICK buffer \in Resized(receiver.buffer, size) :
        LET r == [receiver EXCEPT !.incomingFrameSize = size, !.buffer = buffer]
        IN  receiver' = IF buffer < size
                        THEN [InvalidateReceiver(r) EXCEPT !.phase = "stopped"]
                        ELSE [r EXCEPT !.phase = "frame"]
  BY <1>4
<1>n. size \in Nat /\ size \in Sizes /\ receiver.buffer \in Nat /\ receiver.buffer \in Sizes \cup {0}
  <2>1. Sizes \subseteq Nat
    BY SocketWrapperAssumption DEF Sizes
  <2>. QED
    BY <1>t, <1>3, <1>4, <2>1 DEF Receivers
<1>6. /\ buffer \in Sizes \cup {0} /\ buffer \in Nat
      /\ buffer >= size => (buffer > MaxReuseSize => buffer = size)
  BY <1>5, <1>n, SocketWrapperAssumption DEF Resized
<1>. DEFINE r == [receiver EXCEPT !.incomingFrameSize = size, !.buffer = buffer]
<1>7. /\ r \in Receivers /\ r.incomingFrameSize = size /\ r.buffer = buffer /\ r.got = receiver.got
      /\ ~r.invalidated /\ r.emitted = receiver.emitted
  BY <1>t, <1>1, <1>n, <1>6 DEF Receivers
<1>8. receiver' = IF buffer < size
                  THEN [InvalidateReceiver(r) EXCEPT !.phase = "stopped"]
                  ELSE [r EXCEPT !.phase = "frame"]
  BY <1>5
<1>. HIDE DEF r
<1>9. CASE buffer < size
  <2>1. /\ InvalidateReceiver(r) \in Receivers
        /\ InvalidateReceiver(r).invalidated
        /\ InvalidateReceiver(r).emitted = IF r.invalidated THEN r.emitted ELSE r.emitted + 1
        /\ InvalidateReceiver(r).incomingFrameSize = r.incomingFrameSize
        /\ InvalidateReceiver(r).got = r.got
    BY <1>7, InvalidateReceiverFields
  <2>2. receiver' = [InvalidateReceiver(r) EXCEPT !.phase = "stopped"]
    BY <1>8, <1>9
  <2>3. receiver' \in Receivers
    BY <2>1, <2>2 DEF Receivers
  <2>4. /\ receiver'.phase = "stopped" /\ receiver'.invalidated
        /\ receiver'.emitted = receiver.emitted + 1
        /\ receiver'.incomingFrameSize = size /\ receiver'.got = receiver.got
    BY <1>7, <2>1, <2>2 DEF Receivers
  <2>. QED
    BY <1>1, <1>2, <1>4, <2>3, <2>4
<1>10. CASE ~(buffer < size)
  <2>1. receiver' = [r EXCEPT !.phase = "frame"]
    BY <1>8, <1>10
  <2>2. /\ receiver' \in Receivers
        /\ receiver'.phase = "frame" /\ ~receiver'.invalidated
        /\ receiver'.emitted = receiver.emitted
        /\ receiver'.incomingFrameSize = size /\ receiver'.got = receiver.got
        /\ receiver'.buffer = buffer
    BY <1>7, <2>1 DEF Receivers
  <2>3. buffer >= size
    BY <1>6, <1>10, <1>n
  <2>. QED
    BY <1>1, <1>2, <1>4, <1>6, <2>2, <2>3
<1>. QED
  BY <1>9, <1>10

\* Bytes of a frame are collected.
LEMMA ReadFrameEffect ==
    ASSUME ReaderTypes, ReadFrame
    PROVE  /\ wire # << >> /\ Head(wire) \in Units /\ wire' = Tail(wire)
           /\ receiver' \in Receivers
           /\ receiver.phase = "frame" /\ receiver'.phase = "frame"
           /\ ~receiver.invalidated /\ ~receiver'.invalidated
           /\ receiver'.emitted = receiver.emitted
           /\ receiver'.buffer = receiver.buffer
           /\ receiver'.incomingFrameSize = receiver.incomingFrameSize
           /\ Len(receiver.got) < receiver.incomingFrameSize
           /\ receiver'.got = Append(receiver.got, Head(wire))
<1>t. receiver \in Receivers /\ wire \in Seq(Units)
  BY DEF ReaderTypes, Receivers
<1>1. /\ receiver.phase = "frame" /\ ~receiver.invalidated /\ wire # << >> /\ wire' = Tail(wire)
      /\ Len(receiver.got) < receiver.incomingFrameSize
      /\ receiver' = [receiver EXCEPT !.got = Append(receiver.got, Head(wire))]
  BY DEF ReadFrame
<1>2. Head(wire) \in Units
  BY <1>t, <1>1
<1>3. Append(receiver.got, Head(wire)) \in Seq(Units)
  <2>1. receiver.got \in Seq(Units)
    BY <1>t DEF Receivers
  <2>. QED
    BY <1>2, <2>1
<1>. QED
  BY <1>t, <1>1, <1>2, <1>3 DEF Receivers

\* A frame is delivered and the next size is awaited.
LEMMA IncomingFrameEffect ==
    ASSUME ReaderTypes, IncomingFrame
    PROVE  /\ receiver' \in Receivers
           /\ receiver.phase = "frame" /\ receiver'.phase = "size"
           /\ receiver'.invalidated = receiver.invalidated
           /\ receiver'.emitted = receiver.emitted
           /\ receiver'.got = << >>
           /\ Len(receiver.got) = receiver.incomingFrameSize
           /\ delivered' = Append(delivered, Decode(receiver.got))
           /\ delivered' \in Seq(Frames \cup {Garbage})
<1>t. receiver \in Receivers /\ delivered \in Seq(Frames \cup {Garbage})
  BY DEF ReaderTypes, Receivers
<1>1. /\ receiver.phase = "frame" /\ Len(receiver.got) = receiver.incomingFrameSize
      /\ delivered' = Append(delivered, Decode(receiver.got))
      /\ receiver' = [receiver EXCEPT !.phase = "size", !.got = << >>]
  BY DEF IncomingFrame
<1>2. Decode(receiver.got) \in Frames \cup {Garbage}
  <2>. DEFINE whole == {f \in Frames : Len(receiver.got) = Size[f]
                             /\ \A i \in 1 .. Len(receiver.got) : receiver.got[i] = <<"body", f>>}
  <2>1. Decode(receiver.got) = IF whole = {} THEN Garbage ELSE CHOOSE f \in whole : TRUE
    BY DEF Decode
  <2>2. whole # {} => (CHOOSE f \in whole : TRUE) \in whole
    OBVIOUS
  <2>3. whole \subseteq Frames
    OBVIOUS
  <2>. HIDE DEF whole
  <2>. QED
    BY <2>1, <2>2, <2>3
<1>3. delivered' \in Seq(Frames \cup {Garbage})
  BY <1>t, <1>1, <1>2
<1>4. << >> \in Seq(Units)
  OBVIOUS
<1>. QED
  BY <1>t, <1>1, <1>3, <1>4 DEF Receivers

\* An error of a read or of a write of the reader's own invalidates it.
LEMMA ReaderClosesEffect ==
    ASSUME ReaderTypes, ReadFails \/ ReceiverWriteFails
    PROVE  /\ receiver' \in Receivers
           /\ receiver'.invalidated
           /\ receiver'.emitted = IF receiver.invalidated THEN receiver.emitted ELSE receiver.emitted + 1
           /\ receiver'.phase \in {receiver.phase, "stopped"}
           /\ receiver'.buffer = receiver.buffer
           /\ receiver'.incomingFrameSize = receiver.incomingFrameSize
           /\ receiver'.got = receiver.got
<1>t. receiver \in Receivers
  BY DEF ReaderTypes, Receivers
<1>1. /\ InvalidateReceiver(receiver) \in Receivers
      /\ InvalidateReceiver(receiver).invalidated
      /\ InvalidateReceiver(receiver).emitted = IF receiver.invalidated THEN receiver.emitted ELSE receiver.emitted + 1
      /\ InvalidateReceiver(receiver).phase = receiver.phase
      /\ InvalidateReceiver(receiver).incomingFrameSize = receiver.incomingFrameSize
      /\ InvalidateReceiver(receiver).buffer = receiver.buffer
      /\ InvalidateReceiver(receiver).got = receiver.got
  BY <1>t, InvalidateReceiverFields
<1>2. CASE ReadFails
  <2>1. receiver' = [InvalidateReceiver(receiver) EXCEPT !.phase = "stopped"]
    BY <1>2 DEF ReadFails
  <2>2. receiver' \in Receivers
    BY <1>1, <2>1 DEF Receivers
  <2>3. /\ receiver'.phase = "stopped"
        /\ receiver'.invalidated = InvalidateReceiver(receiver).invalidated
        /\ receiver'.emitted = InvalidateReceiver(receiver).emitted
        /\ receiver'.incomingFrameSize = InvalidateReceiver(receiver).incomingFrameSize
        /\ receiver'.buffer = InvalidateReceiver(receiver).buffer
        /\ receiver'.got = InvalidateReceiver(receiver).got
    BY <1>1, <2>1 DEF Receivers
  <2>. QED
    BY <1>1, <2>2, <2>3
<1>3. CASE ReceiverWriteFails
  BY <1>1, <1>3 DEF ReceiverWriteFails
<1>. QED
  BY <1>2, <1>3

\* What belongs to the reader alone.
ReaderOwn == ReaderTypes /\ ReaderReports /\ BufferFits

\* The steps of the reader keep it.
LEMMA ReaderKeeps ==
    ASSUME ReaderOwn, ReadFrameSize \/ ReadFrame \/ IncomingFrame \/ ReadFails \/ ReceiverWriteFails
    PROVE  ReaderOwn' /\ UNCHANGED <<written, posted, sender, alive>>
<1>t. ReaderTypes /\ ReaderReports /\ BufferFits /\ wire \in Seq(Units)
  BY DEF ReaderOwn, ReaderTypes
<1>u. UNCHANGED <<written, posted, sender, alive>>
  BY DEF ReadFrameSize, ReadFrame, IncomingFrame, ReadFails, ReceiverWriteFails
<1>1. CASE ReadFrameSize
  <2>1. /\ wire # << >> /\ wire' = Tail(wire)
        /\ ~receiver.invalidated
        /\ receiver' \in Receivers
        /\ \/ /\ receiver'.phase = "frame" /\ ~receiver'.invalidated
              /\ receiver'.emitted = receiver.emitted
              /\ receiver'.incomingFrameSize <= receiver'.buffer
              /\ receiver'.buffer > MaxReuseSize => receiver'.buffer = receiver'.incomingFrameSize
           \/ /\ receiver'.phase = "stopped" /\ receiver'.invalidated
              /\ receiver'.emitted = receiver.emitted + 1
    BY <1>t, <1>1, ReadFrameSizeEffect
  <2>2. wire' \in Seq(Units) /\ delivered' = delivered
    <3>1. wire' \in Seq(Units)
      BY <1>t, <2>1
    <3>2. delivered' = delivered
      BY <1>1 DEF ReadFrameSize
    <3>. QED
      BY <3>1, <3>2
  <2>3. ReaderTypes'
    BY <1>t, <2>1, <2>2 DEF ReaderTypes, Receivers
  <2>4. ReaderReports' /\ BufferFits'
    BY <1>t, <2>1 DEF ReaderReports, BufferFits
  <2>. QED
    BY <1>u, <2>3, <2>4 DEF ReaderOwn
<1>2. CASE ReadFrame
  <2>1. /\ wire # << >> /\ wire' = Tail(wire)
        /\ receiver' \in Receivers
        /\ receiver.phase = "frame" /\ receiver'.phase = "frame"
        /\ ~receiver.invalidated /\ ~receiver'.invalidated
        /\ receiver'.emitted = receiver.emitted
        /\ receiver'.buffer = receiver.buffer
        /\ receiver'.incomingFrameSize = receiver.incomingFrameSize
    BY <1>t, <1>2, ReadFrameEffect
  <2>2. wire' \in Seq(Units) /\ delivered' = delivered
    BY <1>t, <1>2, <2>1 DEF ReadFrame
  <2>3. ReaderTypes'
    BY <1>t, <2>1, <2>2 DEF ReaderTypes, Receivers
  <2>4. ReaderReports' /\ BufferFits'
    BY <1>t, <2>1 DEF ReaderReports, BufferFits
  <2>. QED
    BY <1>u, <2>3, <2>4 DEF ReaderOwn
<1>3. CASE IncomingFrame
  <2>1. /\ receiver' \in Receivers
        /\ receiver.phase = "frame" /\ receiver'.phase = "size"
        /\ receiver'.invalidated = receiver.invalidated
        /\ receiver'.emitted = receiver.emitted
        /\ delivered' \in Seq(Frames \cup {Garbage})
    BY <1>t, <1>3, IncomingFrameEffect
  <2>2. wire' = wire
    BY <1>3 DEF IncomingFrame
  <2>3. ReaderTypes'
    BY <1>t, <2>1, <2>2 DEF ReaderTypes, Receivers
  <2>4. ReaderReports' /\ BufferFits'
    BY <1>t, <2>1 DEF ReaderReports, BufferFits
  <2>. QED
    BY <1>u, <2>3, <2>4 DEF ReaderOwn
<1>4. CASE ReadFails \/ ReceiverWriteFails
  <2>1. /\ receiver' \in Receivers
        /\ receiver'.invalidated
        /\ receiver'.emitted = IF receiver.invalidated THEN receiver.emitted ELSE receiver.emitted + 1
        /\ receiver'.phase \in {receiver.phase, "stopped"}
        /\ receiver'.buffer = receiver.buffer
        /\ receiver'.incomingFrameSize = receiver.incomingFrameSize
    BY <1>t, <1>4, ReaderClosesEffect
  <2>2. wire' = wire /\ delivered' = delivered
    BY <1>4 DEF ReadFails, ReceiverWriteFails
  <2>3. ReaderTypes'
    BY <1>t, <2>1, <2>2 DEF ReaderTypes, Receivers
  <2>4. ReaderReports' /\ BufferFits'
    BY <1>t, <2>1 DEF ReaderReports, BufferFits
  <2>. QED
    BY <1>u, <2>3, <2>4 DEF ReaderOwn
<1>. QED
  BY <1>1, <1>2, <1>3, <1>4

\* The writer's steps touch nothing of the reader's but the wire.
LEMMA ReaderUndisturbed ==
    ASSUME ReaderOwn, UNCHANGED <<receiver, delivered>>, wire' \in Seq(Units)
    PROVE  ReaderOwn'
  BY DEF ReaderOwn, ReaderTypes, ReaderReports, BufferFits

\* The unit that leaves in a Transfer.
LEMMA TransferSends ==
    ASSUME WriterInv, Transfer
    PROVE  /\ \E unit \in Units :
                /\ unit = IF sender.left = Size[sender.writing] + 1
                          THEN <<"size", Size[sender.writing]>>
                          ELSE <<"body", sender.writing>>
                /\ wire' = IF receiver.invalidated THEN wire ELSE Append(wire, unit)
           /\ UNCHANGED <<written, posted, alive, receiver, delivered>>
<1>1. sender.writing \in Frames /\ sender.writing # NoFrame
  BY TransferKeeps, SocketWrapperAssumption
<1>2. sender.outcomingFrameSize = Size[sender.writing]
  BY <1>1 DEF WriterInv, WritesOneAtATime
<1>3. Size[sender.writing] \in Sizes
  BY <1>1 DEF Sizes
<1>4. <<"size", Size[sender.writing]>> \in Units /\ <<"body", sender.writing>> \in Units
  BY <1>1, <1>3 DEF Units
<1>5. wire' = IF receiver.invalidated THEN wire
              ELSE Append(wire, IF sender.left = Size[sender.writing] + 1
                                THEN <<"size", Size[sender.writing]>>
                                ELSE <<"body", sender.writing>>)
  BY <1>2 DEF Transfer
<1>6. UNCHANGED <<written, posted, alive, receiver, delivered>>
  BY DEF Transfer
<1>. QED
  BY <1>4, <1>5, <1>6

-----------------------------------------------------------------------------
(* Types, invalidation and the read buffer.                                *)

\* The three invariants that do not speak of the stream.
OwnInv == WriterInv /\ BufferFits

\* They are inductive.
LEMMA OwnInvInductive ==
    /\ Init => OwnInv
    /\ OwnInv /\ [Next]_vars => OwnInv'
<1>1. ASSUME Init PROVE OwnInv
  <2>. USE <1>1 DEF Init
  <2>1. sender \in Senders
    <3>1. << >> \in Seq(Frames) /\ << >> \in Seq({"ok", "aborted"})
      OBVIOUS
    <3>2. [f \in Frames |-> << >>] \in [Frames -> Seq({"ok", "aborted"})]
      BY <3>1
    <3>. QED
      BY <3>1, <3>2 DEF Senders
  <2>2. WriterTypes
    BY <2>1 DEF WriterTypes
  <2>3. ReaderTypes
    <3>1. << >> \in Seq(Units)
      OBVIOUS
    <3>. QED
      BY <3>1 DEF ReaderTypes
  <2>4. WriterReports /\ ReaderReports /\ BufferFits
    BY DEF WriterReports, ReaderReports, BufferFits
  <2>5. QueuesAreInOrder
    BY DEF QueuesAreInOrder, Begun
  <2>6. WritesOneAtATime /\ ReportedLast
    BY DEF WritesOneAtATime, ReportedLast
  <2>. QED
    BY <2>2, <2>3, <2>4, <2>5, <2>6, OwnOfInv DEF OwnInv, WriterOwn
<1>2. ASSUME OwnInv, [Next]_vars PROVE WriterOwn' /\ ReaderOwn'
  <2>t. WriterInv /\ WriterOwn /\ ReaderOwn /\ wire \in Seq(Units)
    BY <1>2, OwnOfInv DEF OwnInv, ReaderOwn, ReaderTypes
  <2>1. ASSUME NEW f \in Frames, WriteFrame(f) PROVE WriterOwn' /\ ReaderOwn'
    <3>1. UNCHANGED <<wire, receiver, delivered>>
      BY <2>1 DEF WriteFrame
    <3>. QED
      BY <2>t, <2>1, <3>1, WriteFrameKeeps, ReaderUndisturbed
  <2>2. ASSUME WriteFramePosted \/ WriteSucceeds \/ WriteFails \/ SenderReadFails \/ Destroy
        PROVE  WriterOwn' /\ ReaderOwn'
    <3>1. UNCHANGED <<wire, receiver, delivered>>
      BY <2>2 DEF WriteFramePosted, WriteSucceeds, WriteFails, WriteCompletes, SenderReadFails,
                  Destroy
    <3>. QED
      BY <2>t, <2>2, <3>1, WriteFramePostedKeeps, WriteSucceedsKeeps, WriteFailsKeeps,
         CloseKeeps, ReaderUndisturbed
  <2>3. ASSUME Transfer PROVE WriterOwn' /\ ReaderOwn'
    <3>1. PICK unit \in Units : wire' = IF receiver.invalidated THEN wire ELSE Append(wire, unit)
      BY <2>t, <2>3, TransferSends
    <3>2. wire' \in Seq(Units)
      BY <2>t, <3>1
    <3>3. UNCHANGED <<receiver, delivered>>
      BY <2>3 DEF Transfer
    <3>. QED
      BY <2>t, <2>3, <3>2, <3>3, TransferKeeps, ReaderUndisturbed
  <2>4. ASSUME ReadFrameSize \/ ReadFrame \/ IncomingFrame \/ ReadFails \/ ReceiverWriteFails
        PROVE  WriterOwn' /\ ReaderOwn'
    BY <2>t, <2>4, ReaderKeeps, WriterUnchanged
  <2>5. ASSUME UNCHANGED vars PROVE WriterOwn' /\ ReaderOwn'
    BY <2>t, <2>5, WriterUnchanged, ReaderUndisturbed DEF vars
  <2>. QED
    BY <1>2, <2>1, <2>2, <2>3, <2>4, <2>5 DEF Next
<1>3. ASSUME OwnInv, [Next]_vars PROVE OwnInv'
  <2>1. WriterOwn' /\ ReaderTypes' /\ ReaderReports' /\ BufferFits'
    BY <1>2, <1>3 DEF ReaderOwn
  <2>2. WriterInv'
    BY <2>1, OwnOfInv, PTL
  <2>. QED
    BY <2>1, <2>2 DEF OwnInv
<1>. QED
  BY <1>1, <1>3

\* Every variable has its type, for any frames of any sizes.
THEOREM SocketWrapperTypeCorrect == Spec => []TypeOK
<1>1. OwnInv => TypeOK
  BY DEF OwnInv, WriterInv
<1>. QED
  BY <1>1, OwnInvInductive, PTL DEF Spec

\* However the reads, the write in progress and the writes behind it fail,
\* the invalidated signal is emitted once.
THEOREM InvalidatedOnceCorrect == Spec => []InvalidatedOnce
<1>1. OwnInv => InvalidatedOnce
  BY DEF OwnInv, WriterInv
<1>. QED
  BY <1>1, OwnInvInductive, PTL DEF Spec

\* The read buffer has room for every frame that is read, and is not kept
\* above the reuse limit, for any sizes and any limit.
THEOREM BufferFitsCorrect == Spec => []BufferFits
<1>1. OwnInv => BufferFits
  BY DEF OwnInv
<1>. QED
  BY <1>1, OwnInvInductive, PTL DEF Spec

-----------------------------------------------------------------------------
(* The writer's steps and the stream.                                      *)

\* Nothing has been reported of a frame that waits, and it is not being written.
Fresh(f) ==
    /\ f \in Frames
    /\ sender.callbacks[f] = << >>
    /\ f # sender.writing
    /\ \E i \in 1 .. Len(written) : written[i] = f

\* Frames past the ones begun are fresh; so are the queued ones and the posted.
LEMMA WaitingAreFresh ==
    ASSUME WriterInv
    PROVE  /\ \A i \in 1 .. Len(written) : i > Begun => Fresh(written[i])
           /\ \A f \in Queued(sender) : Fresh(f)
           /\ posted # << >> => Fresh(Head(posted))
<1>t. WriterTypes /\ WriterReports /\ QueuesAreInOrder /\ WritesOneAtATime /\ ReportedLast
  BY OwnOfInv DEF WriterOwn
<1>l. /\ Len(written) \in Nat /\ Len(posted) \in Nat /\ Len(sender.pendingWrites) \in Nat
      /\ \A i \in 1 .. Len(written) : written[i] \in Frames
  BY <1>t, Lengths
<1>b. Begun \in Nat /\ Begun + Len(sender.pendingWrites) + Len(posted) = Len(written)
  BY <1>t, <1>l DEF Begun, QueuesAreInOrder
<1>1. ASSUME NEW i \in 1 .. Len(written), i > Begun PROVE Fresh(written[i])
  <2>1. written[i] \in Frames /\ sender.callbacks[written[i]] = << >>
    BY <1>t, <1>l, <1>1 DEF ReportedLast
  <2>2. written[i] # sender.writing
    <3>. SUFFICES ASSUME written[i] = sender.writing PROVE FALSE
      OBVIOUS
    <3>1. sender.writing # NoFrame
      BY <2>1, SocketWrapperAssumption
    <3>2. PICK j \in 1 .. Begun : written[j] = sender.writing
      BY <1>t, <3>1 DEF WritesOneAtATime
    <3>3. j \in 1 .. Len(written) /\ j # i
      BY <1>b, <1>l, <1>1
    <3>. QED
      BY <1>t, <3>2, <3>3 DEF QueuesAreInOrder
  <2>. QED
    BY <2>1, <2>2 DEF Fresh
<1>2. ASSUME NEW f \in Queued(sender) PROVE Fresh(f)
  <2>1. PICK j \in 1 .. Len(sender.pendingWrites) : sender.pendingWrites[j] = f
    BY <1>2 DEF Queued
  <2>2. written[Begun + j] = f
    BY <1>t, <2>1 DEF QueuesAreInOrder
  <2>3. Begun + j \in 1 .. Len(written) /\ Begun + j > Begun
    BY <1>b, <1>l
  <2>. QED
    BY <1>1, <2>2, <2>3
<1>3. ASSUME posted # << >> PROVE Fresh(Head(posted))
  <2>1. posted \in Seq(Frames)
    BY <1>t DEF WriterTypes
  <2>2. Head(posted) = posted[1] /\ 1 \in 1 .. Len(posted)
    BY <1>3, <2>1
  <2>3. written[Len(written) - Len(posted) + 1] = Head(posted)
    BY <1>t, <2>2 DEF QueuesAreInOrder
  <2>4. Len(written) - Len(posted) + 1 \in 1 .. Len(written) /\ Len(written) - Len(posted) + 1 > Begun
    BY <1>b, <1>l, <2>2
  <2>. QED
    BY <1>1, <2>3, <2>4
<1>. QED
  BY <1>1, <1>2, <1>3

\* The steps of the writer that put nothing on the wire.
WriterStep ==
    WriteFramePosted \/ WriteSucceeds \/ WriteFails \/ SenderReadFails \/ Destroy

\* A frame that has left stays so, whatever becomes of the writer.
LEMMA WholeStays ==
    ASSUME WriterInv, WriterStep \/ Transfer, NEW f \in Frames, Whole(f)
    PROVE  Whole(f)'
<1>e. << >> # <<"ok">>
  OBVIOUS
<1>1. ~Fresh(f)
  BY <1>e DEF Fresh, Whole
<1>2. f # NoFrame
  BY SocketWrapperAssumption
<1>3. CASE WriteFramePosted
  <2>1. posted # << >>
    BY <1>3 DEF WriteFramePosted
  <2>2. PICK h : h = Head(posted)
    OBVIOUS
  <2>3. h # f
    BY <1>1, <2>1, <2>2, WaitingAreFresh
  <2>4. \/ sender'.callbacks = sender.callbacks /\ WriteStays
        \/ sender'.callbacks = sender.callbacks /\ sender.writing = NoFrame
        \/ sender'.callbacks = Called(sender.callbacks, {h}, "aborted") /\ WriteStays
    BY <1>3, <2>2, WriteFramePostedEffect
  <2>5. sender'.callbacks[f] = sender.callbacks[f]
    BY <2>3, <2>4, CalledAt
  <2>. QED
    BY <1>2, <2>4, <2>5 DEF Whole, WriteStays
<1>4. CASE WriteSucceeds
  <2>1. /\ sender.writing \in Frames
        /\ sender'.callbacks = Called(sender.callbacks, {sender.writing}, "ok")
    BY <1>4, WriteSucceedsEffect
  <2>2. sender.callbacks[sender.writing] = << >>
    BY <2>1, SocketWrapperAssumption DEF WriterInv, ReportedLast
  <2>3. CASE f = sender.writing
    <3>1. f \in {sender.writing} /\ sender.callbacks[f] = << >> /\ "ok" \in {"ok", "aborted"}
      BY <2>2, <2>3
    <3>2. sender'.callbacks[f] = <<"ok">>
      BY <2>1, <3>1, CalledAt
    <3>. QED
      BY <3>2 DEF Whole
  <2>4. CASE f # sender.writing
    BY <2>1, <2>4, CalledAt DEF Whole
  <2>. QED
    BY <2>3, <2>4
<1>5. CASE WriteFails
  <2>1. /\ sender.writing \in Frames /\ sender.left > 0
        /\ sender'.callbacks =
            Called(sender.callbacks, {sender.writing} \cup Queued(sender), "aborted")
    BY <1>5, WriteFailsEffect
  <2>2. sender.callbacks[sender.writing] = << >>
    BY <2>1, SocketWrapperAssumption DEF WriterInv, ReportedLast
  <2>3. sender.callbacks[f] = <<"ok">>
    BY <2>1 DEF Whole
  <2>4. f \notin {sender.writing} \cup Queued(sender)
    BY <1>e, <1>1, <2>2, <2>3, WaitingAreFresh
  <2>. QED
    BY <2>1, <2>3, <2>4, CalledAt DEF Whole
<1>6. CASE SenderReadFails \/ Destroy
  <2>1. /\ sender'.callbacks = Called(sender.callbacks, Queued(sender), "aborted")
        /\ WriteStays
    BY <1>6, CloseEffect
  <2>2. f \notin Queued(sender)
    BY <1>1, WaitingAreFresh
  <2>3. sender'.callbacks[f] = sender.callbacks[f]
    BY <2>1, <2>2, CalledAt
  <2>. QED
    BY <2>1, <2>3 DEF Whole, WriteStays
<1>7. CASE Transfer
  <2>1. sender.left > 0 /\ sender'.callbacks = sender.callbacks
    BY <1>7, TransferKeeps DEF Transfer
  <2>. QED
    BY <2>1 DEF Whole
<1>. QED
  BY <1>3, <1>4, <1>5, <1>6, <1>7 DEF WriterStep

\* A writer that is not closed stays where it is in the stream when it only
\* ends a write or begins one.
LEMMA WriterAtStays ==
    ASSUME WriterInv, WriterStep, ~sender'.invalidated, NEW k, NEW j, WriterAt(k, j)
    PROVE  ~sender.invalidated /\ WriterAt(k, j)'
<1>t. WriterTypes /\ WriterReports /\ QueuesAreInOrder /\ WritesOneAtATime /\ ReportedLast
  BY OwnOfInv DEF WriterOwn
<1>l. /\ Len(written) \in Nat /\ Len(posted) \in Nat /\ Len(sender.pendingWrites) \in Nat
      /\ sender.pendingWrites \in Seq(Frames)
  BY <1>t, Lengths
<1>1. ~WriteFails /\ ~SenderReadFails /\ ~Destroy
  BY WriteFailsEffect, CloseEffect
<1>2. CASE WriteFramePosted
  <2>1. posted \in Seq(Frames) /\ posted # << >> /\ posted' = Tail(posted) /\ written' = written
    BY <1>t, <1>2 DEF WriterTypes, WriteFramePosted
  <2>2. Len(posted') = Len(posted) - 1
    BY <2>1
  <2>3. PICK h : h = Head(posted)
    OBVIOUS
  <2>4. /\ h \in Frames
        /\ sender'.invalidated = sender.invalidated
        /\ \/ /\ sender'.pendingWrites = Append(sender.pendingWrites, h)
              /\ WriteStays
           \/ /\ sender.writing = NoFrame
              /\ sender.pendingWrites = << >> /\ sender'.pendingWrites = << >>
              /\ Begins(h)
    BY <1>2, <2>3, WriteFramePostedEffect
  <2>5. CASE sender'.pendingWrites = Append(sender.pendingWrites, h) /\ WriteStays
    <3>1. Len(sender'.pendingWrites) = Len(sender.pendingWrites) + 1
      BY <1>l, <2>4, <2>5
    <3>2. Begun' = Begun
      BY <1>l, <2>1, <2>2, <3>1 DEF Begun
    <3>. QED
      BY <2>4, <2>5, <3>2 DEF WriterAt, WriteStays
  <2>6. CASE /\ sender.writing = NoFrame
             /\ sender.pendingWrites = << >> /\ sender'.pendingWrites = << >>
             /\ Begins(h)
    <3>1. Begun' = Begun + 1
      BY <1>l, <2>1, <2>2, <2>6 DEF Begun
    <3>2. sender.left = 0
      BY <1>t, <2>6 DEF WritesOneAtATime
    <3>3. sender'.left = Size[h] + 1 /\ sender'.writing = h /\ Size[h] \in Nat
      BY <2>4, <2>6, SocketWrapperAssumption DEF Begins
    <3>4. sender'.left > 0 /\ Size[h] + 1 - sender'.left = 0
      BY <3>3
    <3>. QED
      BY <2>4, <3>1, <3>2, <3>3, <3>4 DEF WriterAt
  <2>. QED
    BY <2>4, <2>5, <2>6
<1>3. CASE WriteSucceeds
  <2>1. UNCHANGED <<written, posted>>
    BY <1>3 DEF WriteSucceeds, WriteCompletes
  <2>2. /\ sender.left = 0 /\ sender'.invalidated = sender.invalidated
        /\ \/ sender.pendingWrites = << >> /\ Idle
           \/ /\ sender.pendingWrites # << >>
              /\ sender'.pendingWrites = Tail(sender.pendingWrites)
              /\ Begins(Head(sender.pendingWrites))
    BY <1>3, WriteSucceedsEffect
  <2>3. CASE sender.pendingWrites = << >> /\ Idle
    <3>1. Begun' = Begun
      BY <2>1, <2>3 DEF Begun, Idle
    <3>. QED
      BY <2>2, <2>3, <3>1 DEF WriterAt, Idle
  <2>4. CASE /\ sender.pendingWrites # << >>
             /\ sender'.pendingWrites = Tail(sender.pendingWrites)
             /\ Begins(Head(sender.pendingWrites))
    <3>1. Len(sender'.pendingWrites) = Len(sender.pendingWrites) - 1
      BY <1>l, <2>4
    <3>2. Begun' = Begun + 1
      BY <1>l, <2>1, <3>1 DEF Begun
    <3>3. PICK h \in Frames : h = Head(sender.pendingWrites)
      BY <1>l, <2>4
    <3>4. sender'.left = Size[h] + 1 /\ sender'.writing = h /\ Size[h] \in Nat
      BY <2>4, <3>3, SocketWrapperAssumption DEF Begins
    <3>5. sender'.left > 0 /\ Size[h] + 1 - sender'.left = 0
      BY <3>4
    <3>. QED
      BY <2>2, <3>2, <3>4, <3>5 DEF WriterAt
  <2>. QED
    BY <2>2, <2>3, <2>4
<1>. QED
  BY <1>1, <1>2, <1>3 DEF WriterStep

\* The calls so far stay, in their places.
WrittenStays ==
    /\ Len(written) <= Len(written')
    /\ \A i \in 1 .. Len(written) : written'[i] = written[i]

\* Numbers of frames and what WriterInv says of them.
LEMMA WrittenFrames ==
    ASSUME WriterInv
    PROVE  /\ Len(written) \in Nat /\ Begun \in Nat /\ Begun <= Len(written)
           /\ \A i \in 1 .. Len(written) : written[i] \in Frames
           /\ \A f \in Frames : Size[f] \in Nat /\ Size[f] > 0
<1>t. WriterTypes /\ QueuesAreInOrder
  BY OwnOfInv DEF WriterOwn
<1>l. /\ Len(written) \in Nat /\ Len(posted) \in Nat /\ Len(sender.pendingWrites) \in Nat
      /\ \A i \in 1 .. Len(written) : written[i] \in Frames
  BY <1>t, Lengths
<1>b. Begun \in Nat /\ Begun <= Len(written)
  BY <1>t, <1>l DEF Begun, QueuesAreInOrder
<1>s. \A f \in Frames : Size[f] \in Nat /\ Size[f] > 0
  BY SocketWrapperAssumption
<1>. QED
  BY <1>l, <1>b, <1>s

\* What the stream is said to be stays true when frames stay whole and calls
\* are only added.
LEMMA PlacesStay ==
    ASSUME WriterInv, WrittenStays, Len(written') \in Nat,
           \A f \in Frames : Whole(f) => Whole(f)'
    PROVE  /\ \A k \in Nat : WholeBefore(k) => WholeBefore(k)'
           /\ \A unit, k, j : Carries(unit, k, j) =>
                /\ Carries(unit, k, j)'
                /\ \A nextK, nextJ : Follows(k, j, nextK, nextJ) => Follows(k, j, nextK, nextJ)'
<1>l. /\ Len(written) \in Nat
      /\ \A i \in 1 .. Len(written) : written[i] \in Frames
  BY WrittenFrames
<1>1. ASSUME NEW k \in Nat, WholeBefore(k) PROVE WholeBefore(k)'
  <2>1. k <= Len(written') + 1
    BY <1>l, <1>1 DEF WholeBefore, WrittenStays
  <2>2. ASSUME NEW i \in 1 .. Len(written'), i < k PROVE Whole(written[i])'
    <3>1. i \in 1 .. Len(written)
      BY <1>l, <1>1, <2>2 DEF WholeBefore
    <3>2. Whole(written[i]) /\ written[i] \in Frames /\ written'[i] = written[i]
      BY <1>l, <1>1, <2>2, <3>1 DEF WholeBefore, WrittenStays
    <3>3. PICK f \in Frames : f = written[i]
      BY <3>2
    <3>4. Whole(f)' /\ written'[i] = f
      BY <3>2, <3>3
    <3>. QED
      BY <3>4 DEF Whole
  <2>. QED
    BY <2>1, <2>2 DEF WholeBefore
<1>2. ASSUME NEW unit, NEW k, NEW j, Carries(unit, k, j)
      PROVE  /\ Carries(unit, k, j)'
             /\ \A nextK, nextJ : Follows(k, j, nextK, nextJ) => Follows(k, j, nextK, nextJ)'
  <2>1. k \in 1 .. Len(written) /\ written'[k] = written[k]
    BY <1>2 DEF Carries, WrittenStays
  <2>2. k \in 1 .. Len(written')
    BY <1>l, <2>1 DEF WrittenStays
  <2>. QED
    BY <1>2, <2>1, <2>2 DEF Carries, Follows
<1>. QED
  BY <1>1, <1>2

\* Steps that touch neither the wire nor the reader keep the stream, if the
\* writer stays in its place.
LEMMA StreamKept ==
    ASSUME ChannelInv, WrittenStays, Len(written') \in Nat,
           UNCHANGED <<wire, receiver, delivered>>,
           \A f \in Frames : Whole(f) => Whole(f)',
           ~sender'.invalidated => /\ ~sender.invalidated
                                   /\ \A k, j : WriterAt(k, j) => WriterAt(k, j)'
    PROVE  StreamIsWhole' /\ DeliveredInOrder' /\ ReadsNextFrame'
<1>t. WriterInv /\ StreamIsWhole /\ DeliveredInOrder /\ ReadsNextFrame
  BY DEF ChannelInv
<1>l. /\ Len(written) \in Nat
      /\ \A i \in 1 .. Len(written) : written[i] \in Frames
      /\ wire \in Seq(Units) /\ Len(delivered) \in Nat
  BY <1>t, WrittenFrames DEF WriterInv, TypeOK
<1>p. /\ \A k \in Nat : WholeBefore(k) => WholeBefore(k)'
      /\ \A unit, k, j : Carries(unit, k, j) =>
            /\ Carries(unit, k, j)'
            /\ \A nextK, nextJ : Follows(k, j, nextK, nextJ) => Follows(k, j, nextK, nextJ)'
  BY <1>t, PlacesStay
<1>w. ASSUME NEW i \in 1 .. Len(written), Whole(written[i]) PROVE Whole(written[i])'
  <2>1. PICK f \in Frames : f = written[i] /\ written'[i] = f
    BY <1>l DEF WrittenStays
  <2>2. Whole(f)'
    BY <1>w, <2>1
  <2>. QED
    BY <2>1, <2>2 DEF Whole
<1>1. ASSUME ~receiver'.invalidated
      PROVE  \E frame, unit \in [1 .. Len(wire') + 1 -> Nat] : StreamIs(frame, unit)'
  <2>1. PICK frame, unit \in [1 .. Len(wire) + 1 -> Nat] : StreamIs(frame, unit)
    BY <1>t, <1>1 DEF StreamIsWhole
  <2>2. ReaderAt(frame[1], unit[1])'
    BY <2>1 DEF StreamIs, ReaderAt
  <2>3. ASSUME NEW i \in 1 .. Len(wire')
        PROVE  /\ Carries(wire[i], frame[i], unit[i])'
               /\ Follows(frame[i], unit[i], frame[i + 1], unit[i + 1])'
    <3>1. /\ wire' = wire /\ i \in 1 .. Len(wire)
          /\ Carries(wire[i], frame[i], unit[i])
          /\ Follows(frame[i], unit[i], frame[i + 1], unit[i + 1])
      BY <2>1 DEF StreamIs
    <3>2. PICK u : u = wire[i]
      OBVIOUS
    <3>3. /\ Carries(u, frame[i], unit[i])'
          /\ Follows(frame[i], unit[i], frame[i + 1], unit[i + 1])'
      BY <1>p, <3>1, <3>2
    <3>. QED
      BY <3>1, <3>2, <3>3
  <2>4. ASSUME NEW i \in 1 .. Len(wire') + 1 PROVE WholeBefore(frame[i])'
    <3>1. frame[i] \in Nat /\ WholeBefore(frame[i])
      BY <2>1, <2>4 DEF StreamIs
    <3>. QED
      BY <1>p, <3>1
  <2>5. ASSUME ~sender'.invalidated
        PROVE  WriterAt(frame[Len(wire) + 1], unit[Len(wire) + 1])'
    <3>1. PICK k, j : k = frame[Len(wire) + 1] /\ j = unit[Len(wire) + 1]
      OBVIOUS
    <3>2. WriterAt(k, j)
      BY <2>1, <2>5, <3>1 DEF StreamIs
    <3>3. WriterAt(k, j)' /\ wire' = wire
      BY <2>5, <3>2
    <3>. QED
      BY <3>1, <3>3
  <2>6. StreamIs(frame, unit)'
    BY <2>2, <2>3, <2>4, <2>5 DEF StreamIs
  <2>. QED
    BY <2>1, <2>6
<1>2. StreamIsWhole'
  BY <1>1 DEF StreamIsWhole
<1>3. DeliveredInOrder'
  <2>1. Len(delivered) <= Len(written')
    BY <1>l, <1>t DEF DeliveredInOrder, WrittenStays
  <2>2. ASSUME NEW i \in 1 .. Len(delivered) PROVE delivered[i] = written'[i] /\ Whole(written[i])'
    <3>1. i \in 1 .. Len(written) /\ delivered[i] = written[i] /\ Whole(written[i])
      BY <1>l, <1>t DEF DeliveredInOrder
    <3>. QED
      BY <1>w, <3>1 DEF WrittenStays
  <2>. QED
    BY <2>1, <2>2 DEF DeliveredInOrder
<1>4. ReadsNextFrame'
  <2>. SUFFICES ASSUME receiver.phase = "frame"
                PROVE  /\ Len(delivered) + 1 <= Len(written')
                       /\ receiver.incomingFrameSize = Size[written'[Len(delivered) + 1]]
                       /\ Len(receiver.got) <= receiver.incomingFrameSize
                       /\ \A i \in 1 .. Len(receiver.got) :
                            receiver.got[i] = <<"body", written'[Len(delivered) + 1]>>
                       /\ Len(receiver.got) = receiver.incomingFrameSize
                            => Whole(written[Len(delivered) + 1])'
    BY <1>t DEF ReadsNextFrame
  <2>1. Len(delivered) + 1 \in 1 .. Len(written)
    BY <1>l, <1>t DEF ReadsNextFrame
  <2>2. /\ written'[Len(delivered) + 1] = written[Len(delivered) + 1]
        /\ Len(delivered) + 1 <= Len(written')
    BY <1>l, <2>1 DEF WrittenStays
  <2>3. PICK i \in 1 .. Len(written) : i = Len(delivered) + 1
    BY <2>1
  <2>4. Len(receiver.got) = receiver.incomingFrameSize => Whole(written[i])
    BY <1>t, <2>3 DEF ReadsNextFrame
  <2>5. Len(receiver.got) = receiver.incomingFrameSize => Whole(written[i])'
    BY <1>w, <2>4
  <2>6. Len(receiver.got) = receiver.incomingFrameSize => Whole(written[Len(delivered) + 1])'
    BY <2>3, <2>5
  <2>. QED
    BY <1>t, <2>2, <2>6 DEF ReadsNextFrame
<1>. QED
  BY <1>2, <1>3, <1>4

\* A call of writeFrame and the steps between the writer's transfers keep the
\* stream.
LEMMA WriterKeepsStream ==
    ASSUME ChannelInv, WriterStep \/ \E f \in Frames : WriteFrame(f)
    PROVE  StreamIsWhole' /\ DeliveredInOrder' /\ ReadsNextFrame'
<1>t. WriterInv /\ WriterTypes /\ Len(written) \in Nat /\ Len(posted) \in Nat
  BY OwnOfInv, Lengths DEF ChannelInv, WriterOwn
<1>1. CASE WriterStep
  <2>1. UNCHANGED <<written, wire, receiver, delivered>>
    BY <1>1 DEF WriterStep, WriteFramePosted, WriteSucceeds, WriteFails, WriteCompletes,
                SenderReadFails, Destroy
  <2>2. WrittenStays /\ Len(written') \in Nat
    BY <1>t, <2>1 DEF WrittenStays
  <2>3. \A f \in Frames : Whole(f) => Whole(f)'
    BY <1>t, <1>1, WholeStays
  <2>4. ASSUME ~sender'.invalidated
        PROVE  ~sender.invalidated /\ \A k, j : WriterAt(k, j) => WriterAt(k, j)'
    <3>1. \A k, j : WriterAt(k, j) => WriterAt(k, j)'
      BY <1>t, <1>1, <2>4, WriterAtStays
    <3>2. ~sender.invalidated
      <4>1. WriteFramePosted \/ WriteSucceeds
        BY <1>t, <1>1, <2>4, WriteFailsEffect, CloseEffect DEF WriterStep
      <4>2. PICK h : h = Head(posted)
        OBVIOUS
      <4>. QED
        BY <1>t, <2>4, <4>1, <4>2, WriteFramePostedEffect, WriteSucceedsEffect
    <3>. QED
      BY <3>1, <3>2
  <2>. QED
    BY <2>1, <2>2, <2>3, <2>4, StreamKept
<1>2. ASSUME NEW f \in Frames, WriteFrame(f)
      PROVE  StreamIsWhole' /\ DeliveredInOrder' /\ ReadsNextFrame'
  <2>1. /\ written' = Append(written, f) /\ posted' = Append(posted, f)
        /\ UNCHANGED <<sender, wire, receiver, delivered>>
    BY <1>2 DEF WriteFrame
  <2>2. written \in Seq(Frames) /\ posted \in Seq(Frames) /\ Len(sender.pendingWrites) \in Nat
    BY <1>t, Lengths DEF WriterTypes
  <2>3. Len(written') = Len(written) + 1 /\ Len(posted') = Len(posted) + 1
    BY <2>1, <2>2
  <2>4. \A i \in 1 .. Len(written) : written'[i] = written[i]
    BY <2>1, <2>2
  <2>5. WrittenStays /\ Len(written') \in Nat
    BY <1>t, <2>3, <2>4 DEF WrittenStays
  <2>6. Begun' = Begun
    BY <1>t, <2>1, <2>2, <2>3 DEF Begun
  <2>7. /\ \A g \in Frames : Whole(g) => Whole(g)'
        /\ \A k, j : WriterAt(k, j) => WriterAt(k, j)'
    BY <2>1, <2>6 DEF Whole, WriterAt
  <2>. QED
    BY <2>1, <2>5, <2>7, StreamKept
<1>. QED
  BY <1>1, <1>2

\* A unit that leaves is the next of the stream, and the last one of a frame
\* makes the frame whole.
LEMMA TransferKeepsStream ==
    ASSUME ChannelInv, Transfer
    PROVE  StreamIsWhole' /\ DeliveredInOrder' /\ ReadsNextFrame'
<1>t. WriterInv /\ StreamIsWhole /\ DeliveredInOrder /\ ReadsNextFrame /\ WritesOneAtATime
  BY DEF ChannelInv, WriterInv
<1>l. /\ Len(written) \in Nat /\ Begun \in Nat /\ Begun <= Len(written)
      /\ \A i \in 1 .. Len(written) : written[i] \in Frames
      /\ \A g \in Frames : Size[g] \in Nat /\ Size[g] > 0
      /\ wire \in Seq(Units) /\ Len(delivered) \in Nat /\ Len(wire) \in Nat
  BY <1>t, WrittenFrames DEF WriterInv, TypeOK
<1>1. UNCHANGED <<written, posted, alive, receiver, delivered>> /\ ~sender.invalidated
  BY DEF Transfer
<1>2. PICK f \in Frames : f = sender.writing
  BY <1>t, TransferKeeps
<1>3. /\ sender.left \in Nat /\ sender.left > 0 /\ sender'.left = sender.left - 1
      /\ sender'.writing = f /\ sender'.callbacks = sender.callbacks
      /\ sender'.pendingWrites = sender.pendingWrites
      /\ sender'.invalidated = sender.invalidated
  BY <1>t, <1>2, TransferKeeps
<1>z. Size[f] \in Nat /\ Size[f] > 0
  BY <1>l
<1>4. /\ sender.left <= Size[f] + 1 /\ written[Begun] = f /\ Begun \in 1 .. Len(written)
  <2>1. f # NoFrame
    BY SocketWrapperAssumption
  <2>2. /\ sender.left <= Size[f] + 1 /\ written[Begun] = f /\ \E i \in 1 .. Begun : written[i] = f
    BY <1>t, <1>1, <1>2, <2>1 DEF WritesOneAtATime
  <2>. QED
    BY <1>l, <2>2
<1>5. Begun' = Begun
  BY <1>1, <1>3 DEF Begun
<1>w. \A g \in Frames : Whole(g) => Whole(g)'
  BY <1>t, WholeStays
<1>p. /\ \A k \in Nat : WholeBefore(k) => WholeBefore(k)'
      /\ \A unit, k, j : Carries(unit, k, j) =>
            /\ Carries(unit, k, j)'
            /\ \A nextK, nextJ : Follows(k, j, nextK, nextJ) => Follows(k, j, nextK, nextJ)'
  <2>1. WrittenStays /\ Len(written') \in Nat
    BY <1>l, <1>1 DEF WrittenStays
  <2>. QED
    BY <1>t, <1>w, <2>1, PlacesStay
<1>6. ASSUME ~receiver'.invalidated
      PROVE  \E frame, unit \in [1 .. Len(wire') + 1 -> Nat] : StreamIs(frame, unit)'
  <2>1. PICK frame, unit \in [1 .. Len(wire) + 1 -> Nat] : StreamIs(frame, unit)
    BY <1>t, <1>1, <1>6 DEF StreamIsWhole
  <2>2. PICK n \in Nat : n = Len(wire)
    BY <1>l
  <2>3. PICK k \in Nat, j \in Nat : k = frame[n + 1] /\ j = unit[n + 1]
    BY <2>1, <2>2
  <2>4. k = Begun /\ j = Size[f] + 1 - sender.left
    BY <1>1, <1>2, <1>3, <2>1, <2>2, <2>3 DEF StreamIs, WriterAt
  <2>5. PICK u \in Units :
            /\ u = IF sender.left = Size[f] + 1 THEN <<"size", Size[f]>> ELSE <<"body", f>>
            /\ wire' = Append(wire, u)
    BY <1>t, <1>1, <1>2, <1>6, TransferSends
  <2>6. Carries(u, k, j)
    <3>1. j \in 0 .. Size[f] /\ (j = 0 <=> sender.left = Size[f] + 1)
      <4>1. \A m, x \in Nat : x > 0 /\ x <= m + 1 =>
                (m + 1 - x) \in 0 .. m /\ (m + 1 - x = 0 <=> x = m + 1)
        OBVIOUS
      <4>2. j = Size[f] + 1 - sender.left
        BY <2>4
      <4>. QED
        BY <1>z, <1>3, <1>4, <4>1, <4>2
    <3>. QED
      BY <1>4, <2>4, <2>5, <3>1 DEF Carries
  <2>7. /\ Len(wire') = n + 1 /\ wire'[n + 1] = u
        /\ \A i \in 1 .. n : wire'[i] = wire[i]
    BY <1>l, <2>2, <2>5
  <2>8. PICK nextK \in Nat, nextJ \in Nat :
            /\ nextK = IF sender.left = 1 THEN k + 1 ELSE k
            /\ nextJ = IF sender.left = 1 THEN 0 ELSE j + 1
    <3>1. (IF sender.left = 1 THEN k + 1 ELSE k) \in Nat
      OBVIOUS
    <3>2. (IF sender.left = 1 THEN 0 ELSE j + 1) \in Nat
      OBVIOUS
    <3>. QED
      BY <3>1, <3>2
  <2>9. Follows(k, j, nextK, nextJ)
    <3>1. \A m, x \in Nat : x > 0 => (m + 1 - x < m <=> x # 1)
      OBVIOUS
    <3>2. j < Size[f] <=> sender.left # 1
      BY <1>z, <1>3, <2>4, <3>1
    <3>3. written[k] = f
      BY <1>4, <2>4
    <3>. QED
      BY <2>8, <3>2, <3>3 DEF Follows
  <2>10. WriterAt(nextK, nextJ)'
    <3>1. CASE sender.left = 1
      BY <1>3, <1>5, <2>4, <2>8, <3>1 DEF WriterAt
    <3>2. CASE sender.left # 1
      <4>1. sender'.left > 0 /\ nextJ = Size[f] + 1 - sender'.left
        BY <1>z, <1>3, <2>4, <2>8, <3>2
      <4>. QED
        BY <1>3, <1>5, <2>4, <2>8, <3>2, <4>1 DEF WriterAt
    <3>. QED
      BY <3>1, <3>2
  <2>11. WholeBefore(nextK)'
    <3>1. WholeBefore(k)'
      BY <1>l, <1>p, <2>1, <2>2, <2>3 DEF StreamIs
    <3>2. CASE sender.left # 1
      BY <2>8, <3>1, <3>2
    <3>3. CASE sender.left = 1
      <4>1. nextK = k + 1 /\ k \in 1 .. Len(written)
        BY <1>4, <2>4, <2>8, <3>3
      <4>2. Whole(written[k])'
        BY <1>1, <1>3, <1>4, <2>4, <3>3 DEF Whole
      <4>3. ASSUME NEW i \in 1 .. Len(written'), i < nextK PROVE Whole(written[i])'
        <5>1. i < k \/ i = k
          BY <4>1, <4>3
        <5>. QED
          BY <3>1, <4>2, <5>1 DEF WholeBefore
      <4>4. nextK <= Len(written') + 1
        BY <1>l, <1>1, <4>1
      <4>. QED
        BY <4>3, <4>4 DEF WholeBefore
    <3>. QED
      BY <3>2, <3>3
  <2>. DEFINE frame2 == [i \in 1 .. n + 2 |-> IF i = n + 2 THEN nextK ELSE frame[i]]
              unit2  == [i \in 1 .. n + 2 |-> IF i = n + 2 THEN nextJ ELSE unit[i]]
  <2>12. /\ frame2 \in [1 .. n + 2 -> Nat] /\ unit2 \in [1 .. n + 2 -> Nat]
         /\ frame2[n + 2] = nextK /\ unit2[n + 2] = nextJ
         /\ \A i \in 1 .. n + 1 : frame2[i] = frame[i] /\ unit2[i] = unit[i]
    BY <2>1, <2>2
  <2>13. PICK fr, un \in [1 .. n + 2 -> Nat] :
            /\ fr[n + 2] = nextK /\ un[n + 2] = nextJ
            /\ \A i \in 1 .. n + 1 : fr[i] = frame[i] /\ un[i] = unit[i]
    BY <2>12
  <2>. HIDE DEF frame2, unit2
  <2>14. ReaderAt(fr[1], un[1])'
    <3>1. 1 \in 1 .. n + 1
      OBVIOUS
    <3>2. fr[1] = frame[1] /\ un[1] = unit[1]
      BY <2>13, <3>1
    <3>3. ReaderAt(frame[1], unit[1])
      BY <2>1 DEF StreamIs
    <3>. QED
      BY <1>1, <3>2, <3>3 DEF ReaderAt
  <2>15. ASSUME NEW i \in 1 .. n + 1
         PROVE  /\ Carries(wire[i], fr[i], un[i])'
                /\ Follows(fr[i], un[i], fr[i + 1], un[i + 1])'
    <3>1. CASE i = n + 1
      <4>1. i + 1 = n + 2 /\ wire'[i] = u /\ fr[i] = k /\ un[i] = j
        BY <2>3, <2>7, <2>13, <3>1
      <4>2. fr[i + 1] = nextK /\ un[i + 1] = nextJ
        BY <2>13, <4>1
      <4>3. Carries(u, k, j)' /\ Follows(k, j, nextK, nextJ)'
        BY <1>p, <2>6, <2>9
      <4>. QED
        BY <4>1, <4>2, <4>3
    <3>2. CASE i # n + 1
      <4>1. i \in 1 .. n /\ i \in 1 .. n + 1 /\ i + 1 \in 1 .. n + 1
        BY <3>2
      <4>2. PICK v : v = wire[i] /\ wire'[i] = v
        BY <2>7, <4>1
      <4>3. Carries(v, frame[i], unit[i]) /\ Follows(frame[i], unit[i], frame[i + 1], unit[i + 1])
        BY <2>1, <2>2, <4>1, <4>2 DEF StreamIs
      <4>4. Carries(v, frame[i], unit[i])' /\ Follows(frame[i], unit[i], frame[i + 1], unit[i + 1])'
        BY <1>p, <4>3
      <4>. QED
        BY <2>13, <4>1, <4>2, <4>4
    <3>. QED
      BY <3>1, <3>2
  <2>16. ASSUME NEW i \in 1 .. n + 2 PROVE WholeBefore(fr[i])'
    <3>1. CASE i = n + 2
      BY <2>11, <2>13, <3>1
    <3>2. CASE i # n + 2
      <4>1. i \in 1 .. n + 1
        BY <3>2
      <4>2. WholeBefore(frame[i]) /\ frame[i] \in Nat /\ fr[i] = frame[i]
        BY <2>1, <2>2, <2>13, <4>1 DEF StreamIs
      <4>. QED
        BY <1>p, <4>2
    <3>. QED
      BY <3>1, <3>2
  <2>17. StreamIs(fr, un)'
    <3>1. WriterAt(fr[Len(wire) + 1], un[Len(wire) + 1])'
      <4>1. Len(wire') + 1 = n + 2
        BY <2>7
      <4>. QED
        BY <2>10, <2>13, <4>1
    <3>2. Len(wire') = n + 1 /\ Len(wire') + 1 = n + 2
      BY <2>7
    <3>. QED
      BY <2>14, <2>15, <2>16, <3>1, <3>2 DEF StreamIs
  <2>18. Len(wire') + 1 = n + 2
    BY <2>7
  <2>. QED
    BY <2>13, <2>17, <2>18
<1>7. StreamIsWhole'
  BY <1>6 DEF StreamIsWhole
<1>8. \A i \in 1 .. Len(written) : Whole(written[i]) => Whole(written[i])'
  <2>. SUFFICES ASSUME NEW i \in 1 .. Len(written), Whole(written[i]) PROVE Whole(written[i])'
    OBVIOUS
  <2>1. PICK g \in Frames : g = written[i] /\ written'[i] = g
    BY <1>l, <1>1
  <2>2. Whole(g)'
    BY <1>w, <2>1
  <2>. QED
    BY <2>1, <2>2 DEF Whole
<1>9. DeliveredInOrder'
  <2>1. ASSUME NEW i \in 1 .. Len(delivered) PROVE delivered[i] = written[i] /\ Whole(written[i])'
    <3>1. i \in 1 .. Len(written) /\ delivered[i] = written[i] /\ Whole(written[i])
      BY <1>l, <1>t DEF DeliveredInOrder
    <3>. QED
      BY <1>8, <3>1
  <2>. QED
    BY <1>t, <1>1, <2>1 DEF DeliveredInOrder
<1>10. ReadsNextFrame'
  <2>1. receiver.phase = "frame" => Len(delivered) + 1 \in 1 .. Len(written)
    BY <1>l, <1>t DEF ReadsNextFrame
  <2>2. receiver.phase = "frame" /\ Whole(written[Len(delivered) + 1])
            => Whole(written[Len(delivered) + 1])'
    <3>. SUFFICES ASSUME receiver.phase = "frame", Whole(written[Len(delivered) + 1])
                  PROVE  Whole(written[Len(delivered) + 1])'
      OBVIOUS
    <3>1. PICK i \in 1 .. Len(written) : i = Len(delivered) + 1
      BY <2>1
    <3>. QED
      BY <1>1, <1>8, <3>1
  <2>. QED
    BY <1>t, <1>1, <2>2 DEF ReadsNextFrame
<1>. QED
  BY <1>7, <1>9, <1>10

-----------------------------------------------------------------------------
(* The reader's steps and the stream.                                      *)

\* What is read is the unit the reader expects, and the stream begins after it.
LEMMA StreamRead ==
    ASSUME ChannelInv, ~receiver.invalidated, wire # << >>, wire' = Tail(wire),
           UNCHANGED <<written, posted, sender>>
    PROVE  \E k, j, nextK, nextJ \in Nat :
              /\ ReaderAt(k, j)
              /\ Carries(Head(wire), k, j)
              /\ Follows(k, j, nextK, nextJ)
              /\ WholeBefore(nextK)
              /\ ReaderAt(nextK, nextJ)' => StreamIsWhole'
<1>t. StreamIsWhole /\ wire \in Seq(Units)
  BY DEF ChannelInv, WriterInv, TypeOK
<1>1. PICK frame, unit \in [1 .. Len(wire) + 1 -> Nat] : StreamIs(frame, unit)
  BY <1>t DEF StreamIsWhole
<1>2. PICK n \in Nat : n = Len(wire) /\ n > 0
  BY <1>t
<1>3. /\ Len(wire') = n - 1 /\ Head(wire) = wire[1]
      /\ \A i \in 1 .. n - 1 : wire'[i] = wire[i + 1]
  BY <1>t, <1>2
<1>4. \A i \in 1 .. n + 1 : frame[i] \in Nat /\ unit[i] \in Nat
  BY <1>1, <1>2
<1>5. 1 \in 1 .. n + 1 /\ 2 \in 1 .. n + 1 /\ 1 \in 1 .. n /\ 1 + 1 = 2
  BY <1>2
<1>6. /\ ReaderAt(frame[1], unit[1])
      /\ Carries(Head(wire), frame[1], unit[1])
      /\ Follows(frame[1], unit[1], frame[2], unit[2])
      /\ WholeBefore(frame[2])
  BY <1>1, <1>2, <1>3, <1>5 DEF StreamIs
<1>7. ASSUME ReaderAt(frame[2], unit[2])' PROVE StreamIsWhole'
  <2>. DEFINE frame2 == [i \in 1 .. n |-> frame[i + 1]]
              unit2  == [i \in 1 .. n |-> unit[i + 1]]
  <2>1. \A i \in 1 .. n : i + 1 \in 1 .. n + 1
    OBVIOUS
  <2>2. /\ frame2 \in [1 .. n -> Nat] /\ unit2 \in [1 .. n -> Nat]
        /\ \A i \in 1 .. n : frame2[i] = frame[i + 1] /\ unit2[i] = unit[i + 1]
    BY <1>4, <2>1
  <2>3. PICK fr, un \in [1 .. n -> Nat] : \A i \in 1 .. n : fr[i] = frame[i + 1] /\ un[i] = unit[i + 1]
    BY <2>2
  <2>. HIDE DEF frame2, unit2
  <2>4. ReaderAt(fr[1], un[1])'
    BY <1>5, <1>7, <2>3
  <2>5. ASSUME NEW i \in 1 .. n - 1
        PROVE  /\ Carries(wire[i], fr[i], un[i])'
               /\ Follows(fr[i], un[i], fr[i + 1], un[i + 1])'
    <3>1. i \in 1 .. n /\ i + 1 \in 1 .. n
      BY <1>2
    <3>2. fr[i] = frame[i + 1] /\ fr[i + 1] = frame[i + 1 + 1]
      BY <2>3, <3>1
    <3>3. un[i] = unit[i + 1] /\ un[i + 1] = unit[i + 1 + 1]
      BY <2>3, <3>1
    <3>4. /\ Carries(wire[i + 1], frame[i + 1], unit[i + 1])
          /\ Follows(frame[i + 1], unit[i + 1], frame[i + 1 + 1], unit[i + 1 + 1])
      BY <1>1, <1>2, <3>1 DEF StreamIs
    <3>5. Carries(wire'[i], fr[i], un[i]) /\ Follows(fr[i], un[i], fr[i + 1], un[i + 1])
      BY <1>3, <3>2, <3>3, <3>4
    <3>. QED
      BY <3>5 DEF Carries, Follows
  <2>6. ASSUME NEW i \in 1 .. n PROVE WholeBefore(fr[i])'
    <3>1. WholeBefore(fr[i])
      BY <1>1, <1>2, <2>1, <2>3, <2>6 DEF StreamIs
    <3>. QED
      BY <3>1 DEF WholeBefore, Whole
  <2>7. ASSUME ~sender'.invalidated PROVE WriterAt(fr[n], un[n])'
    <3>1. n \in 1 .. n
      BY <1>2
    <3>2. WriterAt(fr[n], un[n])
      BY <1>1, <1>2, <2>3, <2>7, <3>1 DEF StreamIs
    <3>. QED
      BY <3>2 DEF WriterAt, Begun
  <2>8. Len(wire') = n - 1 /\ Len(wire') + 1 = n
    BY <1>2, <1>3
  <2>9. StreamIs(fr, un)'
    BY <2>4, <2>5, <2>6, <2>7, <2>8 DEF StreamIs
  <2>. QED
    BY <2>3, <2>8, <2>9 DEF StreamIsWhole
<1>. QED
  BY <1>4, <1>5, <1>6, <1>7

\* The size that is read is the size of the next frame.
LEMMA ReadFrameSizeKeepsStream ==
    ASSUME ChannelInv, ReadFrameSize
    PROVE  StreamIsWhole' /\ DeliveredInOrder' /\ ReadsNextFrame'
<1>t. /\ WriterInv /\ DeliveredInOrder /\ ReadsNextFrame /\ ReaderTypes
      /\ Len(delivered) \in Nat
  BY TypesSplit DEF ChannelInv, WriterInv, ReaderTypes
<1>l. /\ Len(written) \in Nat
      /\ \A i \in 1 .. Len(written) : written[i] \in Frames
      /\ \A g \in Frames : Size[g] \in Nat /\ Size[g] > 0
  BY <1>t, WrittenFrames
<1>u. UNCHANGED <<written, posted, sender, alive, delivered>>
  BY DEF ReadFrameSize
<1>1. /\ wire # << >> /\ wire' = Tail(wire)
      /\ receiver.phase = "size" /\ ~receiver.invalidated
      /\ receiver'.got = receiver.got
      /\ receiver'.incomingFrameSize \in SizesRead(Head(wire))
      /\ \/ receiver'.phase = "frame" /\ ~receiver'.invalidated
         \/ receiver'.phase = "stopped" /\ receiver'.invalidated
  BY <1>t, ReadFrameSizeEffect
<1>2. PICK k, j, nextK, nextJ \in Nat :
        /\ ReaderAt(k, j)
        /\ Carries(Head(wire), k, j)
        /\ Follows(k, j, nextK, nextJ)
        /\ WholeBefore(nextK)
        /\ ReaderAt(nextK, nextJ)' => StreamIsWhole'
  BY <1>1, <1>u, StreamRead
<1>3. k = Len(delivered) + 1 /\ j = 0
  BY <1>1, <1>2 DEF ReaderAt
<1>4. k \in 1 .. Len(written) /\ written[k] \in Frames /\ Head(wire) = <<"size", Size[written[k]]>>
  BY <1>l, <1>2, <1>3 DEF Carries
<1>5. receiver'.incomingFrameSize = Size[written[k]]
  BY <1>1, <1>4 DEF SizesRead
<1>6. receiver'.got = << >> /\ Len(receiver'.got) = 0
  BY <1>1, <1>t DEF ReadsNextFrame
<1>7. Size[written[k]] \in Nat /\ Size[written[k]] > 0
  BY <1>l, <1>4
<1>8. DeliveredInOrder'
  BY <1>t, <1>u DEF DeliveredInOrder, Whole
<1>9. CASE receiver'.invalidated /\ receiver'.phase = "stopped"
  BY <1>8, <1>9 DEF StreamIsWhole, ReadsNextFrame
<1>10. CASE receiver'.phase = "frame"
  <2>1. nextK = k /\ nextJ = 1
    BY <1>2, <1>3, <1>7 DEF Follows
  <2>2. ReaderAt(nextK, nextJ)'
    BY <1>u, <1>3, <1>5, <1>6, <1>7, <1>10, <2>1 DEF ReaderAt
  <2>3. ReadsNextFrame'
    <3>1. /\ Len(delivered') + 1 <= Len(written')
          /\ receiver'.incomingFrameSize = Size[written'[Len(delivered') + 1]]
          /\ Len(receiver'.got) <= receiver'.incomingFrameSize
          /\ Len(receiver'.got) # receiver'.incomingFrameSize
      BY <1>l, <1>u, <1>3, <1>4, <1>5, <1>6, <1>7
    <3>2. \A i \in 1 .. Len(receiver'.got) :
                receiver'.got[i] = <<"body", written'[Len(delivered') + 1]>>
      BY <1>6
    <3>. QED
      BY <1>10, <3>1, <3>2 DEF ReadsNextFrame
  <2>. QED
    BY <1>2, <1>8, <2>2, <2>3
<1>. QED
  BY <1>1, <1>9, <1>10

\* The bytes that are read are those of the next frame; after the last of
\* them all of it has left.
LEMMA ReadFrameKeepsStream ==
    ASSUME ChannelInv, ReadFrame
    PROVE  StreamIsWhole' /\ DeliveredInOrder' /\ ReadsNextFrame'
<1>t. /\ WriterInv /\ DeliveredInOrder /\ ReadsNextFrame /\ ReaderTypes
      /\ Len(delivered) \in Nat
  BY TypesSplit DEF ChannelInv, WriterInv, ReaderTypes
<1>l. /\ Len(written) \in Nat
      /\ \A i \in 1 .. Len(written) : written[i] \in Frames
      /\ \A g \in Frames : Size[g] \in Nat /\ Size[g] > 0
  BY <1>t, WrittenFrames
<1>u. UNCHANGED <<written, posted, sender, alive, delivered>>
  BY DEF ReadFrame
<1>1. /\ wire # << >> /\ wire' = Tail(wire)
      /\ receiver.phase = "frame" /\ receiver'.phase = "frame"
      /\ ~receiver.invalidated /\ ~receiver'.invalidated
      /\ receiver'.incomingFrameSize = receiver.incomingFrameSize
      /\ Len(receiver.got) < receiver.incomingFrameSize
      /\ receiver'.got = Append(receiver.got, Head(wire))
  BY <1>t, ReadFrameEffect
<1>2. PICK k, j, nextK, nextJ \in Nat :
        /\ ReaderAt(k, j)
        /\ Carries(Head(wire), k, j)
        /\ Follows(k, j, nextK, nextJ)
        /\ WholeBefore(nextK)
        /\ ReaderAt(nextK, nextJ)' => StreamIsWhole'
  BY <1>1, <1>u, StreamRead
<1>3. k = Len(delivered) + 1 /\ j = Len(receiver.got) + 1
  BY <1>1, <1>2 DEF ReaderAt
<1>g. receiver.got \in Seq(Units) /\ Len(receiver.got) \in Nat
  BY <1>t DEF ReaderTypes
<1>4. /\ k \in 1 .. Len(written) /\ written[k] \in Frames /\ j # 0
      /\ Head(wire) = <<"body", written[k]>> /\ j <= Size[written[k]]
  BY <1>l, <1>g, <1>2, <1>3 DEF Carries
<1>5. receiver.incomingFrameSize = Size[written[k]] /\ Size[written[k]] \in Nat
  BY <1>t, <1>l, <1>1, <1>3, <1>4 DEF ReadsNextFrame
<1>h. Head(wire) \in Units
  BY <1>t, ReadFrameEffect
<1>6. /\ Len(receiver'.got) = j /\ receiver'.got[j] = <<"body", written[k]>>
      /\ \A i \in 1 .. Len(receiver.got) : receiver'.got[i] = receiver.got[i]
  <2>1. \A s \in Seq(Units), x \in Units :
            /\ Len(Append(s, x)) = Len(s) + 1 /\ Append(s, x)[Len(s) + 1] = x
            /\ \A i \in 1 .. Len(s) : Append(s, x)[i] = s[i]
    OBVIOUS
  <2>. QED
    BY <1>1, <1>g, <1>h, <1>3, <1>4, <2>1
<1>7. \A i \in 1 .. Len(receiver'.got) : receiver'.got[i] = <<"body", written[k]>>
  <2>. SUFFICES ASSUME NEW i \in 1 .. Len(receiver'.got)
                PROVE  receiver'.got[i] = <<"body", written[k]>>
    OBVIOUS
  <2>1. i = j \/ i \in 1 .. Len(receiver.got)
    BY <1>g, <1>3, <1>6
  <2>2. \A m \in 1 .. Len(receiver.got) : receiver.got[m] = <<"body", written[k]>>
    BY <1>t, <1>1, <1>3 DEF ReadsNextFrame
  <2>. QED
    BY <1>6, <2>1, <2>2
<1>8. DeliveredInOrder'
  BY <1>t, <1>u DEF DeliveredInOrder, Whole
<1>9. ReaderAt(nextK, nextJ)'
  <2>1. CASE j < Size[written[k]]
    <3>1. nextK = k /\ nextJ = j + 1
      BY <1>2, <2>1 DEF Follows
    <3>. QED
      BY <1>u, <1>1, <1>3, <1>5, <1>6, <2>1, <3>1 DEF ReaderAt
  <2>2. CASE ~(j < Size[written[k]])
    <3>1. nextK = k + 1 /\ nextJ = 0
      BY <1>2, <2>2 DEF Follows
    <3>2. k + 1 = Len(delivered) + 2
      BY <1>t, <1>3
    <3>. QED
      BY <1>u, <1>1, <1>3, <1>5, <1>6, <2>2, <3>1, <3>2 DEF ReaderAt
  <2>. QED
    BY <2>1, <2>2
<1>10. Len(receiver'.got) = receiver'.incomingFrameSize => Whole(written[k])
  <2>. SUFFICES ASSUME Len(receiver'.got) = receiver'.incomingFrameSize PROVE Whole(written[k])
    OBVIOUS
  <2>1. nextK = k + 1
    BY <1>1, <1>2, <1>5, <1>6 DEF Follows
  <2>. QED
    BY <1>2, <1>4, <2>1 DEF WholeBefore
<1>11. ReadsNextFrame'
  <2>1. /\ Len(delivered') + 1 <= Len(written')
        /\ receiver'.incomingFrameSize = Size[written'[Len(delivered') + 1]]
        /\ Len(receiver'.got) <= receiver'.incomingFrameSize
    BY <1>u, <1>1, <1>3, <1>4, <1>5, <1>6
  <2>2. \A i \in 1 .. Len(receiver'.got) :
            receiver'.got[i] = <<"body", written'[Len(delivered') + 1]>>
    BY <1>u, <1>3, <1>7
  <2>3. Len(receiver'.got) = receiver'.incomingFrameSize => Whole(written[Len(delivered) + 1])'
    BY <1>u, <1>3, <1>10 DEF Whole
  <2>. QED
    BY <1>1, <2>1, <2>2, <2>3 DEF ReadsNextFrame
<1>. QED
  BY <1>2, <1>8, <1>9, <1>11

\* A complete read decodes to the next frame.
LEMMA DecodesNextFrame ==
    ASSUME ChannelInv, IncomingFrame
    PROVE  /\ Len(delivered) + 1 \in 1 .. Len(written)
           /\ Decode(receiver.got) = written[Len(delivered) + 1]
           /\ Whole(written[Len(delivered) + 1])
<1>t. /\ WriterInv /\ DeliveredInOrder /\ ReadsNextFrame /\ ReaderTypes
      /\ Len(delivered) \in Nat
  BY TypesSplit DEF ChannelInv, WriterInv, ReaderTypes
<1>l. /\ Len(written) \in Nat
      /\ \A i \in 1 .. Len(written) : written[i] \in Frames
      /\ \A g \in Frames : Size[g] \in Nat /\ Size[g] > 0
  BY <1>t, WrittenFrames
<1>1. receiver.phase = "frame" /\ Len(receiver.got) = receiver.incomingFrameSize
  BY DEF IncomingFrame
<1>2. Len(delivered) + 1 \in 1 .. Len(written)
  BY <1>t, <1>l, <1>1 DEF ReadsNextFrame
<1>3. PICK f \in Frames : f = written[Len(delivered) + 1]
  BY <1>l, <1>2
<1>4. /\ Len(receiver.got) = Size[f] /\ Whole(f)
      /\ \A i \in 1 .. Len(receiver.got) : receiver.got[i] = <<"body", f>>
  BY <1>t, <1>1, <1>3 DEF ReadsNextFrame
<1>5. ASSUME NEW g \in Frames, \A i \in 1 .. Len(receiver.got) : receiver.got[i] = <<"body", g>>
      PROVE  g = f
  <2>1. 1 \in 1 .. Len(receiver.got)
    BY <1>l, <1>4
  <2>2. <<"body", g>> = <<"body", f>>
    BY <1>4, <1>5, <2>1
  <2>. QED
    BY <2>2
<1>6. {g \in Frames : Len(receiver.got) = Size[g]
            /\ \A i \in 1 .. Len(receiver.got) : receiver.got[i] = <<"body", g>>} = {f}
  BY <1>4, <1>5
<1>7. Decode(receiver.got) = f
  BY <1>6 DEF Decode
<1>. QED
  BY <1>2, <1>3, <1>4, <1>7

\* The frame that is delivered is the next one, and is whole.
LEMMA IncomingFrameKeepsStream ==
    ASSUME ChannelInv, IncomingFrame
    PROVE  StreamIsWhole' /\ DeliveredInOrder' /\ ReadsNextFrame'
<1>t. /\ WriterInv /\ DeliveredInOrder /\ ReadsNextFrame /\ ReaderTypes /\ StreamIsWhole
      /\ Len(delivered) \in Nat /\ delivered \in Seq(Frames \cup {Garbage})
  BY TypesSplit DEF ChannelInv, WriterInv, ReaderTypes
<1>u. UNCHANGED <<written, posted, sender, alive, wire>>
  BY DEF IncomingFrame
<1>1. /\ receiver.phase = "frame" /\ receiver'.phase = "size"
      /\ receiver'.invalidated = receiver.invalidated
      /\ receiver'.got = << >>
      /\ Len(receiver.got) = receiver.incomingFrameSize
      /\ delivered' = Append(delivered, Decode(receiver.got))
  BY <1>t, IncomingFrameEffect
<1>2. /\ Len(delivered) + 1 \in 1 .. Len(written)
      /\ Decode(receiver.got) = written[Len(delivered) + 1]
      /\ Whole(written[Len(delivered) + 1])
      /\ written[Len(delivered) + 1] \in Frames
  BY <1>t, DecodesNextFrame, WrittenFrames
<1>3. /\ Len(delivered') = Len(delivered) + 1
      /\ delivered'[Len(delivered) + 1] = written[Len(delivered) + 1]
      /\ \A i \in 1 .. Len(delivered) : delivered'[i] = delivered[i]
  BY <1>t, <1>1, <1>2
<1>4. DeliveredInOrder'
  <2>1. ASSUME NEW i \in 1 .. Len(delivered') PROVE delivered'[i] = written[i] /\ Whole(written[i])
    <3>1. i = Len(delivered) + 1 \/ i \in 1 .. Len(delivered)
      BY <1>t, <1>3
    <3>. QED
      BY <1>t, <1>2, <1>3, <3>1 DEF DeliveredInOrder
  <2>2. Len(delivered') <= Len(written)
    BY <1>2, <1>3
  <2>. QED
    BY <1>u, <2>1, <2>2 DEF DeliveredInOrder, Whole
<1>5. ReadsNextFrame'
  BY <1>1 DEF ReadsNextFrame
<1>6. ASSUME ~receiver'.invalidated PROVE StreamIsWhole'
  <2>1. PICK frame, unit \in [1 .. Len(wire) + 1 -> Nat] : StreamIs(frame, unit)
    BY <1>t, <1>1, <1>6 DEF StreamIsWhole
  <2>2. ReaderAt(frame[1], unit[1])'
    <3>1. frame[1] = Len(delivered) + 2 /\ unit[1] = 0
      BY <1>t, <1>1, <2>1 DEF StreamIs, ReaderAt, ReaderTypes
    <3>2. Len(delivered) + 2 = Len(delivered') + 1
      BY <1>t, <1>3
    <3>. QED
      BY <1>1, <3>1, <3>2 DEF ReaderAt
  <2>3. StreamIs(frame, unit)'
    <3>1. ASSUME NEW i \in 1 .. Len(wire')
          PROVE  /\ Carries(wire[i], frame[i], unit[i])'
                 /\ Follows(frame[i], unit[i], frame[i + 1], unit[i + 1])'
      BY <1>u, <2>1 DEF StreamIs, Carries, Follows
    <3>2. ASSUME NEW i \in 1 .. Len(wire') + 1 PROVE WholeBefore(frame[i])'
      BY <1>u, <2>1 DEF StreamIs, WholeBefore, Whole
    <3>3. ASSUME ~sender'.invalidated PROVE WriterAt(frame[Len(wire) + 1], unit[Len(wire) + 1])'
      BY <1>u, <2>1, <3>3 DEF StreamIs, WriterAt, Begun
    <3>. QED
      BY <2>2, <3>1, <3>2, <3>3 DEF StreamIs
  <2>. QED
    BY <1>u, <2>1, <2>3 DEF StreamIsWhole
<1>7. StreamIsWhole'
  BY <1>6 DEF StreamIsWhole
<1>. QED
  BY <1>4, <1>5, <1>7

\* A reader that is invalidated reads no more, and what it has stays.
LEMMA ReaderClosesKeepsStream ==
    ASSUME ChannelInv, ReadFails \/ ReceiverWriteFails
    PROVE  StreamIsWhole' /\ DeliveredInOrder' /\ ReadsNextFrame'
<1>t. DeliveredInOrder /\ ReadsNextFrame /\ ReaderTypes
  BY TypesSplit DEF ChannelInv, WriterInv
<1>u. UNCHANGED <<written, sender, delivered>>
  BY DEF ReadFails, ReceiverWriteFails
<1>1. /\ receiver'.invalidated
      /\ receiver'.phase \in {receiver.phase, "stopped"}
      /\ receiver'.incomingFrameSize = receiver.incomingFrameSize
      /\ receiver'.got = receiver.got
  BY <1>t, ReaderClosesEffect
<1>2. StreamIsWhole'
  BY <1>1 DEF StreamIsWhole
<1>3. DeliveredInOrder'
  BY <1>t, <1>u DEF DeliveredInOrder, Whole
<1>4. ReadsNextFrame'
  BY <1>t, <1>u, <1>1 DEF ReadsNextFrame, Whole
<1>. QED
  BY <1>2, <1>3, <1>4

-----------------------------------------------------------------------------
(* The refinement.                                                         *)

\* ChannelInv, with the read buffer's bound that OwnInv carries, is inductive.
LEMMA ChannelInvInductive ==
    /\ Init => OwnInv /\ ChannelInv
    /\ OwnInv /\ ChannelInv /\ [Next]_vars => OwnInv' /\ ChannelInv'
<1>1. ASSUME Init PROVE OwnInv /\ ChannelInv
  <2>1. OwnInv
    BY <1>1, OwnInvInductive
  <2>. USE <1>1 DEF Init
  <2>2. DeliveredInOrder /\ ReadsNextFrame
    BY DEF DeliveredInOrder, ReadsNextFrame
  <2>3. StreamIsWhole
    <3>1. PICK frame, unit \in [1 .. 1 -> Nat] : frame[1] = 1 /\ unit[1] = 0
      <4>1. [i \in 1 .. 1 |-> 1] \in [1 .. 1 -> Nat] /\ [i \in 1 .. 1 |-> 0] \in [1 .. 1 -> Nat]
        OBVIOUS
      <4>2. [i \in 1 .. 1 |-> 1][1] = 1 /\ [i \in 1 .. 1 |-> 0][1] = 0
        OBVIOUS
      <4>. QED
        BY <4>1, <4>2
    <3>2. ReaderAt(1, 0) /\ WriterAt(1, 0) /\ WholeBefore(1)
      BY DEF ReaderAt, WriterAt, WholeBefore, Begun
    <3>3. Len(wire) = 0
      OBVIOUS
    <3>4. StreamIs(frame, unit)
      BY <3>1, <3>2, <3>3 DEF StreamIs
    <3>. QED
      BY <3>1, <3>3, <3>4 DEF StreamIsWhole
  <2>. QED
    BY <2>1, <2>2, <2>3 DEF ChannelInv, OwnInv
<1>2. ASSUME OwnInv, ChannelInv, [Next]_vars PROVE OwnInv' /\ ChannelInv'
  <2>1. OwnInv'
    BY <1>2, OwnInvInductive
  <2>2. ASSUME UNCHANGED vars PROVE StreamIsWhole' /\ DeliveredInOrder' /\ ReadsNextFrame'
    <3>1. WrittenStays /\ Len(written') \in Nat
      BY <1>2, <2>2, WrittenFrames DEF vars, WrittenStays, ChannelInv
    <3>2. /\ \A f \in Frames : Whole(f) => Whole(f)'
          /\ \A k, j : WriterAt(k, j) => WriterAt(k, j)'
      BY <2>2 DEF vars, Whole, WriterAt, Begun
    <3>. QED
      BY <1>2, <2>2, <3>1, <3>2, StreamKept DEF vars
  <2>3. StreamIsWhole' /\ DeliveredInOrder' /\ ReadsNextFrame'
    BY <1>2, <2>2, WriterKeepsStream, TransferKeepsStream, ReadFrameSizeKeepsStream,
       ReadFrameKeepsStream, IncomingFrameKeepsStream, ReaderClosesKeepsStream
       DEF Next, WriterStep
  <2>. QED
    BY <2>1, <2>3 DEF ChannelInv, OwnInv
<1>. QED
  BY <1>1, <1>2

\* Callbacks that are called for fresh frames, or for the frame written, are a
\* Complete of the channel, if an aborted frame has not been delivered.
LEMMA CallsComplete ==
    ASSUME ChannelInv, NEW done \in SUBSET Frames, NEW result \in {"ok", "aborted"},
           \A f \in done : /\ sender.callbacks[f] = << >>
                           /\ \E i \in 1 .. Len(written) : written[i] = f
                           /\ result = "aborted" => ~Whole(f),
           sender'.callbacks = Called(sender.callbacks, done, result),
           UNCHANGED <<written, delivered>>
    PROVE  Channel!Complete(done, result)
<1>1. ASSUME NEW f \in done, result = "aborted", NEW i \in 1 .. Len(delivered) PROVE delivered[i] # f
  BY <1>1 DEF ChannelInv, DeliveredInOrder
<1>2. ASSUME NEW f \in done PROVE Append(sender.callbacks[f], result) = <<result>>
  <2>1. Append(<< >>, result) = <<result>>
    OBVIOUS
  <2>. QED
    BY <1>2, <2>1
<1>3. sender'.callbacks = [f \in Frames |-> IF f \in done THEN <<result>> ELSE sender.callbacks[f]]
  BY <1>2 DEF Called
<1>. QED
  BY <1>1, <1>3 DEF Channel!Complete

\* Every step of the two wrappers is a step of the channel, or none.
LEMMA ChannelStep ==
    ASSUME ChannelInv, [Next]_vars
    PROVE  [Channel!Next]_(Channel!channelVars)
<1>t. /\ WriterInv /\ ReaderTypes /\ DeliveredInOrder /\ ReportedLast /\ WritesOneAtATime
      /\ sender.callbacks \in [Frames -> Seq({"ok", "aborted"})]
  BY OwnOfInv, TypesSplit, Lengths DEF ChannelInv, WriterOwn
<1>e. << >> # <<"ok">>
  OBVIOUS
<1>w. ASSUME NEW f, Fresh(f) PROVE ~Whole(f)
  BY <1>e, <1>w DEF Fresh, Whole
<1>q. /\ Queued(sender) \in SUBSET Frames
      /\ \A f \in Queued(sender) : Fresh(f)
  BY <1>t, WaitingAreFresh DEF Fresh
<1>1. ASSUME NEW f \in Frames, WriteFrame(f) PROVE Channel!Next
  <2>1. Channel!Write(f)
    BY <1>1 DEF WriteFrame, Channel!Write
  <2>. QED
    BY <2>1 DEF Channel!Next
<1>2. ASSUME WriteFramePosted PROVE Channel!Next \/ UNCHANGED Channel!channelVars
  <2>1. posted # << >> /\ UNCHANGED <<written, delivered>>
    BY <1>2 DEF WriteFramePosted
  <2>2. PICK h : h = Head(posted)
    OBVIOUS
  <2>3. \/ sender'.callbacks = sender.callbacks
        \/ sender'.callbacks = Called(sender.callbacks, {h}, "aborted")
    BY <1>t, <1>2, <2>2, WriteFramePostedEffect
  <2>4. CASE sender'.callbacks = sender.callbacks
    BY <2>1, <2>4 DEF Channel!channelVars
  <2>5. CASE sender'.callbacks = Called(sender.callbacks, {h}, "aborted")
    <3>1. Fresh(h)
      BY <1>t, <2>1, <2>2, WaitingAreFresh
    <3>2. {h} \in SUBSET Frames /\ "aborted" \in {"ok", "aborted"}
      BY <3>1 DEF Fresh
    <3>3. \A f \in {h} : /\ sender.callbacks[f] = << >>
                         /\ \E i \in 1 .. Len(written) : written[i] = f
                         /\ ~Whole(f)
      BY <1>w, <3>1 DEF Fresh
    <3>4. Channel!Complete({h}, "aborted")
      BY <2>1, <2>5, <3>2, <3>3, CallsComplete
    <3>. QED
      BY <3>2, <3>4 DEF Channel!Next
  <2>. QED
    BY <2>3, <2>4, <2>5
<1>3. ASSUME WriteSucceeds PROVE Channel!Next
  <2>1. /\ sender.writing \in Frames /\ sender.writing # NoFrame
        /\ sender'.callbacks = Called(sender.callbacks, {sender.writing}, "ok")
        /\ UNCHANGED <<written, delivered>>
    BY <1>t, <1>3, WriteSucceedsEffect DEF WriteSucceeds, WriteCompletes
  <2>2. /\ sender.callbacks[sender.writing] = << >>
        /\ \E i \in 1 .. Len(written) : written[i] = sender.writing
    BY <1>t, <2>1, WrittenFrames DEF ReportedLast, WritesOneAtATime
  <2>3. {sender.writing} \in SUBSET Frames /\ "ok" \in {"ok", "aborted"} /\ "ok" # "aborted"
    BY <2>1
  <2>4. PICK done \in SUBSET Frames : done = {sender.writing}
    BY <2>3
  <2>5. Channel!Complete(done, "ok")
    BY <2>1, <2>2, <2>3, <2>4, CallsComplete
  <2>. QED
    BY <2>3, <2>4, <2>5 DEF Channel!Next
<1>4. ASSUME WriteFails PROVE Channel!Next
  <2>1. /\ sender.writing \in Frames /\ sender.writing # NoFrame /\ sender.left > 0
        /\ sender'.callbacks =
                Called(sender.callbacks, {sender.writing} \cup Queued(sender), "aborted")
        /\ UNCHANGED <<written, delivered>>
    BY <1>t, <1>4, WriteFailsEffect DEF WriteFails, WriteCompletes
  <2>2. /\ sender.callbacks[sender.writing] = << >>
        /\ \E i \in 1 .. Len(written) : written[i] = sender.writing
    BY <1>t, <2>1, WrittenFrames DEF ReportedLast, WritesOneAtATime
  <2>3. ~Whole(sender.writing)
    BY <1>e, <2>1, <2>2 DEF Whole
  <2>4. PICK done \in SUBSET Frames : done = {sender.writing} \cup Queued(sender)
    BY <1>q, <2>1
  <2>5. \A f \in done : /\ sender.callbacks[f] = << >>
                        /\ \E i \in 1 .. Len(written) : written[i] = f
                        /\ ~Whole(f)
    BY <1>q, <1>w, <2>2, <2>3, <2>4 DEF Fresh
  <2>6. Channel!Complete(done, "aborted")
    BY <2>1, <2>4, <2>5, CallsComplete
  <2>. QED
    BY <2>4, <2>6 DEF Channel!Next
<1>5. ASSUME SenderReadFails \/ Destroy PROVE Channel!Next
  <2>1. /\ sender'.callbacks = Called(sender.callbacks, Queued(sender), "aborted")
        /\ UNCHANGED <<written, delivered>>
    BY <1>t, <1>5, CloseEffect DEF SenderReadFails, Destroy
  <2>2. PICK done \in SUBSET Frames : done = Queued(sender)
    BY <1>q
  <2>3. \A f \in done : /\ sender.callbacks[f] = << >>
                        /\ \E i \in 1 .. Len(written) : written[i] = f
                        /\ ~Whole(f)
    BY <1>q, <1>w, <2>2 DEF Fresh
  <2>4. Channel!Complete(done, "aborted")
    BY <2>1, <2>2, <2>3, CallsComplete
  <2>. QED
    BY <2>2, <2>4 DEF Channel!Next
<1>6. ASSUME IncomingFrame PROVE Channel!Next
  <2>1. /\ delivered' = Append(delivered, Decode(receiver.got))
        /\ UNCHANGED <<written, sender>>
    BY <1>6 DEF IncomingFrame
  <2>2. /\ Len(delivered) + 1 \in 1 .. Len(written)
        /\ Decode(receiver.got) = written[Len(delivered) + 1]
        /\ Whole(written[Len(delivered) + 1])
    BY <1>6, DecodesNextFrame
  <2>3. sender.callbacks[written[Len(delivered) + 1]] # <<"aborted">>
    <3>1. <<"ok">> # <<"aborted">> /\ << >> # <<"aborted">>
      OBVIOUS
    <3>2. PICK f \in Frames : f = written[Len(delivered) + 1]
      BY <1>t, <2>2, WrittenFrames
    <3>3. sender.writing = f => sender.callbacks[f] = << >>
      BY <1>t, <3>2, SocketWrapperAssumption DEF ReportedLast
    <3>. QED
      BY <2>2, <3>1, <3>2, <3>3 DEF Whole
  <2>4. Len(delivered) < Len(written)
    BY <1>t, <2>2, WrittenFrames DEF ReaderTypes
  <2>5. Channel!Deliver
    BY <2>1, <2>2, <2>3, <2>4 DEF Channel!Deliver
  <2>. QED
    BY <2>5 DEF Channel!Next
<1>7. ASSUME Transfer \/ ReadFrameSize \/ ReadFrame \/ ReadFails \/ ReceiverWriteFails
             \/ UNCHANGED vars
      PROVE  UNCHANGED Channel!channelVars
  <2>1. UNCHANGED <<written, delivered>>
    BY <1>7 DEF Transfer, ReadFrameSize, ReadFrame, ReadFails, ReceiverWriteFails, vars
  <2>2. sender'.callbacks = sender.callbacks
    BY <1>t, <1>7, TransferKeeps DEF ReadFrameSize, ReadFrame, ReadFails, ReceiverWriteFails, vars
  <2>. QED
    BY <2>1, <2>2 DEF Channel!channelVars
<1>. QED
  BY <1>1, <1>2, <1>3, <1>4, <1>5, <1>6, <1>7 DEF Next

\* For any frames of any sizes, and however the writes and reads of the two
\* ends fail, a pair of SocketWrappers is a channel: frames arrive whole, in
\* the order of the writeFrame calls and without gaps, every callback is
\* called at most once, and a frame reported as aborted never arrives.
THEOREM SocketWrapperIsChannel == Spec => RefinesChannel
<1>1. Init => Channel!Init
  BY DEF Init, Channel!Init
<1>2. ChannelInv /\ [Next]_vars => [Channel!Next]_(Channel!channelVars)
  BY ChannelStep
<1>. QED
  BY <1>1, <1>2, ChannelInvInductive, PTL DEF Spec, RefinesChannel, Channel!Spec

-----------------------------------------------------------------------------
(* No callback is forgotten.                                               *)

\* A frame is in a queue.
In(queue, f) == \E i \in 1 .. Len(queue) : queue[i] = f

\* Frames that have not been reported on and are nowhere to be found.
Lost(f) ==
    /\ \E i \in 1 .. Len(written) : written[i] = f
    /\ sender.callbacks[f] = << >>
    /\ ~In(posted, f)
    /\ ~In(sender.pendingWrites, f)
    /\ f # sender.writing

\* What NoCallbackForgotten says, frame by frame.
LEMMA ForgottenAreLost ==
    NoCallbackForgotten <=>
        /\ \A f : ~Lost(f)
        /\ sender.pendingWrites # << >> => sender.writing # NoFrame
  BY DEF NoCallbackForgotten, Lost, In, Queued

\* A callback that has been called stays called, and so are those called now.
LEMMA CalledGrows ==
    ASSUME NEW callbacks \in [Frames -> Seq({"ok", "aborted"})], NEW frames,
           NEW result \in {"ok", "aborted"}, NEW f \in Frames,
           Called(callbacks, frames, result)[f] = << >>
    PROVE  callbacks[f] = << >> /\ f \notin frames
<1>1. PICK c \in Seq({"ok", "aborted"}) : c = callbacks[f]
  OBVIOUS
<1>2. Append(c, result) # << >>
  OBVIOUS
<1>. QED
  BY <1>1, <1>2 DEF Called

\* What is queued is behind a write in progress.
LEMMA QueuedBehindWrite ==
    ASSUME WriterInv
    PROVE  sender.pendingWrites # << >> => sender.writing # NoFrame
  BY DEF WriterInv, Reported, QueuesAreInOrder, WritesOneAtATime, TypeOK

\* The frames of a queue after one is added at its end, or taken from its front.
LEMMA QueueMembers ==
    ASSUME NEW q \in Seq(Frames), NEW f
    PROVE  /\ \A g \in Frames : In(q, f) \/ f = g => In(Append(q, g), f)
           /\ q # << >> /\ In(q, f) => f = Head(q) \/ In(Tail(q), f)
           /\ q = << >> => ~In(q, f)
<1>1. ASSUME NEW g \in Frames, In(q, f) \/ f = g PROVE In(Append(q, g), f)
  <2>1. /\ Len(Append(q, g)) = Len(q) + 1 /\ Append(q, g)[Len(q) + 1] = g
        /\ \A i \in 1 .. Len(q) : Append(q, g)[i] = q[i]
    OBVIOUS
  <2>2. \A i \in 1 .. Len(q) : i \in 1 .. Len(q) + 1
    OBVIOUS
  <2>3. Len(q) + 1 \in 1 .. Len(q) + 1
    OBVIOUS
  <2>4. PICK app : app = Append(q, g)
    OBVIOUS
  <2>. QED
    BY <1>1, <2>1, <2>2, <2>3, <2>4 DEF In
<1>2. ASSUME q # << >>, NEW i \in 1 .. Len(q), q[i] = f
      PROVE  f = Head(q) \/ \E j \in 1 .. Len(Tail(q)) : Tail(q)[j] = f
  <2>1. CASE i = 1
    BY <1>2, <2>1
  <2>2. CASE i # 1
    <3>1. i - 1 \in 1 .. Len(Tail(q)) /\ Tail(q)[i - 1] = q[i]
      BY <1>2, <2>2
    <3>. QED
      BY <1>2, <3>1
  <2>. QED
    BY <2>1, <2>2
<1>3. q = << >> => ~In(q, f)
  BY DEF In
<1>. QED
  BY <1>1, <1>2, <1>3 DEF In

\* The queued frames are those in the queue.
LEMMA QueuedIn ==
    ASSUME NEW f
    PROVE  f \in Queued(sender) <=> In(sender.pendingWrites, f)
  BY DEF Queued, In

\* A step that leaves the writer and its queues alone loses no frame.
LEMMA NothingLostIfUnchanged ==
    ASSUME NEW f, Lost(f)', UNCHANGED <<written, posted>>,
           sender'.callbacks = sender.callbacks,
           sender'.pendingWrites = sender.pendingWrites,
           sender'.writing = sender.writing
    PROVE  Lost(f)
  BY DEF Lost, In

\* No step of the writer loses a frame that was not lost.
LEMMA NothingLost ==
    ASSUME WriterInv, [Next]_vars, NEW f, Lost(f)'
    PROVE  Lost(f)
<1>t. WriterTypes /\ WritesOneAtATime
  BY OwnOfInv DEF WriterOwn
<1>l. /\ written \in Seq(Frames) /\ posted \in Seq(Frames)
      /\ sender.pendingWrites \in Seq(Frames)
      /\ sender.callbacks \in [Frames -> Seq({"ok", "aborted"})]
      /\ \A i \in 1 .. Len(written) : written[i] \in Frames
  BY <1>t, Lengths DEF WriterTypes
<1>f. ASSUME UNCHANGED written PROVE f \in Frames /\ \E i \in 1 .. Len(written) : written[i] = f
  BY <1>f, <1>l DEF Lost
<1>1. ASSUME NEW g \in Frames, WriteFrame(g) PROVE Lost(f)
  <2>1. written' = Append(written, g) /\ posted' = Append(posted, g) /\ UNCHANGED sender
    BY <1>1 DEF WriteFrame
  <2>2. /\ ~In(Append(posted, g), f) /\ sender.callbacks[f] = << >>
        /\ ~In(sender.pendingWrites, f) /\ f # sender.writing
    BY <2>1 DEF Lost
  <2>3. ~In(posted, f) /\ f # g
    BY <1>l, <2>2, QueueMembers
  <2>5. \E i \in 1 .. Len(written) : written[i] = f
    <3>1. PICK i \in 1 .. Len(written') : written'[i] = f
      BY DEF Lost
    <3>2. Len(written') = Len(written) + 1 /\ written'[Len(written) + 1] = g
      BY <1>l, <2>1
    <3>3. i \in 1 .. Len(written) /\ written'[i] = written[i]
      BY <1>l, <2>1, <2>3, <3>1, <3>2
    <3>. QED
      BY <3>1, <3>3
  <2>. QED
    BY <2>2, <2>3, <2>5 DEF Lost
<1>2. ASSUME WriteFramePosted PROVE Lost(f)
  <2>1. posted # << >> /\ posted' = Tail(posted) /\ UNCHANGED written
    BY <1>2 DEF WriteFramePosted
  <2>2. f \in Frames /\ \E i \in 1 .. Len(written) : written[i] = f
    BY <1>f, <2>1
  <2>3. /\ sender'.callbacks[f] = << >> /\ f # sender'.writing
        /\ ~In(sender'.pendingWrites, f) /\ ~In(Tail(posted), f)
    BY <2>1 DEF Lost
  <2>4. PICK h : h = Head(posted)
    OBVIOUS
  <2>5. ~In(posted, f) \/ f = h
    BY <1>l, <2>1, <2>3, <2>4, QueueMembers
  <2>c. PICK callbacks \in [Frames -> Seq({"ok", "aborted"})] : callbacks = sender.callbacks
    BY <1>l
  <2>6. h \in Frames
    BY <1>2, <2>4, WriteFramePostedEffect
  <2>7. CASE /\ sender'.pendingWrites = Append(sender.pendingWrites, h)
             /\ sender'.callbacks = sender.callbacks /\ WriteStays
    <3>1. PICK q \in Seq(Frames) : q = sender.pendingWrites
      BY <1>l
    <3>2. ~In(Append(q, h), f)
      BY <2>3, <2>7, <3>1
    <3>3. f # h /\ ~In(q, f)
      BY <2>6, <3>2, QueueMembers
    <3>. QED
      BY <2>2, <2>3, <2>5, <2>7, <3>1, <3>3 DEF Lost, WriteStays
  <2>8. CASE /\ sender.writing = NoFrame /\ sender.pendingWrites = << >>
             /\ sender'.callbacks = sender.callbacks /\ Begins(h)
    <3>1. f # h /\ ~In(sender.pendingWrites, f) /\ f # sender.writing
      BY <2>2, <2>3, <2>8, SocketWrapperAssumption DEF In, Begins
    <3>. QED
      BY <2>2, <2>3, <2>5, <2>8, <3>1 DEF Lost
  <2>9. CASE /\ sender.pendingWrites = << >>
             /\ sender'.callbacks = Called(sender.callbacks, {h}, "aborted")
             /\ WriteStays
    <3>0. Called(callbacks, {h}, "aborted")[f] = << >> /\ "aborted" \in {"ok", "aborted"}
      BY <2>3, <2>9, <2>c
    <3>1. sender.callbacks[f] = << >> /\ f # h
      BY <2>2, <2>c, <3>0, CalledGrows
    <3>2. ~In(sender.pendingWrites, f)
      BY <2>9 DEF In
    <3>. QED
      BY <2>2, <2>3, <2>5, <2>9, <3>1, <3>2 DEF Lost, WriteStays
  <2>. QED
    BY <1>2, <2>4, <2>7, <2>8, <2>9, WriteFramePostedEffect
<1>3. ASSUME WriteSucceeds PROVE Lost(f)
  <2>1. UNCHANGED <<written, posted>>
    BY <1>3 DEF WriteSucceeds, WriteCompletes
  <2>2. f \in Frames /\ \E i \in 1 .. Len(written) : written[i] = f
    BY <1>f, <2>1
  <2>3. /\ sender'.callbacks[f] = << >> /\ f # sender'.writing
        /\ ~In(sender'.pendingWrites, f) /\ ~In(posted, f)
    BY <2>1 DEF Lost
  <2>c. PICK callbacks \in [Frames -> Seq({"ok", "aborted"})] : callbacks = sender.callbacks
    BY <1>l
  <2>4. PICK w \in Frames : w = sender.writing
    BY <1>3, WriteSucceedsEffect
  <2>5. sender'.callbacks = Called(sender.callbacks, {w}, "ok")
    BY <1>3, <2>4, WriteSucceedsEffect
  <2>6. sender.callbacks[f] = << >> /\ f # sender.writing
    <3>1. Called(callbacks, {w}, "ok")[f] = << >> /\ "ok" \in {"ok", "aborted"}
      BY <2>3, <2>5, <2>c
    <3>. QED
      BY <2>2, <2>4, <2>c, <3>1, CalledGrows
  <2>7. CASE sender.pendingWrites = << >>
    BY <2>2, <2>3, <2>6, <2>7 DEF Lost, In
  <2>8. CASE /\ sender.pendingWrites # << >>
             /\ sender'.pendingWrites = Tail(sender.pendingWrites)
             /\ Begins(Head(sender.pendingWrites))
    <3>1. f # Head(sender.pendingWrites)
      BY <2>3, <2>8 DEF Begins
    <3>2. ~In(sender.pendingWrites, f)
      <4>1. PICK q \in Seq(Frames) : q = sender.pendingWrites
        BY <1>l
      <4>2. q # << >> /\ f # Head(q) /\ ~In(Tail(q), f)
        BY <2>3, <2>8, <3>1, <4>1
      <4>3. ~In(q, f)
        BY <4>2, QueueMembers
      <4>. QED
        BY <4>1, <4>3
    <3>. QED
      BY <2>2, <2>3, <2>6, <3>2 DEF Lost
  <2>. QED
    BY <1>3, <2>7, <2>8, WriteSucceedsEffect
<1>4. ASSUME WriteFails PROVE Lost(f)
  <2>1. UNCHANGED <<written, posted>>
    BY <1>4 DEF WriteFails, WriteCompletes
  <2>2. f \in Frames /\ \E i \in 1 .. Len(written) : written[i] = f
    BY <1>f, <2>1
  <2>3. sender'.callbacks[f] = << >> /\ ~In(posted, f)
    BY <2>1 DEF Lost
  <2>4. PICK gone : gone = {sender.writing} \cup Queued(sender)
    OBVIOUS
  <2>5. sender'.callbacks = Called(sender.callbacks, gone, "aborted")
    BY <1>4, <2>4, WriteFailsEffect
  <2>6. sender.callbacks[f] = << >> /\ f \notin gone
    <3>1. PICK callbacks \in [Frames -> Seq({"ok", "aborted"})] : callbacks = sender.callbacks
      BY <1>l
    <3>2. Called(callbacks, gone, "aborted")[f] = << >> /\ "aborted" \in {"ok", "aborted"}
      BY <2>3, <2>5, <3>1
    <3>. QED
      BY <2>2, <3>1, <3>2, CalledGrows
  <2>. QED
    BY <2>2, <2>3, <2>4, <2>6, QueuedIn DEF Lost
<1>5. ASSUME SenderReadFails \/ Destroy PROVE Lost(f)
  <2>1. UNCHANGED <<written, posted>>
    BY <1>5 DEF SenderReadFails, Destroy
  <2>2. f \in Frames /\ \E i \in 1 .. Len(written) : written[i] = f
    BY <1>f, <2>1
  <2>3. sender'.callbacks[f] = << >> /\ f # sender'.writing /\ ~In(posted, f)
    BY <2>1 DEF Lost
  <2>4. PICK gone : gone = Queued(sender)
    OBVIOUS
  <2>5. sender'.callbacks = Called(sender.callbacks, gone, "aborted") /\ WriteStays
    BY <1>5, <2>4, CloseEffect
  <2>6. sender.callbacks[f] = << >> /\ f \notin gone
    <3>1. PICK callbacks \in [Frames -> Seq({"ok", "aborted"})] : callbacks = sender.callbacks
      BY <1>l
    <3>2. Called(callbacks, gone, "aborted")[f] = << >> /\ "aborted" \in {"ok", "aborted"}
      BY <2>3, <2>5, <3>1
    <3>. QED
      BY <2>2, <3>1, <3>2, CalledGrows
  <2>. QED
    BY <2>2, <2>3, <2>4, <2>5, <2>6, QueuedIn DEF Lost, WriteStays
<1>6. ASSUME Transfer PROVE Lost(f)
  <2>1. sender' = [sender EXCEPT !.left = @ - 1] /\ UNCHANGED <<written, posted>>
    BY <1>6 DEF Transfer
  <2>2. /\ sender'.callbacks = sender.callbacks
        /\ sender'.pendingWrites = sender.pendingWrites /\ sender'.writing = sender.writing
    BY <1>t, <2>1 DEF WriterTypes, Senders
  <2>. QED
    BY <2>1, <2>2, NothingLostIfUnchanged
<1>7. ASSUME ReadFrameSize \/ ReadFrame \/ IncomingFrame \/ ReadFails \/ ReceiverWriteFails
             \/ UNCHANGED vars
      PROVE  Lost(f)
  <2>1. UNCHANGED <<written, posted, sender>>
    BY <1>7 DEF ReadFrameSize, ReadFrame, IncomingFrame, ReadFails, ReceiverWriteFails, vars
  <2>. QED
    BY <2>1, NothingLostIfUnchanged
<1>. QED
  BY <1>1, <1>2, <1>3, <1>4, <1>5, <1>6, <1>7 DEF Next

\* For any frames, and however writes fail and the object goes away, each
\* frame written is reported on or still has someone who will.
THEOREM NoCallbackForgottenCorrect == Spec => []NoCallbackForgotten
<1>. DEFINE NoneLost == \A f : ~Lost(f)
<1>1. Init => NoneLost
  BY DEF Init, Lost
<1>2. ASSUME OwnInv, NoneLost, [Next]_vars PROVE NoneLost'
  BY <1>2, NothingLost DEF OwnInv
<1>3. OwnInv /\ NoneLost => NoCallbackForgotten
  BY ForgottenAreLost, QueuedBehindWrite DEF OwnInv
<1>. HIDE DEF NoneLost
<1>. QED
  BY <1>1, <1>2, <1>3, OwnInvInductive, PTL DEF Spec
=============================================================================
