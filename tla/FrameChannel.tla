---------------------------- MODULE FrameChannel ----------------------------
(***************************************************************************)
(* What a pair of SocketWrappers promises in one direction: frames arrive  *)
(* whole and in the order of the writeFrame calls, without gaps, until the *)
(* channel stops; the callback of a write is called once, and a frame      *)
(* whose callback reported an error never arrives.                         *)
(***************************************************************************)
EXTENDS Naturals, Sequences

CONSTANTS Frames

VARIABLES written,    \* frames in the order of the writeFrame calls
          completed,  \* the results each callback was called with
          delivered   \* frames the peer's incomingFrame signal carried

channelVars == <<written, completed, delivered>>

Init ==
    /\ written = << >>
    /\ completed = [f \in Frames |-> << >>]
    /\ delivered = << >>

Write(f) ==
    /\ \A i \in 1 .. Len(written) : written[i] # f
    /\ written' = Append(written, f)
    /\ UNCHANGED <<completed, delivered>>

Complete(done, result) ==
    /\ \A f \in done : /\ completed[f] = << >>
                       /\ \E i \in 1 .. Len(written) : written[i] = f
                       /\ result = "aborted" => \A i \in 1 .. Len(delivered) : delivered[i] # f
    /\ completed' = [f \in Frames |-> IF f \in done THEN <<result>> ELSE completed[f]]
    /\ UNCHANGED <<written, delivered>>

Deliver ==
    /\ Len(delivered) < Len(written)
    /\ completed[written[Len(delivered) + 1]] # <<"aborted">>
    /\ delivered' = Append(delivered, written[Len(delivered) + 1])
    /\ UNCHANGED <<written, completed>>

Next ==
    \/ \E f \in Frames : Write(f)
    \/ \E done \in SUBSET Frames, result \in {"ok", "aborted"} : Complete(done, result)
    \/ Deliver

Spec == Init /\ [][Next]_channelVars
=============================================================================
