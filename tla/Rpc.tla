-------------------------------- MODULE Rpc --------------------------------
(***************************************************************************)
(* What Proto::Endpoint promises of a call: the peer serves it at most     *)
(* once, at any time and even after the caller has given it up; the future *)
(* is filled once, with a value only if the peer answered this very call,  *)
(* with an exception otherwise.  Several calls may fail in one step.       *)
(***************************************************************************)
CONSTANTS Calls

VARIABLES outcome,   \* what the future of a call holds
          served     \* what the peer did about it

rpcVars == <<outcome, served>>

Init ==
    /\ outcome = [c \in Calls |-> "idle"]
    /\ served = [c \in Calls |-> "no"]

Call(c) ==
    /\ outcome[c] = "idle"
    /\ outcome' = [outcome EXCEPT ![c] = "open"]
    /\ UNCHANGED served

Serve(c) ==
    /\ outcome[c] # "idle"
    /\ served[c] = "no"
    /\ served' = [served EXCEPT ![c] = "running"]
    /\ UNCHANGED outcome

Finish(c, how) ==
    /\ served[c] = "running"
    /\ served' = [served EXCEPT ![c] = how]
    /\ UNCHANGED outcome

Return(c) ==
    /\ outcome[c] = "open"
    /\ served[c] = "answered"
    /\ outcome' = [outcome EXCEPT ![c] = "value"]
    /\ UNCHANGED served

Fail(failed) ==
    /\ \A c \in failed : outcome[c] = "open"
    /\ outcome' = [c \in Calls |-> IF c \in failed THEN "failed" ELSE outcome[c]]
    /\ UNCHANGED served

Next ==
    \/ \E c \in Calls : \/ Call(c) \/ Serve(c) \/ Return(c)
                        \/ \E how \in {"answered", "dropped"} : Finish(c, how)
    \/ \E failed \in SUBSET Calls : Fail(failed)

Spec == Init /\ [][Next]_rpcVars
=============================================================================
