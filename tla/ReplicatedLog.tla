---------------------------- MODULE ReplicatedLog ----------------------------
(***************************************************************************)
(* What the system promises of its log, without connections, calls or      *)
(* threads: messages are put under fresh ids and never change, a secondary *)
(* only ever learns messages of the log (in any order, any number at a     *)
(* time) until its process dies, and a client is told "ok" for a message   *)
(* at most once and only when the log holds it.                            *)
(***************************************************************************)
CONSTANTS Ids, Messages, Absent, Nodes

VARIABLES log,        \* the master's messages
          replicas,   \* the messages of each secondary
          confirmed   \* ids of the messages clients got an answer for

logVars == <<log, replicas, confirmed>>

Empty == [id \in Ids |-> Absent]

Init ==
    /\ log = Empty
    /\ replicas = [n \in Nodes |-> Empty]
    /\ confirmed = {}

Append(id, message) ==
    /\ log[id] = Absent
    /\ log' = [log EXCEPT ![id] = message]
    /\ UNCHANGED <<replicas, confirmed>>

\* n learns the messages of the ids in learned.
Learn(n, learned) ==
    /\ \A id \in learned : log[id] # Absent
    /\ replicas' = [replicas EXCEPT ![n] =
                        [id \in Ids |-> IF id \in learned THEN log[id]
                                                          ELSE replicas[n][id]]]
    /\ UNCHANGED <<log, confirmed>>

Forget(n) ==
    /\ replicas' = [replicas EXCEPT ![n] = Empty]
    /\ UNCHANGED <<log, confirmed>>

Confirm(id) ==
    /\ log[id] # Absent
    /\ id \notin confirmed
    /\ confirmed' = confirmed \cup {id}
    /\ UNCHANGED <<log, replicas>>

Next ==
    \/ \E id \in Ids : Confirm(id) \/ \E m \in Messages : Append(id, m)
    \/ \E n \in Nodes : Forget(n) \/ \E learned \in SUBSET Ids : Learn(n, learned)

Spec == Init /\ [][Next]_logVars
=============================================================================
