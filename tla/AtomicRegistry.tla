--------------------------- MODULE AtomicRegistry ---------------------------
(***************************************************************************)
(* What secondariesMutex_ promises: registering a secondary, announcing it *)
(* as ready, dropping it and copying the whole registry each happen at     *)
(* once.  This is the registry that Replication works with.                *)
(***************************************************************************)
CONSTANTS Ids,      \* secondary ids
          Readers,  \* whoever takes snapshots
          Nothing   \* no snapshot

VARIABLES registry,  \* what is registered under an id
          gone,      \* ids that have been dropped
          taken      \* the snapshots that are kept

registryVars == <<registry, gone, taken>>

Init ==
    /\ registry = [id \in Ids |-> "absent"]
    /\ gone = {}
    /\ taken = [r \in Readers |-> Nothing]

Add(id) ==
    /\ registry[id] = "absent"
    /\ id \notin gone
    /\ registry' = [registry EXCEPT ![id] = "REGISTERING"]
    /\ UNCHANGED <<gone, taken>>

Ready(id) ==
    /\ registry[id] # "absent"
    /\ registry' = [registry EXCEPT ![id] = "OPERATIONAL"]
    /\ UNCHANGED <<gone, taken>>

Drop(id) ==
    /\ registry[id] # "absent"
    /\ registry' = [registry EXCEPT ![id] = "absent"]
    /\ gone' = gone \cup {id}
    /\ UNCHANGED taken

\* The registry itself goes away.
Close ==
    /\ registry' = [id \in Ids |-> "absent"]
    /\ gone' = gone \cup {id \in Ids : registry[id] # "absent"}
    /\ UNCHANGED taken

Snapshot(r) ==
    /\ taken[r] = Nothing
    /\ taken' = [taken EXCEPT ![r] = registry]
    /\ UNCHANGED <<registry, gone>>

Forget(r) ==
    /\ taken' = [taken EXCEPT ![r] = Nothing]
    /\ UNCHANGED <<registry, gone>>

Next ==
    \/ \E id \in Ids : Add(id) \/ Ready(id) \/ Drop(id)
    \/ Close
    \/ \E r \in Readers : Snapshot(r) \/ Forget(r)

Spec == Init /\ [][Next]_registryVars
=============================================================================
