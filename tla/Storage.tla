------------------------------- MODULE Storage -------------------------------
(***************************************************************************)
(* The message storages of the two programs (app/master-node/storage and   *)
(* app/secondary-node/storage) as values: a storage maps every message id  *)
(* to a payload or to Absent.  Both classes keep a concurrent hash map     *)
(* that only ever grows, so a walk that probes start, start+1, ... until   *)
(* the first miss returns what the map holds at the moment of that miss:   *)
(* the operators below are the code's loops at that moment.                *)
(***************************************************************************)
EXTENDS Naturals, Sequences, FiniteSetsExt

CONSTANTS Messages,     \* payloads
          Absent,       \* no payload under this id
          MaxMessages   \* bound: how many ids the master hands out

ASSUME StorageAssumption ==
    /\ MaxMessages \in Nat
    /\ Absent \notin Messages

MessageIds == 0 .. (MaxMessages - 1)

StorageType == [MessageIds -> Messages \cup {Absent}]

EmptyStorage == [id \in MessageIds |-> Absent]

Has(storage, id) == id \in MessageIds /\ storage[id] # Absent

\* unordered_map::insert: an id that is present keeps its payload.
Insert(storage, id, message) ==
    IF Has(storage, id) THEN storage ELSE [storage EXCEPT ![id] = message]

\* Mutant: the walk goes on past the gaps.
LastPresent(storage, start) ==
    Max({start} \cup {i + 1 : i \in {j \in start .. MaxMessages : Has(storage, j)}})

\* The id at which a walk from start stops.
FirstMissing(storage, start) ==
    Min({i \in start .. MaxMessages : ~Has(storage, i)})

\* Storage::getFirstGap of the secondary.
FirstGap(storage) == FirstMissing(storage, 0)

\* Storage::getContiguousChunk: the payloads from start to the first miss.
ContiguousChunk(storage, start) ==
    [i \in 1 .. (FirstMissing(storage, start) - start) |-> storage[start + i - 1]]

\* Mutant: the chunk is stored one id too high.
AddMessagesShifted(storage, start, chunk) ==
    [id \in MessageIds |->
        IF ~Has(storage, id) /\ id \in (start + 1) .. (start + Len(chunk))
        THEN chunk[id - start]
        ELSE storage[id]]

\* Storage::addMessages of the secondary: chunk[i] goes under start + i - 1,
\* and an id already present keeps its payload.
AddMessages(storage, start, chunk) ==
    [id \in MessageIds |->
        IF ~Has(storage, id) /\ id \in start .. (start + Len(chunk) - 1)
        THEN chunk[id - start + 1]
        ELSE storage[id]]
=============================================================================
