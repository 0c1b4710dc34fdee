---------------------------- MODULE MCReplication ----------------------------
EXTENDS Replication, TLC

\* Messages and threads are interchangeable; nodes are too, in safety runs.
Symmetry == Permutations(Messages) \cup Permutations(Threads) \cup Permutations(Nodes)
=============================================================================
