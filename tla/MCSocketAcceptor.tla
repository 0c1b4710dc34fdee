-------------------------- MODULE MCSocketAcceptor --------------------------
EXTENDS SocketAcceptor, TLC

Symmetry == Permutations(Clients)
=============================================================================
