------------------------- MODULE MCBrokerConnection -------------------------
EXTENDS BrokerConnection, TLC

Symmetry == Permutations(Sockets) \cup Permutations(Requests)
=============================================================================
