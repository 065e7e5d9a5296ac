-------------------------- MODULE MCNetworkClient --------------------------
EXTENDS NetworkClient, TLC

Symmetry == Permutations(Nodes) \cup Permutations(Requests) \cup Permutations(Connectors)
=============================================================================
