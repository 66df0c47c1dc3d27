-------------------------- MODULE MCSessionManager --------------------------
EXTENDS SessionManager, TLC

Symmetry == Permutations(SessionIds) \cup Permutations(Clients)
=============================================================================
