-------------------------- MODULE MCAuthSession --------------------------
\* Symmetry for the runs of AuthSession: requests and replicas are
\* interchangeable (used by the runs that check no liveness).
EXTENDS AuthSession, TLC

Symmetry == Permutations(Req) \union Permutations(Replica)
=============================================================================
