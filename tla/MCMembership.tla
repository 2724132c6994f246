----------------------------- MODULE MCMembership -----------------------------
(* Instances of Membership for TLC.                                           *)
EXTENDS Membership, TLC

CONSTANTS a, b, c, r1, r2

ThreePeople == {a, b, c}
OnePlatformAdmin == {c}
TwoRequests == {r1, r2}
Symmetry == Permutations({a, b}) \cup Permutations(TwoRequests)
===============================================================================
