---------------------------- MODULE MCSupportTickets ----------------------------
(* Instances of SupportTickets for TLC.                                       *)
EXTENDS SupportTickets, TLC

CONSTANTS r1, r2, i1, i2

OneReplica == {r1}
TwoReplicas == {r1, r2}
OneIncident == {i1}
TwoIncidents == {i1, i2}
NoFamily == {}

BothReplicas == Permutations(TwoReplicas)
=================================================================================
