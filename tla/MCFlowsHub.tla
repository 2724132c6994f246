------------------------------ MODULE MCFlowsHub ------------------------------
(* Instances of FlowsHub for TLC.                                             *)
EXTENDS FlowsHub, TLC

CONSTANTS u, v, s1, s2

TwoViewers == {u, v}
TwoStreams == {s1, s2}
===============================================================================
