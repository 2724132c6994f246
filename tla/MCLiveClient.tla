----------------------------- MODULE MCLiveClient -----------------------------
(* Instances of LiveClient for TLC.                                           *)
EXTENDS LiveClient

CONSTANTS a, b, k1, k2, k3

TwoSubs == {a, b}
ThreeSockets == {k1, k2, k3}
===============================================================================
