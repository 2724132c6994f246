------------------------------ MODULE MCLiveHub -------------------------------
(* Instances of LiveHub for TLC.                                              *)
EXTENDS LiveHub, TLC

CONSTANTS c1, c2, a, b, pods, x, w1, w2, w3

TwoConns == {c1, c2}
ThreePanels == {<<c1, a>>, <<c1, b>>, <<c2, a>>}
OneKey == {pods}
OneObj == {x}
ThreeWatchers == {w1, w2, w3}
===============================================================================
