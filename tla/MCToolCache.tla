------------------------------ MODULE MCToolCache ------------------------------
(* Instances of ToolCache for TLC.                                             *)
EXTENDS ToolCache

CONSTANTS q1, q2, q3, w1, u1, u2

ThreeReaders == {q1, q2, q3}
OneWriter == {w1}
TwoUrls == {u1, u2}
Sometimes == {TRUE, FALSE}
================================================================================
