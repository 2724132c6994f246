--------------------------- MODULE MCKnowledgeGraph ---------------------------
(* Instances of KnowledgeGraph for TLC.                                       *)
EXTENDS KnowledgeGraph, TLC

CONSTANTS p1, p2, s1, web, db

TwoPods == {p1, p2}
OneService == {s1}
TwoLabels == {web, db}

\* p1 and p2 are one pod name, deleted and recreated.
SameName == [p \in Pod |-> "a"]

\* The kind that stands for those a cluster need not serve (Argo, Tekton).
OnlyServices == {"services"}
===============================================================================
