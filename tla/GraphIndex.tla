------------------------------ MODULE GraphIndex ------------------------------
(* The in-memory graph index (graph/index-store.ts).  Several source objects  *)
(* may contribute the same node or edge, so each part is recorded against its *)
(* contributors and lives until the last of them withdraws it.                *)
(*                                                                            *)
(* A part is a node or an edge: both are kept by the same counting.  What a   *)
(* node says beyond its identity is one detail, merged field by field in the  *)
(* code; NoDetail is a field the contribution leaves out (or "unknown").      *)
CONSTANTS
  Source,   \* keys of source objects
  Part,     \* node ids and edge keys
  Detail,   \* what a contribution says of a part
  NoDetail, \* it says nothing
  Gone      \* the part is not in the index

VARIABLES
  bySource,  \* per source: the parts it contributed last
  holders,   \* per part: nodeContributors, edgeContributors
  detail     \* per part: its description while it is in the index

index == <<bySource, holders, detail>>

\* A contribution maps its parts to their details; a withdrawn source has none.
Nothing == [p \in {} |-> NoDetail]

Init ==
  /\ bySource = [s \in Source |-> {}]
  /\ holders = [p \in Part |-> {}]
  /\ detail = [p \in Part |-> Gone]

\* mergeNodes: a field the newcomer leaves out keeps its value.
Merge(old, new) == IF old = Gone \/ new # NoDetail THEN new ELSE old

\* The sources among those of c that contribute part p there, and those whose
\* last contribution had it and whose new one does not.
Giving(c, p) == {s \in DOMAIN c : p \in DOMAIN c[s]}
Leaving(c, p) == {s \in DOMAIN c : p \in bySource[s] \ DOMAIN c[s]}

\* Mutant: apply adds without withdrawing what the source no longer contributes.
HoldersNeverReleased(c, p) == holders[p] \cup Giving(c, p)

\* releaseNode, releaseEdge and addTo, for part p.
HoldersAfter(c, p) == (holders[p] \ Leaving(c, p)) \cup Giving(c, p)

DetailAfter(c, p) ==
  IF Giving(c, p) # {}
    THEN Merge(detail[p], c[CHOOSE s \in Giving(c, p) : TRUE][p])
  ELSE IF HoldersAfter(c, p) = {} THEN Gone ELSE detail[p]

\* apply, for every source of c in turn; a source mapped to Nothing is removed.
\* No two sources of one call contribute the same part.
Contribute(c) ==
  /\ bySource' = [s \in Source |-> IF s \in DOMAIN c THEN DOMAIN c[s] ELSE bySource[s]]
  /\ holders' = [p \in Part |-> HoldersAfter(c, p)]
  /\ detail' = [p \in Part |-> DetailAfter(c, p)]

-------------------------------------------------------------------------------
TypeOK ==
  /\ bySource \in [Source -> SUBSET Part]
  /\ holders \in [Part -> SUBSET Source]
  /\ detail \in [Part -> Detail \cup {Gone}]

\* index-store.ts: a part survives while anything still refers to it and
\* disappears when its last contributor goes.
RefCounted ==
  \A p \in Part :
    /\ holders[p] = {s \in Source : p \in bySource[s]}
    /\ detail[p] = Gone <=> holders[p] = {}
===============================================================================
