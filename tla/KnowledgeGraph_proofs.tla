------------------------- MODULE KnowledgeGraph_proofs -------------------------
(* Proofs about KnowledgeGraph, for every set of pods, services and labels:   *)
(* the index counts its contributors exactly, and the edges of every service  *)
(* are those of its selector against the pods the builder knows.              *)
EXTENDS KnowledgeGraph, FiniteSetTheorems, TLAPS

Object == Pod \cup Service

State == Selector \cup {Absent}

Frame == [object : Object, state : State]

\* The part of the state's shape the two results need.
FlowTypeOK ==
  /\ cluster \in [Object -> State]
  /\ known \in [Object -> State]
  /\ batch \in [Kind -> SUBSET Frame]
  /\ stream \in [Kind -> Seq(Frame)]
  /\ owned \in [Kind -> SUBSET Object]

GraphInv == FlowTypeOK /\ RefCounted /\ SelectsExact

-------------------------------------------------------------------------------
(* Contributions *)

\* Every contribution names parts of the graph and says something of each.
LEMMA ContributionParts ==
  ASSUME NEW o \in Object, NEW seen \in [Object -> State]
  PROVE  /\ DOMAIN Contribution(o, seen) \subseteq Part
         /\ \A p \in DOMAIN Contribution(o, seen) :
             Contribution(o, seen)[p] \in Selector /\ Contribution(o, seen)[p] # Gone
<1>1. CASE seen[o] = Absent
  BY <1>1 DEF Contribution, Index!Nothing
<1>2. CASE seen[o] # Absent /\ o \in Pod
  BY <1>2, GraphAssumption DEF Contribution, Part, Selector
<1>3. CASE seen[o] # Absent /\ o \notin Pod
  <2>1. o \in Service
    BY <1>3 DEF Object
  <2>2. ServiceParts(o, seen) \subseteq Part
    BY <2>1 DEF ServiceParts, Matching, Part
  <2>3. seen[o] \in Selector /\ seen[o] # Gone /\ NoSelector \in Selector /\ NoSelector # Gone
    BY <1>3, GraphAssumption DEF State, Selector
  <2> QED
    BY <1>3, <2>2, <2>3 DEF Contribution
<1> QED
  BY <1>1, <1>2, <1>3

\* Index!Contribute keeps the count of contributors exact.
LEMMA ContributeCounts ==
  ASSUME RefCounted, NEW c,
         DOMAIN c \subseteq Object,
         \A s \in DOMAIN c : DOMAIN c[s] \subseteq Part /\ \A p \in DOMAIN c[s] : c[s][p] # Gone,
         Index!Contribute(c)
  PROVE  RefCounted'
<1> SUFFICES ASSUME NEW p \in Part
             PROVE  /\ holders'[p] = {s \in Object : p \in bySource'[s]}
                    /\ detail'[p] = Gone <=> holders'[p] = {}
  BY DEF RefCounted, Index!RefCounted, Object
<1>1. /\ holders[p] = {s \in Object : p \in bySource[s]}
      /\ detail[p] = Gone <=> holders[p] = {}
  BY DEF RefCounted, Index!RefCounted, Object
<1>2. \A s \in Object : bySource'[s] = IF s \in DOMAIN c THEN DOMAIN c[s] ELSE bySource[s]
  BY DEF Index!Contribute, Object
<1>3. holders'[p] = (holders[p] \ Index!Leaving(c, p)) \cup Index!Giving(c, p)
  BY DEF Index!Contribute, Index!HoldersAfter
<1>4. holders'[p] = {s \in Object : p \in bySource'[s]}
  BY <1>1, <1>2, <1>3 DEF Index!Leaving, Index!Giving
<1>5. detail'[p] = Index!DetailAfter(c, p)
  BY DEF Index!Contribute
<1>6. CASE Index!Giving(c, p) # {}
  <2> DEFINE giver == CHOOSE s \in Index!Giving(c, p) : TRUE
  <2>1. giver \in Index!Giving(c, p)
    BY <1>6
  <2>2. c[giver][p] # Gone
    BY <2>1 DEF Index!Giving
  <2>3. detail'[p] # Gone
    BY <1>5, <1>6, <2>2 DEF Index!DetailAfter, Index!Merge
  <2> QED
    BY <1>3, <1>4, <1>6, <2>3
<1>7. CASE Index!Giving(c, p) = {}
  BY <1>1, <1>3, <1>4, <1>5, <1>7 DEF Index!DetailAfter, Index!HoldersAfter
<1> QED
  BY <1>4, <1>6, <1>7

\* Absorbing changes of some objects keeps both results.
LEMMA AbsorbKeepsInv ==
  ASSUME GraphInv, NEW k \in Kind, NEW os \in SUBSET Object, NEW seen \in [Object -> State],
         \A o \in Object \ os : seen[o] = known[o],
         Absorb(k, os, seen)
  PROVE  /\ RefCounted' /\ SelectsExact'
         /\ known' \in [Object -> State] /\ owned' \in [Kind -> SUBSET Object]
<1> DEFINE touched == os \cup Affected(os \cap Pod, seen)
           c == [o \in touched |-> Contribution(o, seen)]
<1> USE DEF GraphInv
<1>1. touched \subseteq Object
  BY DEF Affected, Object
<1>2. Index!Contribute(c) /\ known' = seen
  BY DEF Absorb
<1>3. \A s \in DOMAIN c : DOMAIN c[s] \subseteq Part /\ \A p \in DOMAIN c[s] : c[s][p] # Gone
  BY <1>1, ContributionParts
<1>4. RefCounted'
  <2> HIDE DEF c
  <2>1. DOMAIN c \subseteq Object
    BY <1>1 DEF c
  <2> QED
    BY <1>2, <1>3, <2>1, ContributeCounts
<1>5. \A o \in Object \ touched : DOMAIN Contribution(o, seen) = DOMAIN Contribution(o, known)
  <2> SUFFICES ASSUME NEW o \in Object \ touched
               PROVE  Contribution(o, seen) = Contribution(o, known)
    OBVIOUS
  <2>1. seen[o] = known[o]
    OBVIOUS
  <2>2. CASE o \in Pod \/ known[o] = Absent
    BY <2>1, <2>2 DEF Contribution
  <2>3. CASE o \notin Pod /\ known[o] # Absent
    <3>1. o \in Service
      BY <2>3 DEF Object
    <3>2. ASSUME NEW p \in Pod PROVE Selects(o, p, seen) <=> Selects(o, p, known)
      <4>1. CASE seen[p] = known[p]
        BY <2>1, <4>1 DEF Selects
      <4>2. CASE seen[p] # known[p]
        <5>1. p \in os \cap Pod
          BY <4>2 DEF Object
        <5> QED
          BY <2>3, <3>1, <4>2, <5>1 DEF Affected
      <4> QED
        BY <4>1, <4>2
    <3>3. ServiceParts(o, seen) = ServiceParts(o, known)
      BY <3>2 DEF ServiceParts, Matching
    <3> QED
      BY <2>1, <3>3 DEF Contribution
  <2> QED
    BY <2>2, <2>3
<1>6. SelectsExact'
  <2> SUFFICES ASSUME NEW o \in Object
               PROVE  bySource'[o] = DOMAIN Contribution(o, seen)
    BY <1>2 DEF SelectsExact, Object, Contribution, ServiceParts, Matching, Selects
  <2>1. bySource'[o] = IF o \in touched THEN DOMAIN Contribution(o, seen) ELSE bySource[o]
    BY <1>2 DEF Index!Contribute, Object
  <2>2. bySource[o] = DOMAIN Contribution(o, known)
    BY DEF SelectsExact, Object
  <2> QED
    BY <1>5, <2>1, <2>2
<1>7. owned' \in [Kind -> SUBSET Object]
  BY DEF Absorb, FlowTypeOK
<1> QED
  BY <1>2, <1>4, <1>6, <1>7
-------------------------------------------------------------------------------
(* The steps *)

\* createIndex: an empty index, nothing listed yet.
LEMMA InitGraphInv == Init => GraphInv
<1> SUFFICES ASSUME Init PROVE GraphInv
  OBVIOUS
<1>1. FlowTypeOK
  BY DEF Init, FlowTypeOK, Object, State, Frame
<1>2. RefCounted
  BY DEF Init, Index!Init, RefCounted, Index!RefCounted, Object
<1>3. SelectsExact
  <2>1. \A o \in Object : bySource[o] = {}
    BY DEF Init, Index!Init, Object
  <2>2. \A o \in Object : Contribution(o, known) = Index!Nothing
    BY DEF Init, Contribution, Object
  <2>3. DOMAIN Index!Nothing = {}
    BY DEF Index!Nothing
  <2> QED
    BY <2>1, <2>2, <2>3 DEF SelectsExact, Object
<1> QED
  BY <1>1, <1>2, <1>3 DEF GraphInv

\* A step that leaves the index and the builder's view alone.
LEMMA IndexUntouched ==
  ASSUME GraphInv, UNCHANGED <<graph, known>>
  PROVE  RefCounted' /\ SelectsExact'
<1>1. RefCounted'
  BY DEF GraphInv, graph, RefCounted, Index!RefCounted
<1>2. \A o \in Object : Contribution(o, known') = Contribution(o, known)
  OBVIOUS
<1>3. SelectsExact'
  BY <1>2 DEF GraphInv, graph, SelectsExact, Object
<1> QED
  BY <1>1, <1>3

\* A change in the cluster reaches the index only through a frame.
LEMMA ChangeGraphInv ==
  ASSUME GraphInv, NEW o \in Object, NEW v \in State, Change(o, v)
  PROVE  GraphInv'
<1>1. RefCounted' /\ SelectsExact'
  BY IndexUntouched DEF Change, graph
<1>2. cluster' \in [Object -> State]
  BY DEF Change, GraphInv, FlowTypeOK
<1>3. stream' \in [Kind -> Seq(Frame)]
  <2>1. [object |-> o, state |-> v] \in Frame
    BY DEF Frame
  <2> QED
    BY <2>1 DEF Change, GraphInv, FlowTypeOK
<1> QED
  BY <1>1, <1>2, <1>3 DEF Change, GraphInv, FlowTypeOK

\* sa-watch.ts, list: the answer is held, nothing is applied yet.
LEMMA ListGraphInv ==
  ASSUME GraphInv, NEW k \in Kind, List(k)
  PROVE  GraphInv'
<1>1. RefCounted' /\ SelectsExact'
  BY IndexUntouched DEF List, graph
<1>2. batch' \in [Kind -> SUBSET Frame]
  <2>1. PICK page \in SUBSET Live(k) :
          batch' = [batch EXCEPT ![k] = {[object |-> o, state |-> cluster[o]] : o \in page}]
    BY DEF List
  <2>2. page \subseteq Object
    BY <2>1 DEF Live, Of, Object
  <2>3. {[object |-> o, state |-> cluster[o]] : o \in page} \subseteq Frame
    BY <2>2 DEF Frame, GraphInv, FlowTypeOK
  <2> QED
    BY <2>1, <2>3 DEF GraphInv, FlowTypeOK
<1> QED
  BY <1>1, <1>2 DEF List, GraphInv, FlowTypeOK

\* sa-watch.ts: one item of the list goes through onUpsert.
LEMMA FillGraphInv ==
  ASSUME GraphInv, NEW k \in Kind, Fill(k)
  PROVE  GraphInv'
<1>1. PICK i \in batch[k] :
        /\ batch' = [batch EXCEPT ![k] = @ \ {i}]
        /\ Absorb(k, {i.object}, [known EXCEPT ![i.object] = i.state])
  BY DEF Fill
<1>2. i.object \in Object /\ i.state \in State
  BY <1>1 DEF GraphInv, FlowTypeOK, Frame
<1> DEFINE seen == [known EXCEPT ![i.object] = i.state]
<1>3. seen \in [Object -> State] /\ \A o \in Object \ {i.object} : seen[o] = known[o]
  BY <1>2 DEF GraphInv, FlowTypeOK
<1>4. /\ RefCounted' /\ SelectsExact'
      /\ known' \in [Object -> State] /\ owned' \in [Kind -> SUBSET Object]
  BY <1>1, <1>2, <1>3, AbsorbKeepsInv
<1> QED
  BY <1>1, <1>4 DEF Fill, GraphInv, FlowTypeOK

\* sa-watch.ts: the end of the list, with the sweep of a resync.
LEMMA FilledGraphInv ==
  ASSUME GraphInv, NEW k \in Kind, Filled(k)
  PROVE  GraphInv'
<1>1. CASE ~primed[k]
  <2>1. UNCHANGED <<graph, known>>
    BY <1>1 DEF Filled, graph
  <2>2. RefCounted' /\ SelectsExact'
    BY <2>1, IndexUntouched
  <2> QED
    BY <1>1, <2>2 DEF Filled, GraphInv, FlowTypeOK
<1>2. CASE primed[k]
  <2> DEFINE evicted == owned[k] \ listed[k]
             seen == [o \in Object |-> IF o \in evicted THEN Absent ELSE known[o]]
  <2>1. Absorb(k, evicted, seen)
    BY <1>2 DEF Filled, Object
  <2>2. evicted \in SUBSET Object
    BY DEF GraphInv, FlowTypeOK
  <2>3. seen \in [Object -> State] /\ \A o \in Object \ evicted : seen[o] = known[o]
    BY DEF GraphInv, FlowTypeOK, State
  <2>4. /\ RefCounted' /\ SelectsExact'
        /\ known' \in [Object -> State] /\ owned' \in [Kind -> SUBSET Object]
    <3> HIDE DEF evicted, seen
    <3> QED
      BY <2>1, <2>2, <2>3, AbsorbKeepsInv
  <2> QED
    BY <2>4 DEF Filled, GraphInv, FlowTypeOK
<1> QED
  BY <1>1, <1>2

\* sa-watch.ts, watchOnce: one frame goes through onUpsert or onDelete.
LEMMA DeliverGraphInv ==
  ASSUME GraphInv, NEW k \in Kind, Deliver(k)
  PROVE  GraphInv'
<1> DEFINE f == Head(stream[k])
           seen == [known EXCEPT ![f.object] = f.state]
<1>1. f \in Frame /\ stream' \in [Kind -> Seq(Frame)]
  BY DEF Deliver, GraphInv, FlowTypeOK
<1>2. f.object \in Object /\ f.state \in State
  BY <1>1 DEF Frame
<1>3. Absorb(k, {f.object}, seen)
  BY DEF Deliver
<1> HIDE DEF f
<1>4. seen \in [Object -> State] /\ \A o \in Object \ {f.object} : seen[o] = known[o]
  BY <1>2 DEF GraphInv, FlowTypeOK
<1>5. /\ RefCounted' /\ SelectsExact'
      /\ known' \in [Object -> State] /\ owned' \in [Kind -> SUBSET Object]
  BY <1>2, <1>3, <1>4, AbsorbKeepsInv
<1> QED
  BY <1>1, <1>5 DEF Deliver, GraphInv, FlowTypeOK

\* A watch that ends, falls silent, is given up or is refused changes nothing the
\* index holds.
LEMMA BreakGraphInv ==
  ASSUME GraphInv, NEW k \in Kind, Break(k) \/ Stall(k) \/ Resets(k) \/ ListRefused(k)
  PROVE  GraphInv'
<1>1. /\ UNCHANGED <<cluster, batch, owned, known, graph>>
      /\ stream' = stream \/ stream' = [stream EXCEPT ![k] = <<>>]
  BY DEF Break, Stall, Resets, ListRefused
<1>2. RefCounted' /\ SelectsExact'
  BY <1>1, IndexUntouched DEF graph
<1>3. stream' \in [Kind -> Seq(Frame)]
  <2>1. <<>> \in Seq(Frame) /\ stream \in [Kind -> Seq(Frame)]
    BY DEF GraphInv, FlowTypeOK
  <2> QED
    BY <1>1, <2>1
<1> QED
  BY <1>1, <1>2, <1>3 DEF GraphInv, FlowTypeOK

\* Every step keeps the inductive invariant.
LEMMA NextGraphInv == GraphInv /\ [Next]_vars => GraphInv'
<1> SUFFICES ASSUME GraphInv, [Next]_vars PROVE GraphInv'
  OBVIOUS
<1>1. ASSUME NEW p \in Pod, NEW v \in Label \cup {Absent}, Change(p, v) PROVE GraphInv'
  BY <1>1, ChangeGraphInv DEF Object, State, Selector
<1>2. ASSUME NEW s \in Service, NEW v \in Selector \cup {Absent}, Change(s, v) PROVE GraphInv'
  BY <1>2, ChangeGraphInv DEF Object, State
<1>3. ASSUME NEW k \in Kind, Watch(k) PROVE GraphInv'
  BY <1>3, ListGraphInv, FillGraphInv, FilledGraphInv, DeliverGraphInv, BreakGraphInv DEF Watch
<1>4. ASSUME NEW k \in Kind, Break(k) \/ Stall(k) \/ Resets(k) PROVE GraphInv'
  BY <1>4, BreakGraphInv
<1>5. CASE UNCHANGED vars
  <2>1. RefCounted' /\ SelectsExact'
    BY <1>5, IndexUntouched DEF vars, graph
  <2> QED
    BY <1>5, <2>1 DEF vars, watchVars, GraphInv, FlowTypeOK
<1> QED
  BY <1>1, <1>2, <1>3, <1>4, <1>5 DEF Next

\* The inductive invariant of the graph.
THEOREM GraphInvariant == Spec => []GraphInv
<1>1. Init => GraphInv
  BY InitGraphInv
<1>2. GraphInv /\ [Next]_vars => GraphInv'
  BY NextGraphInv
<1> QED
  BY <1>1, <1>2, PTL DEF Spec

\* A node or an edge is in the graph exactly while an object contributes it,
\* whatever the watches deliver, lose, relist or evict (index-store.ts).
THEOREM CountsAreExact == Spec => []RefCounted
<1>1. GraphInv => RefCounted
  BY DEF GraphInv
<1> QED
  BY <1>1, GraphInvariant, PTL

\* The edges of every service are its selector evaluated against every pod the
\* builder knows, in any interleaving of the two watches (builder.ts).
THEOREM SelectsIsExact == Spec => []SelectsExact
<1>1. GraphInv => SelectsExact
  BY DEF GraphInv
<1> QED
  BY <1>1, GraphInvariant, PTL

-------------------------------------------------------------------------------
(* The shape of the state *)

Typed == GraphInv /\ TypeOK /\ WellTold

\* Pods and services share no uid.
LEMMA KindsApart ==
  /\ \A k \in Kind : Of(k) \subseteq Object
  /\ \A k, l \in Kind : k # l => Of(k) \cap Of(l) = {}
  /\ \A o \in Object : \A k \in Kind : o \in Of(k) => (o \in Pod <=> k = "pods")
BY GraphAssumption DEF Kind, Of, Object

\* apply and remove keep the index a map from sources to parts and back.
LEMMA IndexTypes ==
  ASSUME Index!TypeOK, NEW c, DOMAIN c \subseteq Object,
         \A s \in DOMAIN c : DOMAIN c[s] \subseteq Part /\ \A p \in DOMAIN c[s] : c[s][p] \in Selector,
         Index!Contribute(c)
  PROVE  Index!TypeOK'
<1> USE DEF Index!TypeOK, Index!Contribute, Object
<1>1. bySource' \in [Pod \cup Service -> SUBSET Part]
  OBVIOUS
<1>2. ASSUME NEW p \in Part PROVE Index!HoldersAfter(c, p) \subseteq Pod \cup Service
  BY DEF Index!HoldersAfter, Index!Giving, Index!Leaving
<1>3. holders' \in [Part -> SUBSET (Pod \cup Service)]
  BY <1>2
<1>4. ASSUME NEW p \in Part PROVE Index!DetailAfter(c, p) \in Selector \cup {Gone}
  <2>1. CASE Index!Giving(c, p) # {}
    <3> DEFINE giver == CHOOSE s \in Index!Giving(c, p) : TRUE
    <3>1. giver \in Index!Giving(c, p)
      BY <2>1
    <3>2. c[giver][p] \in Selector
      BY <3>1 DEF Index!Giving
    <3> QED
      BY <2>1, <3>2 DEF Index!DetailAfter, Index!Merge
  <2>2. CASE Index!Giving(c, p) = {}
    BY <2>2 DEF Index!DetailAfter
  <2> QED
    BY <2>1, <2>2
<1>5. detail' \in [Part -> Selector \cup {Gone}]
  BY <1>4
<1> QED
  BY <1>1, <1>3, <1>5

\* Absorbing changes of objects of one kind keeps the shape.
LEMMA AbsorbTypes ==
  ASSUME Typed, NEW k \in Kind, NEW os \in SUBSET Of(k), NEW seen \in [Object -> State],
         \A o \in Object \ os : seen[o] = known[o],
         \A p \in Pod : seen[p] # NoSelector,
         Absorb(k, os, seen)
  PROVE  /\ known' \in [Object -> State] /\ \A p \in Pod : known'[p] \in Label \cup {Absent}
         /\ \A l \in Kind : owned'[l] = {o \in Of(l) : known'[o] # Absent}
         /\ Index!TypeOK'
<1> DEFINE touched == os \cup Affected(os \cap Pod, seen)
           c == [o \in touched |-> Contribution(o, seen)]
<1>1. touched \subseteq Object
  BY KindsApart DEF Affected, Object
<1>2. known' = seen /\ Index!Contribute(c)
  BY DEF Absorb
<1>3. Index!TypeOK'
  <2>1. \A s \in DOMAIN c : DOMAIN c[s] \subseteq Part /\ \A p \in DOMAIN c[s] : c[s][p] \in Selector
    BY <1>1, ContributionParts
  <2>2. DOMAIN c \subseteq Object
    BY <1>1
  <2> HIDE DEF c
  <2> QED
    BY <1>2, <2>1, <2>2, IndexTypes DEF Typed, TypeOK
<1>4. ASSUME NEW l \in Kind PROVE owned'[l] = {o \in Of(l) : seen[o] # Absent}
  <2>1. owned[l] = {o \in Of(l) : known[o] # Absent}
    BY DEF Typed, TypeOK
  <2>2. CASE l = k
    <3>1. owned'[l] = (owned[l] \ os) \cup {o \in os : seen[o] # Absent}
      BY <2>2 DEF Absorb, Typed, GraphInv, FlowTypeOK
    <3> QED
      BY <2>1, <2>2, <3>1, KindsApart
  <2>3. CASE l # k
    <3>1. owned'[l] = owned[l]
      BY <2>3 DEF Absorb, Typed, GraphInv, FlowTypeOK
    <3> QED
      BY <2>1, <2>3, <3>1, KindsApart
  <2> QED
    BY <2>2, <2>3
<1>5. \A p \in Pod : seen[p] \in Label \cup {Absent}
  BY DEF Object, State, Selector
<1> QED
  BY <1>2, <1>3, <1>4, <1>5

\* A frame that fits may be absorbed.
LEMMA FitsTypes ==
  ASSUME Typed, NEW k \in Kind, NEW f \in Frame, Fits(k, f),
         Absorb(k, {f.object}, [known EXCEPT ![f.object] = f.state])
  PROVE  /\ known' \in [Object -> State] /\ \A p \in Pod : known'[p] \in Label \cup {Absent}
         /\ \A l \in Kind : owned'[l] = {o \in Of(l) : known'[o] # Absent}
         /\ Index!TypeOK'
         /\ known' = [known EXCEPT ![f.object] = f.state]
<1> DEFINE seen == [known EXCEPT ![f.object] = f.state]
<1>1. f.object \in Of(k) /\ f.object \in Object /\ f.state \in State
  BY DEF Fits, Frame
<1>2. known \in [Object -> State] /\ \A p \in Pod : known[p] # NoSelector
  BY GraphAssumption DEF Typed, TypeOK, Object, State, Selector
<1>3. seen \in [Object -> State] /\ \A o \in Object \ {f.object} : seen[o] = known[o]
  BY <1>1, <1>2
<1>4. \A p \in Pod : seen[p] # NoSelector
  BY <1>1, <1>2, KindsApart DEF Fits
<1>5. known' = seen
  BY DEF Absorb
<1>6. {f.object} \in SUBSET Of(k) /\ Absorb(k, {f.object}, seen)
  BY <1>1
<1> HIDE DEF seen
<1>7. /\ known' \in [Object -> State] /\ \A p \in Pod : known'[p] \in Label \cup {Absent}
      /\ \A l \in Kind : owned'[l] = {o \in Of(l) : known'[o] # Absent}
      /\ Index!TypeOK'
  BY <1>3, <1>4, <1>6, AbsorbTypes
<1> QED
  BY <1>5, <1>7 DEF seen

\* The sweep of a resync may be absorbed.
LEMMA SweepTypes ==
  ASSUME Typed, NEW k \in Kind, Filled(k), primed[k]
  PROVE  /\ known' = [o \in Object |-> IF o \in owned[k] \ listed[k] THEN Absent ELSE known[o]]
         /\ known' \in [Object -> State] /\ \A p \in Pod : known'[p] \in Label \cup {Absent}
         /\ \A l \in Kind : owned'[l] = {o \in Of(l) : known'[o] # Absent}
         /\ Index!TypeOK'
<1> DEFINE evicted == owned[k] \ listed[k]
           seen == [o \in Object |-> IF o \in evicted THEN Absent ELSE known[o]]
<1>1. Absorb(k, evicted, seen) /\ known' = seen
  BY DEF Filled, Object, Absorb
<1>2. evicted \in SUBSET Of(k)
  BY DEF Typed, TypeOK
<1>3. known \in [Object -> State] /\ \A p \in Pod : known[p] # NoSelector
  BY GraphAssumption DEF Typed, TypeOK, Object, State, Selector
<1>4. seen \in [Object -> State] /\ \A o \in Object \ evicted : seen[o] = known[o]
  BY <1>3 DEF State
<1>5. \A p \in Pod : seen[p] # NoSelector
  BY <1>3, GraphAssumption DEF Object, Selector
<1>6. /\ known' \in [Object -> State] /\ \A p \in Pod : known'[p] \in Label \cup {Absent}
      /\ \A l \in Kind : owned'[l] = {o \in Of(l) : known'[o] # Absent}
      /\ Index!TypeOK'
  <2> HIDE DEF evicted, seen
  <2> QED
    BY <1>1, <1>2, <1>4, <1>5, AbsorbTypes
<1> QED
  BY <1>1, <1>6

\* Nothing is known or listed at the start.
LEMMA InitTyped == Init => Typed
<1> SUFFICES ASSUME Init PROVE Typed
  OBVIOUS
<1>1. GraphInv
  BY InitGraphInv
<1>2. Index!TypeOK
  BY DEF Init, Index!Init, Index!TypeOK
<1>3. TypeOK
  <2>1. \A o \in Pod : cluster[o] = Absent /\ known[o] = Absent
    BY DEF Init
  <2>2. \A k \in Kind : owned[k] = {o \in Of(k) : known[o] # Absent}
    BY KindsApart DEF Init, Object
  <2>3. primed \in [Kind -> BOOLEAN] /\ pending = {k \in Kind : ~primed[k]}
    BY Zenon DEF Init
  <2>4. /\ cluster \in [Pod \cup Service -> Selector \cup {Absent}]
        /\ known \in [Pod \cup Service -> Selector \cup {Absent}]
        /\ phase \in [Kind -> {"list", "fill", "watch", "stalled", "off"}]
        /\ listed \in [Kind -> SUBSET (Pod \cup Service)]
    BY DEF Init
  <2>5. changes \in 0..MaxChanges /\ breaks \in 0..MaxBreaks
    BY GraphAssumption DEF Init
  <2> QED
    BY <1>2, <2>1, <2>2, <2>3, <2>4, <2>5 DEF TypeOK
<1>4. WellTold
  BY DEF Init, WellTold
<1> QED
  BY <1>1, <1>3, <1>4 DEF Typed

\* A change of the cluster is a frame for the watches past their list.
LEMMA ChangeTyped ==
  ASSUME Typed, NEW o \in Object, NEW v \in State, o \in Pod => v # NoSelector, Change(o, v)
  PROVE  Typed'
<1> DEFINE f == [object |-> o, state |-> v]
<1>1. GraphInv'
  BY ChangeGraphInv DEF Typed
<1>2. TypeOK'
  <2>1. cluster' \in [Object -> State] /\ \A p \in Pod : cluster'[p] \in Label \cup {Absent}
    BY DEF Change, Typed, TypeOK, Object, State, Selector
  <2>2. changes' \in 0..MaxChanges
    BY GraphAssumption DEF Change, Typed, TypeOK
  <2> QED
    BY <2>1, <2>2 DEF Change, graph, Typed, TypeOK, Index!TypeOK, Object, State
<1>3. \A k \in Kind : \A n \in 1..Len(stream'[k]) : Fits(k, stream'[k][n])
  <2> SUFFICES ASSUME NEW k \in Kind, NEW n \in 1..Len(stream'[k])
               PROVE  Fits(k, stream'[k][n])
    OBVIOUS
  <2>1. stream[k] \in Seq(Frame) /\ f \in Frame
    BY DEF Typed, GraphInv, FlowTypeOK, Frame
  <2>2. stream'[k] = IF o \in Of(k) /\ phase[k] \in {"fill", "watch"} THEN Append(stream[k], f) ELSE stream[k]
    BY DEF Change
  <2>3. o \in Of(k) => Fits(k, f)
    BY DEF Fits, Of
  <2>4. \A m \in 1..Len(stream[k]) : Fits(k, stream[k][m])
    BY DEF Typed, WellTold
  <2> HIDE DEF f
  <2> QED
    BY <2>1, <2>2, <2>3, <2>4
<1> QED
  BY <1>1, <1>2, <1>3 DEF Typed, WellTold, Change

\* A list holds objects of its kind, as they are.
LEMMA ListTyped ==
  ASSUME Typed, NEW k \in Kind, List(k)
  PROVE  Typed'
<1>1. GraphInv'
  BY ListGraphInv DEF Typed
<1>2. \A l \in Kind \ {k} : batch'[l] = batch[l] /\ listed'[l] = listed[l] /\ stream'[l] = stream[l]
  BY DEF List, Typed, GraphInv, TypeOK, FlowTypeOK
<1>3. stream' = stream /\ UNCHANGED <<cluster, primed, pending, owned, known, changes, breaks, graph>>
  BY DEF List
<1>4. /\ phase' \in [Kind -> {"list", "fill", "watch", "stalled", "off"}]
      /\ listed' \in [Kind -> SUBSET (Pod \cup Service)]
      /\ \A i \in batch'[k] : Fits(k, i) /\ i.object \in listed'[k]
  <2>1. PICK page \in SUBSET Live(k) :
          /\ batch' = [batch EXCEPT ![k] = {[object |-> o, state |-> cluster[o]] : o \in page}]
          /\ listed' = [listed EXCEPT ![k] = page]
    BY DEF List
  <2>2. page \subseteq Of(k)
    BY DEF Live
  <2>3. \A o \in page : Fits(k, [object |-> o, state |-> cluster[o]])
    BY <2>2, GraphAssumption DEF Fits, Of, Typed, TypeOK
  <2>4. batch'[k] = {[object |-> o, state |-> cluster[o]] : o \in page} /\ listed'[k] = page
    BY <2>1 DEF Typed, GraphInv, FlowTypeOK, TypeOK
  <2>5. phase' \in [Kind -> {"list", "fill", "watch", "stalled", "off"}]
    BY DEF List, Typed, TypeOK
  <2>6. listed' \in [Kind -> SUBSET (Pod \cup Service)]
    BY <2>1, <2>2, KindsApart DEF Typed, TypeOK, Object
  <2> QED
    BY <2>3, <2>4, <2>5, <2>6
<1>5. TypeOK'
  BY <1>3, <1>4 DEF Typed, TypeOK, Index!TypeOK, graph
<1>6. WellTold'
  BY <1>2, <1>3, <1>4 DEF Typed, WellTold
<1> QED
  BY <1>1, <1>5, <1>6 DEF Typed

\* Absorbing an item, a frame or a sweep: what is left to read still fits.
LEMMA AbsorbedTyped ==
  ASSUME Typed, GraphInv', NEW k \in Kind,
         known' \in [Object -> State], \A p \in Pod : known'[p] \in Label \cup {Absent},
         \A l \in Kind : owned'[l] = {o \in Of(l) : known'[o] # Absent},
         Index!TypeOK',
         phase' \in [Kind -> {"list", "fill", "watch", "stalled", "off"}],
         UNCHANGED <<cluster, listed, primed, pending, changes, breaks>>,
         \A l \in Kind : batch'[l] \subseteq batch[l],
         \A l \in Kind : \A n \in 1..Len(stream'[l]) :
            \E m \in 1..Len(stream[l]) : stream'[l][n] = stream[l][m]
  PROVE  Typed'
<1>1. TypeOK'
  BY DEF Typed, TypeOK, Object, State
<1>2. WellTold'
  BY DEF Typed, WellTold, Fits
<1> QED
  BY <1>1, <1>2 DEF Typed

\* One item of the list.
LEMMA FillTyped ==
  ASSUME Typed, NEW k \in Kind, Fill(k)
  PROVE  Typed'
<1>1. PICK i \in batch[k] :
        /\ batch' = [batch EXCEPT ![k] = @ \ {i}]
        /\ Absorb(k, {i.object}, [known EXCEPT ![i.object] = i.state])
  BY DEF Fill
<1>2. i \in Frame /\ Fits(k, i)
  BY <1>1 DEF Typed, GraphInv, FlowTypeOK, WellTold
<1>3. /\ known' \in [Object -> State] /\ \A p \in Pod : known'[p] \in Label \cup {Absent}
      /\ \A l \in Kind : owned'[l] = {o \in Of(l) : known'[o] # Absent}
      /\ Index!TypeOK'
  BY <1>1, <1>2, FitsTypes
<1>4. GraphInv'
  BY FillGraphInv DEF Typed
<1>5. \A l \in Kind : batch'[l] \subseteq batch[l]
  BY <1>1 DEF Typed, GraphInv, FlowTypeOK
<1>6. /\ UNCHANGED <<cluster, phase, listed, stream, primed, pending, changes, breaks>>
      /\ phase' \in [Kind -> {"list", "fill", "watch", "stalled", "off"}]
  BY DEF Fill, Typed, TypeOK
<1> QED
  BY <1>3, <1>4, <1>5, <1>6, AbsorbedTyped

\* One frame of the watch.
LEMMA DeliverTyped ==
  ASSUME Typed, NEW k \in Kind, Deliver(k)
  PROVE  Typed'
<1> DEFINE f == Head(stream[k])
<1>1. /\ Absorb(k, {f.object}, [known EXCEPT ![f.object] = f.state])
      /\ stream' = [stream EXCEPT ![k] = Tail(@)] /\ stream[k] # <<>>
      /\ UNCHANGED <<cluster, phase, batch, listed, primed, pending, changes, breaks>>
  BY DEF Deliver
<1>2. stream \in [Kind -> Seq(Frame)] /\ 1 \in 1..Len(stream[k]) /\ f = stream[k][1]
  BY <1>1 DEF Typed, GraphInv, FlowTypeOK
<1>3. f \in Frame /\ Fits(k, f)
  BY <1>2 DEF Typed, WellTold
<1>4. /\ known' \in [Object -> State] /\ \A p \in Pod : known'[p] \in Label \cup {Absent}
      /\ \A l \in Kind : owned'[l] = {o \in Of(l) : known'[o] # Absent}
      /\ Index!TypeOK'
  <2> HIDE DEF f
  <2> QED
    BY <1>1, <1>3, FitsTypes
<1>5. GraphInv'
  BY DeliverGraphInv DEF Typed
<1>6. \A l \in Kind : \A n \in 1..Len(stream'[l]) :
         \E m \in 1..Len(stream[l]) : stream'[l][n] = stream[l][m]
  <2> SUFFICES ASSUME NEW l \in Kind, NEW n \in 1..Len(stream'[l])
               PROVE  \E m \in 1..Len(stream[l]) : stream'[l][n] = stream[l][m]
    OBVIOUS
  <2>1. CASE l = k
    <3>1. /\ stream'[k] = Tail(stream[k]) /\ Len(stream'[k]) = Len(stream[k]) - 1
          /\ stream'[k][n] = stream[k][n + 1] /\ n + 1 \in 1..Len(stream[k])
      BY <1>1, <1>2, <2>1
    <3> QED
      BY <2>1, <3>1
  <2>2. CASE l # k
    BY <1>1, <1>2, <2>2
  <2> QED
    BY <2>1, <2>2
<1>7. phase' \in [Kind -> {"list", "fill", "watch", "stalled", "off"}]
  BY <1>1 DEF Typed, TypeOK
<1>8. \A l \in Kind : batch'[l] \subseteq batch[l]
  BY <1>1
<1> QED
  BY <1>1, <1>4, <1>5, <1>6, <1>7, <1>8, AbsorbedTyped

\* The end of the list.
LEMMA FilledTyped ==
  ASSUME Typed, NEW k \in Kind, Filled(k)
  PROVE  Typed'
<1>1. GraphInv'
  BY FilledGraphInv DEF Typed
<1>2. /\ phase' \in [Kind -> {"list", "fill", "watch", "stalled", "off"}]
      /\ UNCHANGED <<cluster, batch, listed, stream, changes, breaks>>
  BY DEF Filled, Typed, TypeOK
<1>3. CASE primed[k]
  <2>1. /\ known' \in [Object -> State] /\ \A p \in Pod : known'[p] \in Label \cup {Absent}
        /\ \A l \in Kind : owned'[l] = {o \in Of(l) : known'[o] # Absent}
        /\ Index!TypeOK'
    BY <1>3, SweepTypes
  <2>2. UNCHANGED <<primed, pending>>
    BY <1>3 DEF Filled
  <2>3. /\ \A l \in Kind : batch'[l] \subseteq batch[l]
        /\ \A l \in Kind : \A n \in 1..Len(stream'[l]) :
             \E m \in 1..Len(stream[l]) : stream'[l][n] = stream[l][m]
    BY <1>2
  <2> QED
    BY <1>1, <1>2, <2>1, <2>2, <2>3, AbsorbedTyped
<1>4. CASE ~primed[k]
  <2>1. /\ primed' = [primed EXCEPT ![k] = TRUE] /\ pending' = pending \ {k}
        /\ UNCHANGED <<owned, known, graph>>
    BY <1>4 DEF Filled
  <2>2. primed' \in [Kind -> BOOLEAN]
    BY <2>1, Zenon DEF Typed, TypeOK
  <2>3. pending' = {l \in Kind : ~primed'[l]}
    <3>1. \A l \in Kind : primed'[l] <=> (l = k \/ primed[l])
      BY <2>1, Zenon DEF Typed, TypeOK
    <3>2. pending = {l \in Kind : ~primed[l]}
      BY DEF Typed, TypeOK
    <3> QED
      BY <2>1, <3>1, <3>2
  <2>4. TypeOK'
    BY <1>2, <2>1, <2>2, <2>3 DEF Typed, TypeOK, graph, Index!TypeOK
  <2>5. WellTold'
    BY <1>2 DEF Typed, WellTold
  <2> QED
    BY <1>1, <2>4, <2>5 DEF Typed
<1> QED
  BY <1>3, <1>4

\* A watch that ends or falls silent loses its unread frames; one that is given up
\* or refused has none.
LEMMA BreakTyped ==
  ASSUME Typed, NEW k \in Kind, Break(k) \/ Stall(k) \/ Resets(k) \/ ListRefused(k)
  PROVE  Typed'
<1>1. GraphInv'
  BY BreakGraphInv DEF Typed
<1>2. /\ UNCHANGED <<cluster, batch, listed, primed, pending, owned, known, changes, graph>>
      /\ stream' = stream \/ stream' = [stream EXCEPT ![k] = <<>>]
      /\ phase' \in [Kind -> {"list", "fill", "watch", "stalled", "off"}]
      /\ breaks' \in 0..MaxBreaks
  BY GraphAssumption DEF Break, Stall, Resets, ListRefused, Typed, TypeOK
<1>3. TypeOK'
  BY <1>2 DEF Typed, TypeOK, graph, Index!TypeOK
<1>4. WellTold'
  <2>1. \A l \in Kind : stream'[l] = <<>> \/ stream'[l] = stream[l]
    BY <1>2 DEF Typed, GraphInv, FlowTypeOK
  <2> QED
    BY <1>2, <2>1 DEF Typed, WellTold
<1> QED
  BY <1>1, <1>3, <1>4 DEF Typed

\* Every step keeps the shape.
LEMMA NextTyped == Typed /\ [Next]_vars => Typed'
<1> SUFFICES ASSUME Typed, [Next]_vars PROVE Typed'
  OBVIOUS
<1>1. ASSUME NEW p \in Pod, NEW v \in Label \cup {Absent}, Change(p, v) PROVE Typed'
  BY <1>1, ChangeTyped, GraphAssumption DEF Object, State, Selector
<1>2. ASSUME NEW s \in Service, NEW v \in Selector \cup {Absent}, Change(s, v) PROVE Typed'
  BY <1>2, ChangeTyped, GraphAssumption DEF Object, State
<1>3. ASSUME NEW k \in Kind, Watch(k) \/ Break(k) \/ Stall(k) \/ Resets(k) PROVE Typed'
  BY <1>3, ListTyped, FillTyped, FilledTyped, DeliverTyped, BreakTyped DEF Watch
<1>4. CASE UNCHANGED vars
  <2>1. GraphInv'
    BY <1>4, NextGraphInv DEF Typed
  <2>2. TypeOK' /\ WellTold'
    BY <1>4 DEF vars, watchVars, graph, Typed, TypeOK, WellTold, Index!TypeOK
  <2> QED
    BY <2>1, <2>2 DEF Typed
<1> QED
  BY <1>1, <1>2, <1>3, <1>4 DEF Next

\* The state keeps its shape, and what a kind owns is what the builder knows of
\* it, so a resync evicts neither too much nor too little of it (sa-watch.ts).
THEOREM TypeCorrect == Spec => []TypeOK
<1>1. Typed => TypeOK
  BY DEF Typed
<1> QED
  BY <1>1, InitTyped, NextTyped, PTL DEF Spec

-------------------------------------------------------------------------------
(* The graph against the cluster                                              *)

\* Every kind's objects fit in one page of its list (sa-watch.ts, LIST_LIMIT).
OnePage ==
  IsFiniteSet(Object) /\ \A k \in Kind : Cardinality(Of(k)) <= ListLimit

SyncInv == Typed /\ Synced

\* The clauses of Synced for one kind.
SyncedAt(k) ==
  /\ phase[k] \in {"list", "stalled"} => stream[k] = <<>>
  /\ phase[k] \in {"fill", "watch"} =>
       \A o \in Of(k) : Announced(k, o) \/ (Silent(k, o) /\ Settled(k, o))
  /\ ~primed[k] =>
       /\ phase[k] \notin {"watch", "stalled"}
       /\ \A o \in Of(k) : known[o] # Absent => phase[k] = "fill" /\ o \in listed[k]

\* A kind none of whose state changed is as it was.
LEMMA OtherKind ==
  ASSUME NEW l \in Kind, SyncedAt(l),
         phase'[l] = phase[l], batch'[l] = batch[l], listed'[l] = listed[l],
         stream'[l] = stream[l], primed'[l] = primed[l],
         \A o \in Of(l) : known'[o] = known[o] /\ cluster'[o] = cluster[o]
  PROVE  SyncedAt(l)'
<1>1. \A o \in Of(l) : /\ Announced(l, o) => Announced(l, o)'
                       /\ Silent(l, o) => Silent(l, o)'
                       /\ Settled(l, o) => Settled(l, o)'
  BY DEF Announced, Silent, Settled
<1> QED
  BY <1>1 DEF SyncedAt

\* A change of an object is announced to the watch past its list.
LEMMA ChangeSynced ==
  ASSUME Typed, NEW o \in Object, NEW v \in State, Change(o, v),
         NEW k \in Kind, SyncedAt(k)
  PROVE  SyncedAt(k)'
<1> DEFINE f == [object |-> o, state |-> v]
           s == stream[k]
<1>1. /\ cluster' = [cluster EXCEPT ![o] = v]
      /\ UNCHANGED <<phase, batch, listed, primed, known>>
      /\ cluster \in [Object -> State]
  BY DEF Change, Typed, GraphInv, FlowTypeOK
<1>2. stream'[k] = IF o \in Of(k) /\ phase[k] \in {"fill", "watch"} THEN Append(s, f) ELSE s
  BY DEF Change
<1>3. s \in Seq(Frame) /\ f \in Frame /\ f.object = o /\ f.state = v
  BY DEF Typed, GraphInv, FlowTypeOK, Frame
<1>4. CASE o \in Of(k) /\ phase[k] \in {"fill", "watch"}
  <2> DEFINE t == Append(s, f)
  <2>1. /\ stream'[k] = t /\ Len(t) = Len(s) + 1 /\ Len(s) \in Nat /\ t[Len(s) + 1] = f
        /\ \A n \in 1..Len(s) : t[n] = s[n]
    BY <1>2, <1>3, <1>4
  <2> HIDE DEF f, t, s
  <2>2. Announced(k, o)'
    <3>1. Len(s) + 1 \in 1..Len(t) /\ \A m \in Len(s) + 2..Len(t) : FALSE
      BY <2>1
    <3>2. t[Len(s) + 1].object = o /\ t[Len(s) + 1].state = cluster'[o]
      BY <1>1, <1>3, <2>1
    <3> QED
      BY <2>1, <3>1, <3>2 DEF Announced
  <2>3. ASSUME NEW q \in Of(k), q # o
        PROVE  Announced(k, q)' \/ (Silent(k, q) /\ Settled(k, q))'
    <3>1. cluster'[q] = cluster[q]
      BY <1>1, <2>3, KindsApart
    <3>2. CASE Announced(k, q)
      <4>1. PICK n \in 1..Len(s) :
              /\ s[n].object = q /\ s[n].state = cluster[q]
              /\ \A m \in n+1..Len(s) : s[m].object # q
        BY <3>2 DEF Announced, s
      <4>2. n \in 1..Len(t) /\ t[n] = s[n]
        BY <2>1
      <4>3. \A m \in n+1..Len(t) : t[m].object # q
        <5> SUFFICES ASSUME NEW m \in n+1..Len(t) PROVE t[m].object # q
          OBVIOUS
        <5>1. m \in n+1..Len(s) \/ m = Len(s) + 1
          BY <2>1
        <5>2. \A j \in n+1..Len(s) : t[j] = s[j]
          BY <2>1
        <5> QED
          BY <1>3, <2>1, <2>3, <4>1, <5>1, <5>2
      <4> QED
        BY <2>1, <3>1, <4>1, <4>2, <4>3 DEF Announced
    <3>3. CASE Silent(k, q) /\ Settled(k, q)
      <4>1. Settled(k, q)'
        BY <1>1, <3>1, <3>3 DEF Settled
      <4>2. \A n \in 1..Len(t) : t[n].object # q
        <5> SUFFICES ASSUME NEW n \in 1..Len(t) PROVE t[n].object # q
          OBVIOUS
        <5>1. n \in 1..Len(s) \/ n = Len(s) + 1
          BY <2>1
        <5> QED
          BY <1>3, <2>1, <2>3, <3>3, <5>1 DEF Silent, s
      <4> QED
        BY <2>1, <4>1, <4>2 DEF Silent
    <3> QED
      BY <1>4, <3>2, <3>3 DEF SyncedAt
  <2>4. ~primed[k] => /\ phase[k] \notin {"watch", "stalled"}
                      /\ \A q \in Of(k) : known[q] # Absent => phase[k] = "fill" /\ q \in listed[k]
    BY DEF SyncedAt
  <2> QED
    BY <1>1, <1>4, <2>2, <2>3, <2>4 DEF SyncedAt
<1>5. CASE o \in Of(k) /\ phase[k] \notin {"fill", "watch"}
  BY <1>1, <1>2, <1>5 DEF SyncedAt
<1>6. CASE o \notin Of(k)
  <2>1. \A q \in Of(k) : cluster'[q] = cluster[q]
    BY <1>1, <1>6, KindsApart
  <2> QED
    BY <1>1, <1>2, <1>6, <2>1, OtherKind
<1> QED
  BY <1>4, <1>5, <1>6

\* A list of one page holds every object there is.
LEMMA ListSynced ==
  ASSUME OnePage, Typed, NEW k \in Kind, SyncedAt(k), List(k)
  PROVE  SyncedAt(k)'
<1>1. PICK page \in SUBSET Live(k) :
        /\ Cardinality(page) = IF Cardinality(Live(k)) < ListLimit THEN Cardinality(Live(k)) ELSE ListLimit
        /\ batch' = [batch EXCEPT ![k] = {[object |-> o, state |-> cluster[o]] : o \in page}]
        /\ listed' = [listed EXCEPT ![k] = page]
  BY DEF List
<1>2. page = Live(k)
  <2>1. IsFiniteSet(Of(k)) /\ Live(k) \subseteq Of(k)
    BY KindsApart, FS_Subset DEF OnePage, Live
  <2>2. IsFiniteSet(Live(k)) /\ Cardinality(Live(k)) <= Cardinality(Of(k))
    BY <2>1, FS_Subset
  <2>3. Cardinality(Live(k)) \in Nat /\ Cardinality(Of(k)) \in Nat /\ ListLimit \in Nat
    BY <2>1, <2>2, FS_CardinalityType, GraphAssumption
  <2>4. Cardinality(page) = Cardinality(Live(k))
    BY <1>1, <2>2, <2>3 DEF OnePage
  <2> QED
    BY <2>2, <2>4, FS_Subset
<1>3. /\ phase'[k] = "fill" /\ listed'[k] = Live(k)
      /\ batch'[k] = {[object |-> o, state |-> cluster[o]] : o \in Live(k)}
  BY <1>1, <1>2 DEF List, Typed, GraphInv, FlowTypeOK, TypeOK
<1>4. phase[k] = "list" /\ UNCHANGED <<cluster, stream, primed, known>>
  BY DEF List
<1>5. stream[k] = <<>>
  BY <1>4 DEF SyncedAt
<1>6. ASSUME NEW o \in Of(k) PROVE (Silent(k, o) /\ Settled(k, o))'
  <2>1. Silent(k, o)'
    BY <1>4, <1>5 DEF Silent
  <2>2. CASE o \in Live(k)
    <3>1. [object |-> o, state |-> cluster[o]] \in batch'[k]
      BY <1>3, <2>2
    <3>2. \A i \in batch'[k] : i.object = o => i.state = cluster[o]
      BY <1>3
    <3>3. \E i \in batch'[k] : i.object = o
      BY <3>1
    <3>4. Settled(k, o)'
      BY <1>3, <1>4, <2>2, <3>2, <3>3 DEF Settled
    <3> QED
      BY <2>1, <3>4
  <2>3. CASE o \notin Live(k)
    BY <1>3, <1>4, <2>1, <2>3 DEF Settled, Live
  <2> QED
    BY <2>2, <2>3
<1>7. ~primed'[k] => \A o \in Of(k) : known'[o] = Absent
  BY <1>4 DEF SyncedAt
<1> QED
  BY <1>3, <1>6, <1>7 DEF SyncedAt

\* An item of the list: known as it was listed.
LEMMA FillSynced ==
  ASSUME Typed, NEW k \in Kind, SyncedAt(k), Fill(k)
  PROVE  SyncedAt(k)'
<1>1. PICK i \in batch[k] :
        /\ batch' = [batch EXCEPT ![k] = @ \ {i}]
        /\ Absorb(k, {i.object}, [known EXCEPT ![i.object] = i.state])
  BY DEF Fill
<1>2. i \in Frame /\ Fits(k, i) /\ i.object \in listed[k]
  BY <1>1 DEF Typed, GraphInv, FlowTypeOK, WellTold
<1>3. known' = [known EXCEPT ![i.object] = i.state] /\ known \in [Object -> State]
  BY <1>1 DEF Absorb, Typed, GraphInv, FlowTypeOK
<1>4. batch'[k] = batch[k] \ {i}
  BY <1>1 DEF Typed, GraphInv, FlowTypeOK
<1>5. phase[k] = "fill" /\ UNCHANGED <<cluster, phase, listed, stream, primed>>
  BY DEF Fill
<1>6. ASSUME NEW o \in Of(k)
      PROVE  Announced(k, o)' \/ (Silent(k, o) /\ Settled(k, o))'
  <2>1. Announced(k, o) => Announced(k, o)'
    BY <1>5 DEF Announced
  <2>2. Silent(k, o) => Silent(k, o)'
    BY <1>5 DEF Silent
  <2>3. ASSUME Settled(k, o) PROVE Settled(k, o)'
    <3>1. CASE i.object = o
      <4>1. o \in listed[k] /\ i.state = cluster[o]
        BY <1>1, <1>2, <1>5, <2>3, <3>1 DEF Settled
      <4>2. known'[o] = cluster[o]
        BY <1>2, <1>3, <3>1, <4>1 DEF Frame
      <4> QED
        BY <1>4, <1>5, <2>3, <4>1, <4>2 DEF Settled
    <3>2. CASE i.object # o
      <4>1. known'[o] = known[o]
        BY <1>3, <3>2, KindsApart
      <4> QED
        BY <1>4, <1>5, <2>3, <3>2, <4>1 DEF Settled
    <3> QED
      BY <3>1, <3>2
  <2> QED
    BY <1>5, <2>1, <2>2, <2>3 DEF SyncedAt
<1>7. \A o \in Of(k) : known'[o] = known[o] \/ o = i.object
  BY <1>3, KindsApart
<1>8. ~primed[k] => \A o \in Of(k) : known'[o] # Absent => o \in listed[k]
  BY <1>2, <1>7 DEF SyncedAt
<1> QED
  BY <1>5, <1>6, <1>8 DEF SyncedAt

\* The end of the list: what it lacks is swept, so all the builder knows is so.
LEMMA FilledSynced ==
  ASSUME Typed, NEW k \in Kind, SyncedAt(k), Filled(k)
  PROVE  SyncedAt(k)'
<1>1. /\ phase[k] = "fill" /\ batch[k] = {} /\ phase'[k] = "watch"
      /\ UNCHANGED <<cluster, batch, listed, stream>>
  BY DEF Filled, Typed, TypeOK
<1>2. primed'[k]
  BY Zenon DEF Filled, Typed, TypeOK
<1>3. \A o \in Of(k) : o \in listed[k] => known'[o] = known[o]
  <2>1. CASE primed[k]
    BY <2>1, SweepTypes, KindsApart
  <2>2. CASE ~primed[k]
    BY <2>2 DEF Filled
  <2> QED
    BY <2>1, <2>2
<1>4. \A o \in Of(k) : o \notin listed[k] => known'[o] = Absent
  <2>1. CASE primed[k]
    <3>1. owned[k] = {o \in Of(k) : known[o] # Absent}
      BY DEF Typed, TypeOK
    <3>2. known' = [o \in Object |-> IF o \in owned[k] \ listed[k] THEN Absent ELSE known[o]]
      BY <2>1, SweepTypes
    <3> QED
      BY <3>1, <3>2, KindsApart
  <2>2. CASE ~primed[k]
    BY <2>2 DEF Filled, SyncedAt
  <2> QED
    BY <2>1, <2>2
<1>5. ASSUME NEW o \in Of(k)
      PROVE  Announced(k, o)' \/ (Silent(k, o) /\ Settled(k, o))'
  <2>1. Announced(k, o) => Announced(k, o)'
    BY <1>1 DEF Announced
  <2>2. Silent(k, o) => Silent(k, o)'
    BY <1>1 DEF Silent
  <2>3. Settled(k, o) => Settled(k, o)'
    BY <1>1, <1>3, <1>4 DEF Settled
  <2> QED
    BY <1>1, <2>1, <2>2, <2>3 DEF SyncedAt
<1> QED
  BY <1>1, <1>2, <1>5 DEF SyncedAt

\* A frame: what it says is known, the later ones are still to come.
LEMMA DeliverSynced ==
  ASSUME Typed, NEW k \in Kind, SyncedAt(k), Deliver(k)
  PROVE  SyncedAt(k)'
<1> DEFINE s == stream[k]
           t == Tail(stream[k])
           f == Head(stream[k])
<1>1. /\ phase[k] = "watch" /\ s # <<>>
      /\ stream'[k] = t /\ known' = [known EXCEPT ![f.object] = f.state]
      /\ UNCHANGED <<cluster, phase, batch, listed, primed>>
  BY DEF Deliver, Absorb, Typed, GraphInv, FlowTypeOK
<1>2. known \in [Object -> State] /\ s \in Seq(Frame)
  BY DEF Typed, GraphInv, FlowTypeOK
<1>3. /\ Len(s) \in Nat /\ Len(s) > 0 /\ Len(t) = Len(s) - 1 /\ f = s[1]
      /\ \A n \in 1..Len(t) : t[n] = s[n + 1]
  BY <1>1, <1>2
<1>4. f \in Frame /\ f.object \in Of(k)
  BY <1>2, <1>3 DEF Typed, WellTold, Fits
<1> HIDE DEF t, f
<1>5. ASSUME NEW o \in Of(k)
      PROVE  Announced(k, o)' \/ (Silent(k, o) /\ Settled(k, o))'
  <2>1. CASE Announced(k, o)
    <3>1. PICK n \in 1..Len(s) :
            /\ s[n].object = o /\ s[n].state = cluster[o]
            /\ \A m \in n+1..Len(s) : s[m].object # o
      BY <2>1 DEF Announced
    <3> HIDE DEF s
    <3>2. CASE n = 1
      <4>1. known'[o] = cluster[o]
        BY <1>1, <1>2, <1>3, <1>4, <3>1, <3>2 DEF Frame
      <4>2. ASSUME NEW j \in 1..Len(t) PROVE t[j].object # o
        <5>1. j + 1 \in n+1..Len(s)
          BY <1>3, <3>2
        <5> QED
          BY <1>3, <3>1, <5>1
      <4>3. Silent(k, o)' /\ Settled(k, o)'
        BY <1>1, <4>1, <4>2 DEF Silent, Settled
      <4> QED
        BY <4>3
    <3>3. CASE n # 1
      <4>1. n - 1 \in 1..Len(t) /\ t[n - 1] = s[n]
        BY <1>3, <3>1, <3>3
      <4>2. ASSUME NEW j \in (n-1)+1..Len(t) PROVE t[j].object # o
        <5>1. j + 1 \in n+1..Len(s) /\ j \in 1..Len(t)
          BY <1>3, <3>3
        <5> QED
          BY <1>3, <3>1, <5>1
      <4> QED
        BY <1>1, <3>1, <4>1, <4>2 DEF Announced
    <3> QED
      BY <3>2, <3>3
  <2>2. CASE Silent(k, o) /\ Settled(k, o)
    <3>1. \A n \in 1..Len(s) : s[n].object # o
      BY <2>2 DEF Silent
    <3>2. 1 \in 1..Len(s) /\ f.object # o
      BY <1>3, <3>1
    <3>3. known'[o] = known[o]
      BY <1>1, <1>2, <3>2, KindsApart
    <3>4. ASSUME NEW j \in 1..Len(t) PROVE t[j].object # o
      <4>1. j + 1 \in 1..Len(s)
        BY <1>3
      <4> QED
        BY <1>3, <3>1, <4>1
    <3> QED
      BY <1>1, <2>2, <3>3, <3>4 DEF Silent, Settled
  <2> QED
    BY <1>1, <2>1, <2>2 DEF SyncedAt
<1> QED
  BY <1>1, <1>5 DEF SyncedAt

\* The watch ends or falls silent: what it had not read, the next list will hold.
LEMMA BreakSynced ==
  ASSUME Typed, NEW k \in Kind, SyncedAt(k),
         Break(k) \/ Stall(k) \/ Resets(k) \/ ListRefused(k)
  PROVE  SyncedAt(k)'
<1>1. /\ phase[k] \in {"list", "watch", "stalled"} /\ phase'[k] \in {"list", "stalled", "off"}
      /\ primed[k] \/ phase[k] = "list"
      /\ phase[k] = "list" => phase'[k] = "off"
      /\ stream'[k] = <<>>
      /\ UNCHANGED <<primed, known>>
  BY DEF Break, Stall, Resets, ListRefused, SyncedAt, Typed, GraphInv, FlowTypeOK, TypeOK
<1> QED
  BY <1>1 DEF SyncedAt

\* A step of one kind's watch leaves every other kind as it was.
LEMMA OthersSynced ==
  ASSUME Typed, NEW k \in Kind, Watch(k) \/ Break(k) \/ Stall(k) \/ Resets(k),
         NEW l \in Kind, l # k, SyncedAt(l)
  PROVE  SyncedAt(l)'
<1> USE DEF Typed, GraphInv, FlowTypeOK, TypeOK
<1>1. CASE List(k)
  <2>1. /\ phase'[l] = phase[l] /\ batch'[l] = batch[l] /\ listed'[l] = listed[l]
        /\ UNCHANGED <<cluster, stream, primed, known>>
    BY <1>1 DEF List
  <2> QED
    BY <2>1, OtherKind
<1>2. CASE Fill(k)
  <2>1. PICK i \in batch[k] :
          /\ batch' = [batch EXCEPT ![k] = @ \ {i}]
          /\ known' = [known EXCEPT ![i.object] = i.state]
    BY <1>2 DEF Fill, Absorb
  <2>2. i.object \in Of(k)
    BY <2>1 DEF WellTold, Fits
  <2>3. \A o \in Of(l) : known'[o] = known[o]
    BY <2>1, <2>2, KindsApart
  <2>4. batch'[l] = batch[l] /\ UNCHANGED <<cluster, phase, listed, stream, primed>>
    BY <1>2, <2>1 DEF Fill
  <2> QED
    BY <2>3, <2>4, OtherKind
<1>3. CASE Filled(k)
  <2>1. /\ phase'[l] = phase[l] /\ UNCHANGED <<cluster, batch, listed, stream>>
        /\ primed'[l] = primed[l]
    BY <1>3 DEF Filled
  <2>2. \A o \in Of(l) : known'[o] = known[o]
    <3>1. CASE primed[k]
      <4>1. owned[k] \subseteq Of(k)
        OBVIOUS
      <4> QED
        BY <1>3, <3>1, <4>1, SweepTypes, KindsApart
    <3>2. CASE ~primed[k]
      BY <1>3, <3>2 DEF Filled
    <3> QED
      BY <3>1, <3>2
  <2> QED
    BY <2>1, <2>2, OtherKind
<1>4. CASE Deliver(k)
  <2> DEFINE f == Head(stream[k])
  <2>1. /\ known' = [known EXCEPT ![f.object] = f.state]
        /\ stream'[l] = stream[l]
        /\ UNCHANGED <<cluster, phase, batch, listed, primed>>
    BY <1>4 DEF Deliver, Absorb
  <2>2. stream[k] \in Seq(Frame) /\ stream[k] # <<>>
    BY <1>4 DEF Deliver
  <2>3. f = stream[k][1] /\ 1 \in 1..Len(stream[k])
    BY <2>2
  <2>4. f.object \in Of(k)
    BY <2>3 DEF WellTold, Fits
  <2> HIDE DEF f
  <2>5. \A o \in Of(l) : known'[o] = known[o]
    BY <2>1, <2>4, KindsApart
  <2> QED
    BY <2>1, <2>5, OtherKind
<1>5. CASE Break(k) \/ Stall(k) \/ Resets(k) \/ ListRefused(k)
  <2>1. /\ phase'[l] = phase[l] /\ stream'[l] = stream[l]
        /\ UNCHANGED <<cluster, batch, listed, primed, known>>
    BY <1>5 DEF Break, Stall, Resets, ListRefused
  <2> QED
    BY <2>1, OtherKind
<1> QED
  BY <1>1, <1>2, <1>3, <1>4, <1>5 DEF Watch

\* Every step keeps what the watches know in step with the cluster.
LEMMA NextSynced ==
  ASSUME OnePage
  PROVE  SyncInv /\ [Next]_vars => SyncInv'
<1> SUFFICES ASSUME SyncInv, [Next]_vars PROVE SyncInv'
  OBVIOUS
<1>1. Typed /\ Typed'
  BY NextTyped DEF SyncInv
<1>2. \A k \in Kind : SyncedAt(k)
  BY DEF SyncInv, Synced, SyncedAt
<1>3. ASSUME NEW l \in Kind PROVE SyncedAt(l)'
  <2>1. ASSUME NEW o \in Object, NEW v \in State, Change(o, v) PROVE SyncedAt(l)'
    BY <1>1, <1>2, <2>1, ChangeSynced
  <2>2. ASSUME NEW k \in Kind, Watch(k) \/ Break(k) \/ Stall(k) \/ Resets(k) PROVE SyncedAt(l)'
    <3>1. CASE l = k
      BY <1>1, <1>2, <2>2, <3>1, ListSynced, FillSynced, FilledSynced, DeliverSynced,
         BreakSynced DEF Watch
    <3>2. CASE l # k
      BY <1>1, <1>2, <2>2, <3>2, OthersSynced
    <3> QED
      BY <3>1, <3>2
  <2>3. CASE UNCHANGED vars
    BY <1>2, <2>3, OtherKind DEF vars, watchVars
  <2> QED
    BY <2>1, <2>2, <2>3 DEF Next, Object, State, Selector
<1> QED
  BY <1>1, <1>3 DEF SyncInv, Synced, SyncedAt

\* Whatever the watches miss, lose, relist or evict, of a kind that has caught up
\* the graph holds exactly what is in the cluster -- for any number of objects,
\* changes, breaks and silences, and whichever kinds are refused, as long as every
\* list fits one page (sa-watch.ts asks for no second).
THEOREM CaughtUpIsTheCluster ==
  ASSUME OnePage
  PROVE  Spec => []HoldsTheCluster
<1>1. Init => SyncInv
  <2>1. Init => Synced
    BY KindsApart, GraphAssumption DEF Init, Synced, Object
  <2> QED
    BY <2>1, InitTyped DEF SyncInv
<1>2. SyncInv /\ [Next]_vars => SyncInv'
  BY NextSynced
<1>3. SyncInv => HoldsTheCluster
  <2> SUFFICES ASSUME SyncInv, NEW k \in Kind, CaughtUp(k), NEW o \in Of(k)
               PROVE  known[o] = cluster[o]
    BY DEF HoldsTheCluster
  <2>1. phase[k] = "watch" /\ stream[k] = <<>>
    BY DEF CaughtUp
  <2>2. ~Announced(k, o)
    BY <2>1 DEF Announced
  <2> QED
    BY <2>1, <2>2 DEF SyncInv, Synced, Settled
<1> QED
  BY <1>1, <1>2, <1>3, PTL DEF Spec
===============================================================================
