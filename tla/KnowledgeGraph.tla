---------------------------- MODULE KnowledgeGraph ----------------------------
(* The platform knowledge graph: the list+watch of the apiserver that every   *)
(* server-owned index runs (k8s/sa-watch.ts), the builder that turns objects  *)
(* into contributions and correlates services with pods (graph/builder.ts),   *)
(* and the index they fill (GraphIndex).                                      *)
(*                                                                            *)
(* Two watched kinds, pods and services, stand for the eleven: they are the   *)
(* ones whose contributions depend on each other.  A pod contributes its node *)
(* and the node of its image, which all pods share; a service its node and    *)
(* one `selects` edge per pod matching its selector.                          *)
EXTENDS Integers, Sequences, FiniteSets

CONSTANTS
  Pod, Service,   \* object uids
  PodName,        \* [Pod -> names]: a recreated pod has its name and a new uid
  Label,          \* label values a pod may carry and a selector may ask for
  NoSelector,     \* a service without a selector
  Absent,         \* the object does not exist
  Gone,           \* a part the index does not hold
  Optional,       \* kinds the apiserver may refuse: no such API, or no permission
  ListLimit,      \* the page size of a list
  MaxChanges,     \* bound: changes of the cluster
  MaxBreaks       \* bound: watches that end or fall silent

Kind == {"pods", "services"}
Of(k) == IF k = "pods" THEN Pod ELSE Service

ASSUME GraphAssumption ==
  /\ Pod \cap Service = {}
  /\ NoSelector \notin Label /\ Absent \notin Label \cup {NoSelector}
  /\ Gone \notin Label \cup {NoSelector}
  /\ Optional \subseteq Kind
  /\ ListLimit \in Nat \ {0}
  /\ {MaxChanges, MaxBreaks} \subseteq Nat

VARIABLES
  cluster,    \* per object: Absent, a pod's label, or a service's selector
  phase,      \* per kind: where its runWatch stands
  batch,      \* per kind: the listed objects not yet upserted
  listed,     \* per kind: the uids of the list (`seen`)
  stream,     \* per kind: frames since the list, not yet read
  primed,     \* per kind: its first list has landed
  owned,      \* per kind: keys the spec has contributed
  pending,    \* kinds that have not reported ready
  known,      \* podLabels and serviceSelectors: what the builder last saw
  changes, breaks,
  bySource, holders, detail

Selector == Label \cup {NoSelector}

Part == {<<"pod", PodName[p]>> : p \in Pod} \cup {<<"image">>}
          \cup {<<"service", s>> : s \in Service}
          \cup {<<"selects", s, PodName[p]>> : s \in Service, p \in Pod}

Index == INSTANCE GraphIndex WITH
  Source <- Pod \cup Service, Detail <- Selector, NoDetail <- NoSelector

graph == <<bySource, holders, detail>>
watchVars == <<phase, batch, listed, stream, primed, pending>>
vars == <<cluster, watchVars, owned, known, changes, breaks, graph>>

Init ==
  /\ cluster = [o \in Pod \cup Service |-> Absent]
  /\ phase = [k \in Kind |-> "list"]
  /\ batch = [k \in Kind |-> {}]
  /\ listed = [k \in Kind |-> {}]
  /\ stream = [k \in Kind |-> <<>>]
  /\ primed = [k \in Kind |-> FALSE]
  /\ owned = [k \in Kind |-> {}]
  /\ pending = Kind
  /\ known = [o \in Pod \cup Service |-> Absent]
  /\ changes = 0 /\ breaks = 0
  /\ Index!Init

-------------------------------------------------------------------------------
(* What objects contribute, given the labels and selectors `seen`.           *)

\* selectorMatches: a service without a selector selects nothing.
Selects(s, p, seen) == seen[s] # NoSelector /\ seen[p] # Absent /\ seen[p] = seen[s]

Matching(s, seen) == {p \in Pod : Selects(s, p, seen)}

\* fromService and selectsEdges.  The selector is a property of the node; an
\* object without one leaves the property out.
ServiceParts(s, seen) == {<<"service", s>>} \cup {<<"selects", s, PodName[p]>> : p \in Matching(s, seen)}

Contribution(o, seen) ==
  IF seen[o] = Absent THEN Index!Nothing
  ELSE IF o \in Pod THEN [x \in {<<"pod", PodName[o]>>, <<"image">>} |-> NoSelector]
  ELSE [x \in ServiceParts(o, seen) |-> IF x = <<"service", o>> THEN seen[o] ELSE NoSelector]

\* Mutant: the services that matched the pod's old label are not revisited.
AffectedNow(pods, seen) ==
  {s \in Service : known[s] # Absent /\ \E p \in pods : known[p] # seen[p] /\ Selects(s, p, seen)}

\* servicesMatching, for what a pod was and what it is.
Affected(pods, seen) ==
  {s \in Service : known[s] # Absent /\ \E p \in pods :
     known[p] # seen[p] /\ (Selects(s, p, known) \/ Selects(s, p, seen))}

\* Mutant: drop does not forget that the spec owned the key.
AbsorbKeepsOwned(k, os, seen) ==
  LET touched == os \cup Affected(os \cap Pod, seen)
  IN /\ known' = seen
     /\ owned' = [owned EXCEPT ![k] = @ \cup os]
     /\ Index!Contribute([o \in touched |-> Contribution(o, seen)])

\* add or drop of the objects of kind k in os, now in the state `seen`
\* (applyPod, removePod, applyService, drop): their own contribution, and the
\* services whose edges it changes.
Absorb(k, os, seen) ==
  LET touched == os \cup Affected(os \cap Pod, seen)
  IN /\ known' = seen
     /\ owned' = [owned EXCEPT ![k] = (@ \ os) \cup {o \in os : seen[o] # Absent}]
     /\ Index!Contribute([o \in touched |-> Contribution(o, seen)])

-------------------------------------------------------------------------------
(* The cluster *)

\* An object is created, changed or deleted; a pod's name is used by one pod
\* at a time.  A watch that is past its list will deliver the frame.
Change(o, v) ==
  /\ changes < MaxChanges
  /\ cluster[o] # v
  /\ o \in Pod => v = Absent \/ \A p \in Pod \ {o} : PodName[p] = PodName[o] => cluster[p] = Absent
  /\ cluster' = [cluster EXCEPT ![o] = v]
  /\ stream' = [k \in Kind |-> IF o \in Of(k) /\ phase[k] \in {"fill", "watch"}
                                 THEN Append(stream[k], [object |-> o, state |-> v]) ELSE stream[k]]
  /\ changes' = changes + 1
  /\ UNCHANGED <<phase, batch, listed, primed, pending, owned, known, breaks, graph>>

-------------------------------------------------------------------------------
(* runWatch *)

Live(k) == {o \in Of(k) : cluster[o] # Absent}

\* The list: one page of the objects there are.
List(k) ==
  /\ phase[k] = "list"
  /\ \E page \in SUBSET Live(k) :
       /\ Cardinality(page) = IF Cardinality(Live(k)) < ListLimit THEN Cardinality(Live(k)) ELSE ListLimit
       /\ batch' = [batch EXCEPT ![k] = {[object |-> o, state |-> cluster[o]] : o \in page}]
       /\ listed' = [listed EXCEPT ![k] = page]
  /\ phase' = [phase EXCEPT ![k] = "fill"]
  /\ UNCHANGED <<cluster, stream, primed, pending, owned, known, changes, breaks, graph>>

\* 404, 401 or 403: the watch is over for good, at whichever list; ready is not
\* reported, and nothing is dropped.
ListRefused(k) ==
  /\ phase[k] = "list" /\ k \in Optional
  /\ phase' = [phase EXCEPT ![k] = "off"]
  /\ UNCHANGED <<cluster, batch, listed, stream, primed, pending, owned, known, changes, breaks, graph>>

\* One listed object is upserted; other watches run in between.
Fill(k) ==
  /\ phase[k] = "fill"
  /\ \E i \in batch[k] :
       /\ batch' = [batch EXCEPT ![k] = @ \ {i}]
       /\ Absorb(k, {i.object}, [known EXCEPT ![i.object] = i.state])
  /\ UNCHANGED <<cluster, phase, listed, stream, primed, pending, changes, breaks>>

\* Mutant: a later list only adds.
FilledNoSweep(k) ==
  /\ phase[k] = "fill" /\ batch[k] = {}
  /\ phase' = [phase EXCEPT ![k] = "watch"]
  /\ primed' = [primed EXCEPT ![k] = TRUE]
  /\ pending' = pending \ {k}
  /\ UNCHANGED <<cluster, batch, listed, stream, changes, breaks, owned, known, graph>>

\* The end of the list: the first one reports ready, a later one drops what the
\* kind owned and the list does not have.
Filled(k) ==
  /\ phase[k] = "fill" /\ batch[k] = {}
  /\ phase' = [phase EXCEPT ![k] = "watch"]
  /\ IF ~primed[k]
       THEN /\ primed' = [primed EXCEPT ![k] = TRUE]
            /\ pending' = pending \ {k}
            /\ UNCHANGED <<owned, known, graph>>
       ELSE LET evicted == owned[k] \ listed[k] IN
            /\ Absorb(k, evicted, [o \in Pod \cup Service |-> IF o \in evicted THEN Absent ELSE known[o]])
            /\ UNCHANGED <<primed, pending>>
  /\ UNCHANGED <<cluster, batch, listed, stream, changes, breaks>>

\* The next frame of an established watch.
Deliver(k) ==
  /\ phase[k] = "watch" /\ stream[k] # <<>>
  /\ LET f == Head(stream[k]) IN Absorb(k, {f.object}, [known EXCEPT ![f.object] = f.state])
  /\ stream' = [stream EXCEPT ![k] = Tail(@)]
  /\ UNCHANGED <<cluster, phase, batch, listed, primed, pending, changes, breaks>>

\* Mutant: a watch that ends is not relisted.
BreakStops(k) ==
  /\ phase[k] = "watch"
  /\ breaks < MaxBreaks
  /\ breaks' = breaks + 1
  /\ phase' = [phase EXCEPT ![k] = "off"]
  /\ stream' = [stream EXCEPT ![k] = <<>>]
  /\ UNCHANGED <<cluster, batch, listed, primed, pending, owned, known, changes, graph>>

\* The watch ends (its timeout, a dropped connection, an ERROR frame) with
\* frames unread: back to the list.
Break(k) ==
  /\ phase[k] = "watch"
  /\ breaks < MaxBreaks
  /\ breaks' = breaks + 1
  /\ phase' = [phase EXCEPT ![k] = "list"]
  /\ stream' = [stream EXCEPT ![k] = <<>>]
  /\ UNCHANGED <<cluster, batch, listed, primed, pending, owned, known, changes, graph>>

\* The connection falls silent: a request that streams has no time limit, and
\* nothing watches over the read.  What happens meanwhile nobody hears of.
Stall(k) ==
  /\ phase[k] = "watch"
  /\ breaks < MaxBreaks
  /\ breaks' = breaks + 1
  /\ phase' = [phase EXCEPT ![k] = "stalled"]
  /\ stream' = [stream EXCEPT ![k] = <<>>]
  /\ UNCHANGED <<cluster, batch, listed, primed, pending, owned, known, changes, graph>>

\* The system underneath may give the silent connection up; it need not.
Resets(k) ==
  /\ phase[k] = "stalled"
  /\ phase' = [phase EXCEPT ![k] = "list"]
  /\ UNCHANGED <<cluster, batch, listed, stream, primed, pending, owned, known, changes, breaks, graph>>

Watch(k) == List(k) \/ ListRefused(k) \/ Fill(k) \/ Filled(k) \/ Deliver(k)

Next ==
  \/ \E p \in Pod : \E v \in Label \cup {Absent} : Change(p, v)
  \/ \E s \in Service : \E v \in Selector \cup {Absent} : Change(s, v)
  \/ \E k \in Kind : Watch(k) \/ Break(k) \/ Stall(k) \/ Resets(k)

Spec == Init /\ [][Next]_vars

\* The list has a time limit and is tried again for ever, and what arrives on a
\* watch is read.  Nothing obliges a silent connection to end.
FairSpec == Spec /\ \A k \in Kind : WF_vars(Watch(k))

-------------------------------------------------------------------------------
(* Properties *)

\* The shape of the state; a kind owns exactly the objects the builder knows.
TypeOK ==
  /\ cluster \in [Pod \cup Service -> Selector \cup {Absent}]
  /\ \A o \in Pod : {cluster[o], known[o]} \subseteq Label \cup {Absent}
  /\ phase \in [Kind -> {"list", "fill", "watch", "stalled", "off"}]
  /\ listed \in [Kind -> SUBSET (Pod \cup Service)]
  /\ primed \in [Kind -> BOOLEAN]
  /\ pending = {k \in Kind : ~primed[k]}
  /\ known \in [Pod \cup Service -> Selector \cup {Absent}]
  /\ \A k \in Kind : owned[k] = {o \in Of(k) : known[o] # Absent}
  /\ changes \in 0..MaxChanges /\ breaks \in 0..MaxBreaks
  /\ Index!TypeOK

\* index-store.ts: a node or an edge stands in the graph exactly while some
\* object contributes it.
RefCounted == Index!RefCounted

\* builder.ts: the `selects` edges a service holds are those of its selector
\* against every pod the builder knows, whichever of the two watches ran last.
SelectsExact ==
  \A o \in Pod \cup Service : bySource[o] = DOMAIN Contribution(o, known)

\* The watch of a kind is established and has read its stream.
CaughtUp(k) == phase[k] = "watch" /\ stream[k] = <<>>

\* Of a kind that is caught up the graph knows exactly what is in the cluster:
\* nothing deleted behind its back lingers and nothing alive is missing,
\* whatever becomes of the other kinds (sa-watch.ts:146-152; builder.ts:256-262).
HoldsTheCluster ==
  \A k \in Kind : CaughtUp(k) => \A o \in Of(k) : known[o] = cluster[o]

\* index-store.ts, on apply: "Record what one object contributes, replacing
\* whatever it contributed before" -- a service's node, which nothing else
\* contributes, describes the service as it is.  No run checks it: it fails,
\* since a node that stays keeps the detail of its first contribution.
DescribesTheCluster ==
  CaughtUp("services") => \A s \in Service : cluster[s] # Absent => detail[<<"service", s>>] = cluster[s]

\* Every kind catches up again after every disturbance, unless the apiserver has
\* refused it for good or its connection stays silent; and every kind reports
\* ready, except one that was refused before it had (sa-watch.ts:112-116, :123-132,
\* :174; builder.ts:211-218).
CatchesUp ==
  /\ \A k \in Kind :
       \/ []<>CaughtUp(k)
       \/ <>[](phase[k] = "stalled")
       \/ k \in Optional /\ <>[](phase[k] = "off")
  /\ <>(\A k \in pending : k \in Optional /\ phase[k] = "off")

-------------------------------------------------------------------------------
(* The inductive invariant behind the proofs (KnowledgeGraph_proofs)          *)

\* What kind k was told is about its own objects; a pod has no NoSelector.
Fits(k, f) == f.object \in Of(k) /\ (k = "pods" => f.state # NoSelector)

WellTold ==
  \A k \in Kind :
    /\ \A i \in batch[k] : Fits(k, i) /\ i.object \in listed[k]
    /\ \A n \in 1..Len(stream[k]) : Fits(k, stream[k][n])

\* No unread frame is about o; the last one about o shows it as it is.
Silent(k, o) == \A n \in 1..Len(stream[k]) : stream[k][n].object # o

Announced(k, o) ==
  \E n \in 1..Len(stream[k]) :
    /\ stream[k][n].object = o /\ stream[k][n].state = cluster[o]
    /\ \A m \in n+1..Len(stream[k]) : stream[k][m].object # o

\* What the list found of o is in the batch or known; what it lacks is gone.
Settled(k, o) ==
  IF phase[k] = "watch" THEN known[o] = cluster[o]
  ELSE IF o \in listed[k]
    THEN /\ \A i \in batch[k] : i.object = o => i.state = cluster[o]
         /\ known[o] = cluster[o] \/ \E i \in batch[k] : i.object = o
  ELSE cluster[o] = Absent

Synced ==
  \A k \in Kind :
    /\ phase[k] \in {"list", "stalled"} => stream[k] = <<>>
    /\ phase[k] \in {"fill", "watch"} =>
         \A o \in Of(k) : Announced(k, o) \/ (Silent(k, o) /\ Settled(k, o))
    /\ ~primed[k] =>
         /\ phase[k] \notin {"watch", "stalled"}
         /\ \A o \in Of(k) : known[o] # Absent => phase[k] = "fill" /\ o \in listed[k]
===============================================================================
