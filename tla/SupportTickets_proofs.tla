------------------------- MODULE SupportTickets_proofs -------------------------
(* Proofs about SupportTickets with one console process, for any incidents,   *)
(* queue length, cooldown and number of signals, requests and failures.       *)
EXTENDS SupportTickets, FiniteSetTheorems, SequenceTheorems, TLAPS

(* One process. With two the properties below fail: see tickets_replicas.     *)
Alone == \A r, s \in Replica : r = s

(* The work item the record of an incident names, 0 without a record; a       *)
(* record and a copy of it that differ in `since` at most; a record whose     *)
(* work item exists.                                                          *)
Named(i) == IF record[i] = NoRecord THEN 0 ELSE record[i].issue
SameTicket(rec, old) ==
  /\ rec.incident = old.incident /\ rec.state = old.state
  /\ rec.issue = old.issue /\ rec.previous = old.previous
InPlane(rec) == rec.issue \in DOMAIN item /\ item[rec.issue].incident = rec.incident

Opening == {"create", "file", "extras", "comment", "keep"}
Closing == {"close", "move", "settle"}
Holding == {"file", "extras", "comment", "keep", "move", "settle"}

(* What the worker relies on after each await: the copy it holds is still     *)
(* what the store holds, and a ticket about to be filed is a new one.         *)
Sound(w) ==
  /\ w.at \in Opening => w.job.signal.kind = "failed"
  /\ w.at \in Closing => w.job.signal.kind # "failed"
  /\ w.at \notin Closing => w.todo = {}
  /\ w.at = "create" => \E i \in Incident :
       w.job.signal.about = {i} /\ w.rec = record[i] /\ ~IsOpen(record[i])
  /\ w.at \in Holding => w.rec \in Records
  /\ w.at \in Holding \ Closing => w.job.signal.about = {w.rec.incident}
  /\ w.at \in {"file", "comment", "keep"} => w.rec.state = "open"
  /\ w.at = "file" =>
       /\ InPlane(w.rec) /\ ~IsOpen(record[w.rec.incident])
       /\ w.rec.previous = Named(w.rec.incident)
       /\ \A i \in Incident : Named(i) < w.rec.issue
  /\ w.at \in {"comment", "keep"} =>
       record[w.rec.incident] # NoRecord /\ SameTicket(w.rec, record[w.rec.incident])
  /\ w.at \in {"move", "settle"} =>
       record[w.rec.incident] = w.rec /\ w.rec.state = "open" /\ w.rec \notin w.todo
  /\ \A rec \in w.todo : record[rec.incident] = rec /\ rec.state = "open"

(* Every work item, waiting job and job in hand has its signal, request or    *)
(* failure.                                                                   *)
Unfiled(r) == IF worker[r].at \in {"look", "create"} THEN 1 ELSE 0
Counted(r) == Len(item) + Len(queue[r]) + Unfiled(r) <= seen[r] + manual + faults

IInv ==
  /\ TypeOK /\ Len(signals) <= MaxSignals
  /\ \A r \in Replica : Sound(worker[r]) /\ Counted(r)

-------------------------------------------------------------------------------
(* Shapes *)

\* One process means that many work items at most.
LEMMA ItemBound ==
  ASSUME Alone, NEW r \in Replica
  PROVE  MaxItem = MaxSignals + MaxManual + MaxFaults /\ MaxItem \in Nat
<1>1. Replica = {r}
  BY DEF Alone
<1>2. Cardinality(Replica) = 1
  BY <1>1, FS_Singleton
<1>3. QED BY <1>2, TicketAssumption DEF MaxItem

\* A record is one, and not the absence of one.
LEMMA RecordFields ==
  ASSUME NEW rec \in Records
  PROVE  /\ rec # NoRecord /\ rec.incident \in Incident /\ rec.state \in {"open", "resolved"}
         /\ rec.issue \in 1..MaxItem /\ rec.since \in 0..MaxNow /\ rec.previous \in 0..MaxItem
         /\ rec = [incident |-> rec.incident, state |-> rec.state, issue |-> rec.issue,
                   since |-> rec.since, previous |-> rec.previous]
BY RecordAssumption DEF Records

\* A signal about one incident, or about the incidents a node resolves.
LEMMA SignalFields ==
  ASSUME NEW s \in Signal
  PROVE  /\ s.about \subseteq Incident /\ s.kind \in {"failed", "recovered", "joined"}
         /\ s.kind # "joined" => \E i \in Incident : s.about = {i}
         /\ s.kind = "joined" => s.about = Family
BY TicketAssumption DEF Signal

\* The worker at rest has the shape of a worker and relies on nothing.
LEMMA IdleFacts == Idle \in Workers /\ Sound(Idle)
<1>1. IdleJob \in Jobs
  BY DEF IdleJob, Jobs, Signal
<1>2. Idle \in Workers
  BY <1>1, TicketAssumption DEF Idle, Workers, Steps
<1>3. Sound(Idle)
  BY DEF Sound, Idle, Opening, Closing, Holding
<1>4. QED BY <1>2, <1>3

\* A queue takes a job, and drops one when it is full.
LEMMA PushFacts ==
  ASSUME TypeOK, NEW r \in Replica, NEW j \in Jobs, Push(r, j)
  PROVE  /\ queue' \in [Replica -> Seq(Jobs)]
         /\ \A s \in Replica \ {r} : queue'[s] = queue[s]
         /\ Len(queue'[r]) <= Capacity /\ Len(queue'[r]) <= Len(queue[r]) + 1
         /\ due' \in [Incident -> {"nothing", "open", "resolved"}]
         /\ shed' \subseteq Incident /\ failed' \subseteq Incident
<1> DEFINE full == Len(queue[r]) >= Capacity
           old == IF full THEN Tail(queue[r]) ELSE queue[r]
           q == Append(old, j)
           lost == IF full THEN OnlyIn(Head(queue[r]), q) ELSE {}
<1>1. /\ queue \in [Replica -> Seq(Jobs)] /\ Len(queue[r]) <= Capacity
      /\ queue[r] \in Seq(Jobs) /\ Len(queue[r]) \in Nat
      /\ due \in [Incident -> {"nothing", "open", "resolved"}]
      /\ shed \subseteq Incident /\ failed \subseteq Incident
      /\ Capacity \in Nat \ {0}
  BY TicketAssumption, LenProperties DEF TypeOK
<1>2. /\ queue' = [queue EXCEPT ![r] = q]
      /\ due' = [i \in Incident |->
                   IF i \notin j.signal.about THEN due[i]
                   ELSE IF j.signal.kind = "failed" THEN "open" ELSE "resolved"]
      /\ shed' = (shed \ j.signal.about) \cup lost
      /\ failed' = failed \ j.signal.about
  BY DEF Push
<1>3. /\ old \in Seq(Jobs) /\ Len(old) <= Len(queue[r]) /\ Len(old) + 1 <= Capacity
      /\ full => Head(queue[r]) \in Jobs
  <2>1. CASE full
    <3>1. queue[r] # <<>>
      BY <1>1, <2>1
    <3>2. QED BY <1>1, <2>1, <3>1, HeadTailProperties
  <2>2. CASE ~full
    BY <1>1, <2>2
  <2>3. QED BY <2>1, <2>2
<1> HIDE DEF old
<1>4. q \in Seq(Jobs) /\ Len(q) = Len(old) + 1 /\ Len(old) \in Nat
  BY <1>3, LenProperties
<1>5. lost \subseteq Incident
  <2>1. CASE full
    <3>1. Head(queue[r]).signal \in Signal
      BY <1>3, <2>1 DEF Jobs
    <3>2. QED BY <3>1, SignalFields DEF OnlyIn
  <2>2. QED BY <2>1
<1> HIDE DEF q, full, lost
<1>6. queue' \in [Replica -> Seq(Jobs)] /\ queue'[r] = q /\ \A s \in Replica \ {r} : queue'[s] = queue[s]
  BY <1>1, <1>2, <1>4
<1>7. QED BY <1>1, <1>2, <1>3, <1>4, <1>5, <1>6

-------------------------------------------------------------------------------
(* Steps away from the worker's calls *)

\* Whoever leaves records and work items alone keeps what a worker relies on.
LEMMA SoundKept ==
  ASSUME NEW r \in Replica, Sound(worker'[r]), UNCHANGED <<record, item>>
  PROVE  Sound(worker[r])'
BY DEF Sound, Named, InPlane, IsOpen

\* The invariant holds again when records and items are as they were, the worker
\* keeps its job, drops it or takes one to look at, and the rest has its shape.
LEMMA QuietKeeps ==
  ASSUME Alone, IInv, NEW r \in Replica, UNCHANGED <<record, item>>,
         worker'[r] \in Workers, Sound(worker'[r]),
         worker' = [worker EXCEPT ![r] = worker'[r]],
         signals' = signals, noted' \subseteq {signals[k] : k \in DOMAIN signals},
         seen'[r] \in Nat, seen' = [seen EXCEPT ![r] = seen'[r]], seen'[r] <= Len(signals),
         queue' \in [Replica -> Seq(Jobs)], Len(queue'[r]) <= Capacity,
         now' \in 0..MaxNow, manual' \in 0..MaxManual, faults' \in 0..MaxFaults,
         due' \in [Incident -> {"nothing", "open", "resolved"}],
         shed' \subseteq Incident, failed' \subseteq Incident,
         Counted(r)'
  PROVE  IInv'
<1>1. /\ worker \in [Replica -> Workers] /\ seen \in [Replica -> 0..MaxSignals]
      /\ record \in [Incident -> Records \cup {NoRecord}]
      /\ item \in Seq(Items) /\ Len(item) <= MaxItem
      /\ \A i \in Incident : record[i] # NoRecord =>
           /\ record[i].incident = i
           /\ record[i].issue \in DOMAIN item
           /\ item[record[i].issue].incident = i
      /\ signals \in Seq(Signal) /\ Len(signals) <= MaxSignals
  BY DEF IInv, TypeOK
<1>2. worker' \in [Replica -> Workers]
  BY <1>1
<1>3. Len(signals) \in Nat /\ MaxSignals \in Nat
  BY <1>1, LenProperties, TicketAssumption
<1>4. seen' \in [Replica -> 0..MaxSignals]
  BY <1>1, <1>3
<1>5. \A s \in Replica : seen'[s] <= Len(signals') /\ Len(queue'[s]) <= Capacity
  BY <1>4 DEF Alone
<1>6. noted' \subseteq {signals'[k] : k \in DOMAIN signals'}
  OBVIOUS
<1>7. TypeOK'
  BY <1>1, <1>2, <1>4, <1>5, <1>6 DEF TypeOK
<1>8. Sound(worker[r])'
  BY <1>2, SoundKept
<1>9. QED BY <1>1, <1>7, <1>8 DEF IInv, Alone

\* What TypeOK says of the variables one step touches or leaves.
LEMMA Shapes ==
  ASSUME IInv, NEW r \in Replica
  PROVE  /\ worker \in [Replica -> Workers] /\ worker[r] \in Workers /\ Sound(worker[r])
         /\ queue \in [Replica -> Seq(Jobs)] /\ queue[r] \in Seq(Jobs)
         /\ Len(queue[r]) \in Nat /\ Len(queue[r]) <= Capacity
         /\ signals \in Seq(Signal) /\ Len(signals) \in 0..MaxSignals
         /\ noted \subseteq {signals[k] : k \in DOMAIN signals}
         /\ seen \in [Replica -> 0..MaxSignals] /\ seen[r] \in Nat /\ seen[r] <= Len(signals)
         /\ item \in Seq(Items) /\ Len(item) \in Nat /\ Len(item) <= MaxItem
         /\ record \in [Incident -> Records \cup {NoRecord}]
         /\ now \in 0..MaxNow /\ manual \in 0..MaxManual /\ faults \in 0..MaxFaults
         /\ due \in [Incident -> {"nothing", "open", "resolved"}]
         /\ shed \subseteq Incident /\ failed \subseteq Incident
         /\ Counted(r)
<1>1. MaxSignals \in Nat
  BY TicketAssumption
<1>2. queue[r] \in Seq(Jobs) /\ seen[r] \in 0..MaxSignals
  BY DEF IInv, TypeOK
<1>3. Len(queue[r]) \in Nat /\ seen[r] \in Nat
  BY <1>1, <1>2, LenProperties
<1>4. signals \in Seq(Signal) /\ item \in Seq(Items)
  BY DEF IInv, TypeOK
<1>5. Len(signals) \in 0..MaxSignals /\ Len(item) \in Nat
  BY <1>1, <1>4, LenProperties DEF IInv
<1>6. worker[r] \in Workers /\ Sound(worker[r]) /\ Counted(r)
  BY DEF IInv, TypeOK
<1>7. QED BY <1>1, <1>2, <1>3, <1>4, <1>5, <1>6 DEF IInv, TypeOK

\* The counts are numbers.
LEMMA Tallies ==
  ASSUME IInv, NEW r \in Replica
  PROVE  /\ Len(item) \in Nat /\ Len(queue[r]) \in Nat /\ Len(signals) \in Nat /\ seen[r] \in Nat
         /\ manual \in Nat /\ faults \in Nat
         /\ MaxManual \in Nat /\ MaxFaults \in Nat /\ MaxSignals \in Nat /\ MaxNow \in Nat
         /\ manual <= MaxManual /\ faults <= MaxFaults /\ Unfiled(r) \in Nat
         /\ Counted(r)
<1>1. /\ MaxManual \in Nat /\ MaxFaults \in Nat /\ MaxSignals \in Nat /\ MaxNow \in Nat
      /\ manual \in 0..MaxManual /\ faults \in 0..MaxFaults
  BY TicketAssumption DEF IInv, TypeOK
<1>2. /\ Len(item) \in Nat /\ Len(queue[r]) \in Nat /\ Len(signals) \in 0..MaxSignals /\ seen[r] \in Nat
  BY Shapes
<1>3. Counted(r) /\ Unfiled(r) \in Nat
  BY DEF IInv, Unfiled
<1>4. QED BY <1>1, <1>2, <1>3

\* The tally, in numbers.
LEMMA Numbers ==
  ASSUME IInv, NEW r \in Replica
  PROVE  \E a, q, u, n, m, f \in Nat :
           /\ a = Len(item) /\ q = Len(queue[r]) /\ u = Unfiled(r)
           /\ n = seen[r] /\ m = manual /\ f = faults
           /\ a + q + u <= n + m + f /\ m <= MaxManual /\ f <= MaxFaults
BY Tallies DEF Counted

\* A transition delivered is a job at most.
LEMMA ObserveKeeps ==
  ASSUME Alone, IInv, NEW r \in Replica, Observe(r)
  PROVE  IInv'
<1> DEFINE s == signals[seen[r] + 1]
<1>1. /\ s \in Signal /\ seen[r] + 1 \in DOMAIN signals /\ seen[r] + 1 <= Len(signals)
      /\ noted' = noted \cup {s} /\ seen' = [seen EXCEPT ![r] = seen[r] + 1]
      /\ UNCHANGED <<signals, worker, record, item, now, manual, faults>>
  <2>1. seen[r] < Len(signals)
    BY DEF Observe
  <2>2. seen[r] + 1 \in 1..Len(signals)
    BY <2>1, Shapes
  <2>3. s \in Signal /\ DOMAIN signals = 1..Len(signals)
    BY <2>2, Shapes, ElementOfSeq, LenProperties
  <2>4. QED BY <2>2, <2>3, Shapes DEF Observe
<1>2. PICK created \in BOOLEAN :
        Push(r, [signal |-> s, created |-> created, manual |-> FALSE])
  BY DEF Observe
<1> DEFINE j == [signal |-> s, created |-> created, manual |-> FALSE]
<1>3. j \in Jobs
  BY <1>1 DEF Jobs
<1>4. Push(r, j)
  BY <1>2
<1> HIDE DEF j
<1>5. /\ queue' \in [Replica -> Seq(Jobs)]
      /\ Len(queue'[r]) <= Capacity /\ Len(queue'[r]) <= Len(queue[r]) + 1
      /\ due' \in [Incident -> {"nothing", "open", "resolved"}]
      /\ shed' \subseteq Incident /\ failed' \subseteq Incident
  BY <1>3, <1>4, PushFacts DEF IInv
<1>6. noted' \subseteq {signals[k] : k \in DOMAIN signals}
  BY <1>1, Shapes
<1>7. Len(queue'[r]) \in Nat
  BY <1>5, LenProperties
<1>8. seen'[r] = seen[r] + 1
  BY <1>1, Shapes
<1>9. Counted(r)'
  <2>1. item' = item /\ worker' = worker /\ manual' = manual /\ faults' = faults
    BY <1>1
  <2>2. Unfiled(r)' = Unfiled(r) /\ Len(item') = Len(item)
    BY <2>1 DEF Unfiled
  <2>3. PICK a \in Nat, q \in Nat, u \in Nat, n \in Nat, m \in Nat, f \in Nat :
        /\ a = Len(item) /\ q = Len(queue[r]) /\ u = Unfiled(r)
        /\ n = seen[r] /\ m = manual /\ f = faults
        /\ a + q + u <= n + m + f
    BY Numbers
  <2>4. PICK q1 \in Nat : q1 = Len(queue'[r]) /\ q1 <= q + 1
    BY <2>3, <1>5, <1>7
  <2>5. a + q1 + u <= (n + 1) + m + f
    <3>1. a + q + u <= n + m + f /\ q1 <= q + 1
      BY <2>3, <2>4
    <3>2. QED BY ONLY <3>1, a \in Nat, q \in Nat, u \in Nat, n \in Nat, m \in Nat, f \in Nat, q1 \in Nat
  <2>6. QED BY <2>1, <2>2, <2>3, <2>4, <2>5, <1>8 DEF Counted
<1> HIDE DEF s
<1>10. /\ worker' = [worker EXCEPT ![r] = worker'[r]]
       /\ worker'[r] \in Workers /\ Sound(worker'[r])
       /\ seen' = [seen EXCEPT ![r] = seen'[r]]
  BY <1>1, <1>8, Shapes
<1>11. seen'[r] \in Nat /\ seen'[r] <= Len(signals)
  BY <1>1, <1>8, Shapes, Tallies
<1>12. QED BY <1>1, <1>5, <1>6, <1>9, <1>10, <1>11, Shapes, QuietKeeps

\* A request is a job, and counted.
LEMMA RequestKeeps ==
  ASSUME Alone, IInv, NEW r \in Replica, NEW s \in Signal, Request(r, s)
  PROVE  IInv'
<1> DEFINE j == [signal |-> s, created |-> TRUE, manual |-> TRUE]
<1>1. j \in Jobs
  BY DEF Jobs
<1>2. /\ Push(r, j) /\ manual' = manual + 1 /\ manual < MaxManual
      /\ UNCHANGED <<signals, seen, noted, worker, record, item, now, faults>>
  BY DEF Request
<1> HIDE DEF j
<1>3. /\ queue' \in [Replica -> Seq(Jobs)]
      /\ Len(queue'[r]) <= Capacity /\ Len(queue'[r]) <= Len(queue[r]) + 1
      /\ due' \in [Incident -> {"nothing", "open", "resolved"}]
      /\ shed' \subseteq Incident /\ failed' \subseteq Incident
  BY <1>1, <1>2, PushFacts DEF IInv
<1>4. Len(queue'[r]) \in Nat
  BY <1>3, LenProperties
<1>5. Counted(r)' /\ manual' \in 0..MaxManual
  <2>1. Unfiled(r)' = Unfiled(r) /\ Len(item') = Len(item) /\ seen'[r] = seen[r]
    BY <1>2 DEF Unfiled
  <2>2. PICK a \in Nat, q \in Nat, u \in Nat, n \in Nat, m \in Nat, f \in Nat :
        /\ a = Len(item) /\ q = Len(queue[r]) /\ u = Unfiled(r)
        /\ n = seen[r] /\ m = manual /\ f = faults
        /\ a + q + u <= n + m + f
    BY Numbers
  <2>3. PICK q1 \in Nat : q1 = Len(queue'[r]) /\ q1 <= q + 1
    BY <2>2, <1>3, <1>4
  <2>4. a + q1 + u <= n + (m + 1) + f
    <3>1. a + q + u <= n + m + f /\ q1 <= q + 1
      BY <2>2, <2>3
    <3>2. QED BY ONLY <3>1, a \in Nat, q \in Nat, u \in Nat, n \in Nat, m \in Nat, f \in Nat, q1 \in Nat
  <2>5. Counted(r)'
    BY <1>2, <2>1, <2>2, <2>3, <2>4 DEF Counted
  <2>6. manual' \in 0..MaxManual
    BY <1>2, Tallies
  <2>7. QED BY <2>5, <2>6
<1>6. /\ worker' = [worker EXCEPT ![r] = worker'[r]] /\ worker'[r] \in Workers /\ Sound(worker'[r])
      /\ seen' = [seen EXCEPT ![r] = seen'[r]] /\ seen'[r] \in Nat
      /\ seen'[r] <= Len(signals)
  BY <1>2, Shapes
<1>7. QED BY <1>2, <1>3, <1>5, <1>6, Shapes, QuietKeeps

\* The cluster moves on.
LEMMA TransitionKeeps ==
  ASSUME Alone, IInv, NEW s \in Signal, Transition(s)
  PROVE  IInv'
<1>1. /\ signals' = Append(signals, s) /\ Len(signals) < MaxSignals
      /\ UNCHANGED <<seen, noted, queue, worker, record, item, now, manual, faults, history>>
  BY DEF Transition
<1>2. signals \in Seq(Signal)
  BY DEF IInv, TypeOK
<1>3. /\ signals' \in Seq(Signal) /\ Len(signals') = Len(signals) + 1 /\ Len(signals) \in Nat
      /\ DOMAIN signals = 1..Len(signals) /\ DOMAIN signals' = 1..Len(signals')
      /\ \A k \in 1..Len(signals) : signals'[k] = signals[k]
  BY <1>1, <1>2, LenProperties
<1>4. noted' \subseteq {signals'[k] : k \in DOMAIN signals'}
  BY <1>1, <1>3 DEF IInv, TypeOK
<1>5. \A r \in Replica : seen[r] \in Nat /\ seen[r] <= Len(signals)
  BY TicketAssumption DEF IInv, TypeOK
<1>6. TypeOK'
  BY <1>1, <1>3, <1>4, <1>5 DEF IInv, TypeOK, history
<1>7. Len(signals') <= MaxSignals
  BY <1>1, <1>3, TicketAssumption
<1>8. \A r \in Replica : Sound(worker[r])' /\ Counted(r)'
  BY <1>1, SoundKept DEF IInv, Counted, Unfiled
<1>9. QED BY <1>6, <1>7, <1>8 DEF IInv

\* Time passes.
LEMMA TickKeeps ==
  ASSUME Alone, IInv, Tick
  PROVE  IInv'
<1>1. /\ now' = now + 1 /\ now < MaxNow
      /\ UNCHANGED <<signals, seen, noted, queue, worker, record, item, manual, faults, history>>
  BY DEF Tick
<1>2. TypeOK'
  BY <1>1, TicketAssumption DEF IInv, TypeOK, history
<1>3. \A r \in Replica : Sound(worker[r])' /\ Counted(r)'
  BY <1>1, SoundKept DEF IInv, Counted, Unfiled
<1>4. QED BY <1>1, <1>2, <1>3 DEF IInv

\* A transition that could not be written is counted as a failure.
LEMMA IgnoredKeeps ==
  ASSUME Alone, IInv, NEW r \in Replica, ObserveUnwritten(r)
  PROVE  IInv'
<1>1. /\ faults' = faults + 1 /\ faults < MaxFaults /\ seen[r] < Len(signals)
      /\ seen' = [seen EXCEPT ![r] = seen[r] + 1]
      /\ UNCHANGED <<signals, noted, queue, worker, record, item, now, manual, history>>
  BY DEF ObserveUnwritten, Fail
<1>2. faults' \in 0..MaxFaults /\ seen[r] + 1 \in Nat /\ seen[r] + 1 <= Len(signals)
  BY <1>1, Shapes, Tallies
<1>3. Counted(r)'
  <2>1. Unfiled(r)' = Unfiled(r) /\ Len(item') = Len(item) /\ seen'[r] = seen[r] + 1
    BY <1>1, Shapes DEF Unfiled
  <2>2. PICK a \in Nat, q \in Nat, u \in Nat, n \in Nat, m \in Nat, f \in Nat :
        /\ a = Len(item) /\ q = Len(queue[r]) /\ u = Unfiled(r)
        /\ n = seen[r] /\ m = manual /\ f = faults
        /\ a + q + u <= n + m + f
    BY Numbers
  <2>3. a + q + u <= (n + 1) + m + (f + 1)
    <3>1. a + q + u <= n + m + f
      BY <2>2
    <3>2. QED BY ONLY <3>1, a \in Nat, q \in Nat, u \in Nat, n \in Nat, m \in Nat, f \in Nat
  <2>4. QED BY <1>1, <2>1, <2>2, <2>3 DEF Counted
<1>4. worker' = [worker EXCEPT ![r] = worker[r]]
  BY <1>1, Shapes
<1>5. /\ worker' = [worker EXCEPT ![r] = worker'[r]] /\ worker'[r] \in Workers /\ Sound(worker'[r])
      /\ seen' = [seen EXCEPT ![r] = seen'[r]] /\ seen'[r] \in Nat /\ seen'[r] <= Len(signals)
  BY <1>1, <1>2, Shapes
<1>6. QED BY <1>1, <1>2, <1>3, <1>4, <1>5, Shapes, QuietKeeps DEF history

\* A job that throws leaves the worker at rest.
LEMMA ThrowKeeps ==
  ASSUME Alone, IInv, NEW r \in Replica, Throw(r)
  PROVE  IInv'
<1>1. /\ faults' = faults + 1 /\ faults < MaxFaults
      /\ worker' = [worker EXCEPT ![r] = Idle]
      /\ failed' = failed \cup OnlyIn(worker[r].job, queue[r])
      /\ UNCHANGED <<signals, seen, noted, queue, record, item, now, manual, due, shed>>
  BY DEF Throw, Fail, Finish
<1>2. failed' \subseteq Incident
  <2>1. worker[r].job.signal \in Signal
    BY Shapes DEF Workers, Jobs
  <2>2. QED BY <1>1, <2>1, SignalFields, Shapes DEF OnlyIn
<1>3. worker'[r] = Idle /\ Idle.at = "idle"
  BY <1>1, Shapes DEF Idle
<1>4. Counted(r)'
  <2>1. Unfiled(r)' = 0 /\ Len(item') = Len(item) /\ seen'[r] = seen[r]
    BY <1>1, <1>3 DEF Unfiled
  <2>2. PICK a \in Nat, q \in Nat, u \in Nat, n \in Nat, m \in Nat, f \in Nat :
        /\ a = Len(item) /\ q = Len(queue[r]) /\ u = Unfiled(r)
        /\ n = seen[r] /\ m = manual /\ f = faults
        /\ a + q + u <= n + m + f
    BY Numbers
  <2>3. a + q + 0 <= n + m + (f + 1)
    <3>1. a + q + u <= n + m + f
      BY <2>2
    <3>2. QED BY ONLY <3>1, a \in Nat, q \in Nat, u \in Nat, n \in Nat, m \in Nat, f \in Nat
  <2>4. QED BY <1>1, <2>1, <2>2, <2>3 DEF Counted
<1>5. faults' \in 0..MaxFaults /\ seen' = [seen EXCEPT ![r] = seen[r]]
  BY <1>1, Shapes, Tallies
<1>6. /\ worker' = [worker EXCEPT ![r] = worker'[r]] /\ worker'[r] \in Workers /\ Sound(worker'[r])
      /\ seen' = [seen EXCEPT ![r] = seen'[r]] /\ seen'[r] \in Nat /\ seen'[r] <= Len(signals)
  BY <1>1, <1>3, Shapes, IdleFacts
<1>7. QED BY <1>1, <1>2, <1>4, <1>5, <1>6, Shapes, IdleFacts, QuietKeeps

\* A restart leaves the queue empty and the worker at rest.
LEMMA RestartKeeps ==
  ASSUME Alone, IInv, NEW r \in Replica, Restart(r)
  PROVE  IInv'
<1>1. /\ faults' = faults + 1 /\ faults < MaxFaults
      /\ queue' = [queue EXCEPT ![r] = <<>>]
      /\ worker' = [worker EXCEPT ![r] = Idle]
      /\ seen' = [seen EXCEPT ![r] = Len(signals)]
      /\ failed' = failed \cup (UNION {queue[r][k].signal.about : k \in DOMAIN queue[r]})
                    \cup (IF worker[r].at = "idle" THEN {} ELSE worker[r].job.signal.about)
      /\ UNCHANGED <<signals, noted, record, item, now, manual, due, shed>>
  BY DEF Restart, Fail
<1>2. failed' \subseteq Incident
  <2>1. worker[r].job.signal \in Signal
    BY Shapes DEF Workers, Jobs
  <2>2. \A k \in DOMAIN queue[r] : queue[r][k].signal \in Signal
    <3>1. queue[r] \in Seq(Jobs)
      BY Shapes
    <3>2. DOMAIN queue[r] = 1..Len(queue[r])
      BY <3>1, LenProperties
    <3>3. \A k \in 1..Len(queue[r]) : queue[r][k] \in Jobs
      BY <3>1, ElementOfSeq
    <3>4. QED BY <3>2, <3>3 DEF Jobs
  <2>3. worker[r].job.signal.about \subseteq Incident
    BY <2>1, SignalFields
  <2>4. \A k \in DOMAIN queue[r] : queue[r][k].signal.about \subseteq Incident
    BY <2>2, SignalFields
  <2>5. UNION {queue[r][k].signal.about : k \in DOMAIN queue[r]} \subseteq Incident
    BY ONLY <2>4
  <2> DEFINE A == UNION {queue[r][k].signal.about : k \in DOMAIN queue[r]}
             B == IF worker[r].at = "idle" THEN {} ELSE worker[r].job.signal.about
  <2>6. A \subseteq Incident /\ B \subseteq Incident
    BY ONLY <2>3, <2>5
  <2>7. failed' = failed \cup A \cup B
    BY ONLY <1>1
  <2>8. failed \subseteq Incident
    BY Shapes
  <2> HIDE DEF A, B
  <2>9. QED BY ONLY <2>6, <2>7, <2>8
<1>3. /\ worker'[r] = Idle /\ Idle.at = "idle" /\ queue'[r] = <<>> /\ Len(queue'[r]) = 0
      /\ queue' \in [Replica -> Seq(Jobs)] /\ Len(queue'[r]) <= Capacity
      /\ seen'[r] = Len(signals)
  BY <1>1, Shapes, TicketAssumption DEF Idle
<1>4. Counted(r)'
  <2>1. Unfiled(r)' = 0 /\ Len(item') = Len(item)
    BY <1>1, <1>3 DEF Unfiled
  <2>2. PICK a \in Nat, q \in Nat, u \in Nat, n \in Nat, m \in Nat, f \in Nat :
        /\ a = Len(item) /\ q = Len(queue[r]) /\ u = Unfiled(r)
        /\ n = seen[r] /\ m = manual /\ f = faults
        /\ a + q + u <= n + m + f
    BY Numbers
  <2>3. PICK n1 \in Nat : n1 = seen'[r] /\ n <= n1
    BY <2>2, <1>3, Shapes
  <2>4. a + 0 + 0 <= n1 + m + (f + 1)
    <3>1. a + q + u <= n + m + f /\ n <= n1
      BY <2>2, <2>3
    <3>2. QED BY ONLY <3>1, a \in Nat, q \in Nat, u \in Nat, n \in Nat, m \in Nat, f \in Nat, n1 \in Nat
  <2>5. QED BY <1>1, <1>3, <2>1, <2>2, <2>3, <2>4 DEF Counted
<1>5. faults' \in 0..MaxFaults /\ Len(signals') <= MaxSignals /\ Len(signals) \in Nat
  BY <1>1, Shapes, Tallies
<1>6. /\ worker' = [worker EXCEPT ![r] = worker'[r]] /\ worker'[r] \in Workers /\ Sound(worker'[r])
      /\ seen' = [seen EXCEPT ![r] = seen'[r]] /\ seen'[r] \in Nat /\ seen'[r] <= Len(signals)
  <2>1. worker'[r] \in Workers /\ Sound(worker'[r])
    BY <1>3, IdleFacts
  <2>2. worker' = [worker EXCEPT ![r] = worker'[r]] /\ seen' = [seen EXCEPT ![r] = seen'[r]]
    BY <1>1, <1>3
  <2>3. seen'[r] \in Nat /\ seen'[r] <= Len(signals)
    BY <1>3, Tallies
  <2>4. QED BY <2>1, <2>2, <2>3
<1>7. QED BY <1>1, <1>2, <1>3, <1>4, <1>5, <1>6, Shapes, IdleFacts, QuietKeeps

\* The oldest job goes from the queue to the worker.
LEMMA TakeKeeps ==
  ASSUME Alone, IInv, NEW r \in Replica, Take(r)
  PROVE  IInv'
<1> DEFINE w == [Idle EXCEPT !.at = "look", !.job = Head(queue[r])]
<1>1. /\ worker[r].at = "idle" /\ queue[r] # <<>>
      /\ worker' = [worker EXCEPT ![r] = w]
      /\ queue' = [queue EXCEPT ![r] = Tail(queue[r])]
      /\ UNCHANGED <<signals, seen, noted, record, item, now, manual, faults, history>>
  BY DEF Take
<1>2. Head(queue[r]) \in Jobs /\ Tail(queue[r]) \in Seq(Jobs) /\ Len(Tail(queue[r])) = Len(queue[r]) - 1
  BY <1>1, Shapes, HeadTailProperties
<1>3. w.at = "look" /\ w.todo = {}
  BY DEF Idle
<1>4. w \in Workers
  BY <1>2, IdleFacts DEF Workers, Steps
<1> HIDE DEF w
<1>5. Sound(w)
  BY <1>3 DEF Sound, Opening, Closing, Holding
<1>6. /\ worker'[r] = w /\ queue' \in [Replica -> Seq(Jobs)] /\ queue'[r] = Tail(queue[r])
      /\ Len(queue'[r]) <= Capacity
  BY <1>1, <1>2, Shapes, TicketAssumption
<1>7. Counted(r)'
  <2>1. Unfiled(r)' = 1 /\ Unfiled(r) = 0 /\ Len(item') = Len(item) /\ seen'[r] = seen[r]
    BY <1>1, <1>3, <1>6 DEF Unfiled
  <2>2. PICK a \in Nat, q \in Nat, u \in Nat, n \in Nat, m \in Nat, f \in Nat :
        /\ a = Len(item) /\ q = Len(queue[r]) /\ u = Unfiled(r)
        /\ n = seen[r] /\ m = manual /\ f = faults
        /\ a + q + u <= n + m + f
    BY Numbers
  <2>3. PICK q1 \in Nat : q1 = Len(queue'[r]) /\ q1 = q - 1
    BY <1>2, <1>6, <2>2, LenProperties
  <2>4. a + q1 + 1 <= n + m + f
    <3>1. a + q + u <= n + m + f /\ q1 = q - 1
      BY <2>2, <2>3
    <3>2. QED BY ONLY <3>1, a \in Nat, q \in Nat, u \in Nat, n \in Nat, m \in Nat, f \in Nat, q1 \in Nat
  <2>5. QED BY <1>1, <2>1, <2>2, <2>3, <2>4 DEF Counted
<1>8. seen' = [seen EXCEPT ![r] = seen[r]]
  BY <1>1, Shapes
<1>9. /\ worker' = [worker EXCEPT ![r] = worker'[r]] /\ worker'[r] \in Workers /\ Sound(worker'[r])
      /\ seen' = [seen EXCEPT ![r] = seen'[r]] /\ seen'[r] \in Nat /\ seen'[r] <= Len(signals)
  BY <1>1, <1>4, <1>5, <1>6, Shapes
<1>10. QED BY <1>1, <1>4, <1>5, <1>6, <1>7, <1>8, <1>9, Shapes, QuietKeeps DEF history

-------------------------------------------------------------------------------
(* The worker's calls *)

\* A worker that goes on is a worker, about the same job.
LEMMA GotoFacts ==
  ASSUME IInv, NEW r \in Replica, NEW at \in Steps, NEW rec \in Records \cup {NoRecord},
         NEW todo \in SUBSET Records, Goto(r, at, rec, todo)
  PROVE  /\ worker' = [worker EXCEPT ![r] = worker'[r]] /\ worker'[r] \in Workers
         /\ worker'[r].at = at /\ worker'[r].rec = rec /\ worker'[r].todo = todo
         /\ worker'[r].job = worker[r].job /\ worker'[r].stamp = worker[r].stamp
<1>1. worker \in [Replica -> Workers] /\ worker[r] \in Workers
  BY Shapes
<1> DEFINE w == [worker[r] EXCEPT !.at = at, !.rec = rec, !.todo = todo]
<1>2. /\ w \in Workers /\ w.at = at /\ w.rec = rec /\ w.todo = todo
      /\ w.job = worker[r].job /\ w.stamp = worker[r].stamp
  BY <1>1 DEF Workers
<1>3. worker' = [worker EXCEPT ![r] = w]
  BY DEF Goto
<1> HIDE DEF w
<1>4. worker'[r] = w
  BY <1>1, <1>3
<1>5. QED BY <1>2, <1>3, <1>4

\* So is one that has finished.
LEMMA FinishFacts ==
  ASSUME IInv, NEW r \in Replica, Finish(r)
  PROVE  /\ worker' = [worker EXCEPT ![r] = worker'[r]] /\ worker'[r] \in Workers
         /\ worker'[r] = Idle /\ worker'[r].at = "idle" /\ worker'[r].todo = {}
         /\ Sound(worker'[r])
<1>1. worker'[r] = Idle /\ worker' = [worker EXCEPT ![r] = Idle]
  BY Shapes DEF Finish
<1>2. Idle.at = "idle" /\ Idle.todo = {}
  BY DEF Idle
<1>3. QED BY <1>1, <1>2, IdleFacts

\* A step that files nothing, or files what was in hand, or counts a failure for
\* what it files, keeps the tally.
LEMMA CountedAgain ==
  ASSUME IInv, NEW r \in Replica, UNCHANGED <<seen, queue, manual>>,
         \/ /\ Len(item') = Len(item) /\ (Unfiled(r)' = Unfiled(r) \/ Unfiled(r)' = 0)
            /\ (faults' = faults \/ faults' = faults + 1)
         \/ /\ Len(item') = Len(item) + 1 /\ Unfiled(r) = 1 /\ Unfiled(r)' = 0
            /\ faults' = faults
         \/ /\ Len(item') = Len(item) + 1 /\ Unfiled(r)' = Unfiled(r)
            /\ faults' = faults + 1
  PROVE  Counted(r)'
<1>1. PICK a \in Nat, q \in Nat, u \in Nat, n \in Nat, m \in Nat, f \in Nat :
        /\ a = Len(item) /\ q = Len(queue[r]) /\ u = Unfiled(r)
        /\ n = seen[r] /\ m = manual /\ f = faults
        /\ a + q + u <= n + m + f
  BY Numbers
<1>2. a + q + u <= n + m + f
  BY <1>1
<1>3. /\ a + q + 0 <= n + m + f /\ a + q + u <= n + m + (f + 1) /\ a + q + 0 <= n + m + (f + 1)
      /\ u = 1 => (a + 1) + q + 0 <= n + m + f
      /\ (a + 1) + q + u <= n + m + (f + 1)
  BY ONLY <1>2, a \in Nat, q \in Nat, u \in Nat, n \in Nat, m \in Nat, f \in Nat
<1>4. seen'[r] = n /\ Len(queue'[r]) = q /\ manual' = m
  BY <1>1
<1>5. Counted(r)' <=> Len(item') + q + Unfiled(r)' <= n + m + faults'
  BY <1>4 DEF Counted
<1>6. QED BY <1>1, <1>2, <1>3, <1>5

\* The invariant holds again when a worker's call left it sound, the records
\* name work items of their own, and the tally is kept.
LEMMA CallKeeps ==
  ASSUME Alone, IInv, NEW r \in Replica,
         UNCHANGED <<signals, seen, noted, queue, now, manual, due, shed, failed>>,
         worker'[r] \in Workers, worker' = [worker EXCEPT ![r] = worker'[r]],
         faults' \in 0..MaxFaults,
         record' \in [Incident -> Records \cup {NoRecord}], item' \in Seq(Items),
         \A i \in Incident : record'[i] # NoRecord =>
           /\ record'[i].incident = i
           /\ record'[i].issue \in DOMAIN item'
           /\ item'[record'[i].issue].incident = i,
         Sound(worker[r])', Counted(r)'
  PROVE  IInv'
<1>1. /\ worker \in [Replica -> Workers] /\ seen \in [Replica -> 0..MaxSignals]
      /\ signals \in Seq(Signal) /\ Len(signals) <= MaxSignals
      /\ noted \subseteq {signals[k] : k \in DOMAIN signals}
      /\ queue \in [Replica -> Seq(Jobs)]
      /\ \A s \in Replica : seen[s] <= Len(signals) /\ Len(queue[s]) <= Capacity
      /\ now \in 0..MaxNow /\ manual \in 0..MaxManual
      /\ due \in [Incident -> {"nothing", "open", "resolved"}]
      /\ shed \subseteq Incident /\ failed \subseteq Incident
  BY DEF IInv, TypeOK
<1>2. worker' \in [Replica -> Workers]
  BY <1>1
<1>3. Len(item') <= MaxItem
  <2>1. PICK a1 \in Nat : a1 = Len(item')
    BY LenProperties
  <2>2. PICK q \in Nat, n \in Nat, m \in Nat : q = Len(queue[r]) /\ n = seen[r] /\ m = manual
    BY Tallies
  <2>3. PICK u1 \in Nat : u1 = Unfiled(r)'
    BY DEF Unfiled
  <2>4. PICK f1 \in Nat : f1 = faults'
    OBVIOUS
  <2>5. PICK S \in Nat, M \in Nat, F \in Nat : S = MaxSignals /\ M = MaxManual /\ F = MaxFaults
    BY Tallies
  <2>6. n <= S /\ m <= M /\ f1 <= F
    BY <1>1, <2>2, <2>4, <2>5
  <2>7. a1 + q + u1 <= n + m + f1
    BY <2>1, <2>2, <2>3, <2>4 DEF Counted
  <2>8. a1 <= S + M + F
    BY ONLY <2>6, <2>7, a1 \in Nat, q \in Nat, u1 \in Nat, n \in Nat, m \in Nat, f1 \in Nat,
       S \in Nat, M \in Nat, F \in Nat
  <2>9. QED BY <2>1, <2>5, <2>8, ItemBound
<1>4. noted' \subseteq {signals'[k] : k \in DOMAIN signals'}
  BY <1>1
<1>5. TypeOK'
  BY <1>1, <1>2, <1>3, <1>4 DEF TypeOK
<1>6. QED BY <1>1, <1>5 DEF IInv, Alone

\* A failure is looked up: the copy held is what the store holds.
LEMMA LookFailureKeeps ==
  ASSUME Alone, IInv, NEW r \in Replica, LookFailure(r)
  PROVE  IInv'
<1>1. /\ worker[r].at = "look" /\ worker[r].job.signal.kind = "failed"
      /\ UNCHANGED <<signals, seen, noted, queue, now, manual>>
      /\ UNCHANGED <<record, item, faults, due, shed, failed>>
  BY DEF LookFailure, Working, history
<1>2. /\ worker[r] \in Workers /\ worker[r].job.signal \in Signal /\ worker[r].todo = {}
      /\ worker \in [Replica -> Workers] /\ worker[r].rec \in Records \cup {NoRecord}
  BY <1>1, Shapes DEF Workers, Jobs, Sound, Closing
<1>3. PICK i \in Incident : worker[r].job.signal.about = {i}
  BY <1>1, <1>2, SignalFields
<1> DEFINE rec == record[i]
           next == IF ~IsOpen(rec) THEN "create"
                   ELSE IF Silent(worker[r].job, rec) THEN "keep" ELSE "comment"
           w == [worker[r] EXCEPT !.at = next, !.rec = rec, !.stamp = now]
<1>4. worker' = [worker EXCEPT ![r] = w]
  BY <1>3 DEF LookFailure
<1>5. rec \in Records \cup {NoRecord} /\ (IsOpen(rec) => rec \in Records /\ rec.incident = i /\ rec.state = "open")
  BY <1>3 DEF IInv, TypeOK, IsOpen
<1>6. next \in {"create", "keep", "comment"} /\ (next = "create" <=> ~IsOpen(rec))
  OBVIOUS
<1>7. now \in 0..MaxNow
  BY Shapes
<1> HIDE DEF next
<1>8. /\ w \in Workers /\ w.at = next /\ w.rec = record[i] /\ w.todo = {} /\ w.job = worker[r].job
  BY <1>2, <1>5, <1>6, <1>7 DEF Workers, Steps
<1>9. worker'[r] = w
  BY <1>2, <1>4
<1> HIDE DEF w
<1>10. Sound(w)
  BY <1>1, <1>3, <1>5, <1>6, <1>8
     DEF Sound, Opening, Closing, Holding, SameTicket, IsOpen
<1>11. Counted(r)'
  <2>1. Unfiled(r)' = Unfiled(r) \/ Unfiled(r)' = 0
    BY <1>1 DEF Unfiled
  <2>2. QED BY <1>1, <2>1, CountedAgain
<1>12. /\ worker' = [worker EXCEPT ![r] = worker'[r]] /\ worker'[r] \in Workers /\ Sound(worker'[r])
       /\ seen' = [seen EXCEPT ![r] = seen'[r]] /\ seen'[r] \in Nat /\ seen'[r] <= Len(signals)
  BY <1>1, <1>4, <1>8, <1>9, <1>10, Shapes
<1>13. QED BY <1>1, <1>11, <1>12, Shapes, QuietKeeps

\* A recovery is looked up: every record held is open in the store.
LEMMA LookRecoveryKeeps ==
  ASSUME Alone, IInv, NEW r \in Replica, LookRecovery(r)
  PROVE  IInv'
<1>1. /\ worker[r].at = "look" /\ worker[r].job.signal.kind # "failed"
      /\ UNCHANGED <<signals, seen, noted, queue, now, manual>>
      /\ UNCHANGED <<record, item, faults, due, shed, failed>>
  BY DEF LookRecovery, Working, history
<1>2. PICK page \in Pages(worker[r].job.signal) :
        IF page = {} THEN Finish(r) ELSE Goto(r, "close", NoRecord, {record[i] : i \in page})
  BY DEF LookRecovery
<1>3. page \subseteq {i \in Incident : IsOpen(record[i])}
  BY <1>2 DEF Pages
<1>4. \A i \in page : record[i] \in Records /\ record[i].incident = i /\ record[i].state = "open"
  BY <1>3 DEF IInv, TypeOK, IsOpen
<1>5. /\ worker' = [worker EXCEPT ![r] = worker'[r]] /\ worker'[r] \in Workers /\ Sound(worker'[r])
      /\ worker'[r].at \in {"idle", "close"}
  <2>1. CASE page = {}
    BY <1>2, <2>1, FinishFacts
  <2>2. CASE page # {}
    <3> DEFINE todo == {record[i] : i \in page}
    <3>1. todo \in SUBSET Records /\ \A x \in todo : record[x.incident] = x /\ x.state = "open"
      BY <1>4
    <3>2. Goto(r, "close", NoRecord, todo)
      BY <1>2, <2>2
    <3> HIDE DEF todo
    <3>3. /\ worker' = [worker EXCEPT ![r] = worker'[r]] /\ worker'[r] \in Workers
          /\ worker'[r].at = "close" /\ worker'[r].todo = todo /\ worker'[r].job = worker[r].job
      BY <3>1, <3>2, GotoFacts DEF Steps
    <3>4. Sound(worker'[r])
      BY <1>1, <3>1, <3>3 DEF Sound, Opening, Closing, Holding
    <3>5. QED BY <3>3, <3>4
  <2>3. QED BY <2>1, <2>2
<1>6. Counted(r)'
  <2>1. worker'[r].at \in {"idle", "close"}
    BY <1>5
  <2>2. Unfiled(r)' = 0
    BY <2>1 DEF Unfiled
  <2>3. QED BY <1>1, <2>2, CountedAgain
<1>7. seen' = [seen EXCEPT ![r] = seen'[r]] /\ seen'[r] \in Nat /\ seen'[r] <= Len(signals)
  BY <1>1, Shapes
<1>8. QED BY <1>1, <1>5, <1>6, <1>7, Shapes, QuietKeeps

\* The extras change nothing but the worker.
LEMMA ExtrasKeeps ==
  ASSUME Alone, IInv, NEW r \in Replica, Extras(r)
  PROVE  IInv'
<1>1. /\ Finish(r)
      /\ UNCHANGED <<signals, seen, noted, queue, now, manual>>
      /\ UNCHANGED <<record, item, faults, due, shed, failed>>
  BY DEF Extras, Working, history
<1>2. /\ worker' = [worker EXCEPT ![r] = worker'[r]] /\ worker'[r] \in Workers /\ Sound(worker'[r])
      /\ worker'[r].at = "idle"
  BY <1>1, FinishFacts
<1>3. Counted(r)'
  <2>1. Unfiled(r)' = 0
    BY <1>2 DEF Unfiled
  <2>2. QED BY <1>1, <2>1, CountedAgain
<1>4. seen' = [seen EXCEPT ![r] = seen'[r]] /\ seen'[r] \in Nat /\ seen'[r] <= Len(signals)
  BY <1>1, Shapes
<1>5. QED BY <1>1, <1>2, <1>3, <1>4, Shapes, QuietKeeps

\* The next record to close is one the store holds.
LEMMA CloseNextKeeps ==
  ASSUME Alone, IInv, NEW r \in Replica, CloseNext(r)
  PROVE  IInv'
<1>1. /\ worker[r].at = "close" /\ worker[r].job.signal.kind # "failed"
      /\ UNCHANGED <<signals, seen, noted, queue, now, manual>>
      /\ UNCHANGED <<record, item, due, shed, failed>>
  BY Shapes DEF CloseNext, Working, history, Sound, Closing
<1>2. PICK rec \in worker[r].todo :
        \/ /\ Goto(r, IF AutoResolve /\ Completed THEN "move" ELSE "settle", rec, worker[r].todo \ {rec})
           /\ UNCHANGED faults
        \/ Fail("state") /\ Goto(r, "settle", rec, worker[r].todo \ {rec})
  BY DEF CloseNext
<1> DEFINE todo == worker[r].todo \ {rec}
<1>3. /\ rec \in Records /\ todo \in SUBSET Records /\ rec \notin todo
      /\ record[rec.incident] = rec /\ rec.state = "open"
      /\ \A x \in todo : record[x.incident] = x /\ x.state = "open"
  BY <1>2, Shapes DEF Workers, Sound
<1>4. PICK at \in {"move", "settle"} :
        Goto(r, at, rec, todo) /\ (faults' = faults \/ (faults' = faults + 1 /\ faults < MaxFaults))
  BY <1>2 DEF Fail
<1> HIDE DEF todo
<1>5. /\ worker' = [worker EXCEPT ![r] = worker'[r]] /\ worker'[r] \in Workers
      /\ worker'[r].at = at /\ worker'[r].rec = rec /\ worker'[r].todo = todo
      /\ worker'[r].job = worker[r].job
  BY <1>3, <1>4, GotoFacts DEF Steps
<1>6. Sound(worker'[r])
  BY <1>1, <1>3, <1>5 DEF Sound, Opening, Closing, Holding
<1>7. Counted(r)'
  <2>1. Unfiled(r)' = 0
    BY <1>5 DEF Unfiled
  <2>2. QED BY <1>1, <1>4, <2>1, CountedAgain
<1>8. seen' = [seen EXCEPT ![r] = seen'[r]] /\ seen'[r] \in Nat /\ seen'[r] <= Len(signals)
  BY <1>1, Shapes
<1>9. faults' \in 0..MaxFaults
  BY <1>4, Tallies
<1>10. QED BY <1>1, <1>5, <1>6, <1>7, <1>8, <1>9, Shapes, QuietKeeps

\* An item that is amended keeps its incident, and the records their items.
LEMMA Amended ==
  ASSUME IInv, NEW n \in DOMAIN item, NEW x \in Items, x.incident = item[n].incident,
         item' = [item EXCEPT ![n] = x]
  PROVE  /\ item' \in Seq(Items) /\ Len(item') = Len(item) /\ DOMAIN item' = DOMAIN item
         /\ \A m \in DOMAIN item : item'[m] = IF m = n THEN x ELSE item[m]
         /\ \A m \in DOMAIN item : item'[m].incident = item[m].incident
<1>1. item \in Seq(Items)
  BY DEF IInv, TypeOK
<1>2. DOMAIN item = 1..Len(item)
  BY <1>1, LenProperties
<1>3. item' \in Seq(Items) /\ Len(item') = Len(item)
  BY <1>1, <1>2, ExceptSeq
<1>4. DOMAIN item' = 1..Len(item')
  BY <1>3, LenProperties
<1>5. \A m \in DOMAIN item : item'[m] = IF m = n THEN x ELSE item[m]
  BY <1>1, <1>2, ExceptSeq
<1>6. QED BY <1>2, <1>3, <1>4, <1>5

\* The shape of the next work item.
LEMMA NewItemFacts ==
  ASSUME Alone, IInv, NEW r \in Replica, worker[r].at = "create"
  PROVE  /\ NewItem(r) \in Items
         /\ NewItem(r).incident \in Incident
         /\ worker[r].job.signal.about = {NewItem(r).incident}
         /\ NewItem(r).opened = now /\ NewItem(r).said = <<>>
         /\ worker[r].rec = record[NewItem(r).incident]
         /\ NewItem(r).previous = Named(NewItem(r).incident)
         /\ ~IsOpen(record[NewItem(r).incident])
<1>1. worker[r] \in Workers /\ Sound(worker[r])
  BY Shapes
<1>2. PICK i \in Incident :
        worker[r].job.signal.about = {i} /\ worker[r].rec = record[i] /\ ~IsOpen(record[i])
  BY <1>1 DEF Sound
<1>3. (CHOOSE x \in worker[r].job.signal.about : TRUE) = i
  BY <1>2
<1>4. NewItem(r) = [incident |-> i, done |-> FALSE, opened |-> now, said |-> <<>>,
                    previous |-> Named(i)]
  BY <1>2, <1>3 DEF NewItem, Named
<1>5. now \in 0..MaxNow
  BY Shapes
<1>6. Named(i) \in 0..MaxItem
  <2>1. CASE record[i] = NoRecord
    BY <2>1, ItemBound DEF Named
  <2>2. CASE record[i] # NoRecord
    BY <2>2, RecordFields DEF Named, IInv, TypeOK
  <2>3. QED BY <2>1, <2>2
<1>7. NewItem(r) \in Items
  BY <1>4, <1>5, <1>6 DEF Items
<1>8. QED BY <1>2, <1>4, <1>7

\* Plane gains an item: the records still name theirs.
LEMMA Appended ==
  ASSUME IInv, NEW x \in Items, item' = Append(item, x)
  PROVE  /\ item' \in Seq(Items) /\ Len(item') = Len(item) + 1
         /\ Len(item) + 1 \in DOMAIN item' /\ item'[Len(item) + 1] = x
         /\ DOMAIN item = 1..Len(item) /\ DOMAIN item' = 1..(Len(item) + 1)
         /\ \A m \in DOMAIN item : m \in DOMAIN item' /\ item'[m] = item[m]
<1>1. item \in Seq(Items)
  BY DEF IInv, TypeOK
<1>2. Len(item) \in Nat /\ DOMAIN item = 1..Len(item)
  BY <1>1, LenProperties
<1>3. item' \in Seq(Items) /\ Len(item') = Len(item) + 1
  BY <1>1
<1>4. DOMAIN item' = 1..(Len(item) + 1)
  BY <1>2, <1>3, LenProperties
<1>5. item'[Len(item) + 1] = x /\ \A m \in 1..Len(item) : item'[m] = item[m]
  BY <1>1, <1>2
<1>6. QED BY <1>2, <1>3, <1>4, <1>5

\* What the records are, and that the newest of their numbers exists.
LEMMA RecordShapes ==
  ASSUME IInv, NEW i \in Incident
  PROVE  /\ record[i] \in Records \cup {NoRecord}
         /\ record[i] # NoRecord =>
              /\ record[i] \in Records /\ record[i].incident = i
              /\ record[i].issue \in DOMAIN item
              /\ item[record[i].issue].incident = i
         /\ Named(i) <= Len(item) /\ Named(i) \in Nat
<1>1. item \in Seq(Items)
  BY DEF IInv, TypeOK
<1>2. Len(item) \in Nat /\ DOMAIN item = 1..Len(item)
  BY <1>1, LenProperties
<1>3. /\ record[i] \in Records \cup {NoRecord}
      /\ record[i] # NoRecord =>
              /\ record[i] \in Records /\ record[i].incident = i
              /\ record[i].issue \in DOMAIN item
              /\ item[record[i].issue].incident = i
  BY DEF IInv, TypeOK
<1>4. QED BY <1>2, <1>3 DEF Named

\* A work item is created: its record, not yet stored, is new.
LEMMA CreateIssueKeeps ==
  ASSUME Alone, IInv, NEW r \in Replica, CreateIssue(r)
  PROVE  IInv'
<1> DEFINE x == NewItem(r)
           rec == [incident |-> x.incident, state |-> "open", issue |-> Len(item) + 1,
                   since |-> worker[r].stamp, previous |-> x.previous]
<1>1. /\ worker[r].at = "create" /\ worker[r].job.signal.kind = "failed" /\ item' = Append(item, x)
      /\ Goto(r, "file", rec, {})
      /\ UNCHANGED <<signals, seen, noted, queue, now, manual>>
      /\ UNCHANGED <<record, faults, due, shed, failed>>
  BY Shapes DEF CreateIssue, Working, history, Sound, Opening
<1>2. /\ x \in Items /\ x.incident \in Incident /\ worker[r].job.signal.about = {x.incident}
      /\ x.previous = Named(x.incident) /\ ~IsOpen(record[x.incident])
  BY <1>1, NewItemFacts
<1>3. /\ item' \in Seq(Items) /\ Len(item') = Len(item) + 1
      /\ Len(item) + 1 \in DOMAIN item' /\ item'[Len(item) + 1] = x
      /\ \A m \in DOMAIN item : m \in DOMAIN item' /\ item'[m] = item[m]
  BY <1>1, <1>2, Appended
<1>4. rec \in Records /\ rec.incident = x.incident /\ rec.state = "open"
      /\ rec.issue = Len(item) + 1 /\ rec.previous = Named(x.incident)
  <2>1. worker[r].stamp \in 0..MaxNow
    BY Shapes DEF Workers
  <2>2. Len(item) + 1 \in 1..MaxItem
    <3>1. PICK a \in Nat, q \in Nat, u \in Nat, n \in Nat, m \in Nat, f \in Nat :
        /\ a = Len(item) /\ q = Len(queue[r]) /\ u = Unfiled(r)
        /\ n = seen[r] /\ m = manual /\ f = faults
        /\ a + q + u <= n + m + f /\ m <= MaxManual /\ f <= MaxFaults
      BY Numbers
    <3>2. PICK S \in Nat, M \in Nat, F \in Nat : S = MaxSignals /\ M = MaxManual /\ F = MaxFaults
      BY Tallies
    <3>3. n <= S /\ m <= M /\ f <= F /\ u = 1 /\ a + q + u <= n + m + f
      BY <1>1, <3>1, <3>2, Shapes DEF Unfiled
    <3>4. a + 1 <= S + M + F
      BY ONLY <3>3, a \in Nat, q \in Nat, u \in Nat, n \in Nat, m \in Nat, f \in Nat,
         S \in Nat, M \in Nat, F \in Nat
    <3>5. QED BY <3>1, <3>2, <3>4, ItemBound
  <2>3. x.previous \in 0..MaxItem
    BY <1>2 DEF Items
  <2>4. QED BY <1>2, <2>1, <2>2, <2>3 DEF Records
<1> HIDE DEF x, rec
<1>5. /\ worker' = [worker EXCEPT ![r] = worker'[r]] /\ worker'[r] \in Workers
      /\ worker'[r].at = "file" /\ worker'[r].rec = rec /\ worker'[r].todo = {}
      /\ worker'[r].job = worker[r].job
  BY <1>1, <1>4, GotoFacts DEF Steps
<1>6. \A i \in Incident : Named(i) < rec.issue
  BY <1>4, RecordShapes, Shapes
<1>7. Sound(worker[r])'
  <2>1. rec.issue \in DOMAIN item' /\ item'[rec.issue].incident = rec.incident
    BY <1>2, <1>3, <1>4
  <2>2. \A i \in Incident : Named(i)' = Named(i)
    BY <1>1 DEF Named
  <2>3. ~IsOpen(record'[rec.incident])
    BY <1>1, <1>2, <1>4
  <2>4. QED BY <1>1, <1>2, <1>4, <1>5, <1>6, <2>1, <2>2, <2>3
            DEF Sound, Opening, Closing, Holding, InPlane, IsOpen
<1>8. Counted(r)'
  <2>1. Unfiled(r) = 1 /\ Unfiled(r)' = 0
    BY <1>1, <1>5 DEF Unfiled
  <2>2. QED BY <1>1, <1>3, <2>1, CountedAgain
<1>9. \A i \in Incident : record'[i] # NoRecord =>
        /\ record'[i].incident = i
        /\ record'[i].issue \in DOMAIN item'
        /\ item'[record'[i].issue].incident = i
  BY <1>1, <1>3, RecordShapes
<1>10. faults' \in 0..MaxFaults /\ record' \in [Incident -> Records \cup {NoRecord}]
  BY <1>1, Shapes
<1>11. QED BY <1>1, <1>3, <1>5, <1>7, <1>8, <1>9, <1>10, CallKeeps

\* A record is replaced by one of the same incident that names one of its items.
LEMMA Replaced ==
  ASSUME IInv, NEW rec \in Records, rec.issue \in DOMAIN item,
         item[rec.issue].incident = rec.incident,
         record' = [record EXCEPT ![rec.incident] = rec], item' = item
  PROVE  /\ record' \in [Incident -> Records \cup {NoRecord}]
         /\ record'[rec.incident] = rec
         /\ \A i \in Incident \ {rec.incident} : record'[i] = record[i]
         /\ \A i \in Incident : record'[i] # NoRecord =>
              /\ record'[i].incident = i
              /\ record'[i].issue \in DOMAIN item'
              /\ item'[record'[i].issue].incident = i
<1>1. record \in [Incident -> Records \cup {NoRecord}] /\ rec.incident \in Incident
  BY RecordFields DEF IInv, TypeOK
<1>2. record' \in [Incident -> Records \cup {NoRecord}] /\ record'[rec.incident] = rec
      /\ \A i \in Incident \ {rec.incident} : record'[i] = record[i]
  BY <1>1
<1>3. QED BY <1>2, RecordShapes

\* The mapping is stored.
LEMMA FileRecordKeeps ==
  ASSUME Alone, IInv, NEW r \in Replica, FileRecord(r)
  PROVE  IInv'
<1> DEFINE rec == worker[r].rec
<1>1. /\ worker[r].at = "file" /\ record' = [record EXCEPT ![rec.incident] = rec]
      /\ Goto(r, "extras", rec, {})
      /\ UNCHANGED <<signals, seen, noted, queue, now, manual>>
      /\ UNCHANGED <<item, faults, due, shed, failed>>
  BY DEF FileRecord, Working, history
<1>2. /\ rec \in Records /\ rec.issue \in DOMAIN item /\ item[rec.issue].incident = rec.incident
      /\ worker[r].job.signal.kind = "failed" /\ worker[r].job.signal.about = {rec.incident}
  BY <1>1, Shapes DEF Sound, Opening, Holding, Closing, InPlane
<1> HIDE DEF rec
<1>3. /\ worker' = [worker EXCEPT ![r] = worker'[r]] /\ worker'[r] \in Workers
      /\ worker'[r].at = "extras" /\ worker'[r].rec = rec /\ worker'[r].todo = {}
      /\ worker'[r].job = worker[r].job
  BY <1>1, <1>2, GotoFacts DEF Steps
<1>4. Sound(worker[r])'
  BY <1>2, <1>3 DEF Sound, Opening, Closing, Holding
<1>5. Counted(r)'
  <2>1. Unfiled(r)' = 0
    BY <1>3 DEF Unfiled
  <2>2. QED BY <1>1, <2>1, CountedAgain
<1>6. /\ record' \in [Incident -> Records \cup {NoRecord}]
      /\ \A i \in Incident : record'[i] # NoRecord =>
              /\ record'[i].incident = i
              /\ record'[i].issue \in DOMAIN item'
              /\ item'[record'[i].issue].incident = i
  BY <1>1, <1>2, Replaced
<1>7. faults' \in 0..MaxFaults /\ item' \in Seq(Items)
  BY <1>1, Shapes
<1>8. QED BY <1>1, <1>3, <1>4, <1>5, <1>6, <1>7, CallKeeps

\* The open record is stored again.
LEMMA KeepRecordKeeps ==
  ASSUME Alone, IInv, NEW r \in Replica, KeepRecord(r)
  PROVE  IInv'
<1> DEFINE rec == worker[r].rec
<1>1. /\ worker[r].at = "keep" /\ record' = [record EXCEPT ![rec.incident] = rec]
      /\ Finish(r)
      /\ UNCHANGED <<signals, seen, noted, queue, now, manual>>
      /\ UNCHANGED <<item, faults, due, shed, failed>>
  BY DEF KeepRecord, Working, history
<1>2. /\ rec \in Records /\ record[rec.incident] # NoRecord
      /\ SameTicket(rec, record[rec.incident])
  BY <1>1, Shapes DEF Sound, Holding, Closing
<1>3. rec.issue \in DOMAIN item /\ item[rec.issue].incident = rec.incident
  BY <1>2, RecordFields, RecordShapes DEF SameTicket
<1> HIDE DEF rec
<1>4. /\ worker' = [worker EXCEPT ![r] = worker'[r]] /\ worker'[r] \in Workers
      /\ worker'[r].at = "idle" /\ worker'[r] = Idle
  BY <1>1, FinishFacts
<1>5. Sound(worker[r])'
  BY <1>4 DEF Sound, Opening, Closing, Holding, Idle
<1>6. Counted(r)'
  <2>1. Unfiled(r)' = 0
    BY <1>4 DEF Unfiled
  <2>2. QED BY <1>1, <2>1, CountedAgain
<1>7. /\ record' \in [Incident -> Records \cup {NoRecord}]
      /\ \A i \in Incident : record'[i] # NoRecord =>
              /\ record'[i].incident = i
              /\ record'[i].issue \in DOMAIN item'
              /\ item'[record'[i].issue].incident = i
  BY <1>1, <1>2, <1>3, Replaced
<1>8. faults' \in 0..MaxFaults /\ item' \in Seq(Items)
  BY <1>1, Shapes
<1>9. QED BY <1>1, <1>4, <1>5, <1>6, <1>7, <1>8, CallKeeps

\* A resolution is stored: the other records in hand stay what the store holds.
LEMMA SettleRecordKeeps ==
  ASSUME Alone, IInv, NEW r \in Replica, SettleRecord(r)
  PROVE  IInv'
<1> DEFINE rec == worker[r].rec
           new == Settled(rec)
           todo == worker[r].todo
<1>1. /\ worker[r].at = "settle" /\ record' = [record EXCEPT ![rec.incident] = new]
      /\ IF todo = {} THEN Finish(r) ELSE Goto(r, "close", NoRecord, todo)
      /\ UNCHANGED <<signals, seen, noted, queue, now, manual>>
      /\ UNCHANGED <<item, faults, due, shed, failed>>
  BY DEF SettleRecord, Working, history
<1>2. /\ rec \in Records /\ record[rec.incident] = rec /\ rec \notin todo
      /\ todo \in SUBSET Records /\ worker[r].job.signal.kind # "failed"
      /\ \A x \in todo : record[x.incident] = x /\ x.state = "open"
  BY <1>1, Shapes DEF Sound, Holding, Closing, Workers
<1>3. now \in 0..MaxNow
  BY Shapes
<1>4. new \in Records /\ new.incident = rec.incident /\ new.issue = rec.issue
  BY <1>2, <1>3 DEF Settled, Records
<1>5. new.issue \in DOMAIN item /\ item[new.issue].incident = new.incident
  BY <1>2, <1>4, RecordFields, RecordShapes
<1>6. record' = [record EXCEPT ![new.incident] = new]
  BY <1>1, <1>4
<1> HIDE DEF rec, new, todo
<1>7. /\ record' \in [Incident -> Records \cup {NoRecord}]
      /\ \A i \in Incident \ {new.incident} : record'[i] = record[i]
      /\ \A i \in Incident : record'[i] # NoRecord =>
              /\ record'[i].incident = i
              /\ record'[i].issue \in DOMAIN item'
              /\ item'[record'[i].issue].incident = i
  BY <1>1, <1>4, <1>5, <1>6, Replaced
<1>8. \A x \in todo : record'[x.incident] = x /\ x.state = "open"
  <2>1. \A x \in todo : x.incident # rec.incident /\ x.incident \in Incident
    BY <1>2, RecordFields
  <2>2. QED BY <1>2, <1>4, <1>7, <2>1
<1>9. /\ worker' = [worker EXCEPT ![r] = worker'[r]] /\ worker'[r] \in Workers
      /\ worker'[r].at \in {"idle", "close"} /\ Sound(worker[r])'
  <2>1. CASE todo = {}
    <3>1. /\ worker' = [worker EXCEPT ![r] = worker'[r]] /\ worker'[r] \in Workers
          /\ worker'[r].at = "idle" /\ worker'[r] = Idle
      BY <1>1, <2>1, FinishFacts
    <3>2. Sound(worker[r])'
      BY <3>1 DEF Sound, Opening, Closing, Holding, Idle
    <3>3. QED BY <3>1, <3>2
  <2>2. CASE todo # {}
    <3>1. /\ worker' = [worker EXCEPT ![r] = worker'[r]] /\ worker'[r] \in Workers
          /\ worker'[r].at = "close" /\ worker'[r].todo = todo
          /\ worker'[r].job = worker[r].job
      <4>1. Goto(r, "close", NoRecord, todo) /\ "close" \in Steps /\ todo \in SUBSET Records
        BY <1>1, <1>2, <2>2 DEF Steps
      <4>2. QED BY <4>1, GotoFacts
    <3>2. Sound(worker[r])'
      BY <1>2, <1>8, <3>1 DEF Sound, Opening, Closing, Holding
    <3>3. QED BY <3>1, <3>2
  <2>3. QED BY <2>1, <2>2
<1>10. Counted(r)'
  <2>1. Unfiled(r)' = 0
    BY <1>9 DEF Unfiled
  <2>2. QED BY <1>1, <2>1, CountedAgain
<1>11. faults' \in 0..MaxFaults /\ item' \in Seq(Items)
  BY <1>1, Shapes
<1>12. QED BY <1>1, <1>7, <1>9, <1>10, <1>11, CallKeeps

\* A recurrence is said on the work item, which stays of its incident.
LEMMA SaidFacts ==
  ASSUME Alone, IInv, NEW r \in Replica, worker[r].at = "comment",
         item' = [item EXCEPT ![worker[r].rec.issue].said = Append(@, now)],
         UNCHANGED record
  PROVE  /\ worker[r].rec.issue \in DOMAIN item
         /\ item' \in Seq(Items) /\ Len(item') = Len(item) /\ DOMAIN item' = DOMAIN item
         /\ \A m \in DOMAIN item : item'[m] =
              IF m = worker[r].rec.issue
                THEN [item[m] EXCEPT !.said = Append(item[m].said, now)] ELSE item[m]
         /\ \A m \in DOMAIN item : item'[m].incident = item[m].incident
         /\ \A i \in Incident : record'[i] # NoRecord =>
              /\ record'[i].incident = i
              /\ record'[i].issue \in DOMAIN item'
              /\ item'[record'[i].issue].incident = i
<1> DEFINE n == worker[r].rec.issue
           x == [item[n] EXCEPT !.said = Append(item[n].said, now)]
<1>1. /\ worker[r].rec \in Records /\ record[worker[r].rec.incident] # NoRecord
      /\ SameTicket(worker[r].rec, record[worker[r].rec.incident]) /\ now \in 0..MaxNow
  BY Shapes DEF Sound, Holding, Closing, Workers
<1>2. n \in DOMAIN item
  BY <1>1, RecordFields, RecordShapes DEF SameTicket
<1>3. item[n] \in Items
  <2>1. item \in Seq(Items)
    BY Shapes
  <2>2. DOMAIN item = 1..Len(item)
    BY <2>1, LenProperties
  <2>3. QED BY <1>2, <2>1, <2>2, ElementOfSeq
<1>4. x \in Items /\ x.incident = item[n].incident
  <2> DEFINE said == Append(item[n].said, now)
  <2>1. item[n].said \in Seq(0..MaxNow) /\ now \in 0..MaxNow
    BY <1>1, <1>3 DEF Items
  <2>2. said \in Seq(0..MaxNow)
    BY <2>1
  <2> HIDE DEF said
  <2>3. [item[n] EXCEPT !.said = said] \in Items
        /\ [item[n] EXCEPT !.said = said].incident = item[n].incident
    BY <1>3, <2>2 DEF Items
  <2>4. QED BY <2>3 DEF said
<1>5. item' = [item EXCEPT ![n] = x]
  BY <1>2, Shapes
<1> HIDE DEF n, x
<1>6. /\ item' \in Seq(Items) /\ Len(item') = Len(item) /\ DOMAIN item' = DOMAIN item
      /\ \A m \in DOMAIN item : item'[m] = IF m = n THEN x ELSE item[m]
      /\ \A m \in DOMAIN item : item'[m].incident = item[m].incident
  BY <1>2, <1>4, <1>5, Amended
<1>7. \A i \in Incident : record'[i] # NoRecord =>
              /\ record'[i].incident = i
              /\ record'[i].issue \in DOMAIN item'
              /\ item'[record'[i].issue].incident = i
  BY <1>6, RecordShapes
<1>8. QED BY <1>2, <1>6, <1>7 DEF n, x

\* A comment.
LEMMA CommentKeeps ==
  ASSUME Alone, IInv, NEW r \in Replica, Comment(r)
  PROVE  IInv'
<1> DEFINE rec == [worker[r].rec EXCEPT !.since = worker[r].stamp]
<1>1. /\ worker[r].at = "comment"
      /\ item' = [item EXCEPT ![worker[r].rec.issue].said = Append(@, now)]
      /\ Goto(r, "keep", rec, {})
      /\ UNCHANGED <<signals, seen, noted, queue, now, manual>>
      /\ UNCHANGED <<record, faults, due, shed, failed>>
  BY DEF Comment, Working, history
<1>2. /\ worker[r].rec \in Records /\ record[worker[r].rec.incident] # NoRecord
      /\ SameTicket(worker[r].rec, record[worker[r].rec.incident]) /\ worker[r].stamp \in 0..MaxNow
      /\ worker[r].rec.state = "open" /\ worker[r].job.signal.kind = "failed"
      /\ worker[r].job.signal.about = {worker[r].rec.incident}
  BY <1>1, Shapes DEF Sound, Opening, Holding, Closing, Workers
<1>3. /\ rec \in Records /\ rec.state = "open" /\ rec.incident = worker[r].rec.incident
      /\ SameTicket(rec, record[rec.incident]) /\ record[rec.incident] # NoRecord
  BY <1>2 DEF Records, SameTicket
<1> HIDE DEF rec
<1>4. /\ worker' = [worker EXCEPT ![r] = worker'[r]] /\ worker'[r] \in Workers
      /\ worker'[r].at = "keep" /\ worker'[r].rec = rec /\ worker'[r].todo = {}
      /\ worker'[r].job = worker[r].job
  BY <1>1, <1>3, GotoFacts DEF Steps
<1>5. Sound(worker[r])'
  BY <1>1, <1>2, <1>3, <1>4 DEF Sound, Opening, Closing, Holding, SameTicket
<1>6. /\ item' \in Seq(Items) /\ Len(item') = Len(item)
      /\ \A i \in Incident : record'[i] # NoRecord =>
              /\ record'[i].incident = i
              /\ record'[i].issue \in DOMAIN item'
              /\ item'[record'[i].issue].incident = i
  BY <1>1, SaidFacts
<1>7. Counted(r)'
  <2>1. Unfiled(r)' = 0
    BY <1>4 DEF Unfiled
  <2>2. QED BY <1>1, <1>6, <2>1, CountedAgain
<1>8. faults' \in 0..MaxFaults /\ record' \in [Incident -> Records \cup {NoRecord}]
  BY <1>1, Shapes
<1>9. QED BY <1>1, <1>4, <1>5, <1>6, <1>7, <1>8, CallKeeps

\* The work item moves to the completed state.
LEMMA MovedFacts ==
  ASSUME Alone, IInv, NEW r \in Replica, MoveIssue(r)
  PROVE  /\ worker[r].at = "move" /\ worker[r].rec \in Records
         /\ record[worker[r].rec.incident] = worker[r].rec /\ worker[r].rec.state = "open"
         /\ worker[r].rec.issue \in DOMAIN item /\ UNCHANGED record
         /\ item' \in Seq(Items) /\ Len(item') = Len(item) /\ DOMAIN item' = DOMAIN item
         /\ \A m \in DOMAIN item : item'[m] =
              IF m = worker[r].rec.issue THEN [item[m] EXCEPT !.done = TRUE] ELSE item[m]
         /\ \A m \in DOMAIN item : item'[m].incident = item[m].incident
         /\ \A i \in Incident : record'[i] # NoRecord =>
              /\ record'[i].incident = i
              /\ record'[i].issue \in DOMAIN item'
              /\ item'[record'[i].issue].incident = i
<1> DEFINE n == worker[r].rec.issue
           x == [item[n] EXCEPT !.done = TRUE]
<1>1. /\ worker[r].at = "move" /\ item' = [item EXCEPT ![n].done = TRUE] /\ UNCHANGED record
  BY DEF MoveIssue, Working
<1>2. /\ worker[r].rec \in Records /\ record[worker[r].rec.incident] = worker[r].rec
      /\ worker[r].rec.state = "open"
  BY <1>1, Shapes DEF Sound, Holding, Closing
<1>3. n \in DOMAIN item
  BY <1>2, RecordFields, RecordShapes
<1>4. item[n] \in Items
  <2>1. item \in Seq(Items)
    BY Shapes
  <2>2. DOMAIN item = 1..Len(item)
    BY <2>1, LenProperties
  <2>3. QED BY <1>3, <2>1, <2>2, ElementOfSeq
<1>5. x \in Items /\ x.incident = item[n].incident
  BY <1>4 DEF Items
<1>6. item' = [item EXCEPT ![n] = x]
  BY <1>1, <1>3, Shapes
<1> HIDE DEF n, x
<1>7. /\ item' \in Seq(Items) /\ Len(item') = Len(item) /\ DOMAIN item' = DOMAIN item
      /\ \A m \in DOMAIN item : item'[m] = IF m = n THEN x ELSE item[m]
      /\ \A m \in DOMAIN item : item'[m].incident = item[m].incident
  BY <1>3, <1>5, <1>6, Amended
<1>8. \A i \in Incident : record'[i] # NoRecord =>
              /\ record'[i].incident = i
              /\ record'[i].issue \in DOMAIN item'
              /\ item'[record'[i].issue].incident = i
  BY <1>1, <1>7, RecordShapes
<1>9. QED BY <1>1, <1>2, <1>3, <1>7, <1>8 DEF n, x

\* The move keeps the copy of the record.
LEMMA MoveIssueKeeps ==
  ASSUME Alone, IInv, NEW r \in Replica, MoveIssue(r)
  PROVE  IInv'
<1>1. /\ worker[r].at = "move" /\ Goto(r, "settle", worker[r].rec, worker[r].todo)
      /\ UNCHANGED <<signals, seen, noted, queue, now, manual>>
      /\ UNCHANGED <<record, faults, due, shed, failed>>
  BY DEF MoveIssue, Working, history
<1>2. /\ worker[r].rec \in Records /\ record[worker[r].rec.incident] = worker[r].rec
      /\ worker[r].rec.state = "open" /\ worker[r].rec \notin worker[r].todo
      /\ worker[r].todo \in SUBSET Records /\ worker[r].job.signal.kind # "failed"
      /\ \A x \in worker[r].todo : record[x.incident] = x /\ x.state = "open"
  BY <1>1, Shapes DEF Sound, Holding, Closing, Workers
<1>3. /\ worker' = [worker EXCEPT ![r] = worker'[r]] /\ worker'[r] \in Workers
      /\ worker'[r].at = "settle" /\ worker'[r].rec = worker[r].rec
      /\ worker'[r].todo = worker[r].todo /\ worker'[r].job = worker[r].job
  BY <1>1, <1>2, GotoFacts DEF Steps
<1>4. Sound(worker[r])'
  BY <1>1, <1>2, <1>3 DEF Sound, Opening, Closing, Holding
<1>5. /\ item' \in Seq(Items) /\ Len(item') = Len(item)
      /\ \A i \in Incident : record'[i] # NoRecord =>
              /\ record'[i].incident = i
              /\ record'[i].issue \in DOMAIN item'
              /\ item'[record'[i].issue].incident = i
  BY MovedFacts
<1>6. Counted(r)'
  <2>1. Unfiled(r)' = 0
    BY <1>3 DEF Unfiled
  <2>2. QED BY <1>1, <1>5, <2>1, CountedAgain
<1>7. faults' \in 0..MaxFaults /\ record' \in [Incident -> Records \cup {NoRecord}]
  BY <1>1, Shapes
<1>8. QED BY <1>1, <1>3, <1>4, <1>5, <1>6, <1>7, CallKeeps

\* A lost answer: the same request once more.
LEMMA ResendKeeps ==
  ASSUME Alone, IInv, NEW r \in Replica, Resend(r)
  PROVE  IInv'
<1>1. /\ faults' = faults + 1 /\ faults < MaxFaults
      /\ UNCHANGED <<worker, record, due, shed, failed>>
      /\ UNCHANGED <<signals, seen, noted, queue, now, manual>>
      /\ worker[r].at \in {"create", "comment"}
      /\ \/ worker[r].at = "create" /\ item' = Append(item, NewItem(r))
         \/ /\ worker[r].at = "comment"
            /\ item' = [item EXCEPT ![worker[r].rec.issue].said = Append(@, now)]
  BY DEF Resend, Fail, Working, history
<1>2. /\ item' \in Seq(Items)
      /\ Len(item') = Len(item) \/ Len(item') = Len(item) + 1
      /\ \A i \in Incident : record'[i] # NoRecord =>
              /\ record'[i].incident = i
              /\ record'[i].issue \in DOMAIN item'
              /\ item'[record'[i].issue].incident = i
  <2>1. CASE worker[r].at = "create"
    <3>1. NewItem(r) \in Items /\ item' = Append(item, NewItem(r))
      BY <1>1, <2>1, NewItemFacts
    <3>2. /\ item' \in Seq(Items) /\ Len(item') = Len(item) + 1
          /\ \A m \in DOMAIN item : m \in DOMAIN item' /\ item'[m] = item[m]
      BY <3>1, Appended
    <3>3. QED BY <1>1, <3>2, RecordShapes
  <2>2. CASE worker[r].at = "comment"
    BY <1>1, <2>2, SaidFacts
  <2>3. QED BY <1>1, <2>1, <2>2
<1>3. Counted(r)'
  <2>1. Unfiled(r)' = Unfiled(r)
    BY <1>1 DEF Unfiled
  <2>2. QED BY <1>1, <1>2, <2>1, CountedAgain
<1>4. Sound(worker[r])'
  <2>1. worker' = worker /\ record' = record /\ Sound(worker[r])
    BY <1>1, Shapes
  <2>2. QED BY <1>1, <2>1 DEF Sound, Opening, Closing, Holding, IsOpen, SameTicket
<1>5. /\ faults' \in 0..MaxFaults /\ record' \in [Incident -> Records \cup {NoRecord}]
      /\ worker'[r] \in Workers /\ worker' = [worker EXCEPT ![r] = worker'[r]]
  BY <1>1, Shapes, Tallies
<1>6. QED BY <1>1, <1>2, <1>3, <1>4, <1>5, CallKeeps

-------------------------------------------------------------------------------
(* Results *)

\* The invariant holds at first.
LEMMA InitIInv == Alone /\ Init => IInv
<1> SUFFICES ASSUME Alone, Init PROVE IInv
  OBVIOUS
<1>1. /\ signals = <<>> /\ seen = [r \in Replica |-> 0] /\ noted = {}
      /\ queue = [r \in Replica |-> <<>>] /\ worker = [r \in Replica |-> Idle]
      /\ record = [i \in Incident |-> NoRecord] /\ item = <<>>
      /\ now = 0 /\ manual = 0 /\ faults = 0
      /\ due = [i \in Incident |-> "nothing"] /\ shed = {} /\ failed = {}
  BY DEF Init
<1>2. /\ MaxSignals \in Nat /\ MaxManual \in Nat /\ MaxNow \in Nat /\ MaxFaults \in Nat
      /\ Capacity \in Nat
  BY TicketAssumption
<1>3. item \in Seq(Items) /\ Len(item) = 0 /\ signals \in Seq(Signal) /\ Len(signals) = 0
  BY <1>1
<1>4. Len(item) <= MaxItem
  <2>1. Cardinality(Replica) \in Nat
    <3>1. CASE Replica = {}
      BY <3>1, FS_EmptySet
    <3>2. CASE \E r \in Replica : TRUE
      <4>1. PICK r \in Replica : TRUE
        BY <3>2
      <4>2. Replica = {r}
        BY <4>1 DEF Alone
      <4>3. QED BY <4>2, FS_Singleton
    <3>3. QED BY <3>1, <3>2
  <2>2. MaxSignals * Cardinality(Replica) \in Nat
    BY <1>2, <2>1
  <2>3. QED BY <1>2, <1>3, <2>2 DEF MaxItem
<1>5. TypeOK
  BY <1>1, <1>2, <1>3, <1>4, IdleFacts DEF TypeOK
<1>6. \A r \in Replica : Sound(worker[r]) /\ Counted(r)
  BY <1>1, <1>3, IdleFacts DEF Counted, Unfiled, Idle
<1>7. QED BY <1>1, <1>2, <1>3, <1>5, <1>6 DEF IInv

\* Every step keeps it.
LEMMA NextIInv == Alone /\ IInv /\ [Next]_vars => IInv'
<1> SUFFICES ASSUME Alone, IInv, [Next]_vars PROVE IInv'
  OBVIOUS
<1>1. CASE UNCHANGED vars
  <2>1. UNCHANGED <<signals, seen, noted, queue, worker, record, item, now, manual, faults,
                    due, shed, failed>>
    BY <1>1 DEF vars
  <2>2. TypeOK' /\ Len(signals') <= MaxSignals
    BY <2>1 DEF IInv, TypeOK
  <2>3. ASSUME NEW r \in Replica PROVE Sound(worker[r])'
    BY <2>1, <2>3, SoundKept DEF IInv
  <2>4. ASSUME NEW r \in Replica PROVE Counted(r)'
    BY <2>1, <2>4 DEF IInv, Counted, Unfiled
  <2>5. QED BY <2>2, <2>3, <2>4 DEF IInv
<1>2. CASE \E s \in Signal : Transition(s)
  BY <1>2, TransitionKeeps
<1>3. CASE Tick
  BY <1>3, TickKeeps
<1>4. ASSUME NEW r \in Replica, Work(r) PROVE IInv'
  BY <1>4, TakeKeeps, LookFailureKeeps, CreateIssueKeeps, FileRecordKeeps, ExtrasKeeps, CommentKeeps,
     KeepRecordKeeps, LookRecoveryKeeps, CloseNextKeeps, MoveIssueKeeps, SettleRecordKeeps DEF Work
<1>5. ASSUME NEW r \in Replica,
             Observe(r) \/ ObserveUnwritten(r) \/ Throw(r) \/ Resend(r) \/ Restart(r)
      PROVE  IInv'
  BY <1>5, ObserveKeeps, IgnoredKeeps, ThrowKeeps, ResendKeeps, RestartKeeps
<1>6. ASSUME NEW r \in Replica, NEW s \in Signal, Request(r, s) PROVE IInv'
  BY <1>6, RequestKeeps
<1>7. QED BY <1>1, <1>2, <1>3, <1>4, <1>5, <1>6 DEF Next

\* One process: what a worker holds is what the store holds, and every work item
\* has a cause.
THEOREM Invariance == ASSUME Alone PROVE Spec => []IInv
BY InitIInv, NextIInv, PTL DEF Spec

\* The variables have their types, the queue its bound, and a record an item of
\* its own incident.
THEOREM TypeCorrect == ASSUME Alone PROVE Spec => []TypeOK
<1>1. IInv => TypeOK
  BY DEF IInv
<1>2. QED BY <1>1, Invariance, PTL

-------------------------------------------------------------------------------
(* The ledger *)

\* A record that is stored is a ticket the ledger shows.
LEMMA TicketFacts ==
  /\ Ticket(NoRecord) = NoRecord
  /\ \A rec \in Records :
       /\ Ticket(rec) = [state |-> rec.state, issue |-> rec.issue, previous |-> rec.previous]
       /\ Ticket(rec) \in Ledger!Tickets /\ Ticket(rec) # NoRecord
<1>1. \A rec \in Records :
        Ticket(rec) = [state |-> rec.state, issue |-> rec.issue, previous |-> rec.previous]
  BY RecordAssumption DEF Ticket
<1>2. \A rec \in Records : Ticket(rec) \in Ledger!Tickets
  BY <1>1 DEF Records, Ledger!Tickets
<1>3. QED BY <1>1, <1>2, RecordAssumption DEF Ticket

\* What the ledger reads of an incident is what its record says.
LEMMA LedgerReads ==
  ASSUME IInv, NEW i \in Incident
  PROVE  Ledger!IsOpen(i) = IsOpen(record[i]) /\ Ledger!Named(i) = Named(i)
<1>1. CASE record[i] = NoRecord
  BY <1>1, TicketFacts DEF Ledger!IsOpen, Ledger!Named, IsOpen, Named
<1>2. CASE record[i] \in Records
  <2>1. /\ Ticket(record[i]) # NoRecord /\ Ticket(record[i]).state = record[i].state
        /\ Ticket(record[i]).issue = record[i].issue /\ record[i] # NoRecord
    BY <1>2, TicketFacts, RecordFields
  <2>2. QED BY <2>1 DEF Ledger!IsOpen, Ledger!Named, IsOpen, Named
<1>3. QED BY <1>1, <1>2 DEF IInv, TypeOK

\* A record names a number.
LEMMA NamedIsNat == ASSUME IInv, NEW i \in Incident PROVE Named(i) \in Nat
BY RecordFields DEF IInv, TypeOK, Named

(* The tickets the ledger shows. *)
Shown == [i \in Incident |-> Ticket(record[i])]

\* One record stored changes one ticket.
LEMMA ShownAgain ==
  ASSUME IInv, NEW i \in Incident, NEW rec, record' = [record EXCEPT ![i] = rec]
  PROVE  Shown' = [Shown EXCEPT ![i] = Ticket(rec)]
<1>1. record \in [Incident -> Records \cup {NoRecord}]
  BY DEF IInv, TypeOK
<1>2. record'[i] = rec /\ \A j \in Incident \ {i} : record'[j] = record[j]
  BY <1>1
<1>3. Shown = [j \in Incident |-> Ticket(record[j])] /\ Shown' = [j \in Incident |-> Ticket(record'[j])]
  BY DEF Shown, Ticket
<1>4. [Shown EXCEPT ![i] = Ticket(rec)] = [j \in Incident |-> IF j = i THEN Ticket(rec) ELSE Ticket(record[j])]
  BY <1>3
<1>5. \A j \in Incident : Ticket(record'[j]) = IF j = i THEN Ticket(rec) ELSE Ticket(record[j])
  BY <1>2
<1>6. QED BY <1>3, <1>4, <1>5

\* Filing a record opens a new ticket, linked to the one before it.
LEMMA FilesTicket ==
  ASSUME Alone, IInv, NEW r \in Replica, FileRecord(r)
  PROVE  Ledger!Next
<1> DEFINE rec == worker[r].rec
           i == rec.incident
<1>1. worker[r].at = "file" /\ record' = [record EXCEPT ![i] = rec]
  BY DEF FileRecord, Working
<1>2. /\ rec \in Records /\ rec.state = "open"
      /\ ~IsOpen(record[i]) /\ rec.previous = Named(i)
      /\ \A j \in Incident : Named(j) < rec.issue
  BY <1>1, Shapes DEF Sound, Holding
<1>3. /\ i \in Incident /\ rec.issue \in 1..MaxItem
      /\ Ticket(rec) = [state |-> "open", issue |-> rec.issue, previous |-> Named(i)]
  BY <1>2, RecordFields, TicketFacts
<1>4. Shown' = [Shown EXCEPT ![i] = Ticket(rec)]
  BY <1>1, <1>3, ShownAgain
<1>5. /\ ~Ledger!IsOpen(i) /\ Ledger!Named(i) = Named(i)
      /\ \A j \in Incident : Ledger!Named(j) = Named(j)
  BY <1>2, <1>3, LedgerReads
<1>6. rec.issue > Named(i) /\ \A j \in Incident : rec.issue # Named(j)
  BY <1>2, <1>3, NamedIsNat
<1> HIDE DEF rec, i
<1>7. Ledger!File(i)
  BY <1>3, <1>4, <1>5, <1>6 DEF Ledger!File, Shown
<1>8. QED BY <1>3, <1>7 DEF Ledger!Next

\* Settling a record resolves its ticket, or leaves the ledger as it is.
LEMMA SettlesTicket ==
  ASSUME Alone, IInv, NEW r \in Replica, SettleRecord(r)
  PROVE  Ledger!Next \/ UNCHANGED Shown
<1> DEFINE rec == worker[r].rec
           i == rec.incident
<1>1. worker[r].at = "settle" /\ record' = [record EXCEPT ![i] = Settled(rec)]
  BY DEF SettleRecord, Working
<1>2. rec \in Records /\ rec.state = "open" /\ record[i] = rec
  BY <1>1, Shapes DEF Sound, Holding
<1>3. /\ i \in Incident /\ rec # NoRecord
      /\ Ticket(rec) = [state |-> rec.state, issue |-> rec.issue, previous |-> rec.previous]
  BY <1>2, RecordFields, TicketFacts
<1>4. Shown' = [Shown EXCEPT ![i] = Ticket(Settled(rec))] /\ Shown[i] = Ticket(rec)
  BY <1>1, <1>2, <1>3, ShownAgain DEF Shown
<1>5. CASE AutoResolve
  <2>1. Settled(rec) = [rec EXCEPT !.state = "resolved"]
    BY <1>5 DEF Settled
  <2>2. /\ Settled(rec) \in Records /\ Settled(rec).state = "resolved"
        /\ Settled(rec).issue = rec.issue /\ Settled(rec).previous = rec.previous
    BY <2>1, <1>2 DEF Records
  <2>3. Ticket(Settled(rec)) = [Ticket(rec) EXCEPT !.state = "resolved"]
    BY <2>2, <1>3, TicketFacts
  <2>4. Ledger!IsOpen(i)
    BY <1>2, <1>3, LedgerReads DEF IsOpen
  <2>5. Shown' = [Shown EXCEPT ![i] = [Shown[i] EXCEPT !.state = "resolved"]]
    BY <1>4, <2>3
  <2>6. Ledger!Resolve(i)
    BY <2>4, <2>5 DEF Ledger!Resolve, Shown
  <2>7. QED BY <1>3, <2>6 DEF Ledger!Next
<1>6. CASE ~AutoResolve
  <2>1. Settled(rec) = [rec EXCEPT !.since = now]
    BY <1>6 DEF Settled
  <2>2. now \in 0..MaxNow
    BY Shapes
  <2>3. /\ Settled(rec) \in Records /\ Settled(rec).state = rec.state
        /\ Settled(rec).issue = rec.issue /\ Settled(rec).previous = rec.previous
    BY <2>1, <2>2, <1>2 DEF Records
  <2>4. Ticket(Settled(rec)) = Ticket(rec)
    BY <2>3, <1>3, TicketFacts
  <2>5. QED BY <1>4, <2>4 DEF Shown
<1>7. QED BY <1>5, <1>6

\* Storing an open record again leaves the ledger as it is.
LEMMA KeepsTicket ==
  ASSUME Alone, IInv, NEW r \in Replica, KeepRecord(r)
  PROVE  UNCHANGED Shown
<1> DEFINE rec == worker[r].rec
           i == rec.incident
<1>1. worker[r].at = "keep" /\ record' = [record EXCEPT ![i] = rec]
  BY DEF KeepRecord, Working
<1>2. rec \in Records /\ record[i] # NoRecord /\ SameTicket(rec, record[i])
  BY <1>1, Shapes DEF Sound, Holding
<1>3. i \in Incident /\ record[i] \in Records
  BY <1>2, RecordFields, Shapes
<1>4. Ticket(rec) = Ticket(record[i])
  BY <1>2, <1>3, TicketFacts DEF SameTicket
<1>5. QED BY <1>1, <1>3, <1>4, ShownAgain DEF Shown

\* Every other step leaves the records alone.
LEMMA OthersKeepRecords ==
  ASSUME [Next]_vars,
         \A r \in Replica : ~FileRecord(r) /\ ~SettleRecord(r) /\ ~KeepRecord(r)
  PROVE  UNCHANGED record
BY DEF Next, vars, Work, Transition, Tick, Observe, ObserveUnwritten, Request, Throw, Resend, Restart,
       Take, LookFailure, CreateIssue, Extras, Comment, LookRecovery, CloseNext, MoveIssue, Working

\* One process: every step of the pipeline is a step of the ledger, or none.  A
\* resolved ticket is never reopened, and a later failure files a new one that
\* links it.
THEOREM Refinement == ASSUME Alone PROVE Spec => KeepsLedger
<1>1. Init => Ledger!Init
  BY TicketFacts DEF Init, Ledger!Init
<1>2. ASSUME IInv, [Next]_vars PROVE Ledger!Next \/ UNCHANGED Shown
  <2>1. CASE \E r \in Replica : FileRecord(r) \/ SettleRecord(r) \/ KeepRecord(r)
    BY <1>2, <2>1, FilesTicket, SettlesTicket, KeepsTicket
  <2>2. CASE ~\E r \in Replica : FileRecord(r) \/ SettleRecord(r) \/ KeepRecord(r)
    BY <1>2, <2>2, OthersKeepRecords DEF Shown
  <2>3. QED BY <2>1, <2>2
<1>3. IInv /\ [Next]_vars => [Ledger!Next]_[i \in Incident |-> Ticket(record[i])]
  BY <1>2 DEF Shown
<1>4. QED BY <1>1, <1>3, Invariance, PTL DEF Spec, KeepsLedger, Ledger!Spec

-------------------------------------------------------------------------------
(* One ticket at a time *)

(* Plane may refuse or time out a call before it is applied; nothing else      *)
(* fails.  With a crash, a lost answer, a failing store or a refused lookup of *)
(* the completed state the promise below does not hold.                        *)
Reliable == Failures \subseteq {"plane"}

(* The record of an incident names its newest work item, which is completed    *)
(* once the record is resolved, if the project has a completed state; only     *)
(* while a new one is being filed is it the worker that names the newest.      *)
ItemsOf(i) == {n \in DOMAIN item : item[n].incident = i}
Filing(r, i) == worker[r].at = "file" /\ worker[r].rec.incident = i
Followed(r, i) ==
  IF Filing(r, i) THEN \A n \in ItemsOf(i) : n <= worker[r].rec.issue
  ELSE IF record[i] = NoRecord THEN ItemsOf(i) = {}
  ELSE /\ \A n \in ItemsOf(i) : n <= record[i].issue
       /\ ~IsOpen(record[i]) /\ Completed => item[record[i].issue].done
Finished(r) ==
  worker[r].at = "settle" /\ AutoResolve /\ Completed => item[worker[r].rec.issue].done

LInv == OneTicketAtATime /\ \A r \in Replica : Finished(r) /\ \A i \in Incident : Followed(r, i)

\* Work items that keep incident and link, and stay completed, keep the promise.
LEMMA OneAgain ==
  ASSUME OneTicketAtATime, DOMAIN item' = DOMAIN item, IInv,
         \A m \in DOMAIN item :
           /\ item'[m].incident = item[m].incident /\ item'[m].previous = item[m].previous
           /\ item[m].done => item'[m].done
  PROVE  OneTicketAtATime' /\ \A i \in Incident : ItemsOf(i)' = ItemsOf(i)
<1>1. DOMAIN item = 1..Len(item) /\ Len(item) \in Nat
  BY LenProperties DEF IInv, TypeOK
<1>2. \A n \in DOMAIN item : Earlier(n)' = Earlier(n)
  <2>1. \A n \in DOMAIN item : \A m \in 1..(n - 1) : m \in DOMAIN item
    BY <1>1
  <2>2. QED BY <2>1 DEF Earlier
<1>3. \A n \in DOMAIN item : \A m \in Earlier(n) : m \in DOMAIN item
  BY <1>1 DEF Earlier
<1>4. OneTicketAtATime'
  <2>1. SUFFICES ASSUME NEW n \in DOMAIN item
        PROVE  IF Earlier(n) = {} THEN item'[n].previous = 0
               ELSE /\ item'[n].previous \in Earlier(n)
                    /\ \A m \in Earlier(n) : m <= item'[n].previous
                    /\ Completed => item'[item'[n].previous].done
    BY <1>2 DEF OneTicketAtATime
  <2>2. QED BY <1>3 DEF OneTicketAtATime
<1>5. QED BY <1>4 DEF ItemsOf

\* A step that leaves records and work items alone, files nothing and does not
\* come from Plane's completed state, keeps the promise.
LEMMA LinkedQuiet ==
  ASSUME LInv, UNCHANGED <<record, item>>, NEW r \in Replica,
         \/ worker'[r] = worker[r]
         \/ /\ worker[r].at # "file" /\ worker'[r].at # "file"
            /\ worker'[r].at = "settle" => ~(AutoResolve /\ Completed)
  PROVE  OneTicketAtATime' /\ Finished(r)' /\ \A i \in Incident : Followed(r, i)'
<1>1. OneTicketAtATime'
  BY DEF LInv, OneTicketAtATime, Earlier
<1>2. Finished(r)'
  BY DEF LInv, Finished
<1>3. \A i \in Incident : Filing(r, i)' = Filing(r, i) /\ ItemsOf(i)' = ItemsOf(i)
  BY DEF Filing, ItemsOf
<1>4. \A i \in Incident : Followed(r, i) /\ (Filing(r, i) => worker'[r] = worker[r])
  BY DEF LInv, Filing
<1>5. \A i \in Incident : Followed(r, i)'
  BY <1>3, <1>4 DEF Followed, IsOpen
<1>6. QED BY <1>1, <1>2, <1>5

\* A new work item follows the one its incident's record names, if any.
LEMMA CreateLinks ==
  ASSUME Alone, IInv, LInv, NEW r \in Replica, CreateIssue(r)
  PROVE  OneTicketAtATime' /\ Finished(r)' /\ \A i \in Incident : Followed(r, i)'
<1> DEFINE x == NewItem(r)
           i == x.incident
           rec == [incident |-> i, state |-> "open", issue |-> Len(item) + 1,
                   since |-> worker[r].stamp, previous |-> x.previous]
<1>1. PICK n \in Nat : n = Len(item) + 1
  BY Shapes
<1>2. worker[r].at = "create" /\ item' = Append(item, x) /\ Goto(r, "file", rec, {}) /\ record' = record
  BY DEF CreateIssue, Working
<1>3. /\ x \in Items /\ i \in Incident /\ x.previous = Named(i) /\ ~IsOpen(record[i])
  BY <1>2, NewItemFacts
<1>4. /\ n \in DOMAIN item' /\ item'[n] = x /\ DOMAIN item = 1..Len(item) /\ DOMAIN item' = 1..n
      /\ Len(item) \in Nat /\ \A m \in DOMAIN item : m \in DOMAIN item' /\ item'[m] = item[m]
  BY <1>2, <1>3, <1>1, Appended, Shapes
<1>5. worker'[r].at = "file" /\ worker'[r].rec.incident = i /\ worker'[r].rec.issue = n
  BY <1>2, <1>1, Shapes DEF Goto, Workers
<1> HIDE DEF x, i, rec
<1>6. ~Filing(r, i) /\ Followed(r, i)
  BY <1>2, <1>3 DEF Filing, LInv
<1>7. Earlier(n)' = ItemsOf(i)
  <2>1. n - 1 = Len(item)
    BY <1>4, <1>1
  <2>2. Earlier(n)' = {m \in DOMAIN item : item'[m].incident = item'[n].incident}
    BY <1>4, <2>1 DEF Earlier
  <2>3. item'[n].incident = i
    BY <1>4 DEF i
  <2>4. QED BY <1>4, <2>2, <2>3 DEF ItemsOf
<1>8. IF Earlier(n)' = {} THEN item'[n].previous = 0
      ELSE /\ item'[n].previous \in Earlier(n)'
           /\ \A m \in Earlier(n)' : m <= item'[n].previous
           /\ Completed => item'[item'[n].previous].done
  <2>1. item'[n].previous = Named(i)
    BY <1>3, <1>4
  <2>2. CASE record[i] = NoRecord
    BY <1>6, <1>7, <2>1, <2>2 DEF Followed, Named
  <2>3. CASE record[i] # NoRecord
    <3>1. /\ Named(i) = record[i].issue /\ Named(i) \in DOMAIN item /\ Named(i) \in ItemsOf(i)
      BY <1>3, <2>3, RecordShapes DEF Named, ItemsOf
    <3>2. /\ \A m \in ItemsOf(i) : m <= Named(i)
          /\ Completed => item[Named(i)].done
      BY <1>3, <1>6, <2>3, <3>1 DEF Followed
    <3>3. QED BY <1>4, <1>7, <2>1, <3>1, <3>2
  <2>4. QED BY <2>2, <2>3
<1>9. ASSUME NEW k \in DOMAIN item
      PROVE  IF Earlier(k)' = {} THEN item'[k].previous = 0
             ELSE /\ item'[k].previous \in Earlier(k)'
                  /\ \A m \in Earlier(k)' : m <= item'[k].previous
                  /\ Completed => item'[item'[k].previous].done
  <2>1. \A m \in 1..(k - 1) : m \in DOMAIN item
    BY <1>4
  <2>2. Earlier(k)' = Earlier(k) /\ item'[k] = item[k]
    BY <1>4, <2>1 DEF Earlier
  <2>3. \A m \in Earlier(k) : m \in DOMAIN item
    BY <2>1 DEF Earlier
  <2>4. IF Earlier(k) = {} THEN item[k].previous = 0
        ELSE /\ item[k].previous \in Earlier(k)
             /\ \A m \in Earlier(k) : m <= item[k].previous
             /\ Completed => item[item[k].previous].done
    BY DEF LInv, OneTicketAtATime
  <2>5. QED BY <1>4, <2>2, <2>3, <2>4
<1>10. OneTicketAtATime'
  <2>1. \A k \in DOMAIN item' : k = n \/ k \in DOMAIN item
    BY <1>4, <1>1
  <2>2. QED BY <1>8, <1>9, <2>1 DEF OneTicketAtATime
<1>11. Finished(r)'
  BY <1>5 DEF Finished
<1>12. ASSUME NEW j \in Incident PROVE Followed(r, j)'
  <2>1. CASE j = i
    <3>1. Filing(r, j)' /\ \A m \in ItemsOf(j)' : m <= n
      BY <1>4, <1>5, <2>1 DEF Filing, ItemsOf
    <3>2. QED BY <1>5, <3>1 DEF Followed
  <2>2. CASE j # i
    <3>1. ItemsOf(j)' = ItemsOf(j)
      <4>1. \A k \in DOMAIN item' : k \in DOMAIN item \/ item'[k].incident # j
        BY <1>4, <1>1, <2>2 DEF i
      <4>2. QED BY <1>4, <4>1 DEF ItemsOf
    <3>2. ~Filing(r, j)' /\ ~Filing(r, j) /\ Followed(r, j)
      BY <1>2, <1>5, <2>2 DEF Filing, LInv
    <3>3. record[j] # NoRecord => item'[record[j].issue] = item[record[j].issue]
      BY <1>4, RecordShapes
    <3>4. QED BY <1>2, <3>1, <3>2, <3>3 DEF Followed
  <2>3. QED BY <2>1, <2>2
<1>13. QED BY <1>10, <1>11, <1>12

\* The record filed names the newest work item of its incident.
LEMMA FileLinks ==
  ASSUME Alone, IInv, LInv, NEW r \in Replica, FileRecord(r)
  PROVE  OneTicketAtATime' /\ Finished(r)' /\ \A i \in Incident : Followed(r, i)'
<1> DEFINE rec == worker[r].rec
<1>1. /\ worker[r].at = "file" /\ record' = [record EXCEPT ![rec.incident] = rec]
      /\ Goto(r, "extras", rec, {}) /\ item' = item
  BY DEF FileRecord, Working
<1>2. rec \in Records /\ rec.state = "open"
  BY <1>1, Shapes DEF Sound, Holding
<1>3. worker'[r].at = "extras"
  BY <1>1, Shapes DEF Goto, Workers
<1>4. /\ rec.incident \in Incident /\ record'[rec.incident] = rec /\ rec # NoRecord
      /\ \A i \in Incident \ {rec.incident} : record'[i] = record[i]
  BY <1>1, <1>2, Shapes, RecordFields
<1>5. OneTicketAtATime' /\ Finished(r)'
  BY <1>1, <1>3 DEF LInv, OneTicketAtATime, Earlier, Finished
<1>6. ASSUME NEW i \in Incident PROVE Followed(r, i)'
  <2>1. Followed(r, i) /\ ItemsOf(i)' = ItemsOf(i) /\ ~Filing(r, i)'
    BY <1>1, <1>3 DEF LInv, ItemsOf, Filing
  <2>2. CASE i = rec.incident
    <3>1. Filing(r, i)
      BY <1>1, <2>2 DEF Filing
    <3>2. QED BY <1>2, <1>4, <2>1, <2>2, <3>1 DEF Followed, IsOpen
  <2>3. CASE i # rec.incident
    <3>1. ~Filing(r, i)
      BY <2>3 DEF Filing
    <3>2. QED BY <1>1, <1>4, <2>1, <2>3, <3>1 DEF Followed, IsOpen
  <2>4. QED BY <2>2, <2>3
<1>7. QED BY <1>5, <1>6

\* Nothing is filed, and no record changes: work items are amended at most.
LEMMA AmendLinks ==
  ASSUME Alone, IInv, LInv, NEW r \in Replica, record' = record, DOMAIN item' = DOMAIN item,
         \A m \in DOMAIN item :
           /\ item'[m].incident = item[m].incident /\ item'[m].previous = item[m].previous
           /\ item[m].done => item'[m].done,
         worker[r].at # "file", worker'[r].at # "file", Finished(r)'
  PROVE  OneTicketAtATime' /\ Finished(r)' /\ \A i \in Incident : Followed(r, i)'
<1>1. OneTicketAtATime' /\ \A i \in Incident : ItemsOf(i)' = ItemsOf(i)
  BY OneAgain DEF LInv
<1>2. ASSUME NEW i \in Incident PROVE Followed(r, i)'
  <2>1. Followed(r, i) /\ ~Filing(r, i) /\ ~Filing(r, i)' /\ ItemsOf(i)' = ItemsOf(i)
    BY <1>1 DEF LInv, Filing
  <2>2. record[i] # NoRecord => (item[record[i].issue].done => item'[record[i].issue].done)
    BY RecordShapes
  <2>3. QED BY <2>1, <2>2 DEF Followed, IsOpen
<1>3. QED BY <1>1, <1>2

\* A comment and a move to the completed state amend one work item.
LEMMA CommentLinks ==
  ASSUME Alone, IInv, LInv, NEW r \in Replica, Comment(r)
  PROVE  OneTicketAtATime' /\ Finished(r)' /\ \A i \in Incident : Followed(r, i)'
<1>1. /\ worker[r].at = "comment" /\ record' = record
      /\ item' = [item EXCEPT ![worker[r].rec.issue].said = Append(@, now)]
      /\ Goto(r, "keep", [worker[r].rec EXCEPT !.since = worker[r].stamp], {})
  BY DEF Comment, Working
<1>2. worker'[r].at = "keep"
  BY <1>1, Shapes DEF Goto, Workers
<1>3. /\ DOMAIN item' = DOMAIN item
      /\ \A m \in DOMAIN item : item'[m] =
              IF m = worker[r].rec.issue
                THEN [item[m] EXCEPT !.said = Append(item[m].said, now)] ELSE item[m]
  BY <1>1, SaidFacts
<1>4. \A m \in DOMAIN item : item[m] \in Items
  BY Shapes, ElementOfSeq, LenProperties
<1>5. \A m \in DOMAIN item :
           /\ item'[m].incident = item[m].incident /\ item'[m].previous = item[m].previous
           /\ item[m].done => item'[m].done
  BY <1>3, <1>4 DEF Items
<1>6. Finished(r)'
  BY <1>2 DEF Finished
<1>7. QED BY <1>1, <1>2, <1>3, <1>5, <1>6, AmendLinks

\* The move to the completed state.
LEMMA MoveLinks ==
  ASSUME Alone, IInv, LInv, NEW r \in Replica, MoveIssue(r)
  PROVE  OneTicketAtATime' /\ Finished(r)' /\ \A i \in Incident : Followed(r, i)'
<1>1. /\ worker[r].at = "move" /\ record' = record /\ Goto(r, "settle", worker[r].rec, worker[r].todo)
  BY DEF MoveIssue, Working
<1>2. worker'[r].at = "settle" /\ worker'[r].rec = worker[r].rec
  BY <1>1, Shapes DEF Goto, Workers
<1>3. /\ DOMAIN item' = DOMAIN item /\ worker[r].rec.issue \in DOMAIN item
      /\ \A m \in DOMAIN item : item'[m] =
              IF m = worker[r].rec.issue THEN [item[m] EXCEPT !.done = TRUE] ELSE item[m]
  BY MovedFacts
<1>4. \A m \in DOMAIN item : item[m] \in Items
  BY Shapes, ElementOfSeq, LenProperties
<1>5. /\ \A m \in DOMAIN item :
           /\ item'[m].incident = item[m].incident /\ item'[m].previous = item[m].previous
           /\ item[m].done => item'[m].done
      /\ item'[worker[r].rec.issue].done
  BY <1>3, <1>4 DEF Items
<1>6. Finished(r)'
  BY <1>2, <1>5 DEF Finished
<1>7. QED BY <1>1, <1>2, <1>3, <1>5, <1>6, AmendLinks

\* A record is stored that names the work item the one before it named, and is
\* resolved only when that is completed.
LEMMA StoreLinks ==
  ASSUME Alone, IInv, LInv, NEW r \in Replica, item' = item,
         worker[r].at # "file", worker'[r].at \notin {"file", "settle"},
         NEW rec \in Records, record[rec.incident] # NoRecord,
         rec.issue = record[rec.incident].issue,
         rec.state = "open" \/ (Completed => item[rec.issue].done),
         record' = [record EXCEPT ![rec.incident] = rec]
  PROVE  OneTicketAtATime' /\ Finished(r)' /\ \A i \in Incident : Followed(r, i)'
<1>1. /\ rec.incident \in Incident /\ record'[rec.incident] = rec /\ rec # NoRecord
      /\ \A i \in Incident \ {rec.incident} : record'[i] = record[i]
  BY Shapes, RecordFields
<1>2. OneTicketAtATime' /\ Finished(r)'
  BY DEF LInv, OneTicketAtATime, Earlier, Finished
<1>3. ASSUME NEW i \in Incident PROVE Followed(r, i)'
  <2>1. Followed(r, i) /\ ~Filing(r, i) /\ ~Filing(r, i)' /\ ItemsOf(i)' = ItemsOf(i)
    BY DEF LInv, Filing, ItemsOf
  <2>2. CASE i = rec.incident
    BY <1>1, <2>1, <2>2 DEF Followed, IsOpen
  <2>3. CASE i # rec.incident
    BY <1>1, <2>1, <2>3 DEF Followed, IsOpen
  <2>4. QED BY <2>2, <2>3
<1>4. QED BY <1>2, <1>3

\* An open record is stored again.
LEMMA KeepLinks ==
  ASSUME Alone, IInv, LInv, NEW r \in Replica, KeepRecord(r)
  PROVE  OneTicketAtATime' /\ Finished(r)' /\ \A i \in Incident : Followed(r, i)'
<1> DEFINE rec == worker[r].rec
<1>1. /\ worker[r].at = "keep" /\ record' = [record EXCEPT ![rec.incident] = rec]
      /\ Finish(r) /\ item' = item
  BY DEF KeepRecord, Working
<1>2. /\ rec \in Records /\ record[rec.incident] # NoRecord /\ rec.state = "open"
      /\ rec.issue = record[rec.incident].issue
  BY <1>1, Shapes DEF Sound, Holding, SameTicket
<1>3. worker'[r].at = "idle"
  BY <1>1, FinishFacts
<1> HIDE DEF rec
<1>4. QED BY <1>1, <1>2, <1>3, StoreLinks

\* A worker that goes on is where it went, with the same job.
LEMMA GotoAt ==
  ASSUME IInv, NEW r \in Replica, NEW at, NEW rec, NEW todo, Goto(r, at, rec, todo)
  PROVE  /\ worker'[r].at = at /\ worker'[r].rec = rec /\ worker'[r].todo = todo
         /\ worker'[r].job = worker[r].job /\ worker'[r].stamp = worker[r].stamp
BY Shapes DEF Goto, Workers

\* A resolution is stored.
LEMMA SettleLinks ==
  ASSUME Alone, IInv, LInv, NEW r \in Replica, SettleRecord(r)
  PROVE  OneTicketAtATime' /\ Finished(r)' /\ \A i \in Incident : Followed(r, i)'
<1> DEFINE rec == worker[r].rec
           new == Settled(rec)
<1>1. /\ worker[r].at = "settle" /\ record' = [record EXCEPT ![rec.incident] = new] /\ item' = item
      /\ IF worker[r].todo = {} THEN Finish(r) ELSE Goto(r, "close", NoRecord, worker[r].todo)
  BY DEF SettleRecord, Working
<1>2. /\ rec \in Records /\ rec.state = "open" /\ record[rec.incident] = rec
  BY <1>1, Shapes DEF Sound, Holding
<1>3. now \in 0..MaxNow
  BY Shapes
<1>4. /\ new \in Records /\ new.incident = rec.incident /\ new.issue = rec.issue
      /\ ~AutoResolve => new.state = "open"
  BY <1>2, <1>3 DEF Settled, Records
<1>5. AutoResolve /\ Completed => item[rec.issue].done
  BY <1>1 DEF LInv, Finished
<1>6. worker'[r].at \in {"idle", "close"}
  <2>1. CASE worker[r].todo = {}
    BY <1>1, <2>1, FinishFacts
  <2>2. CASE worker[r].todo # {}
    BY <1>1, <2>2, GotoAt
  <2>3. QED BY <2>1, <2>2
<1>7. rec # NoRecord
  BY <1>2, RecordFields
<1> HIDE DEF rec, new
<1>8. QED BY <1>1, <1>2, <1>4, <1>5, <1>6, <1>7, StoreLinks

\* The promise and what it rests on are kept by every step.
LEMMA NextLInv == ASSUME Alone, Reliable, IInv, LInv, [Next]_vars PROVE LInv'
<1>1. ASSUME NEW r \in Replica, Work(r)
      PROVE  OneTicketAtATime' /\ Finished(r)' /\ \A i \in Incident : Followed(r, i)'
  <2>1. CASE CreateIssue(r) \/ FileRecord(r) \/ Comment(r) \/ MoveIssue(r) \/ KeepRecord(r) \/ SettleRecord(r)
    BY <2>1, CreateLinks, FileLinks, CommentLinks, MoveLinks, KeepLinks, SettleLinks
  <2>2. CASE Take(r) \/ LookFailure(r) \/ LookRecovery(r) \/ Extras(r) \/ CloseNext(r)
    <3>1. UNCHANGED <<record, item>> /\ worker[r].at # "file"
      BY <2>2 DEF Take, LookFailure, LookRecovery, Extras, CloseNext, Working
    <3>2. worker'[r].at # "file" /\ (worker'[r].at = "settle" => ~(AutoResolve /\ Completed))
      <4>1. worker \in [Replica -> Workers] /\ "state" \notin Failures
        BY Shapes DEF Reliable
      <4>2. CASE Take(r)
        BY <4>1, <4>2 DEF Take, Idle
      <4>3. CASE LookFailure(r)
        BY <4>1, <4>3 DEF LookFailure, Workers
      <4>4. CASE LookRecovery(r)
        <5>1. Finish(r) \/ \E todo : Goto(r, "close", NoRecord, todo)
          BY <4>4 DEF LookRecovery
        <5>2. QED BY <5>1, FinishFacts, GotoAt
      <4>5. CASE Extras(r)
        BY <4>1, <4>5 DEF Extras, Finish, Idle
      <4>6. CASE CloseNext(r)
        <5>1. \E rec, todo : Goto(r, IF AutoResolve /\ Completed THEN "move" ELSE "settle", rec, todo)
          BY <4>1, <4>6 DEF CloseNext, Fail
        <5>2. QED BY <5>1, GotoAt
      <4>7. QED BY <2>2, <4>2, <4>3, <4>4, <4>5, <4>6
    <3>3. QED BY <3>1, <3>2, LinkedQuiet
  <2>3. QED BY <1>1, <2>1, <2>2 DEF Work
<1>2. ASSUME NEW r \in Replica, Throw(r)
      PROVE  OneTicketAtATime' /\ Finished(r)' /\ \A i \in Incident : Followed(r, i)'
  <2>1. UNCHANGED <<record, item>> /\ worker[r].at \in PlaneSteps /\ worker'[r].at = "idle"
    BY <1>2, Shapes DEF Throw, Fail, Finish, Idle, Reliable
  <2>2. QED BY <2>1, LinkedQuiet DEF PlaneSteps
<1>3. ASSUME NEW r \in Replica PROVE ~ObserveUnwritten(r) /\ ~Resend(r) /\ ~Restart(r)
  BY DEF ObserveUnwritten, Resend, Restart, Fail, Reliable
<1>4. CASE UNCHANGED <<worker, record, item>>
  BY <1>4 DEF LInv, OneTicketAtATime, Earlier, Finished, Followed, Filing, ItemsOf, IsOpen
<1>5. ASSUME NEW r \in Replica,
             OneTicketAtATime' /\ Finished(r)' /\ \A i \in Incident : Followed(r, i)'
      PROVE  LInv'
  <2>1. \A s \in Replica : s = r
    BY DEF Alone
  <2>2. QED BY <1>5, <2>1 DEF LInv
<1>6. CASE ~UNCHANGED <<worker, record, item>>
  <2>1. \E r \in Replica : Work(r) \/ Throw(r)
    BY <1>3, <1>6 DEF Next, vars, Transition, Tick, Observe, Request
  <2>2. QED BY <1>1, <1>2, <1>5, <2>1
<1>7. QED BY <1>4, <1>6

\* One process, and no failure but calls Plane refuses: one work item per
\* incident for as long as it lasts, each next one linked to the one before.
THEOREM OneTicket == ASSUME Alone, Reliable PROVE Spec => []OneTicketAtATime
<1>1. Init => LInv
  <2>1. Init => item = <<>> /\ record = [i \in Incident |-> NoRecord] /\ worker = [r \in Replica |-> Idle]
    BY DEF Init
  <2>2. QED BY <2>1 DEF LInv, OneTicketAtATime, Finished, Followed, Filing, ItemsOf, Idle
<1>2. IInv /\ LInv /\ [Next]_vars => LInv'
  BY NextLInv
<1>3. LInv => OneTicketAtATime
  BY DEF LInv
<1>4. QED BY <1>1, <1>2, <1>3, Invariance, PTL DEF Spec

-------------------------------------------------------------------------------
(* The cooldown *)

(* The last post on a work item and the one before it, its opening included.   *)
(* The record, or between a comment and its being stored the worker, names a   *)
(* moment between the two: when the job that posted last had read the record.  *)
Last(o, s) == IF s = <<>> THEN o ELSE s[Len(s)]
Earliest(o, s) == IF s = <<>> THEN 0 ELSE IF Len(s) = 1 THEN o ELSE s[Len(s) - 1]
Spoken(n) == Last(item[n].opened, item[n].said)
Before(n) == Earliest(item[n].opened, item[n].said)
Heard(r, i) ==
  IF worker[r].at = "keep" /\ worker[r].rec.incident = i THEN worker[r].rec.since
  ELSE record[i].since
Spaced(r, i) ==
  record[i] # NoRecord =>
    /\ record[i].since <= now
    /\ Spoken(record[i].issue) <= now /\ Before(record[i].issue) <= Heard(r, i)
Timely(r) ==
  LET w == worker[r]
  IN /\ w.stamp <= now
     /\ w.at = "file" => item[w.rec.issue].said = <<>> /\ item[w.rec.issue].opened <= now
     /\ w.at \in {"file", "keep"} => w.rec.since <= now
     /\ w.at = "comment" =>
          /\ w.rec = record[w.rec.incident] /\ w.stamp - w.rec.since >= Cooldown
          /\ Spoken(w.rec.issue) <= w.stamp

Paced(n) ==
  LET posts == <<item[n].opened>> \o item[n].said
  IN \A k \in 1..(Len(posts) - 2) : posts[k + 2] - posts[k] >= Cooldown

SInv ==
  /\ \A n \in DOMAIN item : Paced(n)
  /\ \A r \in Replica : Timely(r) /\ \A i \in Incident : Spaced(r, i)

\* The moments of a work item are numbers.
LEMMA Moments ==
  ASSUME IInv, NEW n \in DOMAIN item
  PROVE  /\ item[n] \in Items /\ item[n].opened \in Nat /\ item[n].said \in Seq(Nat)
         /\ Spoken(n) \in Nat /\ Before(n) \in Nat
<1>1. item \in Seq(Items) /\ MaxNow \in Nat
  BY TicketAssumption DEF IInv, TypeOK
<1>2. DOMAIN item = 1..Len(item)
  BY <1>1, LenProperties
<1>3. item[n] \in Items
  BY <1>1, <1>2, ElementOfSeq
<1>4. item[n].opened \in 0..MaxNow /\ item[n].said \in Seq(0..MaxNow)
  BY <1>3 DEF Items
<1> DEFINE s == item[n].said
<1>5. s \in Seq(0..MaxNow)
  BY <1>4
<1> HIDE DEF s
<1>6. s \in Seq(Nat)
  BY <1>1, <1>5
<1>7. s # <<>> => s[Len(s)] \in Nat /\ (Len(s) # 1 => s[Len(s) - 1] \in Nat)
  <2>1. s # <<>> => Len(s) \in 1..Len(s) /\ (Len(s) # 1 => Len(s) - 1 \in 1..Len(s))
    <3>1. PICK l \in Nat : l = Len(s)
      BY <1>6, LenProperties
    <3>2. s # <<>> => l # 0
      BY <1>6, <3>1, EmptySeq
    <3>3. l # 0 => l \in 1..l /\ (l # 1 => l - 1 \in 1..l)
      OBVIOUS
    <3>4. QED BY <3>1, <3>2, <3>3
  <2>2. QED BY <1>6, <2>1, ElementOfSeq
<1>8. item[n].opened \in Nat
  BY <1>1, <1>4
<1>9. Spoken(n) \in Nat
  BY <1>7, <1>8 DEF Spoken, Last, s
<1>10. Before(n) \in Nat
  BY <1>7, <1>8 DEF Before, Earliest, s
<1>11. QED BY <1>3, <1>6, <1>8, <1>9, <1>10 DEF s

\* The moments of a worker and of a record are numbers.
LEMMA Clocks ==
  ASSUME IInv, NEW r \in Replica
  PROVE  /\ now \in Nat /\ worker[r].stamp \in Nat
         /\ worker[r].rec \in Records => worker[r].rec.since \in Nat
         /\ \A i \in Incident : record[i] # NoRecord => record[i].since \in Nat
<1>1. MaxNow \in Nat /\ now \in 0..MaxNow /\ worker[r] \in Workers
  BY TicketAssumption, Shapes
<1>2. worker[r].stamp \in 0..MaxNow
  BY <1>1 DEF Workers
<1>3. \A rec \in Records : rec.since \in Nat
  BY <1>1, RecordFields
<1>4. QED BY <1>1, <1>2, <1>3, RecordShapes

\* A moment that comes a cooldown after the last but one may be said.
LEMMA SaidLater ==
  ASSUME NEW o \in Nat, NEW s \in Seq(Nat), NEW x \in Nat,
         \A k \in 1..(Len(<<o>> \o s) - 2) : (<<o>> \o s)[k + 2] - (<<o>> \o s)[k] >= Cooldown,
         s # <<>> => x - Earliest(o, s) >= Cooldown
  PROVE  \A k \in 1..(Len(<<o>> \o Append(s, x)) - 2) :
           (<<o>> \o Append(s, x))[k + 2] - (<<o>> \o Append(s, x))[k] >= Cooldown
<1> DEFINE a == <<o>> \o s
           b == <<o>> \o Append(s, x)
<1>1. PICK l \in Nat : l = Len(s)
  BY LenProperties
<1>2. /\ Len(a) = l + 1 /\ a[1] = o /\ \A k \in 1..l : a[k + 1] = s[k]
  BY <1>1
<1>3. /\ Append(s, x) \in Seq(Nat) /\ Len(Append(s, x)) = l + 1
      /\ Append(s, x)[l + 1] = x /\ \A k \in 1..l : Append(s, x)[k] = s[k]
  BY <1>1
<1> DEFINE t == Append(s, x)
<1> HIDE DEF t
<1>4. /\ Len(<<o>> \o t) = l + 2 /\ (<<o>> \o t)[1] = o
      /\ \A k \in 1..(l + 1) : (<<o>> \o t)[k + 1] = t[k]
  BY <1>3 DEF t
<1>5. /\ Len(b) = l + 2 /\ b[1] = o /\ b[l + 2] = x /\ \A k \in 1..l : b[k + 1] = s[k]
  BY <1>3, <1>4 DEF t
<1>6. l # 0 => a[l] = Earliest(o, s) /\ s # <<>>
  <2>1. CASE l = 0
    BY <2>1
  <2>2. CASE l = 1
    BY <1>1, <1>2, <2>2, EmptySeq DEF Earliest
  <2>3. CASE l \in Nat \ {0, 1}
    <3>1. l - 1 \in 1..l /\ (l - 1) + 1 = l /\ s # <<>>
      BY <1>1, <2>3, EmptySeq
    <3>2. a[l] = s[l - 1]
      BY <1>2, <3>1
    <3>3. QED BY <1>1, <2>3, <3>1, <3>2 DEF Earliest
  <2>4. QED BY <2>1, <2>2, <2>3
<1>7. \A k \in 1..(l + 1) : b[k] = a[k]
  <2>1. SUFFICES ASSUME NEW k \in 1..(l + 1) PROVE b[k] = a[k]
    OBVIOUS
  <2> HIDE DEF a, b
  <2>2. CASE k = 1
    BY <1>2, <1>5, <2>2
  <2>3. CASE k # 1
    <3>1. PICK j \in 1..l : k = j + 1
      BY <2>3
    <3>2. QED BY <1>2, <1>5, <3>1
  <2>4. QED BY <2>2, <2>3
<1>8. \A k \in 1..(l - 1) : a[k + 2] - a[k] >= Cooldown
  <2>1. Len(a) - 2 = l - 1
    BY <1>2
  <2>2. QED BY <2>1 DEF a
<1> HIDE DEF a, b
<1>9. ASSUME NEW k \in 1..l PROVE b[k + 2] - b[k] >= Cooldown
  <2>1. CASE k = l
    <3>1. b[k + 2] = x /\ b[k] = a[l] /\ l # 0
      BY <1>5, <1>7, <2>1
    <3>2. QED BY <1>6, <3>1
  <2>2. CASE k \in 1..(l - 1)
    <3>1. k + 2 \in 1..(l + 1) /\ k \in 1..(l + 1)
      BY <2>2
    <3>2. b[k + 2] = a[k + 2] /\ b[k] = a[k]
      BY <1>7, <3>1
    <3>3. QED BY <1>8, <2>2, <3>2
  <2>3. QED BY <2>1, <2>2
<1>10. Len(b) - 2 = l
  BY <1>5
<1>11. \A k \in 1..(Len(b) - 2) : b[k + 2] - b[k] >= Cooldown
  BY <1>9, <1>10
<1>12. QED BY <1>11 DEF b

\* Where nothing is said and no record changes, time may pass.
LEMMA QuietSpaced ==
  ASSUME IInv, SInv, UNCHANGED <<record, item>>, now' \in Nat, now' >= now, NEW r \in Replica,
         \/ worker'[r] = worker[r]
         \/ /\ worker'[r].stamp <= now' /\ worker[r].at # "keep"
            /\ worker'[r].at \notin {"file", "keep", "comment"}
  PROVE  Timely(r)' /\ \A i \in Incident : Spaced(r, i)'
<1>1. Timely(r) /\ now \in Nat /\ worker[r].stamp \in Nat
      /\ (worker[r].rec \in Records => worker[r].rec.since \in Nat)
      /\ (worker[r].at \in {"file", "keep"} => worker[r].rec \in Records)
  BY Clocks, Shapes DEF SInv, Sound, Holding
<1>2. Timely(r)'
  <2>1. CASE worker'[r] = worker[r]
    <3>1. \A n : Spoken(n)' = Spoken(n)
      BY DEF Spoken
    <3>2. worker[r].at = "file" =>
            /\ item'[worker[r].rec.issue] = item[worker[r].rec.issue]
            /\ item[worker[r].rec.issue].opened <= now'
      <4>1. worker[r].at = "file" => item[worker[r].rec.issue].opened \in Nat
        BY Shapes, Moments DEF Sound, Opening, Holding, InPlane
      <4>2. QED BY <1>1, <4>1 DEF Timely
    <3>3. QED BY <1>1, <2>1, <3>1, <3>2 DEF Timely
  <2>2. CASE worker'[r] # worker[r]
    BY <2>2 DEF Timely
  <2>3. QED BY <2>1, <2>2
<1>3. ASSUME NEW i \in Incident, record[i] # NoRecord
      PROVE  /\ record[i].since <= now' /\ Spoken(record[i].issue)' <= now'
             /\ Before(record[i].issue)' <= Heard(r, i)'
  <2>1. /\ record[i].since <= now /\ Spoken(record[i].issue) <= now
        /\ Before(record[i].issue) <= Heard(r, i)
        /\ record[i].since \in Nat /\ Spoken(record[i].issue) \in Nat
    BY <1>3, Clocks, RecordShapes, Moments DEF SInv, Spaced
  <2>2. /\ Spoken(record[i].issue)' = Spoken(record[i].issue)
        /\ Before(record[i].issue)' = Before(record[i].issue)
    BY DEF Spoken, Before
  <2>3. Heard(r, i)' = Heard(r, i)
    BY DEF Heard
  <2>4. QED BY <1>1, <2>1, <2>2, <2>3
<1>4. \A i \in Incident : Spaced(r, i)'
  BY <1>3 DEF Spaced
<1>5. QED BY <1>2, <1>4

\* The failure is looked up: a comment is due a cooldown after the last.
LEMMA LookSpaced ==
  ASSUME IInv, SInv, NEW r \in Replica, LookFailure(r)
  PROVE  Timely(r)' /\ \A i \in Incident : Spaced(r, i)'
<1>1. worker[r].at = "look" /\ UNCHANGED <<record, item, now>>
  BY DEF LookFailure, Working
<1>2. PICK j \in worker[r].job.signal.about :
        worker' = [worker EXCEPT ![r] = [@ EXCEPT
          !.at = IF ~IsOpen(record[j]) THEN "create"
                 ELSE IF Silent(worker[r].job, record[j]) THEN "keep" ELSE "comment",
          !.rec = record[j], !.stamp = now]]
  BY DEF LookFailure
<1>3. /\ worker'[r].at = IF ~IsOpen(record[j]) THEN "create"
                         ELSE IF Silent(worker[r].job, record[j]) THEN "keep" ELSE "comment"
      /\ worker'[r].rec = record[j] /\ worker'[r].stamp = now
  BY <1>2, Shapes DEF Workers
<1>4. j \in Incident
  <2>1. worker[r].job.signal \in Signal
    BY Shapes DEF Workers, Jobs
  <2>2. QED BY <2>1, SignalFields
<1>5. now \in Nat /\ (record[j] # NoRecord => record[j].since \in Nat /\ record[j].incident = j)
  BY <1>4, Clocks, RecordShapes
<1>6. Timely(r)'
  <2>1. worker'[r].stamp <= now'
    BY <1>1, <1>3, <1>5
  <2>2. worker'[r].at # "file"
    BY <1>3
  <2>3. worker'[r].at \in {"keep", "comment"} => record[j] # NoRecord /\ record[j].since <= now
    BY <1>3, <1>4 DEF IsOpen, SInv, Spaced
  <2>4. worker'[r].at = "comment" => now - record[j].since >= Cooldown
    <3>1. Cooldown \in Nat
      BY TicketAssumption
    <3>2. worker'[r].at = "comment" => ~(now - record[j].since < Cooldown)
      BY <1>3 DEF Silent
    <3>3. QED BY <1>5, <2>3, <3>1, <3>2
  <2>5. worker'[r].at = "comment" => Spoken(record[j].issue)' <= now
    <3>1. record[j] # NoRecord => Spoken(record[j].issue) <= now
      BY <1>4 DEF SInv, Spaced
    <3>2. Spoken(record[j].issue)' = Spoken(record[j].issue)
      BY <1>1 DEF Spoken
    <3>3. QED BY <2>3, <3>1, <3>2
  <2>6. QED BY <1>1, <1>3, <1>5, <2>1, <2>2, <2>3, <2>4, <2>5 DEF Timely
<1>7. ASSUME NEW i \in Incident, record[i] # NoRecord
      PROVE  Spoken(record[i].issue)' <= now /\ Before(record[i].issue)' <= Heard(r, i)'
  <2>1. Spoken(record[i].issue) <= now /\ Before(record[i].issue) <= record[i].since
    BY <1>1, <1>7 DEF SInv, Spaced, Heard
  <2>2. /\ Spoken(record[i].issue)' = Spoken(record[i].issue)
        /\ Before(record[i].issue)' = Before(record[i].issue)
    BY <1>1 DEF Spoken, Before
  <2>3. Heard(r, i)' = record[i].since
    BY <1>1, <1>3, <1>4, RecordShapes DEF Heard, IsOpen
  <2>4. QED BY <2>1, <2>2, <2>3
<1>8. \A i \in Incident : Spaced(r, i)'
  BY <1>1, <1>7 DEF SInv, Spaced
<1>9. QED BY <1>6, <1>8

\* A new work item has said nothing.
LEMMA CreateSpaced ==
  ASSUME Alone, IInv, SInv, NEW r \in Replica, CreateIssue(r)
  PROVE  SInv'
<1> DEFINE x == NewItem(r)
           rec == [incident |-> x.incident, state |-> "open", issue |-> Len(item) + 1,
                   since |-> worker[r].stamp, previous |-> x.previous]
<1>1. /\ worker[r].at = "create" /\ item' = Append(item, x) /\ Goto(r, "file", rec, {})
      /\ record' = record /\ now' = now
  BY DEF CreateIssue, Working
<1>2. PICK n \in Nat : n = Len(item) + 1
  BY Shapes
<1>3. /\ x \in Items /\ x.said = <<>> /\ x.opened = now /\ x.incident \in Incident
  BY <1>1, NewItemFacts
<1>4. /\ item'[n] = x /\ DOMAIN item' = 1..n /\ DOMAIN item = 1..Len(item) /\ Len(item) \in Nat
      /\ \A m \in DOMAIN item : item'[m] = item[m]
  BY <1>1, <1>2, <1>3, Appended, Shapes
<1>5. /\ worker'[r].at = "file" /\ worker'[r].rec.since = worker[r].stamp
      /\ worker'[r].rec.issue = n /\ worker'[r].stamp = worker[r].stamp
  BY <1>1, <1>2, Shapes DEF Goto, Workers
<1> HIDE DEF x, rec
<1>6. ASSUME NEW k \in DOMAIN item' PROVE Paced(k)'
  <2>1. CASE k = n
    <3>1. item'[k].said = <<>> /\ Len(<<item'[k].opened>> \o <<>>) = 1
      BY <1>3, <1>4, <2>1
    <3>2. QED BY <3>1 DEF Paced
  <2>2. CASE k # n
    <3>1. k \in DOMAIN item /\ item'[k] = item[k]
      BY <1>2, <1>4, <2>2
    <3>2. QED BY <3>1 DEF SInv, Paced
  <2>3. QED BY <2>1, <2>2
<1>7. Timely(r)'
  <2>1. worker[r].stamp <= now /\ worker[r].stamp \in Nat /\ now \in Nat
    BY Clocks DEF SInv, Timely
  <2>2. QED BY <1>1, <1>3, <1>4, <1>5, <2>1 DEF Timely
<1>8. ASSUME NEW i \in Incident, record[i] # NoRecord
      PROVE  Spoken(record[i].issue)' <= now /\ Before(record[i].issue)' <= Heard(r, i)'
  <2>1. Spoken(record[i].issue) <= now /\ Before(record[i].issue) <= record[i].since
    BY <1>1, <1>8 DEF SInv, Spaced, Heard
  <2>2. item'[record[i].issue] = item[record[i].issue]
    BY <1>4, <1>8, RecordShapes
  <2>3. Heard(r, i)' = record[i].since
    BY <1>1, <1>5 DEF Heard
  <2>4. QED BY <1>1, <2>1, <2>2, <2>3 DEF Spoken, Before
<1>9. \A i \in Incident : Spaced(r, i)'
  BY <1>1, <1>8 DEF SInv, Spaced
<1>10. \A s \in Replica : s = r
  BY DEF Alone
<1>11. QED BY <1>6, <1>7, <1>9, <1>10 DEF SInv

\* The record filed knows when its work item was opened.
LEMMA FileSpaced ==
  ASSUME IInv, SInv, NEW r \in Replica, FileRecord(r)
  PROVE  Timely(r)' /\ \A i \in Incident : Spaced(r, i)'
<1>1. PICK rec \in Records : rec = worker[r].rec
  BY Shapes DEF FileRecord, Working, Sound, Holding
<1>2. /\ worker[r].at = "file" /\ record' = [record EXCEPT ![rec.incident] = rec]
      /\ Goto(r, "extras", rec, {}) /\ item' = item /\ now' = now
  BY <1>1 DEF FileRecord, Working
<1>3. worker'[r].at = "extras" /\ worker'[r].stamp = worker[r].stamp
  BY <1>2, Shapes DEF Goto, Workers
<1>4. /\ rec.incident \in Incident /\ record'[rec.incident] = rec /\ rec # NoRecord
      /\ \A i \in Incident \ {rec.incident} : record'[i] = record[i]
  BY <1>2, Shapes, RecordFields
<1>5. Timely(r)'
  BY <1>2, <1>3 DEF Timely, SInv
<1>6. rec.since <= now /\ Spoken(rec.issue) <= now /\ Before(rec.issue) <= rec.since
  <2>1. rec.since \in Nat
    BY RecordFields, TicketAssumption
  <2>2. QED BY <1>1, <1>2, <2>1 DEF SInv, Timely, Spoken, Before, Last, Earliest
<1>7. ASSUME NEW i \in Incident PROVE Spaced(r, i)'
  <2>1. Heard(r, i)' = record'[i].since
    BY <1>3 DEF Heard
  <2>2. CASE i = rec.incident
    <3>1. Spoken(rec.issue)' = Spoken(rec.issue) /\ Before(rec.issue)' = Before(rec.issue)
      BY <1>2 DEF Spoken, Before
    <3>2. QED BY <1>2, <1>4, <1>6, <2>1, <2>2, <3>1 DEF Spaced, Spoken, Before
  <2>3. CASE i # rec.incident
    <3>1. record'[i] = record[i] /\ Heard(r, i) = record[i].since /\ Spaced(r, i)
      BY <1>2, <1>4, <2>3 DEF Heard, SInv
    <3>2. QED BY <1>2, <2>1, <3>1 DEF Spaced, Spoken, Before
  <2>4. QED BY <2>2, <2>3
<1>8. QED BY <1>5, <1>7

\* A comment comes a cooldown after the last post but one, and the worker knows a
\* moment no earlier than the last.
LEMMA CommentSpaced ==
  ASSUME Alone, IInv, SInv, NEW r \in Replica, Comment(r)
  PROVE  SInv'
<1> DEFINE w == worker[r]
           rec == [w.rec EXCEPT !.since = w.stamp]
<1>1. /\ w.at = "comment" /\ record' = record /\ now' = now
      /\ item' = [item EXCEPT ![w.rec.issue].said = Append(@, now)]
      /\ Goto(r, "keep", rec, {})
  BY DEF Comment, Working
<1>2. /\ w.rec \in Records /\ record[w.rec.incident] = w.rec /\ w.stamp - w.rec.since >= Cooldown
      /\ Spoken(w.rec.issue) <= w.stamp /\ w.stamp <= now
  BY <1>1, Shapes DEF SInv, Timely, Sound, Holding
<1>3. PICK i \in Incident, n \in DOMAIN item : i = w.rec.incident /\ n = w.rec.issue
  BY <1>1, <1>2, RecordFields, SaidFacts
<1>4. /\ record[i] = w.rec /\ w.rec # NoRecord /\ item[n].incident = i
      /\ w.stamp \in Nat /\ w.rec.since \in Nat /\ now \in Nat
  BY <1>2, <1>3, RecordFields, RecordShapes, Clocks
<1>5. PICK x \in Nat, o \in Nat, s \in Seq(Nat) :
        x = now /\ o = item[n].opened /\ s = item[n].said
  BY <1>4, Moments
<1>6. /\ worker'[r].at = "keep" /\ worker'[r].rec.since = w.stamp /\ worker'[r].rec.incident = i
      /\ worker'[r].stamp = w.stamp
  BY <1>1, <1>2, <1>3, Shapes DEF Goto, Workers, Records
<1>7. /\ DOMAIN item' = DOMAIN item /\ \A m \in DOMAIN item \ {n} : item'[m] = item[m]
      /\ item'[n].opened = o /\ item'[n].said = Append(s, x)
  <2>1. /\ DOMAIN item' = DOMAIN item
        /\ \A m \in DOMAIN item : item'[m] =
             IF m = n THEN [item[m] EXCEPT !.said = Append(item[m].said, now)] ELSE item[m]
    BY <1>1, <1>3, SaidFacts
  <2>2. item[n] \in Items
    BY Moments
  <2>3. QED BY <1>5, <2>1, <2>2 DEF Items
<1>8. x - Earliest(o, s) >= Cooldown
  <2>1. Before(n) <= w.rec.since
    BY <1>1, <1>3, <1>4 DEF SInv, Spaced, Heard
  <2>2. Before(n) \in Nat /\ Cooldown \in Nat
    BY Moments, TicketAssumption
  <2>3. x - Before(n) >= Cooldown
    BY <1>2, <1>4, <1>5, <2>1, <2>2
  <2>4. QED BY <1>5, <2>3 DEF Before
<1>9. Last(o, Append(s, x)) = x /\ Earliest(o, Append(s, x)) = Last(o, s)
  <2>1. PICK l \in Nat : l = Len(s)
    BY LenProperties
  <2>2. /\ Len(Append(s, x)) = l + 1 /\ Append(s, x) # <<>>
        /\ Append(s, x)[l + 1] = x /\ \A k \in 1..l : Append(s, x)[k] = s[k]
    BY <2>1
  <2>3. CASE l = 0
    BY <2>1, <2>2, <2>3, EmptySeq DEF Last, Earliest
  <2>4. CASE l # 0
    <3>1. s # <<>> /\ l \in 1..l /\ (l + 1) - 1 = l /\ l + 1 # 1
      BY <2>1, <2>4
    <3>2. QED BY <2>1, <2>2, <3>1 DEF Last, Earliest
  <2>5. QED BY <2>3, <2>4
<1> HIDE DEF w, rec
<1>10. ASSUME NEW k \in DOMAIN item' PROVE Paced(k)'
  <2>1. CASE k = n
    <3>1. \A m \in 1..(Len(<<o>> \o s) - 2) : (<<o>> \o s)[m + 2] - (<<o>> \o s)[m] >= Cooldown
      BY <1>5 DEF SInv, Paced
    <3>2. \A m \in 1..(Len(<<o>> \o Append(s, x)) - 2) :
            (<<o>> \o Append(s, x))[m + 2] - (<<o>> \o Append(s, x))[m] >= Cooldown
      BY <1>8, <3>1, SaidLater
    <3>3. QED BY <1>7, <2>1, <3>2 DEF Paced
  <2>2. CASE k # n
    BY <1>7, <2>2 DEF SInv, Paced
  <2>3. QED BY <2>1, <2>2
<1>11. Timely(r)'
  BY <1>1, <1>2, <1>4, <1>6 DEF Timely, w
<1>12. \A j \in Incident : Spaced(r, j)'
  <2>1. SUFFICES ASSUME NEW j \in Incident, record[j] # NoRecord
        PROVE  Spoken(record[j].issue)' <= now /\ Before(record[j].issue)' <= Heard(r, j)'
    BY <1>1 DEF SInv, Spaced
  <2>2. CASE j = i
    <3>1. Heard(r, j)' = w.stamp
      BY <1>6, <2>2 DEF Heard
    <3>2. record'[j].issue = n
      BY <1>1, <1>3, <1>4, <2>2
    <3>3. Spoken(record[j].issue)' = x /\ Before(record[j].issue)' = Spoken(n)
      BY <1>5, <1>7, <1>9, <3>2 DEF Spoken, Before
    <3>4. Spoken(n) <= w.stamp
      BY <1>2, <1>3
    <3>5. QED BY <1>4, <1>5, <3>1, <3>3, <3>4
  <2>3. CASE j # i
    <3>1. record[j].issue # n /\ record[j].issue \in DOMAIN item
      BY <1>4, <2>1, <2>3, RecordShapes
    <3>2. /\ Spoken(record[j].issue)' = Spoken(record[j].issue)
          /\ Before(record[j].issue)' = Before(record[j].issue)
      <4>1. item'[record[j].issue] = item[record[j].issue] /\ record' = record
        BY <1>1, <1>7, <3>1
      <4>2. QED BY <4>1 DEF Spoken, Before
    <3>3. Heard(r, j)' = record[j].since /\ Heard(r, j) = record[j].since
      BY <1>1, <1>6, <2>3 DEF Heard, w
    <3>4. QED BY <2>1, <3>2, <3>3 DEF SInv, Spaced
  <2>4. QED BY <2>2, <2>3
<1>13. \A s2 \in Replica : s2 = r
  BY DEF Alone
<1>14. QED BY <1>10, <1>11, <1>12, <1>13 DEF SInv

\* The move to the completed state says nothing.
LEMMA MoveSpaced ==
  ASSUME Alone, IInv, SInv, NEW r \in Replica, MoveIssue(r)
  PROVE  SInv'
<1>1. /\ worker[r].at = "move" /\ record' = record /\ now' = now
      /\ Goto(r, "settle", worker[r].rec, worker[r].todo)
  BY DEF MoveIssue, Working
<1>2. worker'[r].at = "settle" /\ worker'[r].stamp = worker[r].stamp
  BY <1>1, Shapes DEF Goto, Workers
<1>3. /\ DOMAIN item' = DOMAIN item
      /\ \A m \in DOMAIN item : item'[m].said = item[m].said /\ item'[m].opened = item[m].opened
  <2>1. \A m \in DOMAIN item : item[m] \in Items
    BY Moments
  <2>2. QED BY <2>1, MovedFacts DEF Items
<1>4. \A n \in DOMAIN item' : Paced(n)'
  BY <1>3 DEF SInv, Paced
<1>5. Timely(r)'
  BY <1>1, <1>2 DEF SInv, Timely
<1>6. ASSUME NEW i \in Incident PROVE Spaced(r, i)'
  <2>1. record[i] # NoRecord =>
          /\ Spoken(record[i].issue)' = Spoken(record[i].issue)
          /\ Before(record[i].issue)' = Before(record[i].issue)
    BY <1>1, <1>3, RecordShapes DEF Spoken, Before
  <2>2. Heard(r, i)' = record[i].since /\ Heard(r, i) = record[i].since
    BY <1>1, <1>2 DEF Heard
  <2>3. QED BY <1>1, <2>1, <2>2 DEF SInv, Spaced
<1>7. \A s \in Replica : s = r
  BY DEF Alone
<1>8. QED BY <1>4, <1>5, <1>6, <1>7 DEF SInv

\* A record stored of the same work item names at least as late a moment.
LEMMA StoreSpaced ==
  ASSUME IInv, SInv, NEW r \in Replica, item' = item, now' = now,
         worker'[r].at \notin {"file", "keep", "comment"}, worker'[r].stamp <= now,
         NEW rec \in Records, record[rec.incident] # NoRecord,
         worker[r].at = "keep" => worker[r].rec.incident = rec.incident,
         rec.issue = record[rec.incident].issue, rec.since <= now,
         Heard(r, rec.incident) <= rec.since,
         Heard(r, rec.incident) \in Nat,
         record' = [record EXCEPT ![rec.incident] = rec]
  PROVE  Timely(r)' /\ \A i \in Incident : Spaced(r, i)'
<1>1. /\ rec.incident \in Incident /\ record'[rec.incident] = rec /\ rec # NoRecord
      /\ \A i \in Incident \ {rec.incident} : record'[i] = record[i]
  BY Shapes, RecordFields
<1>2. Timely(r)'
  BY DEF Timely
<1>3. ASSUME NEW i \in Incident PROVE Spaced(r, i)'
  <2>1. Heard(r, i)' = record'[i].since
    BY DEF Heard
  <2>2. CASE i = rec.incident
    <3>1. /\ Spoken(rec.issue) <= now
          /\ Before(rec.issue) <= Heard(r, i) /\ Before(rec.issue) \in Nat
      BY <1>1, <2>2, RecordShapes, Moments DEF SInv, Spaced
    <3>2. rec.since \in Nat
      BY RecordFields, TicketAssumption
    <3>3. Before(rec.issue) <= rec.since
      BY <2>2, <3>1, <3>2
    <3>4. /\ Spoken(record[i].issue)' = Spoken(rec.issue)
          /\ Before(record[i].issue)' = Before(rec.issue)
      BY <1>1, <2>2 DEF Spoken, Before
    <3>5. QED BY <1>1, <2>1, <2>2, <3>1, <3>3, <3>4 DEF Spaced
  <2>3. CASE i # rec.incident
    <3>1. record'[i] = record[i] /\ Heard(r, i) = record[i].since /\ Spaced(r, i)
      BY <1>1, <2>3 DEF Heard, SInv
    <3>2. QED BY <2>1, <3>1 DEF Spaced, Spoken, Before
  <2>4. QED BY <2>2, <2>3
<1>4. QED BY <1>2, <1>3

\* The open record stored again knows the comment.
LEMMA KeepSpaced ==
  ASSUME IInv, SInv, NEW r \in Replica, KeepRecord(r)
  PROVE  Timely(r)' /\ \A i \in Incident : Spaced(r, i)'
<1> DEFINE rec == worker[r].rec
<1>1. /\ worker[r].at = "keep" /\ record' = [record EXCEPT ![rec.incident] = rec]
      /\ Finish(r) /\ item' = item /\ now' = now
  BY DEF KeepRecord, Working
<1>2. /\ rec \in Records /\ record[rec.incident] # NoRecord
      /\ rec.issue = record[rec.incident].issue
  BY <1>1, Shapes DEF Sound, Holding, SameTicket
<1>3. worker'[r].at = "idle" /\ worker'[r].stamp = 0
  BY <1>1, FinishFacts DEF Idle
<1>4. rec.since <= now /\ Heard(r, rec.incident) = rec.since /\ rec.since \in Nat /\ now \in Nat
  BY <1>1, <1>2, Clocks DEF SInv, Timely, Heard
<1> HIDE DEF rec
<1>5. /\ Heard(r, rec.incident) <= rec.since /\ worker'[r].stamp <= now
      /\ Heard(r, rec.incident) \in Nat
  BY <1>3, <1>4
<1>6. QED BY <1>1, <1>2, <1>3, <1>4, <1>5, StoreSpaced DEF rec

\* So does a resolution.
LEMMA SettleSpaced ==
  ASSUME IInv, SInv, NEW r \in Replica, SettleRecord(r)
  PROVE  Timely(r)' /\ \A i \in Incident : Spaced(r, i)'
<1> DEFINE rec == worker[r].rec
           new == Settled(rec)
<1>1. /\ worker[r].at = "settle" /\ record' = [record EXCEPT ![rec.incident] = new]
      /\ item' = item /\ now' = now
      /\ IF worker[r].todo = {} THEN Finish(r) ELSE Goto(r, "close", NoRecord, worker[r].todo)
  BY DEF SettleRecord, Working
<1>2. /\ rec \in Records /\ record[rec.incident] = rec /\ rec # NoRecord /\ rec.incident \in Incident
  BY <1>1, Shapes, RecordFields DEF Sound, Holding
<1>3. now \in 0..MaxNow /\ now \in Nat /\ rec.since \in Nat
  BY <1>2, Shapes, Clocks
<1>4. rec.since <= now /\ Heard(r, rec.incident) = rec.since
  BY <1>1, <1>2 DEF SInv, Spaced, Heard
<1>5. /\ new \in Records /\ new.incident = rec.incident /\ new.issue = rec.issue
      /\ new.since = rec.since \/ new.since = now
  BY <1>2, <1>3 DEF Settled, Records
<1>6. worker'[r].at \in {"idle", "close"} /\ worker'[r].stamp <= now
  <2>1. CASE worker[r].todo = {}
    BY <1>1, <1>3, <2>1, FinishFacts DEF Idle
  <2>2. CASE worker[r].todo # {}
    <3>1. worker'[r].stamp = worker[r].stamp /\ worker'[r].at = "close"
      BY <1>1, <2>2, GotoAt
    <3>2. QED BY <3>1 DEF SInv, Timely
  <2>3. QED BY <2>1, <2>2
<1> HIDE DEF rec, new
<1>7. new.since <= now /\ Heard(r, new.incident) <= new.since /\ Heard(r, new.incident) \in Nat
  BY <1>3, <1>4, <1>5
<1>8. QED BY <1>1, <1>2, <1>5, <1>6, <1>7, StoreSpaced

\* The spacing is kept by every step.
LEMMA NextSInv == ASSUME Alone, Reliable, IInv, SInv, [Next]_vars PROVE SInv'
<1>1. ASSUME NEW r \in Replica, item' = item,
             Timely(r)' /\ \A i \in Incident : Spaced(r, i)'
      PROVE  SInv'
  <2>1. \A s \in Replica : s = r
    BY DEF Alone
  <2>2. \A n \in DOMAIN item' : Paced(n)'
    BY <1>1 DEF SInv, Paced
  <2>3. QED BY <1>1, <2>1, <2>2 DEF SInv
<1>2. ASSUME NEW r \in Replica, Work(r)
      PROVE  SInv'
  <2>1. CASE CreateIssue(r) \/ Comment(r) \/ MoveIssue(r)
    BY <2>1, CreateSpaced, CommentSpaced, MoveSpaced
  <2>2. CASE LookFailure(r) \/ FileRecord(r) \/ KeepRecord(r) \/ SettleRecord(r)
    <3>1. item' = item
      BY <2>2 DEF LookFailure, FileRecord, KeepRecord, SettleRecord
    <3>2. QED BY <1>1, <2>2, <3>1, LookSpaced, FileSpaced, KeepSpaced, SettleSpaced
  <2>3. CASE Take(r) \/ LookRecovery(r) \/ Extras(r) \/ CloseNext(r)
    <3>1. UNCHANGED <<record, item, now>> /\ worker[r].at # "keep"
      BY <2>3 DEF Take, LookRecovery, Extras, CloseNext, Working
    <3>2. /\ worker'[r].at \in {"look", "idle", "close", "move", "settle"}
          /\ worker'[r].stamp = 0 \/ worker'[r].stamp = worker[r].stamp
      <4>1. CASE Take(r)
        BY <4>1, Shapes DEF Take, Idle
      <4>2. CASE Extras(r)
        BY <4>2, FinishFacts DEF Extras, Idle
      <4>3. CASE LookRecovery(r) \/ CloseNext(r)
        <5>1. Finish(r) \/ \E at \in {"close", "move", "settle"} : \E rec, todo : Goto(r, at, rec, todo)
          BY <4>3 DEF LookRecovery, CloseNext
        <5>2. QED BY <5>1, GotoAt, FinishFacts DEF Idle
      <4>4. QED BY <2>3, <4>1, <4>2, <4>3
    <3>3. now \in Nat /\ worker[r].stamp <= now
      BY Clocks DEF SInv, Timely
    <3>4. worker'[r].stamp <= now' /\ now' \in Nat /\ now' >= now
      BY <3>1, <3>2, <3>3
    <3>5. QED BY <1>1, <3>1, <3>2, <3>4, QuietSpaced
  <2>4. QED BY <1>2, <2>1, <2>2, <2>3 DEF Work
<1>3. ASSUME NEW r \in Replica, Throw(r) PROVE SInv'
  <2>1. /\ UNCHANGED <<record, item, now>> /\ worker[r].at \in PlaneSteps
        /\ worker'[r].at = "idle" /\ worker'[r].stamp = 0
    BY <1>3, Shapes DEF Throw, Fail, Finish, Idle, Reliable
  <2>2. now \in Nat
    BY Clocks
  <2>3. worker'[r].stamp <= now' /\ now' \in Nat /\ now' >= now
    BY <2>1, <2>2
  <2>4. QED BY <1>1, <2>1, <2>3, QuietSpaced DEF PlaneSteps
<1>4. ASSUME NEW r \in Replica PROVE ~ObserveUnwritten(r) /\ ~Resend(r) /\ ~Restart(r)
  BY DEF ObserveUnwritten, Resend, Restart, Fail, Reliable
<1>5. CASE UNCHANGED <<worker, record, item>> /\ (now' = now \/ now' = now + 1)
  <2>1. now \in Nat
    BY TicketAssumption DEF IInv, TypeOK
  <2>2. now' \in Nat /\ now' >= now
    BY <1>5, <2>1
  <2>3. \A r \in Replica : Timely(r)' /\ \A i \in Incident : Spaced(r, i)'
    BY <1>5, <2>2, QuietSpaced
  <2>4. \A n \in DOMAIN item' : Paced(n)'
    BY <1>5 DEF SInv, Paced
  <2>5. QED BY <2>3, <2>4 DEF SInv
<1>6. CASE \A r \in Replica : ~Work(r) /\ ~Throw(r)
  <2>1. UNCHANGED <<worker, record, item>> /\ (now' = now \/ now' = now + 1)
    BY <1>4, <1>6 DEF Next, vars, Transition, Tick, Observe, Request
  <2>2. QED BY <1>5, <2>1
<1>7. QED BY <1>2, <1>3, <1>6

\* One process, and no failure but calls Plane refuses: of three posts on a ticket
\* in a row, each at the time Plane gets it, the last comes at least a cooldown
\* after the first, however long the evidence of each takes to collect.
THEOREM Cooled == ASSUME Alone, Reliable PROVE Spec => []CommentCooldown
<1>1. Init => SInv
  <2>1. Init => /\ item = <<>> /\ record = [i \in Incident |-> NoRecord] /\ now = 0
                /\ worker = [r \in Replica |-> Idle]
    BY DEF Init
  <2>2. QED BY <2>1 DEF SInv, Spaced, Timely, Idle
<1>2. IInv /\ SInv /\ [Next]_vars => SInv'
  BY NextSInv
<1>3. SInv => CommentCooldown
  BY DEF SInv, Paced, CommentCooldown
<1>4. QED BY <1>1, <1>2, <1>3, Invariance, PTL DEF Spec

-------------------------------------------------------------------------------
(* Caught up *)

(* A recovery reads every open record: no more incidents than one page holds.  *)
WholePages == IsFiniteSet(Incident) /\ Cardinality(Incident) <= QueryLimit

(* The waiting jobs about an incident, what a job asks for, and whether the    *)
(* job in hand has still to settle it.                                         *)
Waiting(r, i) == {k \in DOMAIN queue[r] : i \in queue[r][k].signal.about}
Wish(job) == IF job.signal.kind = "failed" THEN "open" ELSE "resolved"
InHand(r, i) ==
  LET w == worker[r]
  IN /\ i \in w.job.signal.about
     /\ \/ w.at \in {"look", "create", "file"}
        \/ \E rec \in w.todo : rec.incident = i
        \/ w.at \in {"move", "settle"} /\ w.rec.incident = i

(* The newest job about an incident waits, is in hand, or shows in its record. *)
Newest(r, i) ==
  IF Waiting(r, i) # {}
    THEN \E k \in Waiting(r, i) :
           (\A m \in Waiting(r, i) : m <= k) /\ due[i] = Wish(queue[r][k])
  ELSE IF InHand(r, i) THEN due[i] = Wish(worker[r].job)
  ELSE Reflects(i)

(* A recovery closes records of its own incidents.                             *)
Owned(r) ==
  LET w == worker[r]
  IN /\ \A rec \in w.todo : rec.incident \in w.job.signal.about
     /\ w.at \in {"move", "settle"} => w.rec.incident \in w.job.signal.about

CInv ==
  \A r \in Replica : Owned(r) /\ \A i \in Incident \ (shed \cup failed) : Newest(r, i)

\* A job that joins the queue is the newest about its incidents; one that the
\* full queue drops was not, or is counted as shed.
LEMMA PushNewest ==
  ASSUME IInv, CInv, NEW r \in Replica, NEW j \in Jobs, Push(r, j), UNCHANGED <<worker, record>>
  PROVE  Owned(r)' /\ \A i \in (Incident \ (shed \cup failed))' : Newest(r, i)'
<1> DEFINE full == Len(queue[r]) >= Capacity
           old == IF full THEN Tail(queue[r]) ELSE queue[r]
           lost == IF full THEN OnlyIn(Head(queue[r]), Append(old, j)) ELSE {}
<1>1. /\ queue' = [queue EXCEPT ![r] = Append(old, j)]
      /\ due' = [i \in Incident |-> IF i \notin j.signal.about THEN due[i]
                   ELSE IF j.signal.kind = "failed" THEN "open" ELSE "resolved"]
      /\ shed' = (shed \ j.signal.about) \cup lost
      /\ failed' = failed \ j.signal.about
  BY DEF Push
<1>2. /\ queue \in [Replica -> Seq(Jobs)] /\ queue[r] \in Seq(Jobs) /\ Len(queue[r]) \in Nat
      /\ Capacity \in Nat \ {0}
  BY Shapes, TicketAssumption
<1>3. old \in Seq(Jobs)
  <2>1. full => queue[r] # <<>>
    BY <1>2
  <2>2. QED BY <1>2, <2>1, HeadTailProperties
<1>4. PICK l \in Nat : l = Len(old)
  BY <1>3, LenProperties
<1>5. PICK d \in {0, 1} : d = IF full THEN 1 ELSE 0
  OBVIOUS
<1>6. /\ DOMAIN queue[r] = 1..(l + d) /\ \A k \in 1..l : old[k] = queue[r][k + d]
      /\ d = 1 => Head(queue[r]) = queue[r][1]
  <2>1. CASE full
    <3>1. queue[r] # <<>>
      BY <1>2, <2>1
    <3>2. QED BY <1>2, <1>4, <1>5, <2>1, <3>1, HeadTailProperties, LenProperties
  <2>2. CASE ~full
    BY <1>2, <1>4, <1>5, <2>2, LenProperties
  <2>3. QED BY <2>1, <2>2
<1>7. d = 0 \/ (full /\ d = 1)
  BY <1>5
<1> HIDE DEF old
<1>8. /\ Len(Append(old, j)) = l + 1 /\ DOMAIN Append(old, j) = 1..(l + 1)
      /\ Append(old, j)[l + 1] = j /\ \A k \in 1..l : Append(old, j)[k] = old[k]
  BY <1>3, <1>4
<1>9. queue'[r] = Append(old, j)
  BY <1>1, <1>2
<1>10. /\ DOMAIN queue'[r] = 1..(l + 1) /\ queue'[r][l + 1] = j
       /\ \A k \in 1..l : queue'[r][k] = queue[r][k + d]
  BY <1>6, <1>8, <1>9
<1>11. ASSUME NEW i \in Incident, i \in j.signal.about PROVE Newest(r, i)'
  <2>1. l + 1 \in Waiting(r, i)' /\ \A m \in Waiting(r, i)' : m <= l + 1
    BY <1>10, <1>11 DEF Waiting
  <2>2. due'[i] = Wish(queue'[r][l + 1])
    BY <1>1, <1>10, <1>11 DEF Wish
  <2>3. QED BY <2>1, <2>2 DEF Newest, Wish
<1>12. ASSUME NEW i \in Incident, i \notin j.signal.about, i \notin shed', i \notin failed'
       PROVE  Newest(r, i)'
  <2>1. i \notin shed /\ i \notin failed /\ i \notin lost /\ due'[i] = due[i]
    BY <1>1, <1>12
  <2>2. Newest(r, i)
    BY <2>1 DEF CInv
  <2>3. \A k \in Waiting(r, i)' : k \in 1..l /\ k + d \in Waiting(r, i)
    BY <1>6, <1>10, <1>12 DEF Waiting
  <2>4. \A k \in Waiting(r, i) : k \in 1..(l + d) /\ (k > d => k - d \in Waiting(r, i)')
    <3>1. ASSUME NEW k \in Waiting(r, i), k > d PROVE k - d \in Waiting(r, i)'
      <4>1. k \in 1..(l + d) /\ i \in queue[r][k].signal.about
        BY <1>6 DEF Waiting
      <4>2. k - d \in 1..l /\ (k - d) + d = k
        BY <3>1, <4>1
      <4>3. queue'[r][k - d] = queue[r][k] /\ k - d \in DOMAIN queue'[r]
        BY <1>10, <4>2
      <4>4. QED BY <4>1, <4>3 DEF Waiting
    <3>2. QED BY <1>6, <3>1 DEF Waiting
  <2>5. Waiting(r, i) # {} => Waiting(r, i)' # {}
    <3>1. SUFFICES ASSUME NEW k \in Waiting(r, i), ~\E m \in Waiting(r, i) : m > d, Waiting(r, i)' = {}
                   PROVE  FALSE
      BY <2>4
    <3>2. full /\ k = 1 /\ d = 1
      BY <1>7, <2>4, <3>1
    <3>3. i \in Head(queue[r]).signal.about
      BY <1>6, <3>2 DEF Waiting
    <3>4. i \in OnlyIn(Head(queue[r]), Append(old, j))
      BY <1>9, <3>1, <3>3 DEF OnlyIn, Waiting
    <3>5. QED BY <2>1, <3>2, <3>4
  <2>6. CASE Waiting(r, i)' # {}
    <3>1. Waiting(r, i) # {}
      BY <2>3, <2>6
    <3>2. PICK k \in Waiting(r, i) :
            (\A m \in Waiting(r, i) : m <= k) /\ due[i] = Wish(queue[r][k])
      BY <2>2, <3>1 DEF Newest
    <3>3. k > d /\ k \in 1..(l + d)
      BY <2>3, <2>4, <2>6, <3>2
    <3>4. k - d \in Waiting(r, i)' /\ k - d \in 1..l /\ (k - d) + d = k
      BY <2>4, <3>3
    <3>5. \A m \in Waiting(r, i)' : m <= k - d
      BY <2>3, <3>2, <3>3
    <3>6. queue'[r][k - d] = queue[r][k]
      BY <1>10, <3>4
    <3>7. due'[i] = Wish(queue'[r][k - d])
      BY <2>1, <3>2, <3>6
    <3>8. QED BY <2>6, <3>4, <3>5, <3>7 DEF Newest, Wish
  <2>7. CASE Waiting(r, i)' = {}
    <3>1. Waiting(r, i) = {}
      BY <2>5, <2>7
    <3>2. QED BY <2>1, <2>2, <2>7, <3>1 DEF Newest, InHand, Wish, Reflects, IsOpen
  <2>8. QED BY <2>6, <2>7
<1>13. Owned(r)'
  BY DEF CInv, Owned
<1>14. QED BY <1>11, <1>12, <1>13

\* A call of the worker keeps the newest job in hand, or has settled it.
LEMMA WorkNewest ==
  ASSUME NEW r \in Replica, NEW i \in Incident, Newest(r, i), UNCHANGED <<queue, due>>,
         InHand(r, i) /\ due[i] = Wish(worker[r].job)
           => \/ InHand(r, i)' /\ worker'[r].job = worker[r].job
              \/ ~InHand(r, i)' /\ Reflects(i)',
         ~InHand(r, i) /\ Reflects(i) => ~InHand(r, i)' /\ Reflects(i)'
  PROVE  Newest(r, i)'
<1>1. Waiting(r, i)' = Waiting(r, i)
  BY DEF Waiting
<1>2. CASE Waiting(r, i) # {}
  BY <1>1, <1>2 DEF Newest, Wish
<1>3. CASE Waiting(r, i) = {} /\ InHand(r, i)
  BY <1>1, <1>3 DEF Newest, Wish
<1>4. CASE Waiting(r, i) = {} /\ ~InHand(r, i)
  BY <1>1, <1>4 DEF Newest
<1>5. QED BY <1>2, <1>3, <1>4

\* The job taken was the oldest waiting.
LEMMA TakeNewest ==
  ASSUME IInv, CInv, NEW r \in Replica, Take(r)
  PROVE  Owned(r)' /\ \A i \in (Incident \ (shed \cup failed))' : Newest(r, i)'
<1>1. /\ worker[r].at = "idle" /\ queue[r] # <<>> /\ queue' = [queue EXCEPT ![r] = Tail(@)]
      /\ worker' = [worker EXCEPT ![r] = [Idle EXCEPT !.at = "look", !.job = Head(queue[r])]]
      /\ UNCHANGED <<record, due, shed, failed>>
  BY DEF Take, history
<1>2. /\ worker'[r].at = "look" /\ worker'[r].job = Head(queue[r]) /\ worker'[r].todo = {}
      /\ queue'[r] = Tail(queue[r])
  BY <1>1, Shapes DEF Idle
<1>3. PICK l \in Nat : Len(queue[r]) = l + 1
  <2>1. Len(queue[r]) \in Nat /\ Len(queue[r]) # 0
    BY <1>1, Shapes, EmptySeq
  <2>2. Len(queue[r]) - 1 \in Nat /\ Len(queue[r]) = (Len(queue[r]) - 1) + 1
    BY <2>1
  <2>3. QED BY <2>2
<1>4. /\ DOMAIN queue[r] = 1..(l + 1) /\ DOMAIN queue'[r] = 1..l
      /\ Head(queue[r]) = queue[r][1] /\ \A k \in 1..l : queue'[r][k] = queue[r][k + 1]
  <2>1. /\ DOMAIN queue[r] = 1..(l + 1) /\ Head(queue[r]) = queue[r][1]
    BY <1>3, Shapes, LenProperties, HeadTailProperties
  <2>2. Tail(queue[r]) \in Seq(Jobs) /\ Len(Tail(queue[r])) = l
    <3>1. Tail(queue[r]) \in Seq(Jobs) /\ Len(Tail(queue[r])) = Len(queue[r]) - 1
      BY <1>1, Shapes, HeadTailProperties
    <3>2. QED BY <1>3, <3>1
  <2>3. \A k \in 1..l : Tail(queue[r])[k] = queue[r][k + 1]
    BY <1>1, <1>3, <2>2, Shapes, HeadTailProperties
  <2>4. QED BY <1>2, <2>1, <2>2, <2>3, LenProperties
<1>5. ASSUME NEW i \in Incident, i \notin shed, i \notin failed PROVE Newest(r, i)'
  <2>1. Newest(r, i) /\ due' = due
    BY <1>1, <1>5 DEF CInv
  <2>2. \A k \in Waiting(r, i)' : k \in 1..l /\ k + 1 \in Waiting(r, i)
    BY <1>4 DEF Waiting
  <2>3. ASSUME NEW k \in Waiting(r, i), k # 1 PROVE k - 1 \in Waiting(r, i)' /\ k \in 1..(l + 1)
    <3>1. k \in 1..(l + 1) /\ i \in queue[r][k].signal.about
      BY <1>4 DEF Waiting
    <3>2. k - 1 \in 1..l /\ (k - 1) + 1 = k
      BY <2>3, <3>1
    <3>3. queue'[r][k - 1] = queue[r][k]
      BY <1>4, <3>2
    <3>4. QED BY <1>4, <3>1, <3>2, <3>3 DEF Waiting
  <2>4. CASE Waiting(r, i)' # {}
    <3>1. Waiting(r, i) # {}
      BY <2>2, <2>4
    <3>2. PICK k \in Waiting(r, i) :
            (\A m \in Waiting(r, i) : m <= k) /\ due[i] = Wish(queue[r][k])
      BY <2>1, <3>1 DEF Newest
    <3>3. k # 1
      BY <2>2, <2>4, <3>2
    <3>4. k - 1 \in Waiting(r, i)' /\ k - 1 \in 1..l /\ (k - 1) + 1 = k
      BY <2>3, <3>3
    <3>5. \A m \in Waiting(r, i)' : m <= k - 1
      BY <2>2, <3>2, <3>4
    <3>6. queue'[r][k - 1] = queue[r][k]
      BY <1>4, <3>4
    <3>7. due'[i] = Wish(queue'[r][k - 1])
      BY <2>1, <3>2, <3>6
    <3>8. QED BY <2>4, <3>4, <3>5, <3>7 DEF Newest, Wish
  <2>5. CASE Waiting(r, i)' = {} /\ Waiting(r, i) # {}
    <3>1. PICK k \in Waiting(r, i) : due[i] = Wish(queue[r][k])
      BY <2>1, <2>5 DEF Newest
    <3>2. k = 1
      BY <2>3, <2>5
    <3>3. InHand(r, i)' /\ due'[i] = Wish(worker'[r].job)
      BY <1>2, <1>4, <2>1, <3>1, <3>2 DEF InHand, Waiting
    <3>4. QED BY <2>5, <3>3 DEF Newest, Wish
  <2>6. CASE Waiting(r, i)' = {} /\ Waiting(r, i) = {}
    <3>1. i \notin queue[r][1].signal.about
      BY <1>4, <2>6 DEF Waiting
    <3>2. ~InHand(r, i)'
      BY <1>2, <1>4, <3>1 DEF InHand
    <3>3. ~InHand(r, i)
      <4>1. worker[r].todo = {}
        BY <1>1, Shapes DEF Sound, Closing
      <4>2. QED BY <1>1, <4>1 DEF InHand
    <3>4. QED BY <1>1, <2>1, <2>6, <3>2, <3>3 DEF Newest, Reflects, IsOpen
  <2>7. QED BY <2>4, <2>5, <2>6
<1>6. Owned(r)'
  BY <1>2 DEF Owned
<1>7. QED BY <1>1, <1>5, <1>6

\* A failure that finds an open record has what it asked for.
LEMMA LookFailureNewest ==
  ASSUME IInv, CInv, NEW r \in Replica, LookFailure(r)
  PROVE  Owned(r)' /\ \A i \in (Incident \ (shed \cup failed))' : Newest(r, i)'
<1>1. /\ worker[r].at = "look" /\ worker[r].job.signal.kind = "failed"
      /\ UNCHANGED <<queue, record, due, shed, failed>>
  BY DEF LookFailure, Working, history
<1>2. PICK j \in worker[r].job.signal.about :
        worker' = [worker EXCEPT ![r] = [@ EXCEPT
          !.at = IF ~IsOpen(record[j]) THEN "create"
                 ELSE IF Silent(worker[r].job, record[j]) THEN "keep" ELSE "comment",
          !.rec = record[j], !.stamp = now]]
  BY DEF LookFailure
<1>3. /\ worker'[r].at = IF ~IsOpen(record[j]) THEN "create"
                         ELSE IF Silent(worker[r].job, record[j]) THEN "keep" ELSE "comment"
      /\ worker'[r].job = worker[r].job /\ worker'[r].todo = {}
  <2>1. worker[r].todo = {}
    BY <1>1, Shapes DEF Sound, Closing
  <2>2. QED BY <1>2, <2>1, Shapes DEF Workers
<1>4. worker[r].job.signal.about = {j}
  <2>1. worker[r].job.signal \in Signal
    BY Shapes DEF Workers, Jobs
  <2>2. QED BY <1>1, <1>2, <2>1, SignalFields
<1>5. ASSUME NEW i \in Incident, i \notin shed, i \notin failed PROVE Newest(r, i)'
  <2>1. Newest(r, i)
    BY <1>5 DEF CInv
  <2>2. InHand(r, i) <=> i = j
    BY <1>1, <1>4 DEF InHand
  <2>3. InHand(r, i)' <=> i = j /\ ~IsOpen(record[j])
    BY <1>3, <1>4 DEF InHand
  <2>4. due[i] = Wish(worker[r].job) /\ IsOpen(record[i]) => Reflects(i)
    BY <1>1 DEF Wish, Reflects
  <2>5. Reflects(i)' = Reflects(i)
    BY <1>1 DEF Reflects, IsOpen
  <2>6. QED BY <1>1, <1>3, <2>1, <2>2, <2>3, <2>4, <2>5, WorkNewest
<1>6. Owned(r)'
  BY <1>3 DEF Owned
<1>7. QED BY <1>1, <1>5, <1>6

\* A recovery reads every open record of its incidents.
LEMMA WholePage ==
  ASSUME WholePages, NEW s \in Signal, NEW page \in Pages(s)
  PROVE  page = {i \in s.about : IsOpen(record[i])}
<1> DEFINE open == {i \in Incident : IsOpen(record[i])}
<1>1. s.about \subseteq Incident /\ (s.kind = "joined" => s.about = Family)
  BY SignalFields
<1>2. IsFiniteSet(open) /\ Cardinality(open) <= Cardinality(Incident)
  BY FS_Subset DEF WholePages
<1>3. Cardinality(open) \in Nat /\ Cardinality(Incident) \in Nat /\ QueryLimit \in Nat
  BY <1>2, FS_CardinalityType, TicketAssumption DEF WholePages
<1>4. (IF Cardinality(open) < QueryLimit THEN Cardinality(open) ELSE QueryLimit) = Cardinality(open)
  BY <1>2, <1>3 DEF WholePages
<1>5. CASE s.kind = "joined"
  <2>1. PICK P \in SUBSET open : Cardinality(P) = Cardinality(open) /\ page = P \cap Family
    BY <1>4, <1>5 DEF Pages
  <2>2. P = open
    BY <1>2, <2>1, FS_Subset
  <2>3. QED BY <1>1, <1>5, <2>1, <2>2
<1>6. CASE s.kind # "joined"
  BY <1>1, <1>6 DEF Pages
<1>7. QED BY <1>5, <1>6

\* What a recovery does not find open is as it asked for.
LEMMA LookRecoveryNewest ==
  ASSUME WholePages, IInv, CInv, NEW r \in Replica, LookRecovery(r)
  PROVE  Owned(r)' /\ \A i \in (Incident \ (shed \cup failed))' : Newest(r, i)'
<1>1. /\ worker[r].at = "look" /\ worker[r].job.signal.kind # "failed"
      /\ UNCHANGED <<queue, record, due, shed, failed>>
  BY DEF LookRecovery, Working, history
<1>2. PICK page \in Pages(worker[r].job.signal) :
        IF page = {} THEN Finish(r) ELSE Goto(r, "close", NoRecord, {record[i] : i \in page})
  BY DEF LookRecovery
<1>3. worker[r].job.signal \in Signal
  BY Shapes DEF Workers, Jobs
<1>4. /\ page = {i \in worker[r].job.signal.about : IsOpen(record[i])}
      /\ worker[r].job.signal.about \subseteq Incident
  BY <1>3, SignalFields, WholePage
<1>5. CASE page = {}
  <2>1. worker'[r] = Idle /\ worker'[r].todo = {} /\ worker'[r].at = "idle"
    BY <1>2, <1>5, FinishFacts
  <2>2. ASSUME NEW i \in Incident, i \notin shed, i \notin failed PROVE Newest(r, i)'
    <3>1. Newest(r, i) /\ ~InHand(r, i)'
      BY <2>1, <2>2 DEF CInv, InHand
    <3>2. InHand(r, i) /\ due[i] = Wish(worker[r].job) => Reflects(i)
      BY <1>1, <1>4, <1>5 DEF InHand, Wish, Reflects
    <3>3. Reflects(i)' = Reflects(i)
      BY <1>1 DEF Reflects, IsOpen
    <3>4. QED BY <1>1, <3>1, <3>2, <3>3, WorkNewest
  <2>3. QED BY <1>1, <2>1, <2>2 DEF Owned
<1>6. CASE page # {}
  <2>1. /\ worker'[r].at = "close" /\ worker'[r].job = worker[r].job
        /\ worker'[r].todo = {record[i] : i \in page}
    BY <1>2, <1>6, GotoAt
  <2>2. \A i \in page : record[i].incident = i /\ i \in worker[r].job.signal.about
    BY <1>4, RecordShapes DEF IsOpen
  <2>3. ASSUME NEW i \in Incident, i \notin shed, i \notin failed PROVE Newest(r, i)'
    <3>1. Newest(r, i)
      BY <2>3 DEF CInv
    <3>2. InHand(r, i)' <=> i \in page
      BY <2>1, <2>2 DEF InHand
    <3>3. InHand(r, i) <=> i \in worker[r].job.signal.about
      BY <1>1 DEF InHand
    <3>4. InHand(r, i) /\ due[i] = Wish(worker[r].job) /\ i \notin page => Reflects(i)
      BY <1>1, <1>4, <3>3 DEF Wish, Reflects
    <3>5. Reflects(i)' = Reflects(i)
      BY <1>1 DEF Reflects, IsOpen
    <3>6. QED BY <1>1, <1>4, <2>1, <3>1, <3>2, <3>3, <3>4, <3>5, WorkNewest
  <2>4. Owned(r)'
    BY <2>1, <2>2 DEF Owned
  <2>5. QED BY <1>1, <2>3, <2>4
<1>7. QED BY <1>5, <1>6

\* Creating the work item, saying something on one and storing an open record
\* again: the job in hand stays in hand, or had already settled its incident.
LEMMA CallNewest ==
  ASSUME CInv, NEW r \in Replica, UNCHANGED <<queue, due, shed, failed>>,
         worker'[r].job = worker[r].job \/ worker'[r] = Idle, worker[r].todo = {}, worker'[r].todo = {},
         \/ worker[r].at = "create" /\ worker'[r].at = "file" /\ worker'[r].job = worker[r].job
         \/ /\ worker[r].at \in {"extras", "comment", "keep"}
            /\ worker'[r].at \in {"idle", "keep"},
         \A i \in Incident : IsOpen(record[i]) = IsOpen(record'[i])
  PROVE  Owned(r)' /\ \A i \in (Incident \ (shed \cup failed))' : Newest(r, i)'
<1>1. ASSUME NEW i \in Incident, i \notin shed, i \notin failed PROVE Newest(r, i)'
  <2>1. Newest(r, i)
    BY <1>1 DEF CInv
  <2>2. Reflects(i)' = Reflects(i)
    BY DEF Reflects, IsOpen
  <2>3. \/ InHand(r, i)' = InHand(r, i) /\ worker'[r].job = worker[r].job
        \/ ~InHand(r, i)' /\ ~InHand(r, i)
    BY DEF InHand
  <2>4. QED BY <2>1, <2>2, <2>3, WorkNewest
<1>2. Owned(r)'
  BY DEF Owned
<1>3. QED BY <1>1, <1>2

\* A record filed shows what the failure asked for.
LEMMA FileNewest ==
  ASSUME IInv, CInv, NEW r \in Replica, FileRecord(r)
  PROVE  Owned(r)' /\ \A i \in (Incident \ (shed \cup failed))' : Newest(r, i)'
<1>1. PICK rec \in Records : rec = worker[r].rec
  BY Shapes DEF FileRecord, Working, Sound, Holding
<1>2. /\ worker[r].at = "file" /\ record' = [record EXCEPT ![rec.incident] = rec]
      /\ Goto(r, "extras", rec, {}) /\ UNCHANGED <<queue, due, shed, failed>>
  BY <1>1 DEF FileRecord, Working, history
<1>3. /\ worker[r].job.signal.kind = "failed" /\ worker[r].job.signal.about = {rec.incident}
      /\ rec.state = "open" /\ worker[r].todo = {}
  BY <1>1, <1>2, Shapes DEF Sound, Opening, Closing, Holding
<1>4. worker'[r].at = "extras" /\ worker'[r].todo = {}
  BY <1>2, GotoAt
<1>5. /\ rec.incident \in Incident /\ record'[rec.incident] = rec /\ rec # NoRecord
      /\ \A i \in Incident \ {rec.incident} : record'[i] = record[i]
  BY <1>2, Shapes, RecordFields
<1>6. ASSUME NEW i \in Incident, i \notin shed, i \notin failed PROVE Newest(r, i)'
  <2>1. Newest(r, i) /\ ~InHand(r, i)'
    BY <1>4, <1>6 DEF CInv, InHand
  <2>2. InHand(r, i) <=> i = rec.incident
    BY <1>2, <1>3 DEF InHand
  <2>3. InHand(r, i) /\ due[i] = Wish(worker[r].job) => Reflects(i)'
    BY <1>2, <1>3, <1>5, <2>2 DEF Wish, Reflects, IsOpen
  <2>4. i # rec.incident => Reflects(i)' = Reflects(i)
    BY <1>2, <1>5 DEF Reflects, IsOpen
  <2>5. QED BY <1>2, <2>1, <2>2, <2>3, <2>4, WorkNewest
<1>7. Owned(r)'
  BY <1>4 DEF Owned
<1>8. QED BY <1>2, <1>6, <1>7

\* The next record to close, or the one whose item was moved, stays in hand.
LEMMA CloseNewest ==
  ASSUME IInv, CInv, NEW r \in Replica, CloseNext(r) \/ MoveIssue(r)
  PROVE  Owned(r)' /\ \A i \in (Incident \ (shed \cup failed))' : Newest(r, i)'
<1>1. UNCHANGED <<queue, record, due, shed, failed>>
  BY DEF CloseNext, MoveIssue, Working, history
<1>2. /\ worker'[r].job = worker[r].job /\ worker'[r].at \in {"move", "settle"}
      /\ worker'[r].rec.incident \in worker[r].job.signal.about
      /\ \A rec \in worker'[r].todo : rec.incident \in worker[r].job.signal.about
      /\ \A i \in Incident : InHand(r, i)' <=> InHand(r, i)
  <2>1. CASE CloseNext(r)
    <3>1. PICK rec \in worker[r].todo, at \in {"move", "settle"} :
            worker[r].at = "close" /\ Goto(r, at, rec, worker[r].todo \ {rec})
      BY <2>1 DEF CloseNext, Working
    <3>2. /\ worker'[r].job = worker[r].job /\ worker'[r].at = at
          /\ worker'[r].rec = rec /\ worker'[r].todo = worker[r].todo \ {rec}
      BY <3>1, GotoAt
    <3>3. \A x \in worker[r].todo : x.incident \in worker[r].job.signal.about
      BY DEF CInv, Owned
    <3>4. QED BY <3>1, <3>2, <3>3 DEF InHand
  <2>2. CASE MoveIssue(r)
    <3>1. worker[r].at = "move" /\ Goto(r, "settle", worker[r].rec, worker[r].todo)
      BY <2>2 DEF MoveIssue, Working
    <3>2. /\ worker'[r].job = worker[r].job /\ worker'[r].at = "settle"
          /\ worker'[r].rec = worker[r].rec /\ worker'[r].todo = worker[r].todo
      BY <3>1, GotoAt
    <3>3. Owned(r)
      BY DEF CInv
    <3>4. QED BY <3>1, <3>2, <3>3 DEF Owned, InHand
  <2>3. QED BY <2>1, <2>2
<1>3. ASSUME NEW i \in Incident, i \notin shed, i \notin failed PROVE Newest(r, i)'
  <2>1. Newest(r, i) /\ Reflects(i)' = Reflects(i)
    BY <1>1, <1>3 DEF CInv, Reflects, IsOpen
  <2>2. QED BY <1>1, <1>2, <2>1, WorkNewest
<1>4. Owned(r)'
  BY <1>2 DEF Owned
<1>5. QED BY <1>1, <1>3, <1>4

\* A record settled shows what the recovery asked for.
LEMMA SettleNewest ==
  ASSUME IInv, CInv, NEW r \in Replica, SettleRecord(r)
  PROVE  Owned(r)' /\ \A i \in (Incident \ (shed \cup failed))' : Newest(r, i)'
<1>1. PICK rec \in Records : rec = worker[r].rec
  BY Shapes DEF SettleRecord, Working, Sound, Holding
<1>2. PICK new : new = Settled(rec)
  OBVIOUS
<1>3. /\ worker[r].at = "settle" /\ record' = [record EXCEPT ![rec.incident] = new]
      /\ IF worker[r].todo = {} THEN Finish(r) ELSE Goto(r, "close", NoRecord, worker[r].todo)
      /\ UNCHANGED <<queue, due, shed, failed>>
  BY <1>1, <1>2 DEF SettleRecord, Working, history
<1>4. /\ worker[r].job.signal.kind # "failed" /\ record[rec.incident] = rec
      /\ rec.state = "open" /\ rec \notin worker[r].todo
      /\ \A x \in worker[r].todo : record[x.incident] = x
  BY <1>1, <1>3, Shapes DEF Sound, Opening, Closing, Holding
<1>5. rec.incident \in worker[r].job.signal.about
      /\ \A x \in worker[r].todo : x.incident \in worker[r].job.signal.about
  BY <1>1, <1>3 DEF CInv, Owned
<1>6. AutoResolve => new.state = "resolved"
  BY <1>2 DEF Settled, Records
<1>7. /\ rec.incident \in Incident /\ record'[rec.incident] = new
      /\ \A i \in Incident \ {rec.incident} : record'[i] = record[i]
  BY <1>3, Shapes, RecordFields
<1>8. /\ worker'[r].at \in {"idle", "close"} /\ worker'[r].todo = worker[r].todo
      /\ worker[r].todo # {} => worker'[r].job = worker[r].job
  <2>1. CASE worker[r].todo = {}
    BY <1>3, <2>1, FinishFacts
  <2>2. CASE worker[r].todo # {}
    BY <1>3, <2>2, GotoAt
  <2>3. QED BY <2>1, <2>2
<1>9. \A x \in worker[r].todo : x.incident # rec.incident
  BY <1>4
<1>10. ASSUME NEW i \in Incident, i \notin shed, i \notin failed PROVE Newest(r, i)'
  <2>1. Newest(r, i)
    BY <1>10 DEF CInv
  <2>2. InHand(r, i) <=> i = rec.incident \/ \E x \in worker[r].todo : x.incident = i
    BY <1>1, <1>3, <1>5 DEF InHand
  <2>3. InHand(r, i)' <=> \E x \in worker[r].todo : x.incident = i
    BY <1>5, <1>8 DEF InHand
  <2>4. InHand(r, i)' => InHand(r, i) /\ worker'[r].job = worker[r].job
    BY <1>8, <2>2, <2>3
  <2>5. InHand(r, i) /\ ~InHand(r, i)' => i = rec.incident
    BY <2>2, <2>3
  <2>6. i = rec.incident /\ due[i] = Wish(worker[r].job) => Reflects(i)'
    BY <1>3, <1>4, <1>6, <1>7 DEF Wish, Reflects, IsOpen
  <2>7. i # rec.incident => Reflects(i)' = Reflects(i)
    BY <1>3, <1>7 DEF Reflects, IsOpen
  <2>8. QED BY <1>3, <2>1, <2>2, <2>3, <2>4, <2>5, <2>6, <2>7, WorkNewest
<1>11. Owned(r)'
  BY <1>5, <1>8 DEF Owned
<1>12. QED BY <1>3, <1>10, <1>11

\* A job that throws, and all that a restart loses, count as failed.
LEMMA LossNewest ==
  ASSUME IInv, CInv, NEW r \in Replica, Throw(r) \/ Restart(r)
  PROVE  Owned(r)' /\ \A i \in (Incident \ (shed \cup failed))' : Newest(r, i)'
<1>1. /\ worker'[r] = Idle /\ worker'[r].at = "idle" /\ worker'[r].todo = {}
      /\ UNCHANGED <<record, due, shed>>
  <2>1. worker'[r] = Idle /\ UNCHANGED <<record, due, shed>>
    BY Shapes DEF Throw, Restart, Finish
  <2>2. QED BY <2>1 DEF Idle
<1>2. ASSUME NEW i \in Incident PROVE ~InHand(r, i)'
  BY <1>1 DEF InHand
<1>3. worker[r].at = "idle" => \A i \in Incident : ~InHand(r, i)
  <2>1. worker[r].at = "idle" => worker[r].todo = {}
    BY Shapes DEF Sound, Closing
  <2>2. QED BY <2>1 DEF InHand
<1>4. CASE Throw(r)
  <2>1. queue' = queue /\ failed' = failed \cup OnlyIn(worker[r].job, queue[r])
    BY <1>4 DEF Throw
  <2>2. ASSUME NEW i \in Incident, i \notin shed', i \notin failed' PROVE Newest(r, i)'
    <3>1. Newest(r, i) /\ i \notin OnlyIn(worker[r].job, queue[r])
      BY <1>1, <2>1, <2>2 DEF CInv
    <3>2. Waiting(r, i)' = Waiting(r, i)
      BY <2>1 DEF Waiting
    <3>3. CASE Waiting(r, i) # {}
      BY <1>1, <2>1, <3>1, <3>2, <3>3 DEF Newest, Wish
    <3>4. CASE Waiting(r, i) = {}
      <4>1. ~InHand(r, i)
        BY <3>1, <3>4 DEF InHand, OnlyIn, Waiting
      <4>2. QED BY <1>1, <1>2, <3>1, <3>2, <3>4, <4>1 DEF Newest, Reflects, IsOpen
    <3>5. QED BY <3>3, <3>4
  <2>3. QED BY <1>1, <2>2 DEF Owned
<1>5. CASE Restart(r)
  <2>1. /\ queue'[r] = <<>>
        /\ failed' = failed \cup (UNION {queue[r][k].signal.about : k \in DOMAIN queue[r]})
                      \cup (IF worker[r].at = "idle" THEN {} ELSE worker[r].job.signal.about)
    BY <1>5, Shapes DEF Restart
  <2>2. ASSUME NEW i \in Incident, i \notin shed', i \notin failed' PROVE Newest(r, i)'
    <3>1. Newest(r, i) /\ Waiting(r, i) = {}
      BY <1>1, <2>1, <2>2 DEF CInv, Waiting
    <3>2. ~InHand(r, i)
      BY <1>3, <2>1, <2>2 DEF InHand
    <3>3. Waiting(r, i)' = {}
      BY <2>1 DEF Waiting
    <3>4. QED BY <1>1, <1>2, <3>1, <3>2, <3>3 DEF Newest, Reflects, IsOpen
  <2>3. QED BY <1>1, <2>2 DEF Owned
<1>6. QED BY <1>4, <1>5

\* Every step keeps track of the newest job.
LEMMA NextCInv == ASSUME Alone, WholePages, IInv, CInv, [Next]_vars PROVE CInv'
<1>1. ASSUME NEW r \in Replica,
             Owned(r)' /\ \A i \in (Incident \ (shed \cup failed))' : Newest(r, i)'
      PROVE  CInv'
  <2>1. \A s \in Replica : s = r
    BY DEF Alone
  <2>2. QED BY <1>1, <2>1 DEF CInv
<1>2. ASSUME NEW r \in Replica, Work(r) PROVE CInv'
  <2>1. CASE Take(r) \/ LookFailure(r) \/ LookRecovery(r) \/ FileRecord(r) \/ CloseNext(r) \/ MoveIssue(r) \/ SettleRecord(r)
    BY <1>1, <2>1, TakeNewest, LookFailureNewest, LookRecoveryNewest, FileNewest, CloseNewest, SettleNewest
  <2>2. CASE CreateIssue(r) \/ Extras(r) \/ Comment(r) \/ KeepRecord(r)
    <3>1. /\ UNCHANGED <<queue, due, shed, failed>>
          /\ worker[r].at \in {"create", "extras", "comment", "keep"}
      BY <2>2 DEF CreateIssue, Extras, Comment, KeepRecord, Working, history
    <3>2. worker[r].todo = {}
      BY <3>1, Shapes DEF Sound, Closing
    <3>3. /\ worker'[r].todo = {} /\ (worker'[r].job = worker[r].job \/ worker'[r] = Idle)
          /\ \/ worker[r].at = "create" /\ worker'[r].at = "file" /\ worker'[r].job = worker[r].job
             \/ /\ worker[r].at \in {"extras", "comment", "keep"}
                /\ worker'[r].at \in {"idle", "keep"}
      <4>1. CASE CreateIssue(r)
        <5>1. worker[r].at = "create" /\ \E rec : Goto(r, "file", rec, {})
          BY <4>1 DEF CreateIssue, Working
        <5>2. QED BY <5>1, GotoAt
      <4>2. CASE Comment(r)
        <5>1. worker[r].at = "comment" /\ \E rec : Goto(r, "keep", rec, {})
          BY <4>2 DEF Comment, Working
        <5>2. QED BY <5>1, GotoAt
      <4>3. CASE Extras(r) \/ KeepRecord(r)
        <5>1. worker[r].at \in {"extras", "keep"} /\ Finish(r)
          BY <4>3 DEF Extras, KeepRecord, Working
        <5>2. QED BY <5>1, FinishFacts
      <4>4. QED BY <2>2, <4>1, <4>2, <4>3
    <3>4. \A i \in Incident : IsOpen(record[i]) = IsOpen(record'[i])
      <4>1. CASE KeepRecord(r)
        <5>1. PICK rec \in Records : rec = worker[r].rec
          BY <4>1, Shapes DEF KeepRecord, Working, Sound, Holding
        <5>2. /\ record' = [record EXCEPT ![rec.incident] = rec]
              /\ record[rec.incident] # NoRecord /\ rec.state = record[rec.incident].state
          BY <4>1, <5>1, Shapes DEF KeepRecord, Working, Sound, SameTicket
        <5>3. rec # NoRecord /\ rec.incident \in Incident
          BY RecordFields
        <5>4. QED BY <5>2, <5>3, Shapes DEF IsOpen
      <4>2. CASE ~KeepRecord(r)
        BY <2>2, <4>2 DEF CreateIssue, Extras, Comment, IsOpen
      <4>3. QED BY <4>1, <4>2
    <3>5. QED BY <1>1, <3>1, <3>2, <3>3, <3>4, CallNewest
  <2>3. QED BY <1>2, <2>1, <2>2 DEF Work
<1>3. ASSUME NEW r \in Replica, Throw(r) \/ Restart(r) PROVE CInv'
  BY <1>1, <1>3, LossNewest
<1>4. ASSUME NEW r \in Replica, Observe(r) \/ \E s \in Signal : Request(r, s) PROVE CInv'
  <2>1. UNCHANGED <<worker, record>>
    BY <1>4 DEF Observe, Request
  <2>2. \E j \in Jobs : Push(r, j)
    <3>1. CASE Observe(r)
      <4>1. signals[seen[r] + 1] \in Signal
        <5>1. seen[r] < Len(signals) /\ signals \in Seq(Signal) /\ seen[r] \in Nat
          BY <3>1, Shapes DEF Observe
        <5>2. seen[r] + 1 \in 1..Len(signals)
          BY <5>1, LenProperties
        <5>3. QED BY <5>1, <5>2, ElementOfSeq
      <4>2. \A created \in BOOLEAN :
              [signal |-> signals[seen[r] + 1], created |-> created, manual |-> FALSE] \in Jobs
        BY <4>1 DEF Jobs
      <4>3. \E created \in BOOLEAN :
              Push(r, [signal |-> signals[seen[r] + 1], created |-> created, manual |-> FALSE])
        BY <3>1 DEF Observe
      <4>4. QED BY <4>2, <4>3
    <3>2. CASE \E s \in Signal : Request(r, s)
      <4>1. PICK s \in Signal : Push(r, [signal |-> s, created |-> TRUE, manual |-> TRUE])
        BY <3>2 DEF Request
      <4>2. QED BY <4>1 DEF Jobs
    <3>3. QED BY <1>4, <3>1, <3>2
  <2>3. QED BY <1>1, <2>1, <2>2, PushNewest
<1>5. CASE UNCHANGED <<worker, queue, record, due, shed, failed>>
  BY <1>5 DEF CInv, Owned, Newest, InHand, Waiting, Wish, Reflects, IsOpen
<1>6. CASE \A r \in Replica :
             /\ ~Work(r) /\ ~Throw(r) /\ ~Restart(r) /\ ~Observe(r)
             /\ \A s \in Signal : ~Request(r, s)
  <2>1. UNCHANGED <<worker, queue, record, due, shed, failed>>
    BY <1>6 DEF Next, vars, history, Transition, Tick, ObserveUnwritten, Resend, Working
  <2>2. QED BY <1>5, <2>1
<1>7. QED BY <1>2, <1>3, <1>4, <1>6

\* One process, and pages that hold every open record: once the worker has
\* caught up, every incident whose newest job was neither dropped nor failed has
\* the ticket state that job asked for, whatever failed and whenever the process
\* restarted.
THEOREM Caught == ASSUME Alone, Replica # {}, WholePages PROVE Spec => []CaughtUp
<1>1. Init => CInv
  <2>1. Init => /\ queue = [r \in Replica |-> <<>>] /\ record = [i \in Incident |-> NoRecord]
                /\ worker = [r \in Replica |-> Idle] /\ due = [i \in Incident |-> "nothing"]
    BY DEF Init
  <2>2. QED BY <2>1 DEF CInv, Owned, Newest, Waiting, InHand, Reflects, Idle
<1>2. IInv /\ CInv /\ [Next]_vars => CInv'
  BY NextCInv
<1>3. IInv /\ CInv => CaughtUp
  <2>1. SUFFICES ASSUME IInv, CInv, \A r \in Replica : Quiet(r),
                        NEW i \in Incident, i \notin shed, i \notin failed
                 PROVE  Reflects(i)
    BY DEF CaughtUp
  <2>2. PICK r \in Replica : queue[r] = <<>> /\ worker[r].at = "idle"
    BY <2>1 DEF Quiet
  <2>3. Newest(r, i)
    BY <2>1 DEF CInv
  <2>4. Waiting(r, i) = {}
    BY <2>2 DEF Waiting
  <2>5. ~InHand(r, i)
    <3>1. worker[r].todo = {}
      BY <2>1, <2>2, Shapes DEF Sound, Closing
    <3>2. QED BY <2>2, <3>1 DEF InHand
  <2>6. QED BY <2>3, <2>4, <2>5 DEF Newest
<1>4. QED BY <1>1, <1>2, <1>3, Invariance, PTL DEF Spec

===============================================================================
