---------------------------- MODULE LiveHub_proofs -----------------------------
(* Proofs about LiveHub, for any number of sockets, panels, lists and changes: *)
(* who has a watch, and what its panels show.                                  *)
EXTENDS LiveHub, FiniteSetTheorems, TLAPS

Pc == {"list", "dial", "stream", "backoff", "hung", "fatal", "stopped"}
Watch == [key : Key, panels : SUBSET Panel, items : SUBSET Obj, rv : Nat,
          ready : BOOLEAN, fatal : BOOLEAN, pc : Pc]
View == [shows : {"nothing", "list", "refusal"}, items : SUBSET Obj]

(* A watch that follows its stream has listed, and stands at a version the     *)
(* list has reached; one that was stopped has nobody and remembers nothing.    *)
(* The map knows watches by their key.                                         *)
Steady ==
  /\ \A w \in Watcher :
       /\ watch[w].pc \in {"dial", "stream"} => watch[w].ready
       /\ watch[w].rv <= Len(log[watch[w].key])
       /\ ~Running(w) => watch[w].panels = {}
  /\ \A k \in Key : shared[k] # NoWatcher => watch[shared[k]].key = k
  /\ bad = 0 => spent = {}

IInv == TypeOK /\ OneWatchPerKey /\ SameView /\ Steady

-------------------------------------------------------------------------------
(* The list after some changes *)

\* How often an object came or went among the first n changes.
Turns(k, n, o) == {i \in 1..n : log[k][i] = o}

\* It is a number.
LEMMA TurnsFinite ==
  ASSUME NEW k, NEW n \in Nat, NEW o
  PROVE  IsFiniteSet(Turns(k, n, o)) /\ Cardinality(Turns(k, n, o)) \in Nat
<1>1. IsFiniteSet(1..n)
  BY FS_Interval
<1>2. Turns(k, n, o) \in SUBSET (1..n)
  BY DEF Turns
<1>3. QED BY <1>1, <1>2, FS_Subset, FS_CardinalityType

\* One more change turns its object and no other.
LEMMA WorldStep ==
  ASSUME NEW k, NEW n \in Nat, log[k][n + 1] \in Obj
  PROVE  World(k, n + 1) = IF log[k][n + 1] \in World(k, n) THEN World(k, n) \ {log[k][n + 1]}
                           ELSE World(k, n) \cup {log[k][n + 1]}
<1> DEFINE x == log[k][n + 1]
<1>1. ASSUME NEW o \in Obj, o # x PROVE o \in World(k, n + 1) <=> o \in World(k, n)
  <2>1. Turns(k, n + 1, o) = Turns(k, n, o)
    BY <1>1 DEF Turns
  <2>2. QED BY <2>1 DEF World, Turns
<1>2. x \in World(k, n + 1) <=> x \notin World(k, n)
  <2>1. Turns(k, n + 1, x) = Turns(k, n, x) \cup {n + 1} /\ n + 1 \notin Turns(k, n, x)
    BY DEF Turns
  <2>2. Cardinality(Turns(k, n + 1, x)) = Cardinality(Turns(k, n, x)) + 1
    BY <2>1, TurnsFinite, FS_AddElement
  <2> DEFINE c == Cardinality(Turns(k, n, x))
  <2>3. c \in Nat
    BY TurnsFinite
  <2> HIDE DEF c
  <2>4. (c + 1) % 2 = 1 <=> c % 2 # 1
    BY <2>3
  <2>5. x \in World(k, n + 1) <=> (c + 1) % 2 = 1
    BY <2>2 DEF World, Turns, c
  <2>6. x \in World(k, n) <=> c % 2 = 1
    BY DEF World, Turns, c
  <2>7. QED BY <2>4, <2>5, <2>6
<1>3. World(k, n) \subseteq Obj /\ World(k, n + 1) \subseteq Obj
  BY DEF World
<1>4. QED BY <1>1, <1>2, <1>3

-------------------------------------------------------------------------------
(* Stopping handles *)

\* What is left of the watches and the map when the handles of P are stopped:
\* the watches that still have panels go on as they were, without those of P,
\* and the map knows them, unless a handle was stopped twice.
LEMMA StoppedFacts ==
  ASSUME IInv, NEW P \in SUBSET Panel
  PROVE  /\ StoppedWatch(P) \in [Watcher -> Watch]
         /\ StoppedShared(P) \in [Key -> Watcher \cup {NoWatcher}]
         /\ \A w \in Watcher :
              LET s == StoppedWatch(P)[w] IN
              /\ s.key = watch[w].key
              /\ s.rv <= Len(log[s.key])
              /\ s.fatal <=> s.pc = "fatal"
              /\ s.pc = "stopped" => s.panels = {}
              /\ s.pc # "stopped" =>
                   /\ Running(w)
                   /\ s.panels # {} /\ s.panels = watch[w].panels \ P
                   /\ s.items = watch[w].items /\ s.rv = watch[w].rv /\ s.pc = watch[w].pc
                   /\ s.ready = watch[w].ready /\ s.fatal = watch[w].fatal
                   /\ strayed \/ Strays(P) \/ StoppedShared(P)[s.key] = w
              /\ Running(w) /\ s.pc = "stopped" => watch[w].panels \subseteq P
         /\ \A k \in Key : StoppedShared(P)[k] # NoWatcher =>
              LET w == StoppedShared(P)[k] IN
              /\ w \in Watcher /\ watch[w].key = k
              /\ StoppedWatch(P)[w].pc # "stopped"
         /\ spent = {} /\ ~strayed => ~Strays(P)
<1>1. /\ watch \in [Watcher -> Watch] /\ shared \in [Key -> Watcher \cup {NoWatcher}]
      /\ handle \in [Panel -> Watcher \cup {NoWatcher}]
      /\ log \in [Key -> Seq(Obj)]
      /\ \A w \in Watcher : watch[w].fatal <=> watch[w].pc = "fatal"
  BY DEF IInv, TypeOK, Watch, Pc
<1>2. \A k \in Key : Over(k) \in Watch
  BY DEF Over, Listing, Watch, Pc
<1>3. \A k \in Key : Over(k).key = k /\ Over(k).rv = 0 /\ Over(k).pc = "stopped"
                     /\ Over(k).panels = {} /\ Over(k).fatal = FALSE
  BY DEF Over, Listing
<1>4. ASSUME NEW w \in Watcher, w \in Ending(P)
      PROVE  StoppedWatch(P)[w] = Over(watch[w].key) /\ watch[w].key \in Key
  BY <1>1, <1>4 DEF StoppedWatch, Watch
<1>5. ASSUME NEW w \in Watcher, w \notin Ending(P)
      PROVE  /\ StoppedWatch(P)[w] \in Watch
             /\ StoppedWatch(P)[w].panels = watch[w].panels \ P
             /\ StoppedWatch(P)[w].key = watch[w].key
             /\ StoppedWatch(P)[w].items = watch[w].items
             /\ StoppedWatch(P)[w].rv = watch[w].rv
             /\ StoppedWatch(P)[w].ready = watch[w].ready
             /\ StoppedWatch(P)[w].fatal = watch[w].fatal
             /\ StoppedWatch(P)[w].pc = watch[w].pc
  <2>1. StoppedWatch(P)[w] = [watch[w] EXCEPT !.panels = @ \ P]
    BY <1>5 DEF StoppedWatch
  <2>2. watch[w] \in Watch
    BY <1>1
  <2> DEFINE b == watch[w]
  <2> HIDE DEF b
  <2>3. b \in Watch => LET s == [b EXCEPT !.panels = b.panels \ P] IN
          /\ s \in Watch /\ s.panels = b.panels \ P /\ s.key = b.key /\ s.items = b.items
          /\ s.rv = b.rv /\ s.ready = b.ready /\ s.fatal = b.fatal /\ s.pc = b.pc
    BY DEF Watch
  <2>4. QED BY <2>1, <2>2, <2>3 DEF b
<1>6. StoppedWatch(P) \in [Watcher -> Watch]
  <2>1. \A w \in Watcher : StoppedWatch(P)[w] \in Watch
    BY <1>2, <1>4, <1>5
  <2>2. QED BY <2>1 DEF StoppedWatch
<1>7. StoppedShared(P) \in [Key -> Watcher \cup {NoWatcher}]
  BY <1>1 DEF StoppedShared
<1>8. ASSUME NEW w \in Watcher, w \notin Ending(P), Running(w)
      PROVE  /\ watch[w].panels \ P # {}
             /\ strayed \/ Strays(P) \/ StoppedShared(P)[watch[w].key] = w
  <2>1. /\ watch[w].panels # {}
        /\ watch[w].panels = {p \in Panel : Subscribed(p) /\ handle[p] = w}
        /\ strayed \/ shared[watch[w].key] = w
    BY <1>8 DEF IInv, OneWatchPerKey
  <2>2. watch[w].panels \ P # {}
    BY <1>8, <2>1 DEF Ending
  <2>3. CASE ~strayed /\ ~Strays(P)
    <3>1. shared[watch[w].key] = w /\ w # NoWatcher /\ watch[w].key \in Key
      BY <1>1, <2>1, <2>3, LiveHubAssumption DEF Watch
    <3>2. \A e \in Ending(P) : watch[e].key # watch[w].key
      BY <1>8, <2>3, <3>1 DEF Strays
    <3>3. QED BY <2>2, <3>1, <3>2 DEF StoppedShared
  <2>4. QED BY <2>2, <2>3
<1>9. ASSUME NEW w \in Watcher, ~Running(w) PROVE watch[w].panels = {}
  BY <1>9 DEF IInv, Steady
<1>10. \A w \in Watcher : watch[w].rv <= Len(log[watch[w].key]) /\ watch[w].key \in Key
  BY <1>1 DEF IInv, Steady, Watch
<1>11. ASSUME NEW w \in Watcher
       PROVE  LET s == StoppedWatch(P)[w] IN
              /\ s.key = watch[w].key
              /\ s.rv <= Len(log[s.key])
              /\ s.fatal <=> s.pc = "fatal"
              /\ s.pc = "stopped" => s.panels = {}
              /\ s.pc # "stopped" =>
                   /\ Running(w)
                   /\ s.panels # {} /\ s.panels = watch[w].panels \ P
                   /\ s.items = watch[w].items /\ s.rv = watch[w].rv /\ s.pc = watch[w].pc
                   /\ s.ready = watch[w].ready /\ s.fatal = watch[w].fatal
                   /\ strayed \/ Strays(P) \/ StoppedShared(P)[s.key] = w
              /\ Running(w) /\ s.pc = "stopped" => watch[w].panels \subseteq P
  <2>1. CASE w \in Ending(P)
    <3>1. Len(log[watch[w].key]) \in Nat
      BY <1>1, <1>10
    <3>2. watch[w].panels \subseteq P
      BY <2>1 DEF Ending
    <3>3. QED BY <1>3, <1>4, <2>1, <3>1, <3>2
  <2>2. CASE w \notin Ending(P)
    BY <1>1, <1>5, <1>8, <1>9, <1>10, <2>2 DEF Running
  <2>3. QED BY <2>1, <2>2
<1>12. ASSUME NEW k \in Key, StoppedShared(P)[k] # NoWatcher
       PROVE  LET w == StoppedShared(P)[k] IN
              /\ w \in Watcher /\ watch[w].key = k
              /\ StoppedWatch(P)[w].pc # "stopped"
  <2>1. shared[k] = StoppedShared(P)[k] /\ \A e \in Ending(P) : watch[e].key # k
    BY <1>12 DEF StoppedShared
  <2>2. shared[k] \in Watcher /\ watch[shared[k]].key = k /\ Running(shared[k])
    BY <1>1, <1>12, <2>1 DEF IInv, Steady, OneWatchPerKey
  <2>3. QED BY <1>5, <2>1, <2>2 DEF Running
<1>13. ASSUME spent = {}, ~strayed, NEW e \in Ending(P) PROVE shared[watch[e].key] \in Ending(P)
  <2>1. PICK p \in P : handle[p] = e
    BY DEF Ending
  <2>2. e \in Watcher /\ p \in Panel /\ e # NoWatcher
    BY LiveHubAssumption DEF Ending
  <2>3. Running(handle[p])
    BY <1>13, <2>1, <2>2 DEF IInv, OneWatchPerKey, Subscribed
  <2>4. shared[watch[e].key] = e
    BY <1>13, <2>1, <2>2, <2>3 DEF IInv, OneWatchPerKey
  <2>5. QED BY <2>4
<1>14. spent = {} /\ ~strayed => ~Strays(P)
  BY <1>13 DEF Strays
<1>15. QED BY <1>6, <1>7, <1>11, <1>12, <1>14

\* A watch that goes on after handles were stopped.
LEMMA Survivor ==
  ASSUME IInv, NEW P \in SUBSET Panel, NEW w \in Watcher, StoppedWatch(P)[w].pc # "stopped"
  PROVE  /\ Running(w)
         /\ watch[w].panels \ P # {}
         /\ StoppedWatch(P)[w].key = watch[w].key
         /\ StoppedWatch(P)[w].rv <= Len(log[watch[w].key])
         /\ StoppedWatch(P)[w].fatal <=> StoppedWatch(P)[w].pc = "fatal"
         /\ StoppedWatch(P)[w].panels = watch[w].panels \ P
         /\ StoppedWatch(P)[w].items = watch[w].items
         /\ StoppedWatch(P)[w].rv = watch[w].rv
         /\ StoppedWatch(P)[w].pc = watch[w].pc
         /\ StoppedWatch(P)[w].ready = watch[w].ready
         /\ StoppedWatch(P)[w].fatal = watch[w].fatal
<1> DEFINE s == StoppedWatch(P)[w]
<1>1. /\ s.key = watch[w].key
      /\ s.rv <= Len(log[s.key])
      /\ s.fatal <=> s.pc = "fatal"
      /\ Running(w)
      /\ s.panels # {} /\ s.panels = watch[w].panels \ P
      /\ s.items = watch[w].items /\ s.rv = watch[w].rv /\ s.pc = watch[w].pc
      /\ s.ready = watch[w].ready /\ s.fatal = watch[w].fatal
  BY StoppedFacts
<1> HIDE DEF s
<1>2. QED BY <1>1 DEF s

\* The invariant holds again when handles have been stopped, each is gone or
\* remembered as spent, and only a refused subscription leaves spent ones.
LEMMA StopKeeps ==
  ASSUME IInv, NEW P \in SUBSET Panel, Stop(P), UNCHANGED cluster,
         open' \subseteq Conn, {faults', bad'} \subseteq Nat,
         handle' \in [Panel -> Watcher \cup {NoWatcher}],
         spent' \subseteq {p \in Panel : handle'[p] # NoWatcher},
         \A p \in Panel \ P : handle'[p] = handle[p] /\ (p \in spent' <=> p \in spent),
         \A p \in P : handle'[p] = NoWatcher \/ p \in spent',
         bad' = 0 => bad = 0 /\ spent' = {}
  PROVE  IInv'
<1>1. /\ watch' = StoppedWatch(P) /\ shared' = StoppedShared(P)
      /\ strayed' = (strayed \/ Strays(P))
      /\ view' = [p \in Panel |-> IF p \in P THEN Nothing ELSE view[p]]
      /\ log' = log /\ refused' = refused
  BY DEF Stop, cluster
<1>2. /\ log \in [Key -> Seq(Obj)] /\ refused \subseteq Key /\ strayed \in BOOLEAN
      /\ view \in [Panel -> View]
  BY DEF IInv, TypeOK, View
<1>3. watch' \in [Watcher -> Watch] /\ shared' \in [Key -> Watcher \cup {NoWatcher}]
  BY <1>1, StoppedFacts
<1>4. \A w \in Watcher :
        /\ watch'[w].key = watch[w].key
        /\ watch'[w].rv <= Len(log[watch'[w].key])
        /\ watch'[w].fatal <=> watch'[w].pc = "fatal"
        /\ watch'[w].pc = "stopped" => watch'[w].panels = {}
        /\ watch'[w].pc # "stopped" =>
             /\ Running(w)
             /\ watch'[w].panels # {} /\ watch'[w].panels = watch[w].panels \ P
             /\ watch'[w].items = watch[w].items /\ watch'[w].rv = watch[w].rv
             /\ watch'[w].pc = watch[w].pc
             /\ watch'[w].ready = watch[w].ready /\ watch'[w].fatal = watch[w].fatal
        /\ Running(w) /\ watch'[w].pc = "stopped" => watch[w].panels \subseteq P
  <2>1. SUFFICES ASSUME NEW w \in Watcher
                 PROVE  LET s == StoppedWatch(P)[w] IN
                        /\ s.key = watch[w].key
                        /\ s.rv <= Len(log[s.key])
                        /\ s.fatal <=> s.pc = "fatal"
                        /\ s.pc = "stopped" => s.panels = {}
                        /\ s.pc # "stopped" =>
                             /\ Running(w)
                             /\ s.panels # {} /\ s.panels = watch[w].panels \ P
                             /\ s.items = watch[w].items /\ s.rv = watch[w].rv
                             /\ s.pc = watch[w].pc
                             /\ s.ready = watch[w].ready /\ s.fatal = watch[w].fatal
                        /\ Running(w) /\ s.pc = "stopped" => watch[w].panels \subseteq P
    BY <1>1
  <2>2. QED BY StoppedFacts
<1>5. ASSUME NEW w \in Watcher, watch'[w].pc # "stopped"
       PROVE  strayed' \/ shared'[watch'[w].key] = w
  <2>1. strayed \/ Strays(P) \/ StoppedShared(P)[StoppedWatch(P)[w].key] = w
    BY <1>1, <1>5, StoppedFacts
  <2>2. QED BY <1>1, <2>1
<1>6. \A k \in Key : shared'[k] # NoWatcher =>
        /\ shared'[k] \in Watcher /\ watch[shared'[k]].key = k
        /\ watch'[shared'[k]].pc # "stopped"
  BY <1>1, StoppedFacts
<1>7. TypeOK'
  <2>1. Nothing \in View
    BY DEF Nothing, View
  <2>2. view' \in [Panel -> View]
    BY <1>1, <1>2, <2>1
  <2>3. QED BY <1>1, <1>2, <1>3, <1>4, <2>2 DEF TypeOK, Watch, View, Pc
<1>8. \A p \in Panel : Subscribed(p)' <=> p \notin P /\ Subscribed(p)
  BY DEF Subscribed
<1>9. ASSUME NEW w \in Watcher, Running(w)'
      PROVE  watch'[w].panels = {p \in Panel : Subscribed(p)' /\ handle'[p] = w}
  <2>1. watch'[w].panels = watch[w].panels \ P /\ Running(w)
    BY <1>4, <1>9 DEF Running
  <2>2. watch[w].panels = {p \in Panel : Subscribed(p) /\ handle[p] = w}
    BY <2>1 DEF IInv, OneWatchPerKey
  <2>3. QED BY <1>8, <2>1, <2>2
<1>10. ASSUME NEW p \in Panel, Subscribed(p)' PROVE Running(handle[p])' /\ handle'[p] = handle[p]
  <2>1. p \notin P /\ Subscribed(p) /\ handle'[p] = handle[p]
    BY <1>8, <1>10
  <2>2. handle[p] \in Watcher /\ Running(handle[p])
    BY <2>1 DEF IInv, OneWatchPerKey, TypeOK, Subscribed
  <2>3. p \in watch[handle[p]].panels
    BY <2>1, <2>2 DEF IInv, OneWatchPerKey
  <2>4. QED BY <1>4, <2>1, <2>2, <2>3 DEF Running
<1>11. bad' = 0 => ~strayed'
  <2>1. SUFFICES ASSUME bad' = 0 PROVE ~Strays(P) /\ ~strayed
    BY <1>1
  <2>2. spent = {} /\ ~strayed
    BY <2>1 DEF IInv, Steady, OneWatchPerKey
  <2>3. QED BY <2>2, StoppedFacts
<1>12. OneWatchPerKey'
  <2>1. \A w \in Watcher : Running(w)' =>
          watch'[w].panels # {} /\ (strayed' \/ shared'[watch'[w].key] = w)
    BY <1>4, <1>5 DEF Running
  <2>2. \A k \in Key : shared'[k] # NoWatcher => Running(shared[k])'
    BY <1>6 DEF Running
  <2>3. \A p \in Panel : Subscribed(p)' => Running(handle[p])'
    BY <1>10
  <2>4. QED BY <1>9, <1>11, <2>1, <2>2, <2>3 DEF OneWatchPerKey
<1>13. SameView'
  <2>1. SUFFICES ASSUME NEW w \in Watcher, Running(w)', watch'[w].ready
                 PROVE  /\ ~watch'[w].fatal => watch'[w].items = World(watch[w].key, watch[w].rv)'
                        /\ \A p \in watch'[w].panels :
                             view'[p] = IF watch'[w].fatal THEN Refusal ELSE List(watch'[w].items)
    BY DEF SameView, Refusal, List
  <2>2. /\ Running(w) /\ watch[w].ready /\ watch'[w].panels = watch[w].panels \ P
        /\ watch'[w].items = watch[w].items /\ watch'[w].rv = watch[w].rv
        /\ watch'[w].fatal = watch[w].fatal /\ watch'[w].key = watch[w].key
        /\ watch[w].panels \subseteq Panel
    BY <1>4, <2>1 DEF Running, IInv, OneWatchPerKey
  <2>3. World(watch[w].key, watch[w].rv)' = World(watch[w].key, watch[w].rv)
    BY <1>1, <2>2 DEF World
  <2>4. /\ ~watch[w].fatal => watch[w].items = World(watch[w].key, watch[w].rv)
        /\ \A p \in watch[w].panels :
             view[p] = IF watch[w].fatal THEN Refusal ELSE List(watch[w].items)
    BY <2>2 DEF IInv, SameView
  <2>5. \A p \in watch'[w].panels : view'[p] = view[p] /\ p \in watch[w].panels
    BY <1>1, <2>2
  <2>6. QED BY <2>2, <2>3, <2>4, <2>5
<1>14. Steady'
  <2>1. \A w \in Watcher : watch'[w].pc \in {"dial", "stream"} => watch'[w].ready
    BY <1>4 DEF IInv, Steady
  <2>2. \A w \in Watcher : watch'[w].rv <= Len(log'[watch'[w].key])
    BY <1>1, <1>4
  <2>3. \A w \in Watcher : ~Running(w)' => watch'[w].panels = {}
    BY <1>4 DEF Running
  <2>4. \A k \in Key : shared'[k] # NoWatcher => watch'[shared'[k]].key = k
    BY <1>4, <1>6
  <2>5. QED BY <2>1, <2>2, <2>3, <2>4 DEF Steady
<1>15. QED BY <1>7, <1>12, <1>13, <1>14 DEF IInv

\* A socket closes.
LEMMA TeardownKeeps ==
  ASSUME IInv, NEW c \in Conn, Teardown(c)
  PROVE  IInv'
<1>1. PanelsOf(c) \in SUBSET Panel
  BY DEF PanelsOf
<1>2. /\ handle \in [Panel -> Watcher \cup {NoWatcher}] /\ open \subseteq Conn
      /\ spent \subseteq {p \in Panel : handle[p] # NoWatcher} /\ {faults, bad} \subseteq Nat
      /\ bad = 0 => spent = {}
  BY DEF IInv, TypeOK, Steady
<1>3. /\ Stop(PanelsOf(c)) /\ UNCHANGED cluster /\ open' \subseteq Conn
      /\ {faults', bad'} \subseteq Nat /\ bad' = bad
      /\ handle' = [p \in Panel |-> IF p \in PanelsOf(c) THEN NoWatcher ELSE handle[p]]
      /\ spent' = spent \ PanelsOf(c)
  BY <1>2 DEF Teardown
<1> DEFINE P == PanelsOf(c)
<1> HIDE DEF P
<1>4. handle' \in [Panel -> Watcher \cup {NoWatcher}]
  BY <1>2, <1>3
<1>5. /\ \A p \in Panel \ PanelsOf(c) : handle'[p] = handle[p] /\ (p \in spent' <=> p \in spent)
      /\ \A p \in PanelsOf(c) : handle'[p] = NoWatcher
      /\ spent' \subseteq {p \in Panel : handle'[p] # NoWatcher}
  BY <1>1, <1>2, <1>3
<1>6. bad' = 0 => bad = 0 /\ spent' = {}
  BY <1>2, <1>3
<1>7. QED BY <1>1, <1>3, <1>4, <1>5, <1>6, StopKeeps

\* A subscription that cannot be made: the older handle is spent.
LEMMA SubscribeBadlyKeeps ==
  ASSUME IInv, NEW p \in Panel, SubscribeBadly(p)
  PROVE  IInv'
<1>1. /\ handle \in [Panel -> Watcher \cup {NoWatcher}] /\ open \subseteq Conn
      /\ spent \subseteq {q \in Panel : handle[q] # NoWatcher} /\ faults \in Nat /\ bad \in Nat
  BY DEF IInv, TypeOK
<1>2. /\ Stop({p}) /\ UNCHANGED cluster /\ open' = open /\ handle' = handle /\ faults' = faults
      /\ bad' = bad + 1 /\ spent' = spent \cup {p} /\ handle[p] # NoWatcher
  BY DEF SubscribeBadly
<1>3. /\ open' \subseteq Conn /\ {faults', bad'} \subseteq Nat /\ bad' # 0
      /\ handle' \in [Panel -> Watcher \cup {NoWatcher}]
  BY <1>1, <1>2
<1>4. /\ spent' \subseteq {q \in Panel : handle'[q] # NoWatcher}
      /\ \A q \in Panel \ {p} : handle'[q] = handle[q] /\ (q \in spent' <=> q \in spent)
      /\ p \in spent'
  BY <1>1, <1>2
<1>5. QED BY <1>2, <1>3, <1>4, StopKeeps

\* A panel leaves.
LEMMA UnsubscribeKeeps ==
  ASSUME IInv, NEW p \in Panel, Unsubscribe(p)
  PROVE  IInv'
<1>1. /\ handle \in [Panel -> Watcher \cup {NoWatcher}] /\ open \subseteq Conn
      /\ spent \subseteq {q \in Panel : handle[q] # NoWatcher} /\ faults \in Nat /\ bad \in Nat
      /\ bad = 0 => spent = {}
  BY DEF IInv, TypeOK, Steady
<1>2. /\ Stop({p}) /\ UNCHANGED cluster /\ open' = open /\ faults' = faults /\ bad' = bad
      /\ handle' = [handle EXCEPT ![p] = NoWatcher] /\ spent' = spent \ {p}
  BY DEF Unsubscribe
<1>3. /\ open' \subseteq Conn /\ {faults', bad'} \subseteq Nat
      /\ handle' \in [Panel -> Watcher \cup {NoWatcher}]
  BY <1>1, <1>2
<1>4. /\ spent' \subseteq {q \in Panel : handle'[q] # NoWatcher}
      /\ \A q \in Panel \ {p} : handle'[q] = handle[q] /\ (q \in spent' <=> q \in spent)
      /\ handle'[p] = NoWatcher
  BY <1>1, <1>2
<1>5. bad' = 0 => bad = 0 /\ spent' = {}
  BY <1>1, <1>2
<1>6. QED BY <1>2, <1>3, <1>4, <1>5, StopKeeps

-------------------------------------------------------------------------------
(* Subscribing *)

\* The invariant holds again when panel p, whose older handle was stopped, is in
\* watch w of list k, beside the panels that have it, and shows what w has.
LEMMA JoinedKeeps ==
  ASSUME IInv, NEW p \in Panel, NEW k \in Key, NEW w \in Watcher, NEW n \in Watch, NEW v \in View,
         watch' = [StoppedWatch({p}) EXCEPT ![w] = n],
         shared' = [StoppedShared({p}) EXCEPT ![k] = w],
         handle' = [handle EXCEPT ![p] = w],
         view' = [view EXCEPT ![p] = v],
         spent' = spent \ {p}, strayed' = (strayed \/ Strays({p})),
         UNCHANGED <<open, cluster, faults, bad>>,
         StoppedShared({p})[k] \in {w, NoWatcher},
         StoppedWatch({p})[w].pc = "stopped" \/ watch[w].key = k,
         n.key = k, n.pc # "stopped", n.rv <= Len(log[k]), n.fatal <=> n.pc = "fatal",
         n.pc \in {"dial", "stream"} => n.ready,
         n.panels = {q \in Panel \ {p} : Subscribed(q) /\ handle[q] = w} \cup {p},
         n.ready /\ ~n.fatal => n.items = World(k, n.rv),
         n.ready => \A q \in n.panels :
           view'[q] = IF n.fatal THEN Refusal ELSE List(n.items)
  PROVE  IInv'
<1> DEFINE W == StoppedWatch({p})
           S == StoppedShared({p})
<1>1. IInv /\ {p} \in SUBSET Panel
  OBVIOUS
<1>2. /\ handle \in [Panel -> Watcher \cup {NoWatcher}] /\ open \subseteq Conn
      /\ spent \subseteq {q \in Panel : handle[q] # NoWatcher} /\ faults \in Nat /\ bad \in Nat
      /\ log \in [Key -> Seq(Obj)] /\ refused \subseteq Key /\ strayed \in BOOLEAN
      /\ view \in [Panel -> View] /\ NoWatcher \notin Watcher
      /\ watch \in [Watcher -> Watch]
  BY LiveHubAssumption DEF IInv, TypeOK, View, Watch, Pc
<1>3. W \in [Watcher -> Watch] /\ S \in [Key -> Watcher \cup {NoWatcher}]
  BY StoppedFacts
<1>4. ASSUME NEW w1 \in Watcher
      PROVE  /\ W[w1].key = watch[w1].key
             /\ W[w1].rv <= Len(log[W[w1].key])
             /\ W[w1].fatal <=> W[w1].pc = "fatal"
             /\ W[w1].pc = "stopped" => W[w1].panels = {}
             /\ W[w1].pc # "stopped" =>
                  /\ Running(w1)
                  /\ W[w1].panels # {} /\ W[w1].panels = watch[w1].panels \ {p}
                  /\ W[w1].items = watch[w1].items /\ W[w1].rv = watch[w1].rv
                  /\ W[w1].pc = watch[w1].pc
                  /\ W[w1].ready = watch[w1].ready /\ W[w1].fatal = watch[w1].fatal
             /\ Running(w1) /\ W[w1].pc = "stopped" => watch[w1].panels \subseteq {p}
  <2> DEFINE P == {p}
  <2>1. IInv /\ P \in SUBSET Panel
    BY <1>1
  <2> HIDE DEF P
  <2>2. LET s == StoppedWatch(P)[w1] IN
        /\ s.key = watch[w1].key
        /\ s.rv <= Len(log[s.key])
        /\ s.fatal <=> s.pc = "fatal"
        /\ s.pc = "stopped" => s.panels = {}
        /\ s.pc # "stopped" =>
             /\ Running(w1)
             /\ s.panels # {} /\ s.panels = watch[w1].panels \ P
             /\ s.items = watch[w1].items /\ s.rv = watch[w1].rv /\ s.pc = watch[w1].pc
             /\ s.ready = watch[w1].ready /\ s.fatal = watch[w1].fatal
        /\ Running(w1) /\ s.pc = "stopped" => watch[w1].panels \subseteq P
    BY ONLY <1>4, <2>1, StoppedFacts
  <2>3. QED BY ONLY <2>2 DEF P, W
<1>5. ASSUME NEW w1 \in Watcher, W[w1].pc # "stopped"
      PROVE  strayed \/ Strays({p}) \/ S[W[w1].key] = w1
  BY <1>5, StoppedFacts
<1>6. ASSUME NEW k1 \in Key, S[k1] # NoWatcher
      PROVE  S[k1] \in Watcher /\ watch[S[k1]].key = k1 /\ W[S[k1]].pc # "stopped"
  BY <1>6, StoppedFacts
<1>7. spent = {} /\ ~strayed => ~Strays({p})
  BY StoppedFacts
<1>8. log' = log /\ refused' = refused /\ open' = open /\ faults' = faults /\ bad' = bad
  BY DEF cluster
<1>9. watch' = [W EXCEPT ![w] = n] /\ shared' = [S EXCEPT ![k] = w]
      /\ S[k] \in {w, NoWatcher} /\ (W[w].pc = "stopped" \/ watch[w].key = k)
      /\ n \in Watch /\ w \in Watcher /\ k \in Key
  OBVIOUS
<1>10. /\ n.key = k /\ n.pc # "stopped" /\ n.rv <= Len(log[k]) /\ (n.fatal <=> n.pc = "fatal")
       /\ n.pc \in {"dial", "stream"} => n.ready
       /\ n.panels = {q \in Panel \ {p} : Subscribed(q) /\ handle[q] = w} \cup {p}
  OBVIOUS
<1>11. /\ n.ready /\ ~n.fatal => n.items = World(k, n.rv)
       /\ n.ready => \A q \in n.panels : view'[q] = IF n.fatal THEN Refusal ELSE List(n.items)
  OBVIOUS
<1> HIDE DEF W, S
<1>12. /\ watch' \in [Watcher -> Watch] /\ watch'[w] = n
       /\ \A w1 \in Watcher \ {w} : watch'[w1] = W[w1]
       /\ shared' \in [Key -> Watcher \cup {NoWatcher}] /\ shared'[k] = w
       /\ \A k1 \in Key \ {k} : shared'[k1] = S[k1]
  BY ONLY <1>3, <1>9
<1>13. /\ handle' \in [Panel -> Watcher \cup {NoWatcher}] /\ handle'[p] = w
       /\ \A q \in Panel \ {p} : handle'[q] = handle[q] /\ (q \in spent' <=> q \in spent)
       /\ p \notin spent' /\ w # NoWatcher
       /\ \A q \in Panel \ {p} : view'[q] = view[q]
  BY <1>2
<1>14. Subscribed(p)' /\ \A q \in Panel \ {p} : Subscribed(q)' <=> Subscribed(q)
  BY <1>13 DEF Subscribed
<1>15. TypeOK'
  <2>1. view' \in [Panel -> View]
    BY <1>2
  <2>2. spent' \subseteq {q \in Panel : handle'[q] # NoWatcher}
    BY <1>2, <1>13
  <2>3. \A w1 \in Watcher : watch'[w1].fatal <=> watch'[w1].pc = "fatal"
    BY ONLY <1>4, <1>12, <1>10
  <2>4. strayed' \in BOOLEAN
    OBVIOUS
  <2>5. /\ open' \subseteq Conn /\ log' \in [Key -> Seq(Obj)] /\ refused' \subseteq Key
        /\ {faults', bad'} \subseteq Nat
    BY ONLY <1>2, <1>8
  <2>6. /\ watch' \in [Watcher -> Watch] /\ shared' \in [Key -> Watcher \cup {NoWatcher}]
        /\ handle' \in [Panel -> Watcher \cup {NoWatcher}]
    BY ONLY <1>12, <1>13
  <2>7. QED BY ONLY <2>1, <2>2, <2>3, <2>4, <2>5, <2>6 DEF TypeOK, Watch, View, Pc
<1>16. ASSUME NEW w1 \in Watcher, Running(w1)'
       PROVE  /\ watch'[w1].panels # {}
              /\ watch'[w1].panels = {q \in Panel : Subscribed(q)' /\ handle'[q] = w1}
              /\ strayed' \/ shared'[watch'[w1].key] = w1
  <2>1. CASE w1 = w
    <3>1. n.panels = {q \in Panel : Subscribed(q)' /\ handle'[q] = w}
      BY ONLY <1>13, <1>14, <1>10, p \in Panel
    <3>2. shared'[n.key] = w /\ n.panels # {}
      <4>1. n.key = k /\ p \in n.panels
        BY ONLY <1>10
      <4>2. shared'[k] = w
        BY ONLY <1>12
      <4>3. QED BY ONLY <4>1, <4>2
    <3>3. QED BY ONLY <1>12, <2>1, <3>1, <3>2
  <2>2. CASE w1 # w
    <3>1. watch'[w1] = W[w1] /\ W[w1].pc # "stopped"
      BY <1>12, <1>16, <2>2 DEF Running
    <3>2. watch[w1].panels = {q \in Panel : Subscribed(q) /\ handle[q] = w1}
      BY <1>4, <3>1 DEF IInv, OneWatchPerKey
    <3>3. W[w1].panels # {} /\ W[w1].panels = watch[w1].panels \ {p}
      BY <1>4, <3>1
    <3>4. watch'[w1].panels = {q \in Panel : Subscribed(q)' /\ handle'[q] = w1}
      BY <1>13, <1>14, <2>2, <3>1, <3>2, <3>3
    <3>5. strayed' \/ S[W[w1].key] = w1
      BY <1>5, <3>1
    <3>6. W[w1].key \in Key /\ w1 # NoWatcher
      BY <1>2, <1>3 DEF Watch
    <3>7. S[W[w1].key] = w1 => shared'[W[w1].key] = w1
      BY ONLY <1>9, <1>12, <1>16, <2>2, <3>6
    <3>8. QED BY <3>1, <3>3, <3>4, <3>5, <3>7
  <2>3. QED BY <2>1, <2>2
<1>17. ASSUME NEW q \in Panel, Subscribed(q)' PROVE Running(handle[q])'
  <2>1. CASE q = p
    BY <1>12, <1>13, <2>1 DEF Running
  <2>2. CASE q # p
    <3>1. Subscribed(q) /\ handle'[q] = handle[q] /\ handle[q] \in Watcher
      BY <1>2, <1>13, <1>14, <1>17, <2>2 DEF Subscribed
    <3>2. Running(handle[q]) /\ q \in watch[handle[q]].panels
      BY <3>1 DEF IInv, OneWatchPerKey
    <3>3. W[handle[q]].pc # "stopped"
      BY <1>4, <2>2, <3>1, <3>2
    <3>4. QED BY <1>12, <3>1, <3>3 DEF Running
  <2>3. QED BY <2>1, <2>2
<1>18. ASSUME NEW k1 \in Key, shared'[k1] # NoWatcher
       PROVE  Running(shared[k1])' /\ watch'[shared'[k1]].key = k1
  <2>1. CASE k1 = k
    BY <1>12, <2>1 DEF Running
  <2>2. CASE k1 # k
    <3>1. shared'[k1] = S[k1] /\ S[k1] \in Watcher /\ watch[S[k1]].key = k1
          /\ W[S[k1]].pc # "stopped"
      <4>1. shared'[k1] = S[k1]
        BY ONLY <1>12, <1>18, <2>2
      <4>2. S[k1] # NoWatcher
        BY ONLY <4>1, <1>18
      <4>3. QED BY ONLY <1>6, <1>18, <4>1, <4>2
    <3>2. S[k1] # w
      BY ONLY <1>9, <2>2, <3>1
    <3>3. watch'[S[k1]] = W[S[k1]] /\ W[S[k1]].key = k1
      BY ONLY <1>4, <1>12, <3>1, <3>2
    <3>4. QED BY ONLY <3>1, <3>3 DEF Running
  <2>3. QED BY <2>1, <2>2
<1>19. bad' = 0 => ~strayed' /\ spent' = {}
  BY <1>7, <1>8 DEF IInv, OneWatchPerKey, Steady
<1>20. OneWatchPerKey'
  BY <1>16, <1>17, <1>18, <1>19 DEF OneWatchPerKey
<1>21. Steady'
  <2>1. ASSUME NEW w1 \in Watcher
        PROVE  /\ watch'[w1].pc \in {"dial", "stream"} => watch'[w1].ready
               /\ watch'[w1].rv <= Len(log'[watch'[w1].key])
               /\ ~Running(w1)' => watch'[w1].panels = {}
    <3>1. CASE w1 = w
      BY ONLY <1>8, <1>12, <1>10, <3>1 DEF Running
    <3>2. CASE w1 # w
      <4>1. watch[w1].pc \in {"dial", "stream"} => watch[w1].ready
        BY DEF IInv, Steady
      <4>2. watch'[w1] = W[w1]
        BY ONLY <1>12, <3>2, <2>1
      <4>3. Running(w1)' = (W[w1].pc # "stopped")
        BY ONLY <4>2 DEF Running
      <4>4. QED BY ONLY <1>4, <1>8, <2>1, <4>1, <4>2, <4>3
    <3>3. QED BY <3>1, <3>2
  <2>2. QED BY <1>18, <1>19, <2>1 DEF Steady
<1>22. SameView'
  <2>1. SUFFICES ASSUME NEW w1 \in Watcher, Running(w1)', watch'[w1].ready
                 PROVE  /\ ~watch'[w1].fatal => watch'[w1].items = World(watch[w1].key, watch[w1].rv)'
                        /\ \A q \in watch'[w1].panels :
                             view'[q] = IF watch'[w1].fatal THEN Refusal ELSE List(watch'[w1].items)
    BY DEF SameView, Refusal, List
  <2>2. CASE w1 = w
    <3>1. watch'[w1] = n /\ watch'[w1].key = k
      BY ONLY <1>12, <1>10, <2>2
    <3>2. World(watch[w1].key, watch[w1].rv)' = World(k, n.rv)
      BY ONLY <1>8, <3>1 DEF World
    <3>3. QED BY ONLY <1>11, <2>1, <3>1, <3>2
  <2>3. CASE w1 # w
    <3>1. watch'[w1] = W[w1] /\ W[w1].pc # "stopped"
      BY <1>12, <2>1, <2>3 DEF Running
    <3>2. /\ Running(w1) /\ W[w1].panels = watch[w1].panels \ {p}
          /\ W[w1].items = watch[w1].items /\ W[w1].rv = watch[w1].rv
          /\ W[w1].ready = watch[w1].ready /\ W[w1].fatal = watch[w1].fatal
          /\ W[w1].key = watch[w1].key
      BY <1>4, <3>1
    <3>3. World(watch[w1].key, watch[w1].rv)' = World(watch[w1].key, watch[w1].rv)
      BY ONLY <1>8, <3>1, <3>2 DEF World
    <3>4. /\ ~watch[w1].fatal => watch[w1].items = World(watch[w1].key, watch[w1].rv)
          /\ \A q \in watch[w1].panels :
               view[q] = IF watch[w1].fatal THEN Refusal ELSE List(watch[w1].items)
      BY <2>1, <3>1, <3>2 DEF IInv, SameView
    <3>5. watch[w1].panels \subseteq Panel
      BY <1>2 DEF Watch
    <3>6. \A q \in watch'[w1].panels : view'[q] = view[q] /\ q \in watch[w1].panels
      BY <1>13, <3>1, <3>2, <3>5
    <3>7. QED BY ONLY <2>1, <3>1, <3>2, <3>3, <3>4, <3>6
  <2>4. QED BY <2>2, <2>3
<1>23. QED BY <1>15, <1>20, <1>21, <1>22 DEF IInv

\* There is a name for a new watch beside those the other panels refer to.
LEMMA FreeName ==
  ASSUME TypeOK, NEW p \in Panel
  PROVE  \E w \in Watcher : \A q \in Panel \ {p} : handle[q] # w
<1> DEFINE f == [q \in Panel \ {p} |-> handle[q]]
           T == {handle[q] : q \in Panel \ {p}}
<1>1. IsFiniteSet(Panel \ {p}) /\ Cardinality(Panel \ {p}) = Cardinality(Panel) - 1
  BY LiveHubAssumption, FS_RemoveElement
<1>2. f \in Surjection(Panel \ {p}, T)
  BY DEF Surjection
<1>3. IsFiniteSet(T) /\ Cardinality(T) <= Cardinality(Panel \ {p})
  BY <1>1, <1>2, FS_Surjection
<1>4. ASSUME Watcher \subseteq T PROVE FALSE
  <2>1. Cardinality(Watcher) <= Cardinality(T)
    BY <1>3, <1>4, FS_Subset
  <2>2. Cardinality(Watcher) \in Nat /\ Cardinality(T) \in Nat /\ Cardinality(Panel) \in Nat
    BY <1>3, LiveHubAssumption, FS_CardinalityType
  <2>3. Cardinality(Watcher) >= Cardinality(Panel)
    BY LiveHubAssumption
  <2>4. QED BY <1>1, <1>3, <2>1, <2>2, <2>3
<1>5. QED BY <1>4

\* A panel subscribes to a list.
LEMMA SubscribeKeeps ==
  ASSUME IInv, NEW p \in Panel, NEW k \in Key, Subscribe(p, k)
  PROVE  IInv'
<1>1. /\ spent' = spent \ {p} /\ strayed' = (strayed \/ Strays({p}))
      /\ UNCHANGED <<open, cluster, faults, bad>>
  BY DEF Subscribe
<1>2. /\ log \in [Key -> Seq(Obj)] /\ view \in [Panel -> View] /\ watch \in [Watcher -> Watch]
      /\ IInv /\ {p} \in SUBSET Panel
  BY DEF IInv, TypeOK, View, Watch, Pc
<1>3. ASSUME Begin(p, k) PROVE IInv'
  <2> DEFINE w == CHOOSE w \in Watcher : \A q \in Panel \ {p} : handle[q] # w
             n == Listing(k, {p})
  <2>1. w \in Watcher /\ \A q \in Panel \ {p} : handle[q] # w
    BY FreeName DEF IInv
  <2>2. /\ StoppedShared({p})[k] = NoWatcher
        /\ watch' = [StoppedWatch({p}) EXCEPT ![w] = n]
        /\ shared' = [StoppedShared({p}) EXCEPT ![k] = w]
        /\ handle' = [handle EXCEPT ![p] = w]
        /\ view' = [view EXCEPT ![p] = Nothing]
    BY <1>3 DEF Begin
  <2> HIDE DEF w
  <2>3. StoppedWatch({p})[w].pc = "stopped"
    <3>1. SUFFICES ASSUME StoppedWatch({p})[w].pc # "stopped" PROVE FALSE
      OBVIOUS
    <3>2. Running(w) /\ watch[w].panels \ {p} # {}
      BY ONLY <1>2, <2>1, <3>1, Survivor
    <3>3. watch[w].panels = {q \in Panel : Subscribed(q) /\ handle[q] = w}
      BY ONLY <1>2, <2>1, <3>2 DEF IInv, OneWatchPerKey
    <3>4. QED BY ONLY <2>1, <3>2, <3>3
  <2>4. /\ n \in Watch /\ n.key = k /\ n.pc = "list" /\ n.rv = 0 /\ ~n.fatal /\ ~n.ready
        /\ n.panels = {p}
    BY DEF Listing, Watch, Pc
  <2>5. n.panels = {q \in Panel \ {p} : Subscribed(q) /\ handle[q] = w} \cup {p}
    BY ONLY <2>1, <2>4
  <2>6. n.rv <= Len(log[k])
    BY ONLY <1>2, <2>4, k \in Key
  <2>7. Nothing \in View
    BY DEF Nothing, View
  <2> HIDE DEF n
  <2>8. QED
    BY ONLY <1>1, <1>2, <2>1, <2>2, <2>3, <2>4, <2>5, <2>6, <2>7, k \in Key, p \in Panel, JoinedKeeps
<1>4. ASSUME Join(p, k) PROVE IInv'
  <2> DEFINE w == StoppedShared({p})[k]
             W == StoppedWatch({p})
             n == [W[w] EXCEPT !.panels = @ \cup {p}]
             v == Replay(w)
  <2>1. /\ w # NoWatcher
        /\ watch' = [W EXCEPT ![w].panels = @ \cup {p}]
        /\ shared' = StoppedShared({p})
        /\ handle' = [handle EXCEPT ![p] = w]
        /\ view' = [view EXCEPT ![p] = v]
    BY <1>4 DEF Join
  <2>2. w \in Watcher /\ watch[w].key = k /\ W[w].pc # "stopped"
    BY ONLY <1>2, <2>1, k \in Key, StoppedFacts
  <2>3. W \in [Watcher -> Watch] /\ StoppedShared({p}) \in [Key -> Watcher \cup {NoWatcher}]
    BY ONLY <1>2, StoppedFacts
  <2>4. W = StoppedWatch({p})
    OBVIOUS
  <2> HIDE DEF w, W
  <2>5. /\ W[w].key = watch[w].key
        /\ W[w].rv <= Len(log[watch[w].key])
        /\ W[w].fatal <=> W[w].pc = "fatal"
        /\ Running(w)
        /\ W[w].panels = watch[w].panels \ {p}
        /\ W[w].items = watch[w].items /\ W[w].rv = watch[w].rv /\ W[w].pc = watch[w].pc
        /\ W[w].ready = watch[w].ready /\ W[w].fatal = watch[w].fatal
    <3> DEFINE P == {p}
    <3>1. IInv /\ P \in SUBSET Panel /\ w \in Watcher /\ W = StoppedWatch(P)
          /\ StoppedWatch(P)[w].pc # "stopped"
      BY ONLY <1>2, <2>2, <2>4
    <3> HIDE DEF P
    <3>2. /\ Running(w)
          /\ StoppedWatch(P)[w].key = watch[w].key
          /\ StoppedWatch(P)[w].rv <= Len(log[watch[w].key])
          /\ StoppedWatch(P)[w].fatal <=> StoppedWatch(P)[w].pc = "fatal"
          /\ StoppedWatch(P)[w].panels = watch[w].panels \ P
          /\ StoppedWatch(P)[w].items = watch[w].items
          /\ StoppedWatch(P)[w].rv = watch[w].rv
          /\ StoppedWatch(P)[w].pc = watch[w].pc
          /\ StoppedWatch(P)[w].ready = watch[w].ready
          /\ StoppedWatch(P)[w].fatal = watch[w].fatal
      BY ONLY <3>1, Survivor
    <3>3. QED BY ONLY <3>1, <3>2 DEF P
  <2>6. /\ n \in Watch /\ n.panels = watch[w].panels \cup {p} /\ n.key = k
        /\ n.rv = watch[w].rv /\ n.fatal = watch[w].fatal /\ n.pc = watch[w].pc
        /\ n.items = watch[w].items /\ n.ready = watch[w].ready
    BY ONLY <2>2, <2>3, <2>5, p \in Panel DEF Watch
  <2>7. /\ watch' = [W EXCEPT ![w] = n] /\ shared' = [StoppedShared({p}) EXCEPT ![k] = w]
    BY ONLY <2>1, <2>2, <2>3, k \in Key DEF w
  <2> HIDE DEF n, v
  <2>8. watch[w].panels = {q \in Panel : Subscribed(q) /\ handle[q] = w}
    BY ONLY <1>2, <2>2, <2>5 DEF IInv, OneWatchPerKey
  <2>9. n.panels = {q \in Panel \ {p} : Subscribed(q) /\ handle[q] = w} \cup {p}
    BY ONLY <2>6, <2>8, p \in Panel
  <2>10. n.pc \in {"dial", "stream"} => n.ready
    BY ONLY <1>2, <2>2, <2>6 DEF IInv, Steady
  <2>11. n.ready =>
           /\ ~n.fatal => n.items = World(k, n.rv)
           /\ \A q \in watch[w].panels : view[q] = IF n.fatal THEN Refusal ELSE List(n.items)
           /\ v = IF n.fatal THEN Refusal ELSE List(n.items)
    BY ONLY <1>2, <2>2, <2>5, <2>6 DEF IInv, SameView, v, Replay
  <2>12. n.ready => \A q \in n.panels : view'[q] = IF n.fatal THEN Refusal ELSE List(n.items)
    BY ONLY <1>2, <2>1, <2>6, <2>8, <2>11, p \in Panel
  <2>13. v \in View
    BY ONLY <1>2, <2>2 DEF v, Replay, Nothing, Refusal, List, View, Watch
  <2>14. n.pc # "stopped" /\ n.rv <= Len(log[k]) /\ (n.fatal <=> n.pc = "fatal")
    BY ONLY <2>2, <2>5, <2>6 DEF Running
  <2>15. QED
    <3>1. StoppedShared({p})[k] \in {w, NoWatcher}
      BY DEF w
    <3>3. n.ready /\ ~n.fatal => n.items = World(k, n.rv)
      BY ONLY <2>11
    <3>4. QED
      BY ONLY <1>1, <1>2, <2>1, <2>2, <2>6, <2>7, <2>9, <2>10, <2>12, <2>13, <2>14, <2>4, <3>1,
              <3>3, k \in Key, p \in Panel, JoinedKeeps
<1>5. QED BY <1>3, <1>4 DEF Subscribe

-------------------------------------------------------------------------------
(* The loop of a watch *)

\* A running watch goes on: its panels stay, and show what it has if it has it.
LEMMA LoopKeeps ==
  ASSUME IInv, NEW w \in Watcher, Running(w), NEW n \in Watch,
         watch' = [watch EXCEPT ![w] = n], UNCHANGED loopFrame, faults' \in Nat,
         view' \in [Panel -> View],
         \A q \in Panel \ watch[w].panels : view'[q] = view[q],
         n.key = watch[w].key, n.panels = watch[w].panels, n.pc # "stopped",
         n.fatal <=> n.pc = "fatal", n.pc \in {"dial", "stream"} => n.ready,
         n.rv <= Len(log[n.key]),
         n.ready /\ ~n.fatal => n.items = World(n.key, n.rv),
         n.ready => \A q \in n.panels : view'[q] = IF n.fatal THEN Refusal ELSE List(n.items)
  PROVE  IInv'
<1>1. /\ watch \in [Watcher -> Watch] /\ shared \in [Key -> Watcher \cup {NoWatcher}]
      /\ handle \in [Panel -> Watcher \cup {NoWatcher}]
  BY DEF IInv, TypeOK, Watch, Pc
<1>2. /\ open' = open /\ handle' = handle /\ spent' = spent /\ shared' = shared
      /\ strayed' = strayed /\ log' = log /\ refused' = refused /\ bad' = bad
  BY DEF loopFrame, cluster
<1>3. /\ watch' \in [Watcher -> Watch] /\ watch'[w] = n /\ n.pc # "stopped"
      /\ n.key = watch[w].key /\ n.panels = watch[w].panels
      /\ \A w1 \in Watcher \ {w} : watch'[w1] = watch[w1]
  BY <1>1
<1>4. \A w1 \in Watcher : Running(w1)' <=> Running(w1)
  BY <1>3 DEF Running
<1>5. \A w1 \in Watcher : watch'[w1].panels = watch[w1].panels /\ watch'[w1].key = watch[w1].key
  BY <1>3
<1>6. \A p \in Panel : Subscribed(p)' <=> Subscribed(p)
  BY <1>2 DEF Subscribed
<1>7. TypeOK'
  <2>1. \A w1 \in Watcher : watch'[w1].fatal <=> watch'[w1].pc = "fatal"
    BY <1>3 DEF IInv, TypeOK
  <2>2. watch' \in [Watcher -> Watch] /\ view' \in [Panel -> View] /\ faults' \in Nat
    BY <1>3
  <2>3. TypeOK
    BY DEF IInv
  <2>4. QED BY ONLY <1>2, <2>1, <2>2, <2>3 DEF TypeOK, Watch, View, Pc
<1>8. OneWatchPerKey'
  <2>1. OneWatchPerKey
    BY DEF IInv
  <2>2. \A p \in Panel : Subscribed(p)' => Running(handle[p])'
    BY ONLY <1>1, <1>2, <1>4, <1>6, <2>1 DEF OneWatchPerKey, Subscribed
  <2>3. \A w1 \in Watcher : Running(w1)' =>
          /\ watch'[w1].panels # {}
          /\ watch'[w1].panels = {p \in Panel : Subscribed(p)' /\ handle'[p] = w1}
          /\ strayed' \/ shared'[watch'[w1].key] = w1
    BY ONLY <1>2, <1>4, <1>5, <1>6, <2>1 DEF OneWatchPerKey
  <2>4. \A k \in Key : shared'[k] # NoWatcher => Running(shared[k])'
    BY ONLY <1>1, <1>2, <1>4, <2>1 DEF OneWatchPerKey
  <2>5. bad' = 0 => ~strayed'
    BY ONLY <1>2, <2>1 DEF OneWatchPerKey
  <2>6. QED BY ONLY <2>2, <2>3, <2>4, <2>5 DEF OneWatchPerKey
<1>9. Steady'
  <2>1. Steady
    BY DEF IInv
  <2>2. ASSUME NEW w1 \in Watcher
        PROVE  /\ watch'[w1].pc \in {"dial", "stream"} => watch'[w1].ready
               /\ watch'[w1].rv <= Len(log'[watch'[w1].key])
               /\ ~Running(w1)' => watch'[w1].panels = {}
    <3>1. CASE w1 = w
      BY <1>2, <1>3, <3>1 DEF Running
    <3>2. CASE w1 # w
      BY ONLY <1>2, <1>3, <1>4, <2>1, <2>2, <3>2 DEF Steady
    <3>3. QED BY <3>1, <3>2
  <2>3. \A k \in Key : shared'[k] # NoWatcher => watch'[shared'[k]].key = k
    BY ONLY <1>1, <1>2, <1>5, <2>1 DEF Steady
  <2>4. bad' = 0 => spent' = {}
    BY ONLY <1>2, <2>1 DEF Steady
  <2>5. QED BY ONLY <2>2, <2>3, <2>4 DEF Steady
<1>10. SameView'
  <2>1. SUFFICES ASSUME NEW w1 \in Watcher, Running(w1)', watch'[w1].ready
                 PROVE  /\ ~watch'[w1].fatal => watch'[w1].items = World(watch[w1].key, watch[w1].rv)'
                        /\ \A q \in watch'[w1].panels :
                             view'[q] = IF watch'[w1].fatal THEN Refusal ELSE List(watch'[w1].items)
    BY DEF SameView, Refusal, List
  <2>2. World(watch[w1].key, watch[w1].rv)' = World(watch'[w1].key, watch'[w1].rv)
    BY ONLY <1>2 DEF World
  <2>3. CASE w1 = w
    BY <1>3, <2>1, <2>2, <2>3
  <2>4. CASE w1 # w
    <3>1. watch'[w1] = watch[w1] /\ Running(w1)
      BY ONLY <1>3, <1>4, <2>1, <2>4
    <3>2. /\ ~watch[w1].fatal => watch[w1].items = World(watch[w1].key, watch[w1].rv)
          /\ \A q \in watch[w1].panels :
               view[q] = IF watch[w1].fatal THEN Refusal ELSE List(watch[w1].items)
      BY <2>1, <3>1 DEF IInv, SameView
    <3>3. /\ watch[w1].panels = {p \in Panel : Subscribed(p) /\ handle[p] = w1}
          /\ watch[w].panels = {p \in Panel : Subscribed(p) /\ handle[p] = w}
      BY <3>1 DEF IInv, OneWatchPerKey
    <3>4. \A q \in watch[w1].panels : view'[q] = view[q]
      BY <2>4, <3>3
    <3>5. QED BY ONLY <2>2, <3>1, <3>2, <3>4
  <2>5. QED BY <2>3, <2>4
<1>11. QED BY <1>7, <1>8, <1>9, <1>10 DEF IInv

\* The loop moves on without a message to its panels.
LEMMA GotoKeeps ==
  ASSUME IInv, NEW w \in Watcher, NEW pc \in {"list", "dial", "stream", "backoff", "hung"},
         watch[w].pc \in {"list", "dial", "stream", "backoff", "hung"},
         pc \in {"dial", "stream"} => watch[w].ready,
         Goto(w, pc), UNCHANGED loopFrame, UNCHANGED view, faults' \in Nat
  PROVE  IInv'
<1> DEFINE n == [watch[w] EXCEPT !.pc = pc]
<1>1. watch[w] \in Watch /\ watch \in [Watcher -> Watch] /\ view' \in [Panel -> View]
      /\ Running(w) /\ (watch[w].fatal <=> watch[w].pc = "fatal")
  BY DEF IInv, TypeOK, Watch, View, Pc, Running
<1>2. /\ n \in Watch /\ n.pc = pc /\ n.key = watch[w].key /\ n.panels = watch[w].panels
      /\ n.items = watch[w].items /\ n.rv = watch[w].rv /\ n.ready = watch[w].ready
      /\ n.fatal = watch[w].fatal
  BY <1>1 DEF Watch, Pc
<1>3. watch' = [watch EXCEPT ![w] = n]
  BY <1>1 DEF Goto
<1> HIDE DEF n
<1>4. ~n.fatal /\ n.pc # "stopped" /\ n.pc # "fatal" /\ (n.pc \in {"dial", "stream"} => n.ready)
  BY <1>1, <1>2
<1>5. n.rv <= Len(log[n.key])
  BY <1>2 DEF IInv, Steady
<1>6. n.ready => /\ n.items = World(n.key, n.rv)
                 /\ \A q \in n.panels : view'[q] = List(n.items)
  BY <1>1, <1>2, <1>4 DEF IInv, SameView
<1>7. \A q \in Panel \ watch[w].panels : view'[q] = view[q]
  OBVIOUS
<1>8. IInv /\ UNCHANGED loopFrame /\ faults' \in Nat
  OBVIOUS
<1>9. QED BY ONLY <1>1, <1>2, <1>3, <1>4, <1>5, <1>6, <1>7, <1>8, w \in Watcher, LoopKeeps

\* The list arrives: it is the cluster's, and every panel is shown it.
LEMMA ListedKeeps ==
  ASSUME IInv, NEW w \in Watcher, Listed(w)
  PROVE  IInv'
<1> DEFINE k == watch[w].key
           now == World(k, Len(log[k]))
           n == [watch[w] EXCEPT !.items = now, !.rv = Len(log[k]), !.ready = TRUE,
                                 !.fatal = FALSE, !.pc = "dial"]
<1>1. /\ watch[w] \in Watch /\ watch \in [Watcher -> Watch] /\ view \in [Panel -> View]
      /\ log \in [Key -> Seq(Obj)] /\ k \in Key /\ faults \in Nat
  BY DEF IInv, TypeOK, Watch, View, Pc
<1>2. /\ watch' = [watch EXCEPT ![w] = n] /\ Running(w) /\ UNCHANGED loopFrame /\ faults' \in Nat
      /\ view' = [p \in Panel |-> IF p \in watch[w].panels THEN List(now) ELSE view[p]]
  BY <1>1 DEF Listed, Fanout, At, Running
<1>3. now \subseteq Obj /\ Len(log[k]) \in Nat
  BY <1>1 DEF World
<1> HIDE DEF now
<1>4. /\ n \in Watch /\ n.pc = "dial" /\ n.key = k /\ n.panels = watch[w].panels
      /\ n.items = now /\ n.rv = Len(log[k]) /\ n.ready /\ ~n.fatal
  BY <1>1, <1>3 DEF Watch, Pc
<1>5. List(now) \in View
  BY <1>3 DEF List, View
<1> HIDE DEF n
<1>6. /\ view' \in [Panel -> View]
      /\ \A q \in Panel \ watch[w].panels : view'[q] = view[q]
      /\ \A q \in n.panels : view'[q] = List(n.items)
  BY <1>1, <1>2, <1>4, <1>5 DEF Watch
<1>7. n.items = World(n.key, n.rv) /\ n.rv <= Len(log[n.key])
  BY <1>3, <1>4 DEF now
<1>8. IInv
  OBVIOUS
<1>9. QED BY ONLY <1>2, <1>4, <1>6, <1>7, <1>8, w \in Watcher, LoopKeeps

\* The list is refused: every panel is told, and the refusal remembered.
LEMMA ListRefusedKeeps ==
  ASSUME IInv, NEW w \in Watcher, ListRefused(w)
  PROVE  IInv'
<1> DEFINE n == [watch[w] EXCEPT !.ready = TRUE, !.fatal = TRUE, !.pc = "fatal"]
<1>1. /\ watch[w] \in Watch /\ watch \in [Watcher -> Watch] /\ view \in [Panel -> View]
      /\ faults \in Nat
  BY DEF IInv, TypeOK, Watch, View, Pc
<1>2. /\ watch' = [watch EXCEPT ![w] = n] /\ Running(w) /\ UNCHANGED loopFrame /\ faults' \in Nat
      /\ view' = [p \in Panel |-> IF p \in watch[w].panels THEN Refusal ELSE view[p]]
  BY <1>1 DEF ListRefused, Fanout, At, Running
<1>3. /\ n \in Watch /\ n.pc = "fatal" /\ n.key = watch[w].key /\ n.panels = watch[w].panels
      /\ n.rv = watch[w].rv /\ n.ready /\ n.fatal
  BY <1>1 DEF Watch, Pc
<1>4. Refusal \in View
  BY DEF Refusal, View
<1> HIDE DEF n
<1>5. /\ view' \in [Panel -> View]
      /\ \A q \in Panel \ watch[w].panels : view'[q] = view[q]
      /\ \A q \in n.panels : view'[q] = Refusal
  BY <1>1, <1>2, <1>3, <1>4 DEF Watch
<1>6. n.rv <= Len(log[n.key])
  BY <1>3 DEF IInv, Steady
<1>7. IInv
  OBVIOUS
<1>8. QED BY ONLY <1>2, <1>3, <1>5, <1>6, <1>7, w \in Watcher, LoopKeeps

\* An event: the copy and every panel that shows a list follow alike.
LEMMA EventKeeps ==
  ASSUME IInv, NEW w \in Watcher, Event(w)
  PROVE  IInv'
<1> DEFINE k == watch[w].key
           o == log[k][watch[w].rv + 1]
           type == EventType(k, watch[w].rv + 1)
           next == Applied(watch[w].items, type, o)
           n == [watch[w] EXCEPT !.rv = @ + 1, !.items = next]
<1>1. /\ watch[w] \in Watch /\ watch \in [Watcher -> Watch] /\ view \in [Panel -> View]
      /\ log \in [Key -> Seq(Obj)] /\ k \in Key /\ faults \in Nat /\ watch[w].rv \in Nat
      /\ watch[w].items \subseteq Obj
  BY DEF IInv, TypeOK, Watch, View, Pc
<1>2. /\ watch[w].pc = "stream" /\ watch[w].rv < Len(log[k])
      /\ watch' = [watch EXCEPT ![w] = n] /\ UNCHANGED loopFrame /\ faults' \in Nat
      /\ view' = [p \in Panel |-> IF p \in watch[w].panels
                                  THEN Shown(view[p], type, o) ELSE view[p]]
  BY <1>1 DEF Event, Fanout, At
<1>3. o \in Obj
  BY <1>1, <1>2
<1>4. ~watch[w].fatal /\ watch[w].ready /\ Running(w)
  BY <1>2 DEF IInv, TypeOK, Steady, Running
<1>5. /\ watch[w].items = World(k, watch[w].rv)
      /\ \A p \in watch[w].panels : view[p] = List(watch[w].items)
  BY <1>4 DEF IInv, SameView
<1>6. /\ Shown(List(watch[w].items), type, o) = List(next)
      /\ next = World(k, watch[w].rv + 1) /\ next \subseteq Obj
  <2>1. World(k, watch[w].rv + 1) = IF o \in World(k, watch[w].rv) THEN World(k, watch[w].rv) \ {o}
                                    ELSE World(k, watch[w].rv) \cup {o}
    BY <1>1, <1>3, WorldStep
  <2>2. type = IF o \in World(k, watch[w].rv) THEN "DELETED" ELSE "ADDED"
    BY <1>1 DEF EventType
  <2>3. next = IF o \in watch[w].items THEN watch[w].items \ {o} ELSE watch[w].items \cup {o}
    BY <1>5, <2>2 DEF Applied
  <2>4. Shown(List(watch[w].items), type, o) = List(next)
    BY DEF Shown, List, Applied
  <2> HIDE DEF o, next, type
  <2>5. next = World(k, watch[w].rv + 1)
    BY <1>5, <2>1, <2>3
  <2>6. QED BY <1>1, <1>3, <2>3, <2>4, <2>5
<1>7. \A p \in watch[w].panels : Shown(view[p], type, o) = List(next)
  BY <1>5, <1>6
<1>8. watch[w].panels \subseteq Panel
  BY <1>1 DEF Watch
<1> HIDE DEF o, next, type
<1>9. /\ n \in Watch /\ n.pc = "stream" /\ n.key = k /\ n.panels = watch[w].panels
      /\ n.items = next /\ n.rv = watch[w].rv + 1 /\ n.ready = watch[w].ready
      /\ n.fatal = watch[w].fatal
  <2> DEFINE b == watch[w]
             c == b.rv + 1
  <2>1. b \in Watch /\ b.pc = "stream" /\ c \in Nat /\ next \subseteq Obj
        /\ n = [b EXCEPT !.rv = c, !.items = next]
    BY <1>1, <1>2, <1>6
  <2> HIDE DEF b, c, n
  <2>2. /\ n \in Watch /\ n.pc = b.pc /\ n.key = b.key /\ n.panels = b.panels /\ n.items = next
        /\ n.rv = c /\ n.ready = b.ready /\ n.fatal = b.fatal
    BY ONLY <2>1 DEF Watch
  <2>3. QED BY <2>1, <2>2 DEF b, c
<1>10. List(next) \in View
  BY <1>6 DEF List, View
<1> HIDE DEF n
<1>11. \A p \in Panel : view'[p] = IF p \in watch[w].panels THEN List(next) ELSE view[p]
  BY <1>2, <1>6, <1>7
<1>12. view' \in [Panel -> View]
  <2>1. \A p \in Panel : view'[p] \in View
    BY <1>1, <1>10, <1>11
  <2>2. QED BY <1>2, <2>1
<1>13. /\ \A q \in Panel \ watch[w].panels : view'[q] = view[q]
       /\ \A q \in n.panels : view'[q] = List(n.items)
  BY <1>8, <1>9, <1>11
<1>14. n.items = World(n.key, n.rv) /\ n.rv <= Len(log[n.key])
  BY <1>1, <1>2, <1>6, <1>9
<1>15. IInv
  OBVIOUS
<1>16. QED BY ONLY <1>2, <1>4, <1>9, <1>12, <1>13, <1>14, <1>15, w \in Watcher, LoopKeeps

\* The other steps of the loop.
LEMMA MoveKeeps ==
  ASSUME IInv, NEW w \in Watcher, ListFailed(w) \/ Dialled(w) \/ StreamOver(w) \/ Wake(w)
                                     \/ Hang(w) \/ Resets(w)
  PROVE  IInv'
<1>1. faults \in Nat /\ (watch[w].pc \in {"dial", "stream"} => watch[w].ready)
  BY DEF IInv, TypeOK, Steady
<1>2. CASE ListFailed(w)
  <2>1. watch[w].pc = "list" /\ Goto(w, "backoff") /\ UNCHANGED loopFrame /\ UNCHANGED view
        /\ faults' \in Nat
    BY <1>1, <1>2 DEF ListFailed, At
  <2>2. QED BY <2>1, GotoKeeps
<1>3. CASE Dialled(w)
  <2>1. watch[w].pc = "dial" /\ UNCHANGED loopFrame /\ UNCHANGED view /\ faults' \in Nat
        /\ (Goto(w, "stream") \/ Goto(w, "list") \/ Goto(w, "backoff"))
    BY <1>1, <1>3 DEF Dialled, At
  <2>2. QED BY <1>1, <2>1, GotoKeeps
<1>4. CASE StreamOver(w)
  <2>1. watch[w].pc = "stream" /\ UNCHANGED loopFrame /\ UNCHANGED view /\ faults' \in Nat
        /\ (Goto(w, "list") \/ Goto(w, "backoff"))
    BY <1>1, <1>4 DEF StreamOver, At
  <2>2. QED BY <2>1, GotoKeeps
<1>5. CASE Wake(w)
  <2>1. watch[w].pc = "backoff" /\ UNCHANGED loopFrame /\ UNCHANGED view /\ faults' \in Nat
        /\ Goto(w, "list")
    BY <1>1, <1>5 DEF Wake, At
  <2>2. QED BY <2>1, GotoKeeps
<1>6. CASE Hang(w)
  <2>1. watch[w].pc \in {"list", "dial", "stream"} /\ Goto(w, "hung") /\ UNCHANGED loopFrame
        /\ UNCHANGED view /\ faults' \in Nat
    BY <1>1, <1>6 DEF Hang
  <2>2. QED BY <2>1, GotoKeeps
<1>7. CASE Resets(w)
  <2>1. watch[w].pc = "hung" /\ Goto(w, "backoff") /\ UNCHANGED loopFrame /\ UNCHANGED view
        /\ faults' \in Nat
    BY <1>1, <1>7 DEF Resets, At
  <2>2. QED BY <2>1, GotoKeeps
<1>8. QED BY <1>2, <1>3, <1>4, <1>5, <1>6, <1>7

-------------------------------------------------------------------------------
(* Sockets and the cluster *)

\* A socket opens, or a permission comes or goes.
LEMMA QuietKeeps ==
  ASSUME IInv, UNCHANGED <<handle, spent, watch, shared, view, log, strayed, bad>>,
         open' \subseteq Conn, refused' \subseteq Key, faults' \in Nat
  PROVE  IInv'
<1>1. TypeOK' /\ Steady'
  BY DEF IInv, TypeOK, Steady, Running
<1>2. OneWatchPerKey'
  BY DEF IInv, OneWatchPerKey, Running, Subscribed
<1>3. SameView'
  BY DEF IInv, SameView, Running, World
<1>4. QED BY <1>1, <1>2, <1>3 DEF IInv

\* The cluster changes.
LEMMA ChangeKeeps ==
  ASSUME IInv, NEW k \in Key, NEW o \in Obj, Change(k, o)
  PROVE  IInv'
<1>1. /\ log' = [log EXCEPT ![k] = Append(@, o)]
      /\ UNCHANGED <<open, handle, spent, watch, shared, strayed, view, refused, faults, bad>>
  BY DEF Change, hub
<1>2. log \in [Key -> Seq(Obj)] /\ watch \in [Watcher -> Watch]
  BY DEF IInv, TypeOK, Watch, Pc
<1>3. log' \in [Key -> Seq(Obj)]
  BY <1>1, <1>2
<1>4. TypeOK'
  BY <1>1, <1>3 DEF IInv, TypeOK
<1>5. OneWatchPerKey'
  BY <1>1 DEF IInv, OneWatchPerKey, Running, Subscribed
<1>6. ASSUME NEW w \in Watcher
      PROVE  /\ World(watch[w].key, watch[w].rv)' = World(watch[w].key, watch[w].rv)
             /\ watch'[w].rv <= Len(log'[watch'[w].key])
  <2>1. watch[w].rv \in Nat /\ watch[w].key \in Key /\ watch[w].rv <= Len(log[watch[w].key])
        /\ watch' = watch
    BY <1>1, <1>2 DEF Watch, IInv, Steady
  <2> DEFINE n == watch[w].rv
             k1 == watch[w].key
  <2>2. n \in Nat /\ k1 \in Key /\ n <= Len(log[k1]) /\ n' = n /\ k1' = k1
    BY <2>1
  <2> HIDE DEF n, k1
  <2>3. n <= Len(log'[k1]) /\ \A i \in 1..n : log'[k1][i] = log[k1][i]
    BY <1>1, <1>2, <2>2
  <2>4. \A x \in Obj : {i \in 1..n : log'[k1][i] = x} = {i \in 1..n : log[k1][i] = x}
    BY <2>3
  <2>5. World(k1, n)' = World(k1, n)
    BY <2>2, <2>4 DEF World
  <2>6. QED BY <2>1, <2>3, <2>5 DEF n, k1
<1>7. Steady'
  BY <1>1, <1>6 DEF IInv, Steady, Running
<1>8. SameView'
  <2>1. SUFFICES ASSUME NEW w \in Watcher, Running(w), watch[w].ready
                 PROVE  /\ ~watch[w].fatal => watch[w].items = World(watch[w].key, watch[w].rv)'
                        /\ \A q \in watch[w].panels :
                             view[q] = IF watch[w].fatal THEN Refusal ELSE List(watch[w].items)
    BY <1>1 DEF SameView, Refusal, List, Running
  <2>2. QED BY <1>6, <2>1 DEF IInv, SameView
<1>9. QED BY <1>4, <1>5, <1>7, <1>8 DEF IInv

\* At the start nobody watches.
LEMMA InitIInv == Init => IInv
<1> SUFFICES ASSUME Init PROVE IInv
  OBVIOUS
<1>1. PICK k \in Key : watch = [w \in Watcher |-> Over(k)]
  BY LiveHubAssumption DEF Init
<1>2. /\ Over(k) \in Watch /\ Over(k).pc = "stopped" /\ ~Over(k).fatal /\ Over(k).rv = 0
      /\ Over(k).key = k /\ Over(k).panels = {}
  BY DEF Over, Listing, Watch, Pc
<1>3. \A w \in Watcher : watch[w] = Over(k) /\ ~Running(w)
  BY <1>1, <1>2 DEF Running
<1>4. TypeOK
  <2>1. view \in [Panel -> View]
    BY DEF Init, Nothing, View
  <2>2. watch \in [Watcher -> Watch] /\ \A w \in Watcher : watch[w].fatal <=> watch[w].pc = "fatal"
    BY <1>1, <1>2
  <2>3. <<>> \in Seq(Obj)
    OBVIOUS
  <2>4. log \in [Key -> Seq(Obj)]
    BY <2>3 DEF Init
  <2>5. /\ open \subseteq Conn /\ handle \in [Panel -> Watcher \cup {NoWatcher}]
        /\ spent \subseteq {p \in Panel : handle[p] # NoWatcher}
        /\ shared \in [Key -> Watcher \cup {NoWatcher}] /\ refused \subseteq Key
        /\ strayed \in BOOLEAN /\ {faults, bad} \subseteq Nat
    <3>1. open \subseteq Conn /\ spent \subseteq {p \in Panel : handle[p] # NoWatcher}
      BY DEF Init
    <3>2. /\ handle \in [Panel -> Watcher \cup {NoWatcher}]
          /\ shared \in [Key -> Watcher \cup {NoWatcher}]
      BY DEF Init
    <3>3. refused \subseteq Key /\ strayed \in BOOLEAN
      BY DEF Init
    <3>4. {faults, bad} \subseteq Nat
      BY DEF Init
    <3>5. QED BY ONLY <3>1, <3>2, <3>3, <3>4
  <2>6. QED BY ONLY <2>1, <2>2, <2>4, <2>5 DEF TypeOK, View, Watch, Pc
<1>5. OneWatchPerKey
  BY <1>3 DEF Init, OneWatchPerKey, Subscribed
<1>6. SameView
  BY <1>3 DEF SameView
<1>7. Steady
  <2>1. Len(log[k]) = 0
    BY DEF Init
  <2>2. /\ \A k1 \in Key : shared[k1] = NoWatcher
        /\ spent = {}
    BY DEF Init
  <2>3. \A w \in Watcher : watch[w].pc = "stopped" /\ watch[w].rv = 0 /\ watch[w].key = k
                           /\ watch[w].panels = {}
    BY <1>2, <1>3
  <2>4. QED BY ONLY <1>3, <2>1, <2>2, <2>3 DEF Steady
<1>8. QED BY <1>4, <1>5, <1>6, <1>7 DEF IInv

\* Every step keeps the invariant.
LEMMA NextIInv == IInv /\ [Next]_vars => IInv'
<1> SUFFICES ASSUME IInv, [Next]_vars PROVE IInv'
  OBVIOUS
<1>1. open \subseteq Conn /\ refused \subseteq Key /\ faults \in Nat
  BY DEF IInv, TypeOK
<1>2. CASE UNCHANGED vars
  BY <1>1, <1>2, QuietKeeps DEF vars, hub, cluster
<1>3. ASSUME NEW c \in Conn, Connect(c) PROVE IInv'
  BY <1>1, <1>3, QuietKeeps DEF Connect, cluster
<1>4. ASSUME NEW c \in Conn, Teardown(c) PROVE IInv'
  BY <1>4, TeardownKeeps
<1>5. ASSUME NEW p \in Panel, NEW k \in Key, Subscribe(p, k) PROVE IInv'
  BY <1>5, SubscribeKeeps
<1>6. ASSUME NEW p \in Panel, SubscribeBadly(p) \/ Unsubscribe(p) PROVE IInv'
  BY <1>6, SubscribeBadlyKeeps, UnsubscribeKeeps
<1>7. ASSUME NEW w \in Watcher, Loop(w) \/ ListFailed(w) \/ StreamOver(w)
                                \/ Hang(w) \/ Resets(w) PROVE IInv'
  BY <1>7, ListedKeeps, ListRefusedKeeps, EventKeeps, MoveKeeps DEF Loop
<1>8. ASSUME NEW k \in Key, Turn(k) PROVE IInv'
  BY <1>1, <1>8, QuietKeeps DEF Turn, hub
<1>9. ASSUME NEW k \in Key, NEW o \in Obj, Change(k, o) PROVE IInv'
  BY <1>9, ChangeKeeps
<1>10. QED BY <1>2, <1>3, <1>4, <1>5, <1>6, <1>7, <1>8, <1>9 DEF Next

-------------------------------------------------------------------------------
(* The results *)

\* The inductive invariant: who has a watch, what it remembers, what is shown.
THEOREM Invariance == Spec => []IInv
BY InitIInv, NextIInv, PTL DEF Spec

\* The variables have their types, and a remembered refusal is the end of a loop.
THEOREM TypeCorrect == Spec => []TypeOK
<1>1. IInv => TypeOK
  BY DEF IInv
<1>2. QED BY <1>1, Invariance, PTL

\* A watch runs exactly while panels have it, and a key has one, which the map
\* knows, unless a handle was stopped twice.
THEOREM WatchedOnce == Spec => []OneWatchPerKey
<1>1. IInv => OneWatchPerKey
  BY DEF IInv
<1>2. QED BY <1>1, Invariance, PTL

\* All panels of a watch show what it remembers, and that is the cluster's list.
THEOREM EverybodySeesTheSame == Spec => []SameView
<1>1. IInv => SameView
  BY DEF IInv
<1>2. QED BY <1>1, Invariance, PTL

===============================================================================
