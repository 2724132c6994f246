------------------------------- MODULE LiveHub --------------------------------
(* The server side of /api/live for the topic k8s (server/live.ts): every     *)
(* panel of every socket that asks for the same list shares one watch of the  *)
(* apiserver.  The watch keeps the list it last saw, so that a panel that     *)
(* joins later is painted from memory, and ends with its last panel.          *)
(*                                                                            *)
(* A panel is a subscription id on a socket.  A Watcher is one K8sWatcher     *)
(* object with its loop; k8sWatchers, the map by key, is `shared`.  JavaScript *)
(* runs a handler, or the loop between two awaits, as one step.               *)
EXTENDS Naturals, FiniteSets, Sequences

CONSTANTS
  Conn,        \* sockets
  Panel,       \* pairs of a socket and a subscription id on it
  Key,         \* user | cluster | path | selectors
  Obj,         \* objects of the lists
  Watcher,     \* names for K8sWatcher objects, reused when nothing refers to one
  NoWatcher,   \* undefined
  MaxSubs,     \* MAX_SUBS: subscriptions of one socket
  MaxChanges,  \* bound: changes of one list
  MaxFaults,   \* bound: permissions that come or go, lists that fail otherwise, and
               \* connections to the apiserver that fall silent
  MaxBad       \* bound: subscriptions the server cannot make

ASSUME LiveHubAssumption ==
  /\ \A p \in Panel : p[1] \in Conn
  /\ Key # {}
  /\ IsFiniteSet(Panel) /\ IsFiniteSet(Watcher)
  /\ NoWatcher \notin Watcher
  /\ Cardinality(Watcher) >= Cardinality(Panel)
  /\ {MaxSubs, MaxChanges, MaxFaults, MaxBad} \subseteq Nat

VARIABLES
  open,     \* sockets that are open
  handle,   \* per panel: the watch its handle in `subs` would stop, if it has one
  spent,    \* panels whose handle was stopped and is still in `subs`
  watch,    \* the K8sWatcher objects
  shared,   \* k8sWatchers
  view,     \* per panel: what the browser shows
  log,      \* the cluster: per list, the objects that came or went, in order
  refused,  \* the cluster: lists that answer 401, 403 or 404
  strayed,  \* a second stop has taken the map entry of another watch
  faults, bad

hub == <<open, handle, spent, watch, shared, strayed>>
cluster == <<log, refused>>
vars == <<hub, view, cluster, faults, bad>>

\* The list after its first n changes: who came an odd number of times is in it.
World(k, n) ==
  {o \in Obj : Cardinality({i \in 1..n : log[k][i] = o}) % 2 = 1}

Nothing == [shows |-> "nothing", items |-> {}]
Refusal == [shows |-> "refusal", items |-> {}]
List(items) == [shows |-> "list", items |-> items]

Listing(k, panels) ==
  [key |-> k, pc |-> "list", panels |-> panels, items |-> {}, rv |-> 0,
   ready |-> FALSE, fatal |-> FALSE]
Over(k) == [Listing(k, {}) EXCEPT !.pc = "stopped"]

Running(w) == watch[w].pc # "stopped"
Subscribed(p) == handle[p] # NoWatcher /\ p \notin spent
PanelsOf(c) == {p \in Panel : p[1] = c}

Init ==
  /\ open = {}
  /\ handle = [p \in Panel |-> NoWatcher]
  /\ spent = {}
  /\ watch = [w \in Watcher |-> Over(CHOOSE k \in Key : TRUE)]
  /\ shared = [k \in Key |-> NoWatcher]
  /\ view = [p \in Panel |-> Nothing]
  /\ log = [k \in Key |-> <<>>]
  /\ refused \in SUBSET Key
  /\ strayed = FALSE
  /\ faults = 0 /\ bad = 0

-------------------------------------------------------------------------------
(* Stopping handles.  A handle takes its panel out of the watch and, when no  *)
(* panel is left, stops the watch: the loop ends and the key leaves the map.  *)

Ending(P) ==
  {w \in Watcher : (\E p \in P : handle[p] = w) /\ watch[w].panels \subseteq P}

StoppedWatch(P) ==
  [w \in Watcher |->
     IF w \in Ending(P) THEN Over(watch[w].key)
     ELSE [watch[w] EXCEPT !.panels = @ \ P]]

\* Mutant: a watch that ends does not leave the map.
StoppedSharedKept(P) == shared

StoppedShared(P) ==
  [k \in Key |-> IF \E w \in Ending(P) : watch[w].key = k THEN NoWatcher ELSE shared[k]]

Strays(P) ==
  \E w \in Ending(P) : shared[watch[w].key] \notin Ending(P) \cup {NoWatcher}

Stop(P) ==
  /\ watch' = StoppedWatch(P)
  /\ shared' = StoppedShared(P)
  /\ strayed' = (strayed \/ Strays(P))
  /\ view' = [p \in Panel |-> IF p \in P THEN Nothing ELSE view[p]]

-------------------------------------------------------------------------------
(* The socket *)

Connect(c) ==
  /\ c \notin open
  /\ open' = open \cup {c}
  /\ UNCHANGED <<handle, spent, watch, shared, view, cluster, strayed, faults, bad>>

\* onclose and onerror: every handle is stopped.
Teardown(c) ==
  /\ c \in open
  /\ open' = open \ {c}
  /\ Stop(PanelsOf(c))
  /\ handle' = [p \in Panel |-> IF p \in PanelsOf(c) THEN NoWatcher ELSE handle[p]]
  /\ spent' = spent \ PanelsOf(c)
  /\ UNCHANGED <<cluster, faults, bad>>

HasRoom(c) == Cardinality({p \in PanelsOf(c) : handle[p] # NoWatcher}) < MaxSubs

\* Mutant: the answer that is in memory is not replayed to a panel that joins.
ReplayNothing(w) == Nothing

\* What a panel that joins a watch is given at once.
Replay(w) ==
  IF ~watch[w].ready THEN Nothing
  ELSE IF watch[w].fatal THEN Refusal ELSE List(watch[w].items)

\* watchK8s, a key nobody watches: a new watch with this panel, and its loop.
\* An older handle of the same id is stopped first.
Begin(p, k) ==
  LET w == CHOOSE w \in Watcher : \A q \in Panel \ {p} : handle[q] # w IN
  /\ StoppedShared({p})[k] = NoWatcher
  /\ watch' = [StoppedWatch({p}) EXCEPT ![w] = Listing(k, {p})]
  /\ shared' = [StoppedShared({p}) EXCEPT ![k] = w]
  /\ handle' = [handle EXCEPT ![p] = w]
  /\ view' = [view EXCEPT ![p] = Nothing]

\* watchK8s, a key that is watched: the panel joins and is painted from memory.
Join(p, k) ==
  LET w == StoppedShared({p})[k] IN
  /\ w # NoWatcher
  /\ watch' = [StoppedWatch({p}) EXCEPT ![w].panels = @ \cup {p}]
  /\ shared' = StoppedShared({p})
  /\ handle' = [handle EXCEPT ![p] = w]
  /\ view' = [view EXCEPT ![p] = Replay(w)]

\* onmessage, op "sub".
Subscribe(p, k) ==
  /\ p[1] \in open
  /\ HasRoom(p[1])
  /\ Begin(p, k) \/ Join(p, k)
  /\ strayed' = (strayed \/ Strays({p}))
  /\ spent' = spent \ {p}
  /\ UNCHANGED <<open, cluster, faults, bad>>

\* onmessage, op "sub" with a topic or parameters the server refuses: the older
\* handle of the id has been stopped by then, and stays in `subs`.
SubscribeBadly(p) ==
  /\ p[1] \in open
  /\ HasRoom(p[1])
  /\ handle[p] # NoWatcher
  /\ bad < MaxBad
  /\ bad' = bad + 1
  /\ Stop({p})
  /\ spent' = spent \cup {p}
  /\ UNCHANGED <<open, handle, cluster, faults>>

\* onmessage, op "unsub".
Unsubscribe(p) ==
  /\ p[1] \in open
  /\ handle[p] # NoWatcher
  /\ Stop({p})
  /\ handle' = [handle EXCEPT ![p] = NoWatcher]
  /\ spent' = spent \ {p}
  /\ UNCHANGED <<open, cluster, faults, bad>>

-------------------------------------------------------------------------------
(* The loop of a watch *)

At(w, pc) == watch[w].pc = pc

\* Every panel of the watch shows what it makes of the message.
Fanout(w, shown) ==
  view' = [p \in Panel |-> IF p \in watch[w].panels THEN shown[p] ELSE view[p]]

Goto(w, pc) == watch' = [watch EXCEPT ![w].pc = pc]

loopFrame == <<open, handle, spent, shared, strayed, cluster, bad>>

\* The last page of the list arrives.
Listed(w) ==
  LET k == watch[w].key
      now == World(k, Len(log[k])) IN
  /\ At(w, "list") /\ k \notin refused
  /\ watch' = [watch EXCEPT ![w].items = now, ![w].rv = Len(log[k]), ![w].ready = TRUE,
                            ![w].fatal = FALSE, ![w].pc = "dial"]
  /\ Fanout(w, [p \in Panel |-> List(now)])
  /\ UNCHANGED <<loopFrame, faults>>

\* Mutant: a refusal is remembered, and the loop asks again all the same.
ListRefusedRetries(w) ==
  /\ At(w, "list") /\ watch[w].key \in refused
  /\ watch' = [watch EXCEPT ![w].ready = TRUE, ![w].fatal = TRUE, ![w].pc = "backoff"]
  /\ Fanout(w, [p \in Panel |-> Refusal])
  /\ UNCHANGED <<loopFrame, faults>>

\* The list answers 401, 403 or 404: remembered, and the loop returns.
ListRefused(w) ==
  /\ At(w, "list") /\ watch[w].key \in refused
  /\ watch' = [watch EXCEPT ![w].ready = TRUE, ![w].fatal = TRUE, ![w].pc = "fatal"]
  /\ Fanout(w, [p \in Panel |-> Refusal])
  /\ UNCHANGED <<loopFrame, faults>>

\* The list fails in another way: the loop waits and lists again.
ListFailed(w) ==
  /\ At(w, "list") /\ faults < MaxFaults
  /\ faults' = faults + 1
  /\ Goto(w, "backoff")
  /\ UNCHANGED <<loopFrame, view>>

\* The watch request is answered: with a stream, with 410, or with a refusal.
Dialled(w) ==
  /\ At(w, "dial")
  /\ \/ watch[w].key \notin refused /\ (Goto(w, "stream") \/ Goto(w, "list"))
     \/ watch[w].key \in refused /\ Goto(w, "backoff")
  /\ UNCHANGED <<loopFrame, view, faults>>

\* The type of the event by which the n-th change of a list is told.
EventType(k, n) == IF log[k][n] \in World(k, n - 1) THEN "DELETED" ELSE "ADDED"

\* Mutant: a deleted object stays in the copy the watch keeps.
AppliedKept(items, type, o) == items \cup {o}

\* What one event of the stream does to the copy of the list.
Applied(items, type, o) == IF type = "DELETED" THEN items \ {o} ELSE items \cup {o}

\* ... and to a panel that shows one.
Shown(v, type, o) ==
  IF v.shows # "list" THEN v
  ELSE List(IF type = "DELETED" THEN v.items \ {o} ELSE v.items \cup {o})

\* An ADDED or DELETED event arrives: the copy follows, then every panel.
Event(w) ==
  LET k == watch[w].key
      o == log[k][watch[w].rv + 1]
      type == EventType(k, watch[w].rv + 1) IN
  /\ At(w, "stream") /\ watch[w].rv < Len(log[k])
  /\ watch' = [watch EXCEPT ![w].rv = @ + 1, ![w].items = Applied(@, type, o)]
  /\ Fanout(w, [p \in Panel |-> Shown(view[p], type, o)])
  /\ UNCHANGED <<loopFrame, faults>>

\* The stream ends cleanly (list again at once) or breaks (wait, then list).
StreamOver(w) ==
  /\ At(w, "stream")
  /\ Goto(w, "list") \/ Goto(w, "backoff")
  /\ UNCHANGED <<loopFrame, view, faults>>

Wake(w) ==
  /\ At(w, "backoff")
  /\ Goto(w, "list")
  /\ UNCHANGED <<loopFrame, view, faults>>

\* The apiserver falls silent in the middle of a call: no call of the loop has
\* a time limit, because each passes a signal of its own, and nothing watches
\* over the read of the stream.
Hang(w) ==
  /\ watch[w].pc \in {"list", "dial", "stream"} /\ faults < MaxFaults
  /\ faults' = faults + 1
  /\ Goto(w, "hung")
  /\ UNCHANGED <<loopFrame, view>>

\* The system underneath may give the silent connection up; it need not.
Resets(w) ==
  /\ At(w, "hung")
  /\ Goto(w, "backoff")
  /\ UNCHANGED <<loopFrame, view, faults>>

-------------------------------------------------------------------------------
(* The cluster *)

Change(k, o) ==
  /\ Len(log[k]) < MaxChanges
  /\ log' = [log EXCEPT ![k] = Append(@, o)]
  /\ UNCHANGED <<hub, view, refused, faults, bad>>

\* A permission or a definition comes or goes.
Turn(k) ==
  /\ faults < MaxFaults
  /\ faults' = faults + 1
  /\ refused' = IF k \in refused THEN refused \ {k} ELSE refused \cup {k}
  /\ UNCHANGED <<hub, view, log, bad>>

Loop(w) == Listed(w) \/ ListRefused(w) \/ Dialled(w) \/ Event(w) \/ Wake(w)

Next ==
  \/ \E c \in Conn : Connect(c) \/ Teardown(c)
  \/ \E p \in Panel : (\E k \in Key : Subscribe(p, k)) \/ SubscribeBadly(p) \/ Unsubscribe(p)
  \/ \E w \in Watcher : Loop(w) \/ ListFailed(w) \/ StreamOver(w) \/ Hang(w) \/ Resets(w)
  \/ \E k \in Key : Turn(k) \/ \E o \in Obj : Change(k, o)

Spec == Init /\ [][Next]_vars

\* Timers fire, and the apiserver answers or the connection breaks, unless it has
\* fallen silent: that is Hang, which nothing obliges to end.
FairSpec == Spec /\ \A w \in Watcher : WF_vars(Loop(w))

-------------------------------------------------------------------------------
(* Properties *)

\* The variables have their types; a refusal that is remembered is the end of
\* its loop (live.ts:288-296), and is the only way a loop ends by itself.
TypeOK ==
  /\ open \subseteq Conn
  /\ handle \in [Panel -> Watcher \cup {NoWatcher}]
  /\ spent \subseteq {p \in Panel : handle[p] # NoWatcher}
  /\ watch \in [Watcher -> [key : Key, panels : SUBSET Panel, items : SUBSET Obj,
                            rv : Nat, ready : BOOLEAN, fatal : BOOLEAN,
                            pc : {"list", "dial", "stream", "backoff", "hung", "fatal", "stopped"}]]
  /\ \A w \in Watcher : watch[w].fatal <=> watch[w].pc = "fatal"
  /\ shared \in [Key -> Watcher \cup {NoWatcher}]
  /\ view \in [Panel -> [shows : {"nothing", "list", "refusal"}, items : SUBSET Obj]]
  /\ log \in [Key -> Seq(Obj)]
  /\ refused \subseteq Key
  /\ strayed \in BOOLEAN
  /\ {faults, bad} \subseteq Nat

\* Every panel of a watch that has an answer shows that answer, and a list is
\* the cluster's list as of the version the watch stands at: whether the panel
\* was there from the start, joined later and was painted from memory, or saw
\* the stream break and the list come again (live.ts:308-312, :352-357, :377-389).
SameView ==
  \A w \in Watcher : Running(w) /\ watch[w].ready =>
    /\ ~watch[w].fatal => watch[w].items = World(watch[w].key, watch[w].rv)
    /\ \A p \in watch[w].panels :
         view[p] = IF watch[w].fatal THEN Refusal ELSE List(watch[w].items)

\* A subscribed panel is in a running watch of its own, a running watch has
\* panels, and one key has one watch, which the map knows: nothing watches for
\* nobody, and nobody waits for a watch that has ended (live.ts:233-258,
\* :394-400).  Only a handle that was stopped twice can part the map from the
\* watch it should hold.
OneWatchPerKey ==
  /\ \A p \in Panel : Subscribed(p) => Running(handle[p])
  /\ \A w \in Watcher : Running(w) =>
       /\ watch[w].panels # {}
       /\ watch[w].panels = {p \in Panel : Subscribed(p) /\ handle[p] = w}
       /\ strayed \/ shared[watch[w].key] = w
  /\ \A k \in Key : shared[k] # NoWatcher => Running(shared[k])
  /\ bad = 0 => ~strayed

\* A panel that stays is shown the cluster's present list again and again, or
\* has been told that the list is refused, unless the page keeps subscribing it
\* anew, or the apiserver has fallen silent on the watch the panel is in: that
\* watch waits, and the panels that join it wait with it (live.ts:262-264, :328,
\* :360-370).
PanelsFollow ==
  \A p \in Panel :
    \/ []<>(\/ ~Subscribed(p)
           \/ view[p].shows = "refusal"
           \/ At(handle[p], "hung")
           \/ LET k == watch[handle[p]].key IN view[p] = List(World(k, Len(log[k]))))
    \/ []<><<\E k \in Key : Subscribe(p, k)>>_vars

===============================================================================
