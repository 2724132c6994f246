------------------------------ MODULE LiveClient ------------------------------
(* The browser side of /api/live (shell-ui/live.ts, class LiveClient): one    *)
(* object per tab that keeps a WebSocket open while somebody is subscribed,   *)
(* resubscribes after a reconnect, closes the socket of a tab that is hidden  *)
(* for long or has no subscriber, and tells the pages whether they must poll. *)
(*                                                                            *)
(* JavaScript runs one handler at a time: every handler and every timer is    *)
(* one step, and the events of the browser come in any order.  `this.ws` is   *)
(* `cur`; a socket the client no longer points to still has its handlers.     *)
EXTENDS Naturals, FiniteSets

CONSTANTS
  Sub,        \* subscriptions, each made once (the code numbers them)
  Socket,     \* bound: WebSocket objects that exist at once
  NoSocket,   \* null
  MaxVisits,  \* bound: the tab is hidden, or nudged by focus or the network
  MaxFaults   \* bound: connections that fail, drop or go silent

ASSUME LiveClientAssumption ==
  /\ NoSocket \notin Socket
  /\ {MaxVisits, MaxFaults} \subseteq Nat

VARIABLES
  sub,      \* per subscription: "new", "on" (in this.subs), "off"
  sock,     \* per WebSocket: its readyState, what it was asked for, is it half-open
  cur,      \* this.ws
  timer,    \* the reconnect timer is set
  idle,     \* the idle-close timer is set
  tab,      \* "visible", "hiding" (hidden, timer set), "suspended"
  want,     \* wantOpen
  status,   \* what the pages are told
  ping,     \* the socket whose watchdog interval runs
  visits, faults

vars == <<sub, sock, cur, timer, idle, tab, want, status, ping, visits, faults>>
bounds == <<visits, faults>>

Ready == {"none", "connecting", "open", "closing"}
NoneYet == [state |-> "none", sent |-> {}, dead |-> FALSE]

Subs == {s \in Sub : sub[s] = "on"}
Suspended == tab = "suspended"
Is(k, states) == k # NoSocket /\ sock[k].state \in states

Init ==
  /\ sub = [s \in Sub |-> "new"]
  /\ sock = [k \in Socket |-> NoneYet]
  /\ cur = NoSocket
  /\ timer = FALSE /\ idle = FALSE
  /\ tab = "visible"
  /\ want = FALSE
  /\ status = "offline"
  /\ ping = NoSocket
  /\ visits = 0 /\ faults = 0

-------------------------------------------------------------------------------
(* Parts of handlers *)

\* open: a new WebSocket takes the place of whatever this.ws was.
Open ==
  LET k == CHOOSE j \in Socket : sock[j].state = "none"
  IN /\ \E j \in Socket : sock[j].state = "none"
     /\ sock' = [sock EXCEPT ![k].state = "connecting"]
     /\ cur' = k
     /\ status' = IF status = "offline" THEN "connecting" ELSE "reconnecting"

KeepOpen == UNCHANGED <<sock, cur, status>>

\* WebSocket.close
Closing(k) ==
  sock' = IF Is(k, {"connecting", "open"}) THEN [sock EXCEPT ![k].state = "closing"] ELSE sock

Spend(count, bound) == count < bound /\ count' = count + 1

-------------------------------------------------------------------------------
(* The pages *)

\* Mutant: the subscription is not sent when the socket is already open.
SubscribeUnsent(s) ==
  /\ sub[s] = "new"
  /\ sub' = [sub EXCEPT ![s] = "on"]
  /\ want' = TRUE
  /\ IF Suspended \/ Is(cur, {"open", "connecting"}) THEN KeepOpen ELSE Open
  /\ UNCHANGED <<timer, idle, tab, ping, bounds>>

\* Mutant: in a suspended tab wantOpen is not noted.
SubscribeUnwanted(s) ==
  /\ sub[s] = "new"
  /\ sub' = [sub EXCEPT ![s] = "on"]
  /\ want' = (want \/ ~Suspended)
  /\ IF Is(cur, {"open"})
       THEN sock' = [sock EXCEPT ![cur].sent = @ \cup {s}] /\ UNCHANGED <<cur, status>>
     ELSE IF Suspended \/ Is(cur, {"connecting"}) THEN KeepOpen
     ELSE Open
  /\ UNCHANGED <<timer, idle, tab, ping, bounds>>

\* subscribe: ensureOpen, then sendSub when the socket is open.
Subscribe(s) ==
  /\ sub[s] = "new"
  /\ sub' = [sub EXCEPT ![s] = "on"]
  /\ want' = TRUE
  /\ IF Is(cur, {"open"})
       THEN sock' = [sock EXCEPT ![cur].sent = @ \cup {s}] /\ UNCHANGED <<cur, status>>
     ELSE IF Suspended \/ Is(cur, {"connecting"}) THEN KeepOpen
     ELSE Open
  /\ UNCHANGED <<timer, idle, tab, ping, bounds>>

\* The function subscribe returned: the last one to leave starts the idle timer.
Unsubscribe(s) ==
  /\ sub[s] = "on"
  /\ sub' = [sub EXCEPT ![s] = "off"]
  /\ sock' = IF Is(cur, {"open"}) THEN [sock EXCEPT ![cur].sent = @ \ {s}] ELSE sock
  /\ idle' = (idle \/ Subs = {s})
  /\ UNCHANGED <<cur, timer, tab, want, status, ping, bounds>>

\* A minute later: close, unless somebody subscribed meanwhile.  A reconnect
\* timer (30 s at most) set before the last subscriber left has fired by then.
IdleFires ==
  /\ idle
  /\ idle' = FALSE
  /\ IF Subs # {} THEN UNCHANGED <<want, sock, cur, status>>
     ELSE /\ ~timer
          /\ want' = FALSE
          /\ Closing(cur)
          /\ cur' = NoSocket
          /\ status' = "offline"
  /\ UNCHANGED <<sub, timer, tab, ping, bounds>>

-------------------------------------------------------------------------------
(* The browser: sockets *)

\* Mutant: the watchdog interval is not started.
OpenedUnwatched(k) ==
  /\ sock[k].state = "connecting"
  /\ status' = "live"
  /\ sock' = [j \in Socket |->
                LET s == IF j = k THEN [sock[j] EXCEPT !.state = "open"] ELSE sock[j]
                IN IF j = cur /\ s.state = "open" THEN [s EXCEPT !.sent = Subs] ELSE s]
  /\ UNCHANGED <<sub, cur, timer, idle, tab, want, ping, bounds>>

\* onopen: every subscription is sent -- on this.ws, if that one is open.
Opened(k) ==
  /\ sock[k].state = "connecting"
  /\ status' = "live"
  /\ ping' = k
  /\ sock' = [j \in Socket |->
                LET s == IF j = k THEN [sock[j] EXCEPT !.state = "open"] ELSE sock[j]
                IN IF j = cur /\ s.state = "open" THEN [s EXCEPT !.sent = Subs] ELSE s]
  /\ UNCHANGED <<sub, cur, timer, idle, tab, want, bounds>>

\* Mutant: this.ws goes on pointing to the socket that closed.
ClosedKeepsCur(k) ==
  /\ sock' = [sock EXCEPT ![k] = NoneYet]
  /\ ping' = NoSocket
  /\ IF Suspended THEN UNCHANGED <<timer, status>>
     ELSE IF want /\ Subs # {} THEN timer' = TRUE /\ status' = "reconnecting"
     ELSE status' = "offline" /\ UNCHANGED timer
  /\ UNCHANGED <<sub, cur, idle, tab, want, visits>>

\* Mutant: the close of a suspended tab's socket schedules a reconnect.
ClosedAnyway(k) ==
  /\ sock' = [sock EXCEPT ![k] = NoneYet]
  /\ ping' = NoSocket
  /\ cur' = IF cur = k THEN NoSocket ELSE cur
  /\ IF want /\ Subs # {} THEN timer' = TRUE /\ status' = "reconnecting"
     ELSE status' = "offline" /\ UNCHANGED timer
  /\ UNCHANGED <<sub, idle, tab, want, visits>>

\* onclose of socket k, whichever socket is current: the watchdog stops, and a
\* reconnect is scheduled while somebody is subscribed.
Closed(k) ==
  /\ sock' = [sock EXCEPT ![k] = NoneYet]
  /\ ping' = NoSocket
  /\ cur' = IF cur = k THEN NoSocket ELSE cur
  /\ IF Suspended THEN UNCHANGED <<timer, status>>
     ELSE IF want /\ Subs # {} THEN timer' = TRUE /\ status' = "reconnecting"
     ELSE status' = "offline" /\ UNCHANGED timer
  /\ UNCHANGED <<sub, idle, tab, want, visits>>

\* A socket that was told to close has closed.
CloseDone(k) == sock[k].state = "closing" /\ Closed(k) /\ UNCHANGED faults

\* A connection attempt fails, or the server or the network ends a connection.
Drop(k) == sock[k].state \in {"connecting", "open"} /\ Spend(faults, MaxFaults) /\ Closed(k)

\* The connection dies without a close event: the half-open case.
GoSilent(k) ==
  /\ sock[k].state = "open" /\ ~sock[k].dead
  /\ Spend(faults, MaxFaults)
  /\ sock' = [sock EXCEPT ![k].dead = TRUE]
  /\ UNCHANGED <<sub, cur, timer, idle, tab, want, status, ping, visits>>

\* The watchdog interval finds that no frame came for DEAD_AFTER_MS, on any
\* socket: lastMsgAt is shared.  It closes the socket it was started for.
Watchdog ==
  /\ Is(ping, {"open"})
  /\ \A k \in Socket : sock[k].state = "open" => sock[k].dead
  /\ Closing(ping)
  /\ UNCHANGED <<sub, cur, timer, idle, tab, want, status, ping, bounds>>

-------------------------------------------------------------------------------
(* The browser: timers, visibility, focus, network *)

\* The backoff is over: open, whatever happened meanwhile.
TimerFires ==
  /\ timer
  /\ timer' = FALSE
  /\ Open
  /\ UNCHANGED <<sub, idle, tab, want, ping, bounds>>

\* reconnectNow: a socket that is still connecting does not hold it back.
ReconnectNow ==
  IF Subs = {} \/ Is(cur, {"open"}) THEN UNCHANGED <<sock, cur, status, timer>>
  ELSE Open /\ timer' = FALSE

\* Focus, or the network is back.
Nudge ==
  /\ Spend(visits, MaxVisits)
  /\ IF Suspended THEN UNCHANGED <<sock, cur, status, timer>> ELSE ReconnectNow
  /\ UNCHANGED <<sub, idle, tab, want, ping, faults>>

Hide ==
  /\ tab = "visible"
  /\ Spend(visits, MaxVisits)
  /\ tab' = "hiding"
  /\ UNCHANGED <<sub, sock, cur, timer, idle, want, status, ping, faults>>

\* Hidden for HIDDEN_SUSPEND_MS: the socket is given up.
Suspend ==
  /\ tab = "hiding"
  /\ tab' = "suspended"
  /\ timer' = FALSE
  /\ ping' = NoSocket
  /\ Closing(cur)
  /\ cur' = NoSocket
  /\ status' = "reconnecting"
  /\ UNCHANGED <<sub, idle, want, bounds>>

\* The tab is visible again.
Show ==
  /\ tab # "visible"
  /\ tab' = "visible"
  /\ IF ~Suspended THEN ReconnectNow
     ELSE /\ IF want /\ Subs # {} THEN Open ELSE KeepOpen
          /\ UNCHANGED timer
  /\ UNCHANGED <<sub, idle, want, ping, bounds>>

Next ==
  \/ \E s \in Sub : Subscribe(s) \/ Unsubscribe(s)
  \/ \E k \in Socket : Opened(k) \/ CloseDone(k) \/ Drop(k) \/ GoSilent(k)
  \/ Watchdog \/ IdleFires \/ TimerFires
  \/ Nudge \/ Hide \/ Suspend \/ Show

Spec == Init /\ [][Next]_vars

\* Connection attempts and closes end, timers fire.  A hidden tab need not come
\* back and nobody need subscribe.
FairSpec ==
  /\ Spec
  /\ \A k \in Socket : WF_vars(Opened(k)) /\ WF_vars(CloseDone(k))
  /\ WF_vars(Watchdog)
  /\ WF_vars(TimerFires)

-------------------------------------------------------------------------------
(* Properties *)

\* The shape of the state; this.ws never points to a socket that has closed.
TypeOK ==
  /\ sub \in [Sub -> {"new", "on", "off"}]
  /\ sock \in [Socket -> [state : Ready, sent : SUBSET Sub, dead : BOOLEAN]]
  /\ {cur, ping} \subseteq Socket \cup {NoSocket}
  /\ cur # NoSocket => sock[cur].state # "none"
  /\ {timer, idle, want} \subseteq BOOLEAN
  /\ tab \in {"visible", "hiding", "suspended"}
  /\ status \in {"offline", "connecting", "live", "reconnecting"}
  /\ visits \in 0..MaxVisits /\ faults \in 0..MaxFaults

\* The current socket, once open, was asked for exactly what the pages want: a
\* subscription made or dropped before, during or after any reconnect included.
CarriesSubs == Is(cur, {"open"}) => sock[cur].sent = Subs

\* While somebody is subscribed in a tab that is not suspended, a connection
\* exists, is under way, is closing (its onclose will reconnect) or is
\* scheduled, whatever order the timers and the sockets' events come in.
NeverStranded == Subs # {} /\ ~Suspended => Is(cur, Ready \ {"none"}) \/ timer

\* A suspended tab points to no socket, runs no reconnect timer, and no event
\* makes it open one; a second socket it no longer points to may stay open
\* (live.ts:236-241).
SuspendedStaysDown == Suspended => cur = NoSocket /\ ~timer

\* The pages get what they asked for, and know it.
Served == Is(cur, {"open"}) /\ ~sock[cur].dead /\ sock[cur].sent = Subs /\ status = "live"

Alone == Cardinality({k \in Socket : sock[k].state # "none"}) <= 1

\* When the faults are over, a tab that is looked at has a connection that works
\* and that the pages are told of, with every subscription on it, half-open
\* connections included, as long as no second socket was ever opened beside the
\* first.
ServedWhenAlone == []Alone => <>[](Subs # {} /\ tab = "visible" => Served)

-------------------------------------------------------------------------------
(* The inductive invariant behind the proofs (LiveClient_proofs)              *)

\* Whoever is subscribed, the client means to be connected.
Wanted == Subs # {} => want

TabInv == TypeOK /\ Wanted /\ CarriesSubs /\ NeverStranded /\ SuspendedStaysDown
===============================================================================
