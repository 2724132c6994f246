--------------------------- MODULE LiveClient_proofs ---------------------------
(* Proofs about LiveClient, for any number of subscriptions and sockets: the  *)
(* current socket carries every subscription, a subscriber is never stranded  *)
(* without a connection or a timer, and a suspended tab stays down.           *)
EXTENDS LiveClient, TLAPS

SocketRecord == [state : Ready, sent : SUBSET Sub, dead : BOOLEAN]

-------------------------------------------------------------------------------
(* Parts of handlers *)

\* new WebSocket: an unused object becomes the current one, connecting.
LEMMA OpenFacts ==
  ASSUME TypeOK, Open
  PROVE  /\ cur' \in Socket /\ cur' # NoSocket
         /\ sock' \in [Socket -> SocketRecord]
         /\ sock'[cur'].state = "connecting"
         /\ status' \in {"offline", "connecting", "live", "reconnecting"}
<1> DEFINE k == CHOOSE j \in Socket : sock[j].state = "none"
<1>1. \E j \in Socket : sock[j].state = "none"
  BY DEF Open
<1>2. k \in Socket
  BY <1>1
<1>3. /\ sock' = [sock EXCEPT ![k].state = "connecting"]
      /\ cur' = k
      /\ status' \in {"offline", "connecting", "live", "reconnecting"}
  BY DEF Open
<1> HIDE DEF k
<1>4. sock' \in [Socket -> SocketRecord] /\ sock'[k].state = "connecting"
  BY <1>2, <1>3 DEF TypeOK, SocketRecord, Ready
<1>5. QED BY <1>2, <1>3, <1>4, LiveClientAssumption

\* close(): whatever it was applied to, every socket keeps its shape, and one
\* that existed goes on existing.
LEMMA ClosingFacts ==
  ASSUME TypeOK, NEW k \in Socket \cup {NoSocket}, Closing(k)
  PROVE  /\ sock' \in [Socket -> SocketRecord]
         /\ \A j \in Socket : j # k => sock'[j] = sock[j]
         /\ \A j \in Socket : sock[j].state # "none" => sock'[j].state # "none"
         /\ \A j \in Socket : sock'[j].state = "open" => sock'[j] = sock[j]
<1>1. CASE Is(k, {"connecting", "open"})
  <2>1. k \in Socket /\ sock' = [sock EXCEPT ![k].state = "closing"]
    BY <1>1 DEF Closing, Is
  <2>2. QED BY <2>1 DEF TypeOK, SocketRecord, Ready
<1>2. CASE ~Is(k, {"connecting", "open"})
  BY <1>2 DEF Closing, TypeOK, SocketRecord
<1>3. QED BY <1>1, <1>2

\* A step that opens a socket, and touches neither the subscriptions nor, but
\* for making the tab visible, the tab, establishes the invariant.
LEMMA OpenKeepsInv ==
  ASSUME TabInv, Open, sub' \in [Sub -> {"new", "on", "off"}],
         want' \in BOOLEAN, Subs' # {} => want',
         timer' \in BOOLEAN, UNCHANGED <<idle, ping>>,
         tab' \in {"visible", "hiding"},
         visits' \in 0..MaxVisits, UNCHANGED faults
  PROVE  TabInv'
<1>1. /\ cur' \in Socket /\ cur' # NoSocket
      /\ sock' \in [Socket -> SocketRecord]
      /\ sock'[cur'].state = "connecting"
      /\ status' \in {"offline", "connecting", "live", "reconnecting"}
  BY OpenFacts DEF TabInv
<1>2. TypeOK'
  BY <1>1 DEF TabInv, TypeOK, SocketRecord
<1>3. NeverStranded' /\ CarriesSubs'
  BY <1>1 DEF NeverStranded, CarriesSubs, Is, Ready
<1>4. SuspendedStaysDown'
  BY DEF SuspendedStaysDown, Suspended
<1>5. QED BY <1>2, <1>3, <1>4 DEF TabInv, Wanted

-------------------------------------------------------------------------------
(* The inductive invariant *)

\* Before the first subscription there is nothing to keep.
LEMMA InitTabInv == Init => TabInv
<1> SUFFICES ASSUME Init PROVE TabInv
  OBVIOUS
<1>1. TypeOK
  <2>1. sock \in [Socket -> SocketRecord]
    BY DEF Init, NoneYet, SocketRecord, Ready
  <2>2. visits \in 0..MaxVisits /\ faults \in 0..MaxFaults
    BY LiveClientAssumption DEF Init
  <2>3. QED BY <2>1, <2>2 DEF Init, TypeOK, SocketRecord
<1>2. Subs = {}
  BY DEF Init, Subs
<1>3. QED BY <1>1, <1>2
      DEF Init, TabInv, Wanted, CarriesSubs, NeverStranded, SuspendedStaysDown, Suspended, Is

\* subscribe: sent at once, by the coming onopen, or when the tab is back.
LEMMA SubscribeTabInv ==
  ASSUME TabInv, NEW s \in Sub, Subscribe(s)
  PROVE  TabInv'
<1> USE DEF TabInv
<1>1. /\ sub' = [sub EXCEPT ![s] = "on"] /\ sub' \in [Sub -> {"new", "on", "off"}]
      /\ want' = TRUE
      /\ UNCHANGED <<timer, idle, tab, ping, visits, faults>>
  BY DEF Subscribe, TypeOK, bounds
<1>2. Subs' = Subs \cup {s}
  BY <1>1 DEF Subs, TypeOK
<1>3. CASE Is(cur, {"open"})
  <2>1. /\ cur \in Socket
        /\ sock' = [sock EXCEPT ![cur].sent = @ \cup {s}]
        /\ UNCHANGED <<cur, status>>
    BY <1>3 DEF Subscribe, Is, TypeOK
  <2>2. /\ sock' \in [Socket -> SocketRecord]
        /\ sock'[cur].sent = sock[cur].sent \cup {s}
        /\ sock'[cur].state = "open"
    BY <1>3, <2>1 DEF TypeOK, SocketRecord, Is
  <2>3. TypeOK'
    BY <1>1, <2>1, <2>2 DEF TypeOK, SocketRecord
  <2>4. CarriesSubs'
    BY <1>2, <1>3, <2>1, <2>2 DEF CarriesSubs, Is
  <2>5. NeverStranded'
    BY <1>3, <2>1, <2>2 DEF NeverStranded, Is, Ready
  <2>6. QED BY <1>1, <2>1, <2>3, <2>4, <2>5 DEF Wanted, SuspendedStaysDown, Suspended
<1>4. CASE ~Is(cur, {"open"}) /\ (Suspended \/ Is(cur, {"connecting"}))
  <2>1. UNCHANGED <<sock, cur, status>>
    BY <1>4 DEF Subscribe, KeepOpen
  <2>2. TypeOK'
    BY <1>1, <2>1 DEF TypeOK
  <2>3. CarriesSubs'
    BY <1>4, <2>1 DEF CarriesSubs, Is
  <2>4. NeverStranded'
    BY <1>1, <1>4, <2>1 DEF NeverStranded, Suspended, Is, Ready
  <2>5. QED BY <1>1, <2>1, <2>2, <2>3, <2>4 DEF Wanted, SuspendedStaysDown, Suspended
<1>5. CASE ~Is(cur, {"open"}) /\ ~(Suspended \/ Is(cur, {"connecting"}))
  <2>1. Open
    BY <1>5 DEF Subscribe
  <2>2. tab' \in {"visible", "hiding"}
    BY <1>1, <1>5 DEF Suspended, TypeOK
  <2>3. timer' \in BOOLEAN /\ visits' \in 0..MaxVisits
    BY <1>1 DEF TypeOK
  <2>4. QED BY <1>1, <2>1, <2>2, <2>3, OpenKeepsInv
<1>6. QED BY <1>3, <1>4, <1>5

\* unsubscribe: the current socket forgets the subscription too.
LEMMA UnsubscribeTabInv ==
  ASSUME TabInv, NEW s \in Sub, Unsubscribe(s)
  PROVE  TabInv'
<1> USE DEF TabInv
<1>1. /\ sub' = [sub EXCEPT ![s] = "off"] /\ sub' \in [Sub -> {"new", "on", "off"}]
      /\ idle' \in BOOLEAN
      /\ UNCHANGED <<cur, timer, tab, want, status, ping, visits, faults>>
  BY DEF Unsubscribe, TypeOK, bounds
<1>2. Subs' = Subs \ {s}
  BY <1>1 DEF Subs, TypeOK
<1>3. /\ sock' \in [Socket -> SocketRecord]
      /\ \A j \in Socket : sock'[j].state = sock[j].state
      /\ Is(cur, {"open"}) => sock'[cur].sent = sock[cur].sent \ {s}
  <2>1. CASE Is(cur, {"open"})
    <3>1. cur \in Socket /\ sock' = [sock EXCEPT ![cur].sent = @ \ {s}]
      BY <2>1 DEF Unsubscribe, Is, TypeOK
    <3>2. QED BY <3>1 DEF TypeOK, SocketRecord
  <2>2. CASE ~Is(cur, {"open"})
    BY <2>2 DEF Unsubscribe, TypeOK, SocketRecord
  <2>3. QED BY <2>1, <2>2
<1>4. TypeOK'
  BY <1>1, <1>3 DEF TypeOK, SocketRecord
<1>5. \A states : Is(cur, states)' <=> Is(cur, states)
  BY <1>1, <1>3 DEF Is, TypeOK
<1>6. CarriesSubs'
  BY <1>1, <1>2, <1>3, <1>5 DEF CarriesSubs
<1>7. NeverStranded'
  BY <1>1, <1>2, <1>5 DEF NeverStranded, Suspended
<1>8. QED BY <1>1, <1>2, <1>4, <1>6, <1>7 DEF Wanted, SuspendedStaysDown, Suspended

\* The idle timer closes only a client nobody subscribes through.
LEMMA IdleFiresTabInv ==
  ASSUME TabInv, IdleFires
  PROVE  TabInv'
<1> USE DEF TabInv
<1>1. idle' = FALSE /\ UNCHANGED <<sub, timer, tab, ping, visits, faults>>
  BY DEF IdleFires, bounds
<1>2. Subs' = Subs
  BY <1>1 DEF Subs
<1>3. CASE Subs # {}
  <2>1. UNCHANGED <<want, sock, cur, status>>
    BY <1>3 DEF IdleFires
  <2>2. QED BY <1>1, <1>2, <2>1
        DEF TypeOK, Wanted, CarriesSubs, NeverStranded, SuspendedStaysDown, Suspended, Is
<1>4. CASE Subs = {}
  <2>1. want' = FALSE /\ Closing(cur) /\ cur' = NoSocket /\ status' = "offline"
    BY <1>4 DEF IdleFires
  <2>2. cur \in Socket \cup {NoSocket}
    BY DEF TypeOK
  <2>3. sock' \in [Socket -> SocketRecord]
    BY <2>1, <2>2, ClosingFacts
  <2>4. TypeOK'
    BY <1>1, <2>1, <2>3 DEF TypeOK, SocketRecord
  <2>5. QED BY <1>1, <1>2, <1>4, <2>1, <2>4
        DEF Wanted, CarriesSubs, NeverStranded, SuspendedStaysDown, Suspended, Is
<1>5. QED BY <1>3, <1>4

\* onopen: the current socket, if it is open now, carries everything.
LEMMA OpenedTabInv ==
  ASSUME TabInv, NEW k \in Socket, Opened(k)
  PROVE  TabInv'
<1> USE DEF TabInv
<1>1. status' = "live" /\ ping' = k /\ UNCHANGED <<sub, cur, timer, idle, tab, want, visits, faults>>
  BY DEF Opened, bounds
<1> DEFINE S(j) == IF j = k THEN [sock[j] EXCEPT !.state = "open"] ELSE sock[j]
<1>2. \A j \in Socket : S(j) \in SocketRecord
                        /\ (S(j).state = "none" => sock[j].state = "none")
  BY DEF TypeOK, SocketRecord, Ready
<1>3. sock' = [j \in Socket |-> IF j = cur /\ S(j).state = "open"
                                THEN [S(j) EXCEPT !.sent = Subs] ELSE S(j)]
  BY DEF Opened
<1> HIDE DEF S
<1>4. Subs \subseteq Sub
  BY DEF Subs
<1>5. sock' \in [Socket -> SocketRecord]
  BY <1>2, <1>3, <1>4 DEF SocketRecord
<1>6. \A j \in Socket : sock'[j].state = S(j).state
  BY <1>2, <1>3 DEF SocketRecord
<1>7. \A j \in Socket : j = cur /\ sock'[j].state = "open" => sock'[j].sent = Subs
  BY <1>2, <1>3, <1>6 DEF SocketRecord
<1>8. TypeOK'
  <2>1. cur # NoSocket => sock'[cur].state # "none"
    BY <1>2, <1>6 DEF TypeOK
  <2>2. QED BY <1>1, <1>5, <2>1 DEF TypeOK, SocketRecord
<1>9. Subs' = Subs
  BY <1>1 DEF Subs
<1>10. CarriesSubs'
  BY <1>1, <1>7, <1>9 DEF CarriesSubs, Is, TypeOK
<1>11. NeverStranded'
  <2>1. Is(cur, Ready \ {"none"}) => Is(cur, Ready \ {"none"})'
    BY <1>1, <1>8 DEF Is, TypeOK, SocketRecord
  <2>2. QED BY <1>1, <1>9, <2>1 DEF NeverStranded, Suspended
<1>12. QED BY <1>1, <1>8, <1>9, <1>10, <1>11 DEF Wanted, SuspendedStaysDown, Suspended

\* onclose: the current socket is gone, and with it goes no subscriber.
LEMMA ClosedTabInv ==
  ASSUME TabInv, NEW k \in Socket, Closed(k), faults' \in 0..MaxFaults
  PROVE  TabInv'
<1> USE DEF TabInv
<1>1. /\ sock' = [sock EXCEPT ![k] = NoneYet]
      /\ ping' = NoSocket
      /\ cur' = IF cur = k THEN NoSocket ELSE cur
      /\ UNCHANGED <<sub, idle, tab, want, visits>>
  BY DEF Closed
<1>2. Subs' = Subs /\ Suspended' = Suspended
  BY <1>1 DEF Subs, Suspended
<1>3. sock' \in [Socket -> SocketRecord] /\ \A j \in Socket : j # k => sock'[j] = sock[j]
  BY <1>1 DEF TypeOK, SocketRecord, NoneYet, Ready
<1>4. timer' \in BOOLEAN
  BY DEF Closed, TypeOK
<1>5. status' \in {"offline", "connecting", "live", "reconnecting"}
  BY DEF Closed, TypeOK
<1>6. TypeOK'
  <2>1. cur' # NoSocket => sock'[cur'].state # "none"
    BY <1>1, <1>3 DEF TypeOK
  <2>2. cur' \in Socket \cup {NoSocket}
    BY <1>1 DEF TypeOK
  <2>3. QED BY <1>1, <1>3, <1>4, <1>5, <2>1, <2>2 DEF TypeOK, SocketRecord
<1>7. cur' = NoSocket \/ (cur' = cur /\ cur \in Socket /\ sock'[cur] = sock[cur])
  BY <1>1, <1>3 DEF TypeOK
<1>8. CarriesSubs'
  BY <1>2, <1>7 DEF CarriesSubs, Is
<1>9. SuspendedStaysDown'
  <2>1. Suspended => timer' = timer
    BY DEF Closed
  <2>2. QED BY <1>1, <1>2, <2>1 DEF SuspendedStaysDown
<1>10. NeverStranded'
  <2>1. Subs # {} /\ ~Suspended => timer'
    BY DEF Closed, Wanted
  <2>2. QED BY <1>2, <2>1 DEF NeverStranded
<1>11. QED BY <1>1, <1>2, <1>6, <1>8, <1>9, <1>10 DEF Wanted

\* A connection that dies silently changes nothing the client knows.
LEMMA GoSilentTabInv ==
  ASSUME TabInv, NEW k \in Socket, GoSilent(k)
  PROVE  TabInv'
<1> USE DEF TabInv
<1>1. /\ sock' = [sock EXCEPT ![k].dead = TRUE]
      /\ faults' \in 0..MaxFaults
      /\ UNCHANGED <<sub, cur, timer, idle, tab, want, status, ping, visits>>
  BY LiveClientAssumption DEF GoSilent, Spend, TypeOK
<1>2. sock' \in [Socket -> SocketRecord]
      /\ \A j \in Socket : sock'[j].state = sock[j].state /\ sock'[j].sent = sock[j].sent
  BY <1>1 DEF TypeOK, SocketRecord
<1>3. TypeOK'
  BY <1>1, <1>2 DEF TypeOK, SocketRecord
<1>4. Subs' = Subs /\ Suspended' = Suspended
  BY <1>1 DEF Subs, Suspended
<1>5. \A states : Is(cur, states)' <=> Is(cur, states)
  BY <1>1, <1>2 DEF Is, TypeOK
<1>6. CarriesSubs'
  BY <1>1, <1>2, <1>4, <1>5 DEF CarriesSubs, Is, TypeOK
<1>7. QED BY <1>1, <1>3, <1>4, <1>5, <1>6 DEF Wanted, NeverStranded, SuspendedStaysDown

\* The watchdog closes its socket; the close event does the rest.
LEMMA WatchdogTabInv ==
  ASSUME TabInv, Watchdog
  PROVE  TabInv'
<1> USE DEF TabInv
<1>1. Closing(ping) /\ ping \in Socket \cup {NoSocket}
      /\ UNCHANGED <<sub, cur, timer, idle, tab, want, status, ping, visits, faults>>
  BY DEF Watchdog, TypeOK, bounds
<1>2. /\ sock' \in [Socket -> SocketRecord]
      /\ \A j \in Socket : sock[j].state # "none" => sock'[j].state # "none"
      /\ \A j \in Socket : sock'[j].state = "open" => sock'[j] = sock[j]
  BY <1>1, ClosingFacts
<1>3. TypeOK'
  BY <1>1, <1>2 DEF TypeOK, SocketRecord
<1>4. Subs' = Subs /\ Suspended' = Suspended
  BY <1>1 DEF Subs, Suspended
<1>5. CarriesSubs'
  BY <1>1, <1>2, <1>4 DEF CarriesSubs, Is, TypeOK
<1>6. Is(cur, Ready \ {"none"}) => Is(cur, Ready \ {"none"})'
  BY <1>1, <1>3 DEF Is, TypeOK, SocketRecord
<1>7. QED BY <1>1, <1>3, <1>4, <1>5, <1>6 DEF Wanted, NeverStranded, SuspendedStaysDown

\* The backoff is over; the timer never runs in a suspended tab.
LEMMA TimerFiresTabInv ==
  ASSUME TabInv, TimerFires
  PROVE  TabInv'
<1> USE DEF TabInv
<1>1. timer /\ timer' = FALSE /\ Open
      /\ UNCHANGED <<sub, idle, tab, want, ping, visits, faults>>
  BY DEF TimerFires, bounds
<1>2. tab' \in {"visible", "hiding"}
  BY <1>1 DEF SuspendedStaysDown, Suspended, TypeOK
<1>3. sub' \in [Sub -> {"new", "on", "off"}] /\ want' \in BOOLEAN /\ visits' \in 0..MaxVisits
  BY <1>1 DEF TypeOK
<1>4. Subs' # {} => want'
  BY <1>1 DEF Wanted, Subs
<1>5. QED BY <1>1, <1>2, <1>3, <1>4, OpenKeepsInv

\* reconnectNow, in a tab that is not suspended.
LEMMA ReconnectNowKeepsInv ==
  ASSUME TabInv, ReconnectNow, ~Suspended, tab' \in {"visible", "hiding"},
         UNCHANGED <<sub, idle, want, ping, faults>>, visits' \in 0..MaxVisits
  PROVE  TabInv'
<1> USE DEF TabInv
<1>1. Subs' = Subs
  BY DEF Subs
<1>2. CASE Subs = {} \/ Is(cur, {"open"})
  <2>1. UNCHANGED <<sock, cur, status, timer>>
    BY <1>2 DEF ReconnectNow
  <2>2. TypeOK'
    BY <2>1 DEF TypeOK
  <2>3. ~Suspended'
    BY DEF Suspended
  <2>4. CarriesSubs' /\ NeverStranded'
    BY <1>1, <2>1 DEF CarriesSubs, NeverStranded, Is
  <2>5. QED BY <1>1, <2>2, <2>3, <2>4 DEF Wanted, SuspendedStaysDown
<1>3. CASE ~(Subs = {} \/ Is(cur, {"open"}))
  <2>1. Open /\ timer' = FALSE
    BY <1>3 DEF ReconnectNow
  <2>2. sub' \in [Sub -> {"new", "on", "off"}] /\ want' \in BOOLEAN
    BY DEF TypeOK
  <2>3. Subs' # {} => want'
    BY <1>1 DEF Wanted
  <2>4. QED BY <2>1, <2>2, <2>3, OpenKeepsInv
<1>4. QED BY <1>2, <1>3

\* Focus, network, hiding, suspending, coming back.
LEMMA TabEventsTabInv ==
  ASSUME TabInv, Nudge \/ Hide \/ Suspend \/ Show
  PROVE  TabInv'
<1> USE DEF TabInv
<1>1. CASE Nudge
  <2>1. visits' \in 0..MaxVisits /\ UNCHANGED <<sub, idle, tab, want, ping, faults>>
    BY <1>1, LiveClientAssumption DEF Nudge, Spend, TypeOK
  <2>2. CASE Suspended
    <3>1. UNCHANGED <<sock, cur, status, timer>>
      BY <1>1, <2>2 DEF Nudge
    <3>2. TypeOK'
      BY <2>1, <3>1 DEF TypeOK
    <3>3. QED BY <2>1, <3>1, <3>2
          DEF Wanted, CarriesSubs, NeverStranded, SuspendedStaysDown, Suspended, Subs, Is
  <2>3. CASE ~Suspended
    <3>1. ReconnectNow
      BY <1>1, <2>3 DEF Nudge
    <3>2. tab' \in {"visible", "hiding"}
      BY <2>1, <2>3 DEF Suspended, TypeOK
    <3>3. QED BY <2>1, <2>3, <3>1, <3>2, ReconnectNowKeepsInv
  <2>4. QED BY <2>2, <2>3
<1>2. CASE Hide
  <2>1. /\ visits' \in 0..MaxVisits /\ tab = "visible" /\ tab' = "hiding"
        /\ UNCHANGED <<sub, sock, cur, timer, idle, want, status, ping, faults>>
    BY <1>2, LiveClientAssumption DEF Hide, Spend, TypeOK
  <2>2. TypeOK'
    BY <2>1 DEF TypeOK
  <2>3. QED BY <2>1, <2>2
        DEF Wanted, CarriesSubs, NeverStranded, SuspendedStaysDown, Suspended, Subs, Is
<1>3. CASE Suspend
  <2>1. /\ tab' = "suspended" /\ timer' = FALSE /\ ping' = NoSocket /\ Closing(cur)
        /\ cur' = NoSocket /\ status' = "reconnecting"
        /\ UNCHANGED <<sub, idle, want, visits, faults>>
    BY <1>3 DEF Suspend, bounds
  <2>2. cur \in Socket \cup {NoSocket}
    BY DEF TypeOK
  <2>3. sock' \in [Socket -> SocketRecord]
    BY <2>1, <2>2, ClosingFacts
  <2>4. TypeOK'
    BY <2>1, <2>3 DEF TypeOK, SocketRecord
  <2>5. QED BY <2>1, <2>4
        DEF Wanted, CarriesSubs, NeverStranded, SuspendedStaysDown, Suspended, Subs, Is
<1>4. CASE Show
  <2>1. tab' = "visible" /\ UNCHANGED <<sub, idle, want, ping, visits, faults>>
    BY <1>4 DEF Show, bounds
  <2>2. /\ sub' \in [Sub -> {"new", "on", "off"}] /\ want' \in BOOLEAN
        /\ visits' \in 0..MaxVisits
        /\ Subs' = Subs /\ (Subs' # {} => want')
    BY <2>1 DEF TypeOK, Wanted, Subs
  <2>3. CASE ~Suspended
    <3>1. ReconnectNow
      BY <1>4, <2>3 DEF Show
    <3>2. QED BY <2>1, <2>2, <2>3, <3>1, ReconnectNowKeepsInv
  <2>4. CASE Suspended /\ Subs # {}
    <3>1. Open /\ timer' = timer
      BY <1>4, <2>4 DEF Show, Wanted
    <3>2. timer' \in BOOLEAN
      BY <3>1 DEF TypeOK
    <3>3. QED BY <2>1, <2>2, <3>1, <3>2, OpenKeepsInv
  <2>5. CASE Suspended /\ Subs = {} /\ ~want
    <3>1. UNCHANGED <<sock, cur, status, timer>>
      BY <1>4, <2>5 DEF Show, KeepOpen
    <3>2. TypeOK'
      BY <2>1, <3>1 DEF TypeOK
    <3>3. QED BY <2>1, <2>2, <2>5, <3>1, <3>2
          DEF Wanted, CarriesSubs, NeverStranded, SuspendedStaysDown, Suspended, Is
  <2>6. CASE Suspended /\ Subs = {} /\ want
    <3>1. UNCHANGED <<sock, cur, status, timer>>
      BY <1>4, <2>6 DEF Show, KeepOpen
    <3>2. TypeOK'
      BY <2>1, <3>1 DEF TypeOK
    <3>3. QED BY <2>1, <2>2, <2>6, <3>1, <3>2
          DEF Wanted, CarriesSubs, NeverStranded, SuspendedStaysDown, Suspended, Is
  <2>7. QED BY <2>3, <2>4, <2>5, <2>6
<1>5. QED BY <1>1, <1>2, <1>3, <1>4

\* The inductive conjunction behind the theorems below: the shape of the state,
\* a client that means to be connected whenever somebody subscribes, and the
\* three properties.
THEOREM TabInvariant == Spec => []TabInv
<1>1. Init => TabInv
  BY InitTabInv
<1>2. TabInv /\ [Next]_vars => TabInv'
  <2> SUFFICES ASSUME TabInv, [Next]_vars PROVE TabInv'
    OBVIOUS
  <2>1. CASE UNCHANGED vars
    BY <2>1 DEF TabInv, TypeOK, Wanted, CarriesSubs, NeverStranded, SuspendedStaysDown,
       Suspended, Subs, Is, vars, bounds
  <2>2. ASSUME NEW s \in Sub, Subscribe(s) PROVE TabInv'
    BY <2>2, SubscribeTabInv
  <2>3. ASSUME NEW s \in Sub, Unsubscribe(s) PROVE TabInv'
    BY <2>3, UnsubscribeTabInv
  <2>4. ASSUME NEW k \in Socket, Opened(k) PROVE TabInv'
    BY <2>4, OpenedTabInv
  <2>5. ASSUME NEW k \in Socket, CloseDone(k) PROVE TabInv'
    <3>1. Closed(k) /\ faults' \in 0..MaxFaults
      BY <2>5 DEF CloseDone, TabInv, TypeOK
    <3>2. QED BY <3>1, ClosedTabInv
  <2>6. ASSUME NEW k \in Socket, Drop(k) PROVE TabInv'
    <3>1. Closed(k) /\ faults' \in 0..MaxFaults
      BY <2>6, LiveClientAssumption DEF Drop, Spend, TabInv, TypeOK
    <3>2. QED BY <3>1, ClosedTabInv
  <2>7. ASSUME NEW k \in Socket, GoSilent(k) PROVE TabInv'
    BY <2>7, GoSilentTabInv
  <2>8. CASE Watchdog
    BY <2>8, WatchdogTabInv
  <2>9. CASE IdleFires
    BY <2>9, IdleFiresTabInv
  <2>10. CASE TimerFires
    BY <2>10, TimerFiresTabInv
  <2>11. CASE Nudge \/ Hide \/ Suspend \/ Show
    BY <2>11, TabEventsTabInv
  <2>12. QED BY <2>1, <2>2, <2>3, <2>4, <2>5, <2>6, <2>7, <2>8, <2>9, <2>10, <2>11 DEF Next
<1>3. QED BY <1>1, <1>2, PTL DEF Spec

\* Every variable keeps its shape, and this.ws never points to a closed socket.
THEOREM TypeCorrect == Spec => []TypeOK
<1>1. TabInv => TypeOK
  BY DEF TabInv
<1>2. QED BY <1>1, TabInvariant, PTL

\* However connections fail, drop, go silent or overlap, the current socket
\* carries exactly the pages' subscriptions once it is open.
THEOREM CurrentCarries == Spec => []CarriesSubs
<1>1. TabInv => CarriesSubs
  BY DEF TabInv
<1>2. QED BY <1>1, TabInvariant, PTL

\* No order of timers and events leaves a subscriber without a connection, one
\* under way, or a timer that will open one.
THEOREM NobodyStranded == Spec => []NeverStranded
<1>1. TabInv => NeverStranded
  BY DEF TabInv
<1>2. QED BY <1>1, TabInvariant, PTL

\* A suspended tab points to no socket and nothing is set to open one.
THEOREM SuspendedIsDown == Spec => []SuspendedStaysDown
<1>1. TabInv => SuspendedStaysDown
  BY DEF TabInv
<1>2. QED BY <1>1, TabInvariant, PTL
===============================================================================
