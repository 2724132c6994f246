---------------------------- MODULE FlowsHub_proofs ----------------------------
(* Proofs about FlowsHub, for any number of viewers, streams and failures: the *)
(* hub has one stream while somebody watches, and everybody knows its state.   *)
EXTENDS FlowsHub, TLAPS

Status == {"idle", "connecting", "live", "reconnecting"}
Loops == [pc : {"none", "connect", "wait", "open", "sleep"}, aborted : BOOLEAN]

(* The loops: the current one is running and not aborted, and no other is      *)
(* running unless it has been aborted.                                         *)
StreamsOk ==
  /\ NoStream \notin Stream
  /\ current \in Stream \cup {NoStream}
  /\ stream \in [Stream -> Loops]
  /\ current # NoStream => stream[current].pc # "none" /\ ~stream[current].aborted
  /\ \A s \in Stream : stream[s].pc # "none" /\ ~stream[s].aborted => s = current
  /\ unheard \in BOOLEAN
  /\ ~unheard => \A s \in Stream : stream[s].pc \in {"wait", "open"} => s = current

(* Viewers, timers and the current stream.  Only a handle stopped twice leaves *)
(* a timer behind that nobody can cancel.                                      *)
WatchOk ==
  /\ seat \in [Viewer -> {"out", "in", "left"}]
  /\ {ticking, idle, overrun} \subseteq BOOLEAN
  /\ orphans \in Nat /\ twice \in Nat
  /\ Viewers # {} => ~idle /\ (overrun \/ (current # NoStream /\ ticking))
  /\ Viewers = {} => ~ticking /\ (idle \/ current = NoStream)
  /\ twice = 0 => ~overrun /\ orphans = 0 /\ \A v \in Viewer : seat[v] # "left"

(* What viewers were told and may see. *)
ToldOk ==
  /\ told \in [Viewer -> Status \cup {"nothing"}]
  /\ state \in Status
  /\ \A v \in Viewer : told[v] = "nothing" <=> seat[v] # "in"
  /\ allow \in [Viewer -> {"unknown", "no", "yes"}]
  /\ asks \in [Viewer -> SUBSET {"asked", "yes", "no"}]
  /\ granted \subseteq Viewer
  /\ faults \in Nat

IInv == StreamsOk /\ WatchOk /\ ToldOk /\ ToldTheState

-------------------------------------------------------------------------------
(* Frames *)

\* A step that leaves the loops alone keeps their invariant.
LEMMA StreamsFrame ==
  ASSUME StreamsOk, UNCHANGED <<stream, current, unheard>>
  PROVE  StreamsOk'
BY DEF StreamsOk

\* A step that leaves viewers and timers alone keeps theirs.
LEMMA WatchFrame ==
  ASSUME WatchOk, UNCHANGED <<seat, ticking, idle, orphans, overrun, current, twice>>
  PROVE  WatchOk'
BY DEF WatchOk, Viewers

\* One loop goes on.
LEMMA StreamKept ==
  ASSUME StreamsOk, NEW s \in Stream, NEW q \in Loops, stream' = [stream EXCEPT ![s] = q],
         current' = current, unheard' \in BOOLEAN, unheard => unheard',
         s = current => q.pc # "none" /\ ~q.aborted,
         q.pc # "none" /\ ~q.aborted => s = current,
         q.pc \in {"wait", "open"} => s = current \/ unheard'
  PROVE  StreamsOk' /\ stream'[s] = q /\ \A t \in Stream : t # s => stream'[t] = stream[t]
BY DEF StreamsOk

\* A loop that moves on to another place and is aborted if it was.
LEMMA Moved ==
  ASSUME StreamsOk, NEW s \in Stream, NEW pc \in {"connect", "wait", "open", "sleep"},
         stream[s].pc # "none"
  PROVE  /\ [stream[s] EXCEPT !.pc = pc] \in Loops
         /\ [stream[s] EXCEPT !.pc = pc].pc = pc
         /\ [stream[s] EXCEPT !.pc = pc].aborted = stream[s].aborted
         /\ [stream EXCEPT ![s].pc = pc] = [stream EXCEPT ![s] = [stream[s] EXCEPT !.pc = pc]]
         /\ s = current <=> ~stream[s].aborted
BY DEF StreamsOk, Loops

\* What is pushed to viewers.
LEMMA PushedFacts ==
  ASSUME ToldOk, NEW V \in SUBSET Viewer, NEW s \in Status, told' = Pushed(V, s)
  PROVE  /\ told' \in [Viewer -> Status \cup {"nothing"}]
         /\ \A v \in V : told'[v] = s
         /\ \A v \in Viewer \ V : told'[v] = told[v]
         /\ s # "nothing"
BY DEF ToldOk, Pushed, Status

-------------------------------------------------------------------------------
(* Access checks *)

\* Access checks touch neither the stream nor what viewers are told.
LEMMA AccessKeeps ==
  ASSUME IInv, NEW v \in Viewer,
         Refresh(v) \/ RefreshAgain(v) \/ Reviewed(v) \/ Answered(v) \/ Turn(v)
  PROVE  IInv'
<1>1. UNCHANGED <<seat, told, state, current, stream, timers, unheard, twice>>
  BY DEF Refresh, RefreshAgain, Reviewed, Answered, Turn, timers
<1>2. StreamsOk' /\ WatchOk'
  BY <1>1, StreamsFrame, WatchFrame DEF IInv, timers
<1>3. allow' \in [Viewer -> {"unknown", "no", "yes"}]
  BY DEF Refresh, RefreshAgain, Reviewed, Answered, Turn, IInv, ToldOk
<1>4. asks' \in [Viewer -> SUBSET {"asked", "yes", "no"}]
  BY DEF Refresh, RefreshAgain, Reviewed, Answered, Turn, IInv, ToldOk
<1>5. granted' \subseteq Viewer /\ faults' \in Nat
  BY DEF Refresh, RefreshAgain, Reviewed, Answered, Turn, IInv, ToldOk
<1>6. ToldOk'
  BY <1>1, <1>3, <1>4, <1>5 DEF IInv, ToldOk
<1>7. ToldTheState'
  BY <1>1 DEF IInv, ToldTheState, timers, Viewers, At
<1>8. QED BY <1>2, <1>6, <1>7 DEF IInv

-------------------------------------------------------------------------------
(* Viewers *)

\* A viewer joins; with no stream, one is started.
LEMMA JoinKeeps ==
  ASSUME IInv, NEW v \in Viewer, Join(v)
  PROVE  IInv'
<1>1. /\ seat' = [seat EXCEPT ![v] = "in"] /\ Viewers' = Viewers \cup {v}
      /\ v \notin Viewers /\ Viewers \subseteq Viewer
  BY DEF Join, Viewers, IInv, WatchOk
<1>2. ToldOk' /\ (current = NoStream => state' = "connecting"
                  /\ told' = Pushed(Viewers \cup {v}, "connecting"))
      /\ (current # NoStream => told' = Pushed({v}, state) /\ UNCHANGED state)
  <2>1. /\ current = NoStream => state' = "connecting"
                                 /\ told' = Pushed(Viewers \cup {v}, "connecting")
        /\ current # NoStream => told' = Pushed({v}, state) /\ UNCHANGED state
    BY DEF Join, Greeted
  <2>2. /\ told' \in [Viewer -> Status \cup {"nothing"}]
        /\ \A u \in Viewer : told'[u] = "nothing" <=> seat'[u] # "in"
        /\ state' \in Status
    <3>1. CASE current = NoStream
      <4>1. "connecting" \in Status /\ Viewers \cup {v} \in SUBSET Viewer
        BY <1>1 DEF Status
      <4>2. /\ told' \in [Viewer -> Status \cup {"nothing"}]
            /\ \A u \in Viewers \cup {v} : told'[u] = "connecting"
            /\ \A u \in Viewer \ (Viewers \cup {v}) : told'[u] = told[u]
        BY <2>1, <3>1, <4>1, PushedFacts DEF IInv
      <4>3. QED BY <1>1, <2>1, <3>1, <4>1, <4>2 DEF IInv, ToldOk, WatchOk, Viewers
    <3>2. CASE current # NoStream
      <4>1. state \in Status /\ {v} \in SUBSET Viewer
        BY DEF IInv, ToldOk
      <4>2. /\ told' \in [Viewer -> Status \cup {"nothing"}]
            /\ told'[v] = state /\ state # "nothing"
            /\ \A u \in Viewer \ {v} : told'[u] = told[u]
        BY <2>1, <3>2, <4>1, PushedFacts DEF IInv
      <4>3. QED BY <1>1, <2>1, <3>2, <4>1, <4>2 DEF IInv, ToldOk, WatchOk
    <3>3. QED BY <3>1, <3>2
  <2>3. /\ allow' \in [Viewer -> {"unknown", "no", "yes"}]
        /\ asks' \in [Viewer -> SUBSET {"asked", "yes", "no"}]
        /\ granted' \subseteq Viewer /\ faults' \in Nat
    BY DEF Join, IInv, ToldOk
  <2>4. QED BY <2>1, <2>2, <2>3 DEF ToldOk
<1>3. /\ StreamsOk' /\ current' # NoStream
      /\ current = NoStream => stream'[current'].pc = "connect"
      /\ current # NoStream => UNCHANGED <<stream, current>>
  <2>1. CASE current = NoStream
    <3>1. PICK s \in Stream : /\ stream[s] = Returned /\ current' = s
                              /\ stream' = [stream EXCEPT ![s].pc = "connect"]
                              /\ unheard' = unheard
      BY <2>1 DEF Join
    <3>2. /\ stream[s].pc = "none" /\ ~stream[s].aborted /\ stream[s] \in Loops
          /\ [stream[s] EXCEPT !.pc = "connect"] \in Loops
      <4>1. stream[s].pc = "none" /\ ~stream[s].aborted
        BY <3>1 DEF Returned
      <4>2. stream[s] \in Loops
        BY DEF IInv, StreamsOk
      <4>3. [stream[s] EXCEPT !.pc = "connect"] \in Loops
        BY <4>2 DEF Loops
      <4>4. QED BY <4>1, <4>2, <4>3
    <3>3. /\ stream' = [stream EXCEPT ![s] = [stream[s] EXCEPT !.pc = "connect"]]
          /\ stream' \in [Stream -> Loops]
          /\ stream'[s].pc = "connect" /\ ~stream'[s].aborted
          /\ \A t \in Stream : t # s => stream'[t] = stream[t]
      BY <3>1, <3>2 DEF IInv, StreamsOk, Loops
    <3>4. \A t \in Stream : stream[t].pc # "none" => stream[t].aborted
      BY <2>1, <3>1 DEF IInv, StreamsOk
    <3>5. StreamsOk'
      BY <2>1, <3>1, <3>3, <3>4 DEF IInv, StreamsOk
    <3>6. QED BY <2>1, <3>1, <3>3, <3>5 DEF IInv, StreamsOk
  <2>2. CASE current # NoStream
    BY <2>2, StreamsFrame DEF Join, IInv
  <2>3. QED BY <2>1, <2>2
<1>4. WatchOk'
  <2>1. /\ idle' = FALSE /\ ticking' = TRUE
        /\ UNCHANGED <<orphans, overrun, twice>>
    BY DEF Join
  <2>2. seat' \in [Viewer -> {"out", "in", "left"}]
        /\ (twice' = 0 => \A u \in Viewer : seat'[u] # "left")
    BY <1>1, <2>1 DEF IInv, WatchOk
  <2>3. {ticking, idle, overrun}' \subseteq BOOLEAN
    BY <2>1 DEF IInv, WatchOk
  <2>4. QED BY <1>1, <1>3, <2>1, <2>2, <2>3 DEF IInv, WatchOk
<1>5. ToldTheState'
  <2> SUFFICES ASSUME ~overrun' PROVE
        /\ \A u \in Viewers' : told'[u] = state'
        /\ current' # NoStream /\ ~unheard' =>
             /\ (state' = "live") = (stream'[current'].pc = "open")
             /\ stream'[current'].pc = "sleep" => state' = "reconnecting"
    BY DEF ToldTheState, At
  <2>1. ~overrun /\ unheard' = unheard
    BY DEF Join
  <2>2. CASE current = NoStream
    <3>1. "connecting" \in Status /\ Viewers \cup {v} \in SUBSET Viewer
      BY <1>1 DEF Status
    <3>2. \A u \in Viewers \cup {v} : told'[u] = "connecting"
      BY <1>2, <2>2, <3>1, PushedFacts DEF IInv
    <3>3. QED BY <1>1, <1>2, <1>3, <2>2, <3>2
  <2>3. CASE current # NoStream
    <3>1. state \in Status /\ {v} \in SUBSET Viewer
      BY DEF IInv, ToldOk
    <3>2. told'[v] = state /\ \A u \in Viewer \ {v} : told'[u] = told[u]
      BY <1>2, <2>3, <3>1, PushedFacts DEF IInv
    <3>3. QED BY <1>1, <1>2, <1>3, <2>1, <2>3, <3>2 DEF IInv, ToldTheState, At
  <2>4. QED BY <2>2, <2>3
<1>6. QED BY <1>2, <1>3, <1>4, <1>5 DEF IInv

\* A subscription is stopped, for good or with its handle still held.
LEMMA StopKeeps ==
  ASSUME IInv, NEW v \in Viewer, NEW next \in {"out", "left"}, Stop(v, next),
         \/ seat[v] = "in" /\ next = "out" /\ twice' = twice
         \/ seat[v] = "in" /\ next = "left" /\ twice' = twice + 1
         \/ seat[v] = "left" /\ next = "out" /\ twice' = twice
  PROVE  IInv'
<1>1. /\ seat' = [seat EXCEPT ![v] = next] /\ seat' \in [Viewer -> {"out", "in", "left"}]
      /\ Viewers' = Viewers \ {v} /\ Viewers \subseteq Viewer
      /\ UNCHANGED <<granted, state, current, stream, overrun, unheard, faults>>
  BY DEF Stop, Viewers, IInv, WatchOk
<1>2. StreamsOk'
  BY <1>1, StreamsFrame DEF IInv
<1>3. ToldOk'
  BY <1>1 DEF Stop, IInv, ToldOk, WatchOk
<1>4. WatchOk'
  <2>1. twice' \in Nat /\ (twice' = 0 => twice = 0 /\ \A u \in Viewer : seat'[u] # "left")
    BY <1>1 DEF IInv, WatchOk
  <2>2. CASE Viewers \ {v} # {}
    <3>1. UNCHANGED <<ticking, idle, orphans>> /\ Viewers # {} /\ Viewers' # {}
      BY <1>1, <2>2 DEF Stop, Left
    <3>2. QED BY <1>1, <2>1, <3>1 DEF IInv, WatchOk
  <2>3. CASE Viewers \ {v} = {}
    <3>1. /\ ticking' = FALSE /\ idle' = TRUE
          /\ orphans' = IF idle THEN orphans + 1 ELSE orphans
      BY <2>3 DEF Stop, Left
    <3>2. orphans' \in Nat /\ (twice' = 0 => orphans' = 0)
      <4>1. twice' = 0 => ~idle
        BY <1>1, <2>1 DEF IInv, WatchOk, Viewers
      <4>2. QED BY <2>1, <3>1, <4>1 DEF IInv, WatchOk
    <3>3. {ticking, idle, overrun}' \subseteq BOOLEAN
      BY <1>1, <3>1 DEF IInv, WatchOk
    <3>4. QED BY <1>1, <2>1, <2>3, <3>1, <3>2, <3>3 DEF IInv, WatchOk
  <2>4. QED BY <2>2, <2>3
<1>5. ToldTheState'
  BY <1>1 DEF Stop, IInv, ToldTheState, ToldOk, At
<1>6. QED BY <1>2, <1>3, <1>4, <1>5 DEF IInv

-------------------------------------------------------------------------------
(* The loop *)

\* The loop's frame.
LEMMA LoopFrame ==
  ASSUME IInv, UNCHANGED streamFrame
  PROVE  /\ WatchOk' /\ Viewers' = Viewers /\ Viewers \in SUBSET Viewer
         /\ UNCHANGED <<seat, current, overrun, allow, asks, granted>>
BY WatchFrame DEF IInv, streamFrame, access, timers, Viewers

\* Announcing a state tells every viewer.
LEMMA SetStateFacts ==
  ASSUME IInv, NEW s \in Status, SetState(s), UNCHANGED <<seat, allow, asks, granted>>,
         faults' \in Nat
  PROVE  ToldOk' /\ state' = s /\ \A v \in Viewers' : told'[v] = s
<1>1. Viewers \in SUBSET Viewer /\ Viewers' = Viewers
  BY DEF Viewers
<1>2. state' = s /\ told' = Pushed(Viewers, s)
  BY DEF SetState
<1>3. /\ told' \in [Viewer -> Status \cup {"nothing"}]
      /\ \A v \in Viewers : told'[v] = s
      /\ \A v \in Viewer \ Viewers : told'[v] = told[v]
      /\ s # "nothing"
  BY <1>1, <1>2, PushedFacts DEF IInv
<1>4. QED BY <1>1, <1>2, <1>3 DEF IInv, ToldOk, Viewers

\* A connection is there; an abort that came meanwhile goes unheard.
LEMMA ConnectedKeeps ==
  ASSUME IInv, NEW s \in Stream, Connected(s)
  PROVE  IInv'
<1> DEFINE q == [stream[s] EXCEPT !.pc = "wait"]
<1>1. /\ stream[s].pc = "connect" /\ UNCHANGED <<streamFrame, state, told, faults>>
      /\ stream' = [stream EXCEPT ![s].pc = "wait"]
  BY DEF Connected, At
<1>2. unheard' \in BOOLEAN /\ (unheard => unheard') /\ (stream[s].aborted => unheard')
      /\ (unheard' => unheard \/ stream[s].aborted)
  <2>1. unheard' = (unheard \/ stream[s].aborted)
    BY Zenon DEF Connected
  <2>2. unheard \in BOOLEAN /\ stream[s].aborted \in BOOLEAN
    BY DEF IInv, StreamsOk, Loops
  <2>3. QED BY <2>1, <2>2, Zenon
<1>3. WatchOk' /\ Viewers' = Viewers
      /\ UNCHANGED <<seat, current, overrun, allow, asks, granted>>
  BY <1>1, LoopFrame
<1>4. /\ q \in Loops /\ q.pc = "wait" /\ q.aborted = stream[s].aborted
      /\ stream' = [stream EXCEPT ![s] = q]
      /\ s = current <=> ~stream[s].aborted
  BY <1>1, Moved DEF IInv
<1> HIDE DEF q
<1>5. /\ StreamsOk' /\ stream'[s] = q
      /\ \A t \in Stream : t # s => stream'[t] = stream[t]
  BY <1>2, <1>3, <1>4, StreamKept DEF IInv
<1>6. ToldOk'
  BY <1>1, <1>3 DEF IInv, ToldOk
<1>7. ToldTheState'
  BY <1>1, <1>2, <1>3, <1>4, <1>5 DEF IInv, ToldTheState, StreamsOk, At
<1>8. QED BY <1>3, <1>5, <1>6, <1>7 DEF IInv

\* Relay's first frame: everybody is told `live`.
LEMMA OpenedKeeps ==
  ASSUME IInv, NEW s \in Stream, Opened(s)
  PROVE  IInv'
<1> DEFINE q == [stream[s] EXCEPT !.pc = "open"]
<1>1. /\ stream[s].pc = "wait" /\ UNCHANGED <<streamFrame, unheard, faults>>
      /\ stream' = [stream EXCEPT ![s].pc = "open"] /\ SetState("live")
  BY DEF Opened, At
<1>2. WatchOk' /\ Viewers' = Viewers
      /\ UNCHANGED <<seat, current, overrun, allow, asks, granted>>
  BY <1>1, LoopFrame
<1>3. /\ q \in Loops /\ q.pc = "open" /\ q.aborted = stream[s].aborted
      /\ stream' = [stream EXCEPT ![s] = q]
      /\ s = current <=> ~stream[s].aborted
  BY <1>1, Moved DEF IInv
<1>4. unheard' \in BOOLEAN /\ unheard' = unheard /\ (s = current \/ unheard')
  BY <1>1 DEF IInv, StreamsOk
<1> HIDE DEF q
<1>5. /\ StreamsOk' /\ stream'[s] = q
      /\ \A t \in Stream : t # s => stream'[t] = stream[t]
  BY <1>2, <1>3, <1>4, StreamKept DEF IInv
<1>6. ToldOk' /\ state' = "live" /\ \A v \in Viewers' : told'[v] = "live"
  BY <1>1, <1>2, SetStateFacts DEF IInv, ToldOk, Status
<1>7. ToldTheState'
  BY <1>2, <1>3, <1>4, <1>5, <1>6 DEF ToldTheState, At
<1>8. QED BY <1>2, <1>5, <1>6, <1>7 DEF IInv

\* An attempt or a stream fails: everybody is told, unless it had been aborted.
LEMMA FailedKeeps ==
  ASSUME IInv, NEW s \in Stream, Failed(s)
  PROVE  IInv'
<1> DEFINE q == IF stream[s].aborted THEN Returned ELSE [stream[s] EXCEPT !.pc = "sleep"]
<1>1. /\ stream[s].pc \in {"connect", "wait", "open"} /\ UNCHANGED <<streamFrame, unheard>>
      /\ faults' \in Nat
      /\ stream' = [stream EXCEPT ![s] = q]
      /\ stream[s].aborted => UNCHANGED <<state, told>>
      /\ ~stream[s].aborted => SetState("reconnecting")
  BY DEF Failed, Over, IInv, ToldOk
<1>2. WatchOk' /\ Viewers' = Viewers
      /\ UNCHANGED <<seat, current, overrun, allow, asks, granted>>
  BY <1>1, LoopFrame
<1>3. /\ q \in Loops /\ q.pc \in {"none", "sleep"} /\ ~q.aborted
      /\ q.pc = "none" <=> stream[s].aborted
      /\ s = current <=> ~stream[s].aborted
  BY <1>1, Moved DEF IInv, Returned, Loops
<1>4. unheard' \in BOOLEAN /\ unheard' = unheard
  BY <1>1 DEF IInv, StreamsOk
<1> HIDE DEF q
<1>5. /\ StreamsOk' /\ stream'[s] = q
      /\ \A t \in Stream : t # s => stream'[t] = stream[t]
  <2>1. /\ s = current => q.pc # "none" /\ ~q.aborted
        /\ q.pc # "none" /\ ~q.aborted => s = current
        /\ q.pc \notin {"wait", "open"} /\ q \in Loops
    BY <1>3
  <2>2. /\ stream' = [stream EXCEPT ![s] = q] /\ current' = current
        /\ StreamsOk
    BY <1>1, <1>2 DEF IInv
  <2>3. QED BY <1>4, <2>1, <2>2, StreamKept
<1>6. CASE stream[s].aborted
  <2>1. ToldOk'
    BY <1>1, <1>2, <1>6 DEF IInv, ToldOk
  <2>2. ToldTheState'
    BY <1>1, <1>2, <1>3, <1>4, <1>5, <1>6 DEF IInv, ToldTheState, StreamsOk, At
  <2>3. QED BY <1>2, <1>5, <2>1, <2>2 DEF IInv
<1>7. CASE ~stream[s].aborted
  <2>1. /\ ToldOk' /\ state' = "reconnecting"
        /\ \A v \in Viewers' : told'[v] = "reconnecting"
    BY <1>1, <1>2, <1>7, SetStateFacts DEF Status
  <2>2. ToldTheState'
    BY <1>2, <1>3, <1>5, <1>7, <2>1 DEF ToldTheState, At
  <2>3. QED BY <1>2, <1>5, <2>1, <2>2 DEF IInv
<1>8. QED BY <1>6, <1>7

\* After the wait the loop tries again, or returns.
LEMMA WakeKeeps ==
  ASSUME IInv, NEW s \in Stream, Wake(s)
  PROVE  IInv'
<1> DEFINE q == IF stream[s].aborted THEN Returned ELSE [stream[s] EXCEPT !.pc = "connect"]
<1>1. /\ stream[s].pc = "sleep" /\ UNCHANGED <<streamFrame, unheard, state, told, faults>>
      /\ stream' = [stream EXCEPT ![s] = q]
  BY DEF Wake, At
<1>2. WatchOk' /\ Viewers' = Viewers
      /\ UNCHANGED <<seat, current, overrun, allow, asks, granted>>
  BY <1>1, LoopFrame
<1>3. /\ q \in Loops /\ q.pc \in {"none", "connect"} /\ ~q.aborted
      /\ q.pc = "none" <=> stream[s].aborted
      /\ s = current <=> ~stream[s].aborted
  BY <1>1, Moved DEF IInv, Returned, Loops
<1>4. unheard' \in BOOLEAN /\ unheard' = unheard
  BY <1>1 DEF IInv, StreamsOk
<1> HIDE DEF q
<1>5. /\ StreamsOk' /\ stream'[s] = q
      /\ \A t \in Stream : t # s => stream'[t] = stream[t]
  <2>1. /\ s = current => q.pc # "none" /\ ~q.aborted
        /\ q.pc # "none" /\ ~q.aborted => s = current
        /\ q.pc \notin {"wait", "open"} /\ q \in Loops
    BY <1>3
  <2>2. /\ stream' = [stream EXCEPT ![s] = q] /\ current' = current
        /\ StreamsOk
    BY <1>1, <1>2 DEF IInv
  <2>3. QED BY <1>4, <2>1, <2>2, StreamKept
<1>6. ToldOk'
  BY <1>1, <1>2 DEF IInv, ToldOk
<1>7. ToldTheState'
  BY <1>1, <1>2, <1>3, <1>4, <1>5 DEF IInv, ToldTheState, StreamsOk, At
<1>8. QED BY <1>2, <1>5, <1>6, <1>7 DEF IInv

-------------------------------------------------------------------------------
(* stop *)

\* A timer stops the hub: the current loop returns, or is marked.
LEMMA HaltKeeps ==
  ASSUME IInv, Halt,
         \/ idle /\ UNCHANGED orphans
         \/ orphans > 0 /\ orphans' = orphans - 1
  PROVE  IInv'
<1>1. /\ current' = NoStream /\ state' = "idle" /\ idle' = FALSE /\ ticking' = FALSE
      /\ UNCHANGED <<seat, told, access, unheard, faults, twice>>
      /\ Viewers' = Viewers
  BY DEF Halt, Viewers
<1>2. /\ overrun' \in BOOLEAN /\ (overrun => overrun') /\ (Viewers # {} => overrun')
      /\ (overrun' => overrun \/ Viewers # {})
  <2>1. overrun' = (overrun \/ Viewers # {})
    BY Zenon DEF Halt
  <2>2. overrun \in BOOLEAN
    BY DEF IInv, WatchOk
  <2>3. QED BY <2>1, <2>2, Zenon
<1>3. StreamsOk'
  <2>1. CASE current = NoStream
    <3>1. stream' = stream
      BY <2>1 DEF Halt, Aborted
    <3>2. QED BY <1>1, <2>1, <3>1 DEF IInv, StreamsOk
  <2>2. CASE current # NoStream
    <3> DEFINE q == IF stream[current].pc \in {"wait", "open"} THEN Returned
                    ELSE [stream[current] EXCEPT !.aborted = TRUE]
    <3>1. /\ current \in Stream /\ stream' = [stream EXCEPT ![current] = q]
          /\ stream[current].pc # "none"
      BY <2>2 DEF Halt, Aborted, IInv, StreamsOk
    <3>2. q \in Loops /\ q.pc \notin {"wait", "open"} /\ (q.pc # "none" => q.aborted)
      BY <3>1 DEF IInv, StreamsOk, Loops, Returned
    <3> HIDE DEF q
    <3>3. /\ stream' \in [Stream -> Loops] /\ stream'[current] = q
          /\ \A t \in Stream : t # current => stream'[t] = stream[t]
      BY <3>1, <3>2 DEF IInv, StreamsOk
    <3>4. QED BY <1>1, <3>1, <3>2, <3>3 DEF IInv, StreamsOk
  <2>3. QED BY <2>1, <2>2
<1>4. WatchOk'
  <2>1. orphans' \in Nat /\ twice' \in Nat
    BY <1>1 DEF IInv, WatchOk
  <2>2. twice = 0 => ~overrun' /\ orphans' = 0
    <3>1. twice = 0 => orphans = 0 /\ ~overrun /\ Viewers = {}
      BY DEF IInv, WatchOk
    <3>2. QED BY <1>2, <3>1
  <2>3. {ticking, idle, overrun}' \subseteq BOOLEAN
    BY <1>1, <1>2
  <2>4. QED BY <1>1, <1>2, <2>1, <2>2, <2>3 DEF IInv, WatchOk
<1>5. ToldOk'
  BY <1>1 DEF IInv, ToldOk, Status, access
<1>6. ToldTheState'
  BY <1>1, <1>2 DEF ToldTheState, Viewers
<1>7. QED BY <1>3, <1>4, <1>5, <1>6 DEF IInv

-------------------------------------------------------------------------------
(* The invariant *)

\* Every step keeps the invariant.
LEMMA StepKeeps == IInv /\ [Next]_vars => IInv'
<1> SUFFICES ASSUME IInv, [Next]_vars PROVE IInv'
  OBVIOUS
<1>1. CASE UNCHANGED vars
  <2>1. UNCHANGED <<seat, told, access, state, current, stream, ticking, idle, orphans,
                    overrun, unheard, faults, twice>>
    BY <1>1 DEF vars, timers
  <2>2. StreamsOk' /\ WatchOk'
    BY <2>1, StreamsFrame, WatchFrame DEF IInv
  <2>3. ToldOk' /\ ToldTheState'
    BY <2>1 DEF IInv, ToldOk, ToldTheState, access, Viewers, At
  <2>4. QED BY <2>2, <2>3 DEF IInv
<1>2. ASSUME NEW v \in Viewer, Leave(v) \/ LeaveAndKeep(v) \/ LeaveAgain(v) PROVE IInv'
  <2>1. CASE Leave(v)
    BY <2>1, StopKeeps DEF Leave
  <2>2. CASE LeaveAndKeep(v)
    BY <2>2, StopKeeps DEF LeaveAndKeep
  <2>3. CASE LeaveAgain(v)
    BY <2>3, StopKeeps DEF LeaveAgain
  <2>4. QED BY <1>2, <2>1, <2>2, <2>3
<1>3. CASE IdleFires \/ OrphanFires
  BY <1>3, HaltKeeps DEF IdleFires, OrphanFires
<1>4. ASSUME NEW s \in Stream, Loop(s) \/ Failed(s) PROVE IInv'
  BY <1>4, ConnectedKeeps, OpenedKeeps, WakeKeeps, FailedKeeps DEF Loop
<1>5. ASSUME NEW v \in Viewer, Join(v) \/ Ask(v) \/ RefreshAgain(v) \/ Answered(v) \/ Turn(v)
      PROVE IInv'
  BY <1>5, JoinKeeps, AccessKeeps DEF Ask
<1>6. QED BY <1>1, <1>2, <1>3, <1>4, <1>5 DEF Next

\* It holds at the start: nobody watches and no stream is open.
LEMMA InitIInv == Init => IInv
<1> SUFFICES ASSUME Init PROVE IInv
  OBVIOUS
<1>1. StreamsOk
  BY FlowsHubAssumption DEF Init, StreamsOk, Returned, Loops
<1>2. WatchOk
  <2>1. {ticking, idle, overrun} \subseteq BOOLEAN
    BY DEF Init
  <2>2. QED BY <2>1 DEF Init, WatchOk, Viewers
<1>3. ToldOk
  BY DEF Init, ToldOk, Status
<1>4. ToldTheState
  BY DEF Init, ToldTheState, Viewers
<1>5. QED BY <1>1, <1>2, <1>3, <1>4 DEF IInv

\* The invariant holds throughout.
THEOREM Invariance == Spec => []IInv
<1>1. QED BY InitIInv, StepKeeps, PTL DEF Spec

\* The variables keep their types, and whoever watches has been told something.
THEOREM TypeCorrect == Spec => []TypeOK
<1>1. IInv => TypeOK
  <2> SUFFICES ASSUME IInv PROVE TypeOK
    OBVIOUS
  <2>1. {ticking, idle, overrun, unheard} \subseteq BOOLEAN
    BY DEF IInv, StreamsOk, WatchOk
  <2>2. \A v \in Viewer : (told[v] = "nothing") = (seat[v] # "in")
    BY DEF IInv, ToldOk
  <2>3. QED BY <2>1, <2>2 DEF IInv, StreamsOk, WatchOk, ToldOk, TypeOK, Loops, Status
<1>2. QED BY <1>1, Invariance, PTL

\* One stream, there as long as somebody watches, for any number of viewers, of
\* loops still returning and of handles stopped twice.
THEOREM AlwaysOneStream == Spec => []OneStream
<1>1. IInv => OneStream
  <2> SUFFICES ASSUME IInv PROVE OneStream
    OBVIOUS
  <2>1. {s \in Stream : stream[s].pc # "none" /\ ~stream[s].aborted} = {current} \ {NoStream}
    BY DEF IInv, StreamsOk
  <2>2. QED BY <2>1 DEF IInv, StreamsOk, WatchOk, OneStream
<1>2. QED BY <1>1, Invariance, PTL

\* Every viewer has been told the state of the hub, and it is the stream's.
THEOREM AlwaysTold == Spec => []ToldTheState
<1>1. IInv => ToldTheState
  BY DEF IInv
<1>2. QED BY <1>1, Invariance, PTL

===============================================================================
