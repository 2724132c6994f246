------------------------------- MODULE FlowsHub -------------------------------
(* The live topic flows (server/flows): one stream from Hubble Relay for all  *)
(* viewers of the process.  It is opened for the first viewer, reconnected    *)
(* when it ends, and closed some time after the last viewer has left.  What a *)
(* viewer may see is asked again every minute, as that viewer.                *)
(*                                                                            *)
(* A Stream is one run of the loop of #start with its AbortController; #ac is  *)
(* `current`.  Relay is configured: without it the hub only ever says so.     *)
EXTENDS Naturals

CONSTANTS
  Viewer,      \* subscriptions to the topic
  Stream,      \* names for loops of #start, reused when one has returned
  NoStream,    \* null
  MaxFaults,   \* bound: attempts and streams that fail, checks that cannot be made,
               \* permissions granted or withdrawn
  MaxTwice     \* bound: handles that are stopped twice

ASSUME FlowsHubAssumption ==
  /\ NoStream \notin Stream
  /\ {MaxFaults, MaxTwice} \subseteq Nat

VARIABLES
  seat,      \* per viewer: out, in, or left while its handle is still held
  told,      \* per viewer: the last status pushed to it
  allow,     \* per viewer: what its last access answer was
  asks,      \* per viewer: access checks on their way, some with their answer
  granted,   \* the cluster: viewers that may list pods
  state,     \* FlowsHub.state
  current,   \* #ac
  stream,    \* the loops
  ticking,   \* #tick is set
  idle,      \* #idleTimer is set
  orphans,   \* idle timers that fire and that nothing refers to any more
  overrun,   \* such a timer has stopped the hub under a viewer
  unheard,   \* a stream that had been aborted has connected all the same
  faults, twice

access == <<allow, asks, granted>>
timers == <<ticking, idle, orphans, overrun>>
vars == <<seat, told, access, state, current, stream, timers, unheard, faults, twice>>

Returned == [pc |-> "none", aborted |-> FALSE]

Viewers == {v \in Viewer : seat[v] = "in"}

Init ==
  /\ seat = [v \in Viewer |-> "out"]
  /\ told = [v \in Viewer |-> "nothing"]
  /\ allow = [v \in Viewer |-> "unknown"]
  /\ asks = [v \in Viewer |-> {}]
  /\ granted \in SUBSET Viewer
  /\ state = "idle"
  /\ current = NoStream
  /\ stream = [s \in Stream |-> Returned]
  /\ ticking = FALSE /\ idle = FALSE /\ orphans = 0 /\ overrun = FALSE /\ unheard = FALSE
  /\ faults = 0 /\ twice = 0

-------------------------------------------------------------------------------
(* Viewers *)

\* Pushed(V, s): what the viewers have been told once status s goes out to V.
Pushed(V, s) == [v \in Viewer |-> IF v \in V THEN s ELSE told[v]]

\* Mutant: a viewer that joins a running stream waits for the next change.
GreetedLater(v) == told

\* A viewer that joins a running stream is told the state.
Greeted(v) == Pushed({v}, state)

\* join, and the first access check of subscribeFlows.  With no stream, one is
\* started, which announces `connecting` to every viewer.
Join(v) ==
  /\ seat[v] = "out"
  /\ seat' = [seat EXCEPT ![v] = "in"]
  /\ IF current = NoStream
     THEN LET s == CHOOSE s \in Stream : stream[s] = Returned IN
          /\ \E s1 \in Stream : stream[s1] = Returned
          /\ current' = s
          /\ stream' = [stream EXCEPT ![s].pc = "connect"]
          /\ state' = "connecting"
          /\ told' = Pushed(Viewers \cup {v}, "connecting")
     ELSE told' = Greeted(v) /\ UNCHANGED <<current, stream, state>>
  /\ idle' = FALSE
  /\ ticking' = TRUE
  /\ allow' = [allow EXCEPT ![v] = "unknown"]
  /\ asks' = [asks EXCEPT ![v] = {"asked"}]
  /\ UNCHANGED <<granted, orphans, overrun, unheard, faults, twice>>

\* The function join returns.  When nobody is left it starts the idle timer,
\* and forgets one that was started before.
Left(V) ==
  IF V # {} THEN UNCHANGED <<ticking, idle, orphans>>
  ELSE /\ ticking' = FALSE
       /\ idle' = TRUE
       /\ orphans' = IF idle THEN orphans + 1 ELSE orphans

\* stop of a subscription; `next` is where its handle is afterwards.
Stop(v, next) ==
  /\ seat' = [seat EXCEPT ![v] = next]
  /\ told' = [told EXCEPT ![v] = "nothing"]
  /\ allow' = [allow EXCEPT ![v] = "unknown"]
  /\ asks' = [asks EXCEPT ![v] = {}]
  /\ Left(Viewers \ {v})
  /\ UNCHANGED <<granted, state, current, stream, overrun, unheard, faults>>

Leave(v) == seat[v] = "in" /\ Stop(v, "out") /\ UNCHANGED twice

\* A subscription message the hub refuses stops the older handle of the id and
\* keeps it (live.ts:113, :137), so that it is stopped again later.
LeaveAndKeep(v) == seat[v] = "in" /\ twice < MaxTwice /\ twice' = twice + 1 /\ Stop(v, "left")
LeaveAgain(v) == seat[v] = "left" /\ Stop(v, "out") /\ UNCHANGED twice

-------------------------------------------------------------------------------
(* Access, asked as the viewer *)

\* The timer of subscribeFlows: ask again.
Refresh(v) ==
  /\ seat[v] = "in" /\ asks[v] = {}
  /\ asks' = [asks EXCEPT ![v] = {"asked"}]
  /\ UNCHANGED <<seat, told, allow, granted, state, current, stream, timers, unheard, faults, twice>>

\* A slow check is overtaken by the next minute's.
RefreshAgain(v) ==
  /\ seat[v] = "in" /\ asks[v] \in {{"yes"}, {"no"}}
  /\ asks' = [asks EXCEPT ![v] = @ \cup {"asked"}]
  /\ UNCHANGED <<seat, told, allow, granted, state, current, stream, timers, unheard, faults, twice>>

\* The cluster reviews a check; a check that cannot be made is a "no".
Reviewed(v) ==
  /\ "asked" \in asks[v]
  /\ \/ /\ asks' = [asks EXCEPT ![v] = (@ \ {"asked"}) \cup
                     {IF v \in granted THEN "yes" ELSE "no"}]
        /\ UNCHANGED faults
     \/ /\ faults < MaxFaults
        /\ faults' = faults + 1
        /\ asks' = [asks EXCEPT ![v] = (@ \ {"asked"}) \cup {"no"}]
  /\ UNCHANGED <<seat, told, allow, granted, state, current, stream, timers, unheard, twice>>

\* The answer reaches the subscription.
Answered(v) ==
  \E answer \in asks[v] \ {"asked"} :
    /\ allow' = [allow EXCEPT ![v] = answer]
    /\ asks' = [asks EXCEPT ![v] = @ \ {answer}]
    /\ UNCHANGED <<seat, told, granted, state, current, stream, timers, unheard, faults, twice>>

Turn(v) ==
  /\ faults < MaxFaults
  /\ faults' = faults + 1
  /\ granted' = IF v \in granted THEN granted \ {v} ELSE granted \cup {v}
  /\ UNCHANGED <<seat, told, allow, asks, state, current, stream, timers, unheard, twice>>

-------------------------------------------------------------------------------
(* The loop of a stream *)

At(s, pc) == stream[s].pc = pc

\* Mutant: only viewers whose access is known are told.
SetStateForKnown(s) ==
  state' = s /\ told' = Pushed({v \in Viewers : allow[v] # "unknown"}, s)

SetState(s) == state' = s /\ told' = Pushed(Viewers, s)

streamFrame == <<seat, access, current, timers, twice>>

\* The connection is there.  Only now does anything listen for the abort: one
\* that came while connecting is not seen, and the stream runs on.
Connected(s) ==
  /\ At(s, "connect")
  /\ stream' = [stream EXCEPT ![s].pc = "wait"]
  /\ unheard' = (unheard \/ stream[s].aborted)
  /\ UNCHANGED <<streamFrame, state, told, faults>>

\* Relay's first frame.
Opened(s) ==
  /\ At(s, "wait")
  /\ stream' = [stream EXCEPT ![s].pc = "open"]
  /\ SetState("live")
  /\ UNCHANGED <<streamFrame, unheard, faults>>

\* Mutant: an attempt or a stream that fails is not retried.
OverForGood(s) == [stream EXCEPT ![s] = Returned]

\* After an attempt or a stream: wait and try again, unless aborted meanwhile.
Over(s) == [stream EXCEPT ![s] = IF @.aborted THEN Returned ELSE [@ EXCEPT !.pc = "sleep"]]

\* The attempt fails, or the stream ends, resets, goes away or falls silent.
Failed(s) ==
  /\ stream[s].pc \in {"connect", "wait", "open"}
  /\ faults < MaxFaults
  /\ faults' = faults + 1
  /\ stream' = Over(s)
  /\ IF stream[s].aborted THEN UNCHANGED <<state, told>> ELSE SetState("reconnecting")
  /\ UNCHANGED <<streamFrame, unheard>>

Wake(s) ==
  /\ At(s, "sleep")
  /\ stream' = [stream EXCEPT ![s] =
                  IF @.aborted THEN Returned ELSE [@ EXCEPT !.pc = "connect"]]
  /\ UNCHANGED <<streamFrame, unheard, state, told, faults>>

-------------------------------------------------------------------------------
(* stop: the idle timer fires *)

\* Mutant: the loop is forgotten, and goes on.
AbortedForgotten == stream

\* The abort closes a connected stream, and marks one that connects or waits.
Aborted ==
  IF current = NoStream THEN stream
  ELSE [stream EXCEPT ![current] =
          IF @.pc \in {"wait", "open"} THEN Returned ELSE [@ EXCEPT !.aborted = TRUE]]

Halt ==
  /\ stream' = Aborted
  /\ current' = NoStream
  /\ state' = "idle"
  /\ idle' = FALSE
  /\ ticking' = FALSE
  /\ overrun' = (overrun \/ Viewers # {})
  /\ UNCHANGED <<seat, told, access, unheard, faults, twice>>

IdleFires == idle /\ Halt /\ UNCHANGED orphans
OrphanFires == orphans > 0 /\ Halt /\ orphans' = orphans - 1

Loop(s) == Connected(s) \/ Opened(s) \/ Wake(s)
Ask(v) == Refresh(v) \/ Reviewed(v)

Next ==
  \/ \E v \in Viewer :
       \/ Join(v) \/ Leave(v) \/ LeaveAndKeep(v) \/ LeaveAgain(v)
       \/ Ask(v) \/ RefreshAgain(v) \/ Answered(v) \/ Turn(v)
  \/ \E s \in Stream : Loop(s) \/ Failed(s)
  \/ IdleFires \/ OrphanFires

Spec == Init /\ [][Next]_vars

\* Timers fire; Relay and the apiserver answer.
FairSpec ==
  /\ Spec
  /\ \A s \in Stream : WF_vars(Loop(s))
  /\ \A v \in Viewer : WF_vars(Ask(v)) /\ WF_vars(Answered(v))
  /\ WF_vars(IdleFires)

-------------------------------------------------------------------------------
(* Properties *)

\* The variables have their types, and a viewer has been told something from
\* the moment it joined (hub.ts:157-159).
TypeOK ==
  /\ seat \in [Viewer -> {"out", "in", "left"}]
  /\ told \in [Viewer -> {"nothing", "idle", "connecting", "live", "reconnecting"}]
  /\ allow \in [Viewer -> {"unknown", "no", "yes"}]
  /\ asks \in [Viewer -> SUBSET {"asked", "yes", "no"}]
  /\ granted \subseteq Viewer
  /\ state \in {"idle", "connecting", "live", "reconnecting"}
  /\ current \in Stream \cup {NoStream}
  /\ stream \in [Stream -> [pc : {"none", "connect", "wait", "open", "sleep"},
                            aborted : BOOLEAN]]
  /\ \A v \in Viewer : (told[v] = "nothing") = (seat[v] # "in")
  /\ {ticking, idle, overrun, unheard} \subseteq BOOLEAN
  /\ {orphans, faults, twice} \subseteq Nat

\* A stream that nobody aborted is the hub's current one: there is one, it is
\* there as long as there are viewers, and frames are then computed for them
\* (hub.ts:151-168, :171-179).  Two things can part the hub from that: a handle
\* that was stopped twice leaves a timer that stops the hub under a viewer, and
\* an abort that is not heard leaves a second connection to Relay.
OneStream ==
  /\ {s \in Stream : stream[s].pc # "none" /\ ~stream[s].aborted} = {current} \ {NoStream}
  /\ overrun \/ (Viewers # {} => current # NoStream /\ ticking /\ ~idle)
  /\ Viewers = {} => ~ticking /\ (idle \/ current = NoStream)
  /\ twice = 0 => ~overrun
  /\ ~unheard => \A s \in Stream : stream[s].pc \in {"wait", "open"} => s = current

\* Every viewer has been told the state the hub is in, and it is the state of
\* the hub's own stream: `live` while that stream is open, `reconnecting` after
\* it failed (hub.ts:137-142, :185-211), unless an abort was not heard.
ToldTheState ==
  ~overrun =>
    /\ \A v \in Viewers : told[v] = state
    /\ current # NoStream /\ ~unheard =>
         /\ (state = "live") = At(current, "open")
         /\ At(current, "sleep") => state = "reconnecting"

\* When nobody watches the hub lets go of its stream, a viewer that stays is
\* told `live` again and again, and what it may see follows its permissions,
\* answers that overtake each other and failed checks notwithstanding
\* (hub.ts:161-167, :190-216; subscribe.ts:49-63).
EveryoneServed ==
  /\ []<>(Viewers # {} \/ current = NoStream)
  /\ \A v \in Viewer :
       /\ []<>(seat[v] # "in" \/ told[v] = "live" \/ overrun)
       /\ []<>(seat[v] # "in" \/ allow[v] = (IF v \in granted THEN "yes" ELSE "no"))

===============================================================================
