---------------------------- MODULE SupportTickets ----------------------------
(* The support-ticket pipeline of the console server: platform failures and   *)
(* recoveries become jobs on a bounded in-memory queue (support/queue.ts), a  *)
(* single worker per replica turns each job into Plane calls and one incident *)
(* record in the document store (support/service.ts, support/tickets.ts).     *)
(*                                                                            *)
(* Every replica of the deployment watches the cluster and runs a queue of    *)
(* its own; the incident records and Plane are shared.  A worker yields at    *)
(* every await, so each store or Plane call is a step.                        *)
EXTENDS Integers, Sequences, FiniteSets

CONSTANTS
  Replica,      \* console processes
  Incident,     \* incident ids
  Family,       \* the incidents a joining node resolves ('autoscaler:' prefix)
  Capacity,     \* SUPPORT_TICKET_QUEUE
  QueryLimit,   \* open records one prefix recovery reads
  Cooldown,     \* config.commentCooldownMinutes, in ticks
  AutoResolve,  \* config.autoResolve
  Completed,    \* whether the Plane project has a completed state
  NoRecord,     \* the incident has no record yet
  Failures,     \* kinds of failure that may happen: see Fail
  MaxSignals,   \* bound: platform transitions
  MaxManual,    \* bound: manual ticket requests
  MaxNow,       \* bound: clock
  MaxFaults     \* bound: failures

ASSUME TicketAssumption ==
  /\ Family \subseteq Incident
  /\ Capacity \in Nat \ {0}
  /\ QueryLimit \in Nat \ {0}
  /\ Cooldown \in Nat
  /\ AutoResolve \in BOOLEAN /\ Completed \in BOOLEAN
  /\ Failures \subseteq {"store", "plane", "lost", "state", "crash"}
  /\ {MaxSignals, MaxManual, MaxNow, MaxFaults} \subseteq Nat

VARIABLES
  signals,  \* the transitions the cluster went through, oldest first
  seen,     \* per replica: how many of them its watch has delivered
  noted,    \* the signals whose notification is stored
  queue,    \* per replica: jobs waiting
  worker,   \* per replica: the job in hand and where its processing stands
  record,   \* the stored incident records
  item,     \* Plane's work items, by number
  now,      \* the clock
  manual,   \* manual requests made
  faults,   \* failures so far
  due,      \* history: what the newest accepted job about an incident asks for
  shed,     \* history: incidents whose newest job the full queue dropped
  failed    \* history: incidents whose newest job threw or died with its process

vars == <<signals, seen, noted, queue, worker, record, item, now, manual, faults, due, shed, failed>>
history == <<due, shed, failed>>

\* A failure of one incident, its recovery, or a node joining.
Signal == [kind : {"failed", "recovered"}, about : {{i} : i \in Incident}]
            \cup {[kind |-> "joined", about |-> Family]}

Jobs == [signal : Signal, created : BOOLEAN, manual : BOOLEAN]

MaxItem == MaxSignals * Cardinality(Replica) + MaxManual + MaxFaults

\* `since` is `lastCommentAt ?? openedAt`; `previous` is 0 for a first ticket.
Records == [incident : Incident, state : {"open", "resolved"}, issue : 1..MaxItem,
            since : 0..MaxNow, previous : 0..MaxItem]

\* `opened` and `said`: when the work item and its recurrence comments were posted.
Items == [incident : Incident, done : BOOLEAN, opened : 0..MaxNow,
          said : Seq(0..MaxNow), previous : 0..MaxItem]

IsOpen(rec) == rec # NoRecord /\ rec.state = "open"

IdleJob == [signal |-> [kind |-> "joined", about |-> Family], created |-> FALSE, manual |-> FALSE]

Idle == [at |-> "idle", job |-> IdleJob, stamp |-> 0, rec |-> NoRecord, todo |-> {}]

Steps == {"idle", "look", "create", "file", "comment", "keep", "extras", "close", "move", "settle"}

Workers == [at : Steps, job : Jobs, stamp : 0..MaxNow, rec : Records \cup {NoRecord},
            todo : SUBSET Records]

Init ==
  /\ signals = <<>>
  /\ seen = [r \in Replica |-> 0]
  /\ noted = {}
  /\ queue = [r \in Replica |-> <<>>]
  /\ worker = [r \in Replica |-> Idle]
  /\ record = [i \in Incident |-> NoRecord]
  /\ item = <<>>
  /\ now = 0 /\ manual = 0 /\ faults = 0
  /\ due = [i \in Incident |-> "nothing"]
  /\ shed = {} /\ failed = {}

-------------------------------------------------------------------------------
(* The queue *)

\* The incidents of job j that no waiting job of q is about.
OnlyIn(j, q) == {i \in j.signal.about : \A k \in DOMAIN q : i \notin q[k].signal.about}

\* Mutant: the bound is never applied.
PushUnbounded(r, j) ==
  /\ queue' = [queue EXCEPT ![r] = Append(@, j)]
  /\ UNCHANGED history

\* Mutant: a full queue refuses the newest job instead of dropping the oldest.
PushRefused(r, j) ==
  /\ queue' = IF Len(queue[r]) >= Capacity THEN queue ELSE [queue EXCEPT ![r] = Append(@, j)]
  /\ due' = [i \in Incident |->
               IF i \notin j.signal.about THEN due[i]
               ELSE IF j.signal.kind = "failed" THEN "open" ELSE "resolved"]
  /\ shed' = shed \ j.signal.about
  /\ failed' = failed \ j.signal.about

\* BoundedQueue.push and run: a full queue drops its oldest waiting job.
Push(r, j) ==
  LET full == Len(queue[r]) >= Capacity
      q == Append(IF full THEN Tail(queue[r]) ELSE queue[r], j)
      lost == IF full THEN OnlyIn(Head(queue[r]), q) ELSE {}
  IN /\ queue' = [queue EXCEPT ![r] = q]
     /\ due' = [i \in Incident |->
                  IF i \notin j.signal.about THEN due[i]
                  ELSE IF j.signal.kind = "failed" THEN "open" ELSE "resolved"]
     /\ shed' = (shed \ j.signal.about) \cup lost
     /\ failed' = failed \ j.signal.about

\* The cluster: an incident fails or recovers, or a node joins.
Transition(s) ==
  /\ Len(signals) < MaxSignals
  /\ signals' = Append(signals, s)
  /\ UNCHANGED <<seen, noted, queue, worker, record, item, now, manual, faults, history>>

\* A call that fails: one fault of a kind that may happen.
Fail(kind) ==
  /\ kind \in Failures
  /\ faults < MaxFaults
  /\ faults' = faults + 1

\* The watch delivers the next transition: emitNotificationResult, then
\* observeNotification.  `created` is FALSE only when an earlier notification
\* has the same key; a repeated failure may carry a key of its own.
Observe(r) ==
  /\ seen[r] < Len(signals)
  /\ LET s == signals[seen[r] + 1] IN
       /\ noted' = noted \cup {s}
       /\ \E created \in (IF s \in noted THEN BOOLEAN ELSE {TRUE}) :
            Push(r, [signal |-> s, created |-> created, manual |-> FALSE])
  /\ seen' = [seen EXCEPT ![r] = @ + 1]
  /\ UNCHANGED <<signals, worker, record, item, now, manual, faults>>

\* The notification cannot be written: the signature is remembered all the
\* same, and nothing reaches the queue.
ObserveUnwritten(r) ==
  /\ seen[r] < Len(signals)
  /\ Fail("store")
  /\ seen' = [seen EXCEPT ![r] = @ + 1]
  /\ UNCHANGED <<signals, noted, queue, worker, record, item, now, manual, history>>

\* "Create support ticket" on a notification the console holds.  classify
\* treats a recovery as a recovery even here.
Request(r, s) ==
  /\ manual < MaxManual
  /\ s \in noted
  /\ Push(r, [signal |-> s, created |-> TRUE, manual |-> TRUE])
  /\ manual' = manual + 1
  /\ UNCHANGED <<signals, seen, noted, worker, record, item, now, faults>>

\* drain: the single worker takes the oldest job.
Take(r) ==
  /\ worker[r].at = "idle"
  /\ queue[r] # <<>>
  /\ worker' = [worker EXCEPT ![r] = [Idle EXCEPT !.at = "look", !.job = Head(queue[r])]]
  /\ queue' = [queue EXCEPT ![r] = Tail(@)]
  /\ UNCHANGED <<signals, seen, noted, record, item, now, manual, faults, history>>
-------------------------------------------------------------------------------
(* The worker: runJob and processDecision, one step per await.               *)

\* A step of worker r, at position `at`, that also leaves the queues alone.
Working(r, at) ==
  /\ worker[r].at = at
  /\ UNCHANGED <<signals, seen, noted, queue, now, manual>>

Goto(r, at, rec, todo) ==
  worker' = [worker EXCEPT ![r] = [@ EXCEPT !.at = at, !.rec = rec, !.todo = todo]]

Finish(r) == worker' = [worker EXCEPT ![r] = Idle]

\* A recurrence that gets no comment: a manual request, a de-duplicated
\* notification, or one inside the cooldown.
Silent(job, rec) == job.manual \/ ~job.created \/ now - rec.since < Cooldown

\* open: the record is read once, and everything below works on that copy.
LookFailure(r) ==
  /\ Working(r, "look")
  /\ worker[r].job.signal.kind = "failed"
  /\ \E i \in worker[r].job.signal.about :
       LET rec == record[i]
           next == IF ~IsOpen(rec) THEN "create"
                   ELSE IF Silent(worker[r].job, rec) THEN "keep" ELSE "comment"
       IN worker' = [worker EXCEPT ![r] = [@ EXCEPT !.at = next, !.rec = rec, !.stamp = now]]
  /\ UNCHANGED <<record, item, faults, history>>

\* The open records a recovery reads: the incident's own, or for a prefix the
\* first page of ALL open records, filtered afterwards.
Pages(signal) ==
  LET open == {i \in Incident : IsOpen(record[i])}
  IN IF signal.kind = "joined"
       THEN {page \cap Family : page \in {P \in SUBSET open :
               Cardinality(P) = IF Cardinality(open) < QueryLimit THEN Cardinality(open)
                                ELSE QueryLimit}}
       ELSE {open \cap signal.about}

LookRecovery(r) ==
  /\ Working(r, "look")
  /\ worker[r].job.signal.kind # "failed"
  /\ \E page \in Pages(worker[r].job.signal) :
       IF page = {} THEN Finish(r)
       ELSE Goto(r, "close", NoRecord, {record[i] : i \in page})
  /\ UNCHANGED <<record, item, faults, history>>

\* Mutant: the link to the resolved ticket is forgotten.
NewItemUnlinked(r) ==
  LET w == worker[r]
  IN [incident |-> CHOOSE i \in w.job.signal.about : TRUE, done |-> FALSE, opened |-> now,
      said |-> <<>>, previous |-> 0]

\* createIssue on Plane, after the evidence, the project and the labels.
NewItem(r) ==
  LET w == worker[r]
  IN [incident |-> CHOOSE i \in w.job.signal.about : TRUE, done |-> FALSE, opened |-> now,
      said |-> <<>>, previous |-> IF w.rec = NoRecord THEN 0 ELSE w.rec.issue]

\* Mutant: the extras come first and the mapping is never stored.
CreateIssueUnfiled(r) ==
  /\ Working(r, "create")
  /\ item' = Append(item, NewItem(r))
  /\ Goto(r, "extras", worker[r].rec, {})
  /\ UNCHANGED <<record, faults, history>>

CreateIssue(r) ==
  /\ Working(r, "create")
  /\ item' = Append(item, NewItem(r))
  /\ Goto(r, "file",
          [incident |-> NewItem(r).incident, state |-> "open", issue |-> Len(item) + 1,
           since |-> worker[r].stamp, previous |-> NewItem(r).previous], {})
  /\ UNCHANGED <<record, faults, history>>

\* The mapping is stored before the optional extras.
FileRecord(r) ==
  /\ Working(r, "file")
  /\ record' = [record EXCEPT ![worker[r].rec.incident] = worker[r].rec]
  /\ Goto(r, "extras", worker[r].rec, {})
  /\ UNCHANGED <<item, faults, history>>

\* relate, attach, annotate: every failure is caught.
Extras(r) ==
  /\ Working(r, "extras")
  /\ Finish(r)
  /\ UNCHANGED <<record, item, faults, history>>

\* Mutant: lastCommentAt is not advanced.
CommentUnstamped(r) ==
  /\ Working(r, "comment")
  /\ item' = [item EXCEPT ![worker[r].rec.issue].said = Append(@, now)]
  /\ Goto(r, "keep", worker[r].rec, {})
  /\ UNCHANGED <<record, faults, history>>

\* A recurrence comment, posted after the evidence; what is kept for the cooldown
\* is the time the job read the record.
Comment(r) ==
  /\ Working(r, "comment")
  /\ item' = [item EXCEPT ![worker[r].rec.issue].said = Append(@, now)]
  /\ Goto(r, "keep", [worker[r].rec EXCEPT !.since = worker[r].stamp], {})
  /\ UNCHANGED <<record, faults, history>>

\* The open record is stored again, whole.
KeepRecord(r) ==
  /\ Working(r, "keep")
  /\ record' = [record EXCEPT ![worker[r].rec.incident] = worker[r].rec]
  /\ Finish(r)
  /\ UNCHANGED <<item, faults, history>>

\* resolve, one record at a time: the completed state is looked up (a failed
\* lookup is caught, and the project may have none), then the resolution comment
\* is posted.
CloseNext(r) ==
  /\ Working(r, "close")
  /\ \E rec \in worker[r].todo :
       \/ /\ Goto(r, IF AutoResolve /\ Completed THEN "move" ELSE "settle", rec, worker[r].todo \ {rec})
          /\ UNCHANGED faults
       \/ /\ AutoResolve
          /\ Fail("state")
          /\ Goto(r, "settle", rec, worker[r].todo \ {rec})
  /\ UNCHANGED <<record, item, history>>

\* updateIssue: the work item moves to the completed state.
MoveIssue(r) ==
  /\ Working(r, "move")
  /\ item' = [item EXCEPT ![worker[r].rec.issue].done = TRUE]
  /\ Goto(r, "settle", worker[r].rec, worker[r].todo)
  /\ UNCHANGED <<record, faults, history>>

\* The record is stored: resolved, or still open with the comment's time.
Settled(rec) == IF AutoResolve THEN [rec EXCEPT !.state = "resolved"] ELSE [rec EXCEPT !.since = now]

SettleRecord(r) ==
  /\ Working(r, "settle")
  /\ record' = [record EXCEPT ![worker[r].rec.incident] = Settled(worker[r].rec)]
  /\ IF worker[r].todo = {} THEN Finish(r) ELSE Goto(r, "close", NoRecord, worker[r].todo)
  /\ UNCHANGED <<item, faults, history>>

-------------------------------------------------------------------------------
(* Failures, crashes, time *)

StoreSteps == {"look", "file", "keep", "settle"}
PlaneSteps == {"create", "comment", "close", "move"}

\* Mutant: a job that throws leaves the drain loop marked as running.
ThrowStops(r) ==
  /\ worker[r].at \in StoreSteps \cup PlaneSteps
  /\ Fail(IF worker[r].at \in StoreSteps THEN "store" ELSE "plane")
  /\ worker' = [worker EXCEPT ![r].at = "stopped"]
  /\ failed' = failed \cup OnlyIn(worker[r].job, queue[r])
  /\ UNCHANGED <<signals, seen, noted, queue, record, item, now, manual, due, shed>>

\* A store call, or a Plane call refused or out of attempts, throws to drain:
\* the job is counted as failed and forgotten.
Throw(r) ==
  /\ worker[r].at \in StoreSteps \cup PlaneSteps
  /\ Fail(IF worker[r].at \in StoreSteps THEN "store" ELSE "plane")
  /\ Finish(r)
  /\ failed' = failed \cup OnlyIn(worker[r].job, queue[r])
  /\ UNCHANGED <<signals, seen, noted, queue, record, item, now, manual, due, shed>>

\* PlaneLimiter.attempt: a POST that Plane applied and whose answer was lost
\* (a timeout, a 5xx) is sent again.
Resend(r) ==
  /\ Fail("lost")
  /\ \/ /\ Working(r, "create")
        /\ item' = Append(item, NewItem(r))
     \/ /\ Working(r, "comment")
        /\ item' = [item EXCEPT ![worker[r].rec.issue].said = Append(@, now)]
  /\ UNCHANGED <<worker, record, history>>

\* A process restarts: its queue and the job in hand are gone, and its watch
\* takes the present state of the cluster as the silent baseline.
Restart(r) ==
  /\ Fail("crash")
  /\ queue' = [queue EXCEPT ![r] = <<>>]
  /\ worker' = [worker EXCEPT ![r] = Idle]
  /\ seen' = [seen EXCEPT ![r] = Len(signals)]
  /\ LET waiting == UNION {queue[r][k].signal.about : k \in DOMAIN queue[r]}
         inHand == IF worker[r].at = "idle" THEN {} ELSE worker[r].job.signal.about
     IN failed' = failed \cup waiting \cup inHand
  /\ UNCHANGED <<signals, noted, record, item, now, manual, due, shed>>

Tick ==
  /\ now < MaxNow
  /\ now' = now + 1
  /\ UNCHANGED <<signals, seen, noted, queue, worker, record, item, manual, faults, history>>

Work(r) ==
  \/ Take(r)
  \/ LookFailure(r) \/ CreateIssue(r) \/ FileRecord(r) \/ Extras(r) \/ Comment(r) \/ KeepRecord(r)
  \/ LookRecovery(r) \/ CloseNext(r) \/ MoveIssue(r) \/ SettleRecord(r)

Next ==
  \/ \E s \in Signal : Transition(s)
  \/ \E r \in Replica :
       \/ Work(r)
       \/ Observe(r) \/ ObserveUnwritten(r)
       \/ \E s \in Signal : Request(r, s)
       \/ Throw(r) \/ Resend(r) \/ Restart(r)
  \/ Tick

Spec == Init /\ [][Next]_vars

\* Every await of a worker ends (each call has a timeout), and its loop goes on.
FairSpec == Spec /\ \A r \in Replica : WF_vars(Work(r) \/ Throw(r))

-------------------------------------------------------------------------------
(* Properties *)

\* The shape of the state, and two facts the worker relies on: a queue never
\* exceeds its capacity, and every record names an existing work item of its
\* own incident.
TypeOK ==
  /\ signals \in Seq(Signal)
  /\ seen \in [Replica -> 0..MaxSignals]
  /\ noted \subseteq {signals[k] : k \in DOMAIN signals}
  /\ queue \in [Replica -> Seq(Jobs)]
  /\ \A r \in Replica : seen[r] <= Len(signals) /\ Len(queue[r]) <= Capacity
  /\ worker \in [Replica -> Workers]
  /\ record \in [Incident -> Records \cup {NoRecord}]
  /\ \A i \in Incident : record[i] # NoRecord =>
       /\ record[i].incident = i
       /\ record[i].issue \in DOMAIN item
       /\ item[record[i].issue].incident = i
  /\ item \in Seq(Items) /\ Len(item) <= MaxItem
  /\ now \in 0..MaxNow /\ manual \in 0..MaxManual /\ faults \in 0..MaxFaults
  /\ due \in [Incident -> {"nothing", "open", "resolved"}]
  /\ shed \subseteq Incident /\ failed \subseteq Incident

Earlier(n) == {m \in 1..(n - 1) : item[m].incident = item[n].incident}

\* tickets.ts: one Plane work item per incident for as long as it lasts.  A
\* second item of an incident exists only after the one before it was resolved,
\* and it links exactly that one.  Where the project has no completed state, or
\* its lookup is refused, an incident is resolved and its item stays where it is
\* (tickets.ts:307-309): of such items only the link is claimed.
OneTicketAtATime ==
  \A n \in DOMAIN item :
    LET before == Earlier(n)
    IN IF before = {} THEN item[n].previous = 0
       ELSE /\ item[n].previous \in before
            /\ \A m \in before : m <= item[n].previous
            /\ Completed => item[item[n].previous].done

\* Of three posts on a ticket in a row, its opening counted as one, the last comes
\* at least a cooldown after the first.  tickets.ts:13 promises a cooldown between
\* any two; but what is kept is the time the job read the record (:216, :242),
\* while the comment is posted after the evidence is collected (:240-241), so two
\* posts that follow each other may be closer.
CommentCooldown ==
  \A n \in DOMAIN item :
    LET posts == <<item[n].opened>> \o item[n].said
    IN \A k \in 1..(Len(posts) - 2) : posts[k + 2] - posts[k] >= Cooldown

Quiet(r) == queue[r] = <<>> /\ worker[r].at = "idle"

\* Whether the record of i shows what the newest job about i asked for.
Reflects(i) ==
  /\ due[i] = "open" => IsOpen(record[i])
  /\ due[i] = "resolved" /\ AutoResolve => ~IsOpen(record[i])

\* When the worker has caught up, every incident whose newest job was neither
\* dropped nor failed has the ticket state that job asked for.
CaughtUp ==
  (\A r \in Replica : Quiet(r)) =>
    \A i \in Incident \ (shed \cup failed) : Reflects(i)

\* The records implement the ledger: a resolved ticket is never reopened, and a
\* later failure files a new one that links it.
Ticket(rec) ==
  IF rec = NoRecord THEN NoRecord
  ELSE [state |-> rec.state, issue |-> rec.issue, previous |-> rec.previous]

Ledger == INSTANCE TicketLedger WITH
  NoTicket <- NoRecord, ticket <- [i \in Incident |-> Ticket(record[i])]

ASSUME RecordAssumption == NoRecord \notin Records /\ NoRecord \notin Ledger!Tickets

KeepsLedger == Ledger!Spec

\* Every replica works its queue off again and again, whatever Plane answers.
QueueDrains == \A r \in Replica : []<>Quiet(r)
===============================================================================
