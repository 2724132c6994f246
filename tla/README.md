# A TLA+ model of the console server

This directory holds a formal model of the parts of adhar-console whose
correctness depends on the order in which things happen: what the browser, the
server's replicas, Keycloak, the Kubernetes API server, Plane and the tools
behind the proxy do between two awaits of one another.  The modules are
translated from the TypeScript sources; TLC checks them on small instances and
TLAPS proves most of the invariants for every size.

    tlc -config AuthSessionTurns.cfg MCAuthSession.tla      # a run
    tlapm AuthSession_proofs.tla                             # the proofs of a module

`PROJECT.json` ties it together: every run with its properties, every definition
with the source lines it stands for, a mutant of the code per property, the
hazards the properties are for, the disagreements found, the theorems.

## 1. The system

The console is one Deno process per replica (`deploy/k8s/deployment.yaml` runs
two) that serves the browser application, keeps the browser's session, proxies
the platform's tools and runs a number of background loops.  A replica is single
threaded: code between two awaits is atomic.  What is shared, and between whom:

| Shared state | Where it lives | Who shares it |
|---|---|---|
| `documents` rows (sessions, incidents, notifications, organisations, jobs) | Postgres | all replicas; upserts of whole rows, no locks, no versions |
| module-level maps (in-flight refreshes, caches, watchers, queues, the graph) | memory | the requests and loops of one replica |
| tokens, groups | Keycloak | everybody |
| work items | Plane | all replicas |
| objects | Kubernetes API server | all replicas, through list + watch |

### Components, their state and their operations

**Auth sessions** (`auth/handlers.ts`, `auth/server.ts`, `auth/session-store*.ts`,
`auth/entitlement.ts`, `request-user.ts`).  State: one row per session (tokens,
expiry, time of sign-in, chosen organisation), the map `inflightRefresh`, the
stamps `forcedRefreshAt`.  Operations: `getValidSession`, `refreshSessionNow`,
`computeContext` with `resolveActiveTenant`, `activateOrganization`, logout.
Hard: a request reads the row, awaits Keycloak and writes the whole row; any other
request may have refreshed, switched or logged out meanwhile.  Correct when
requests share refreshes instead of spending a token twice, nobody is signed out
by a neighbour, the absolute cap cannot be stretched, logout is final, and the
chosen organisation is neither lost nor reverted.

**Tool proxy and its GET cache** (`proxy.ts`, `tool-cache.ts`).  State: a bounded
map of answers, a map of running loads.  Operations: a GET (fresh hit, join, load,
stale fallback), a write that drops the tool's entries.  Hard: loads overlap with
writes and with each other, the upstream refuses or loses answers.  Correct when
misses share one load, every reader is answered, answers never go backwards, and a
write is visible to the next read.

**Live client** (`packages/shell-ui/src/live.ts`).  State: the current WebSocket,
the subscriptions, a reconnect, an idle and a hidden timer, a watchdog.
Operations: subscribe, unsubscribe, the socket's events, the timers, visibility,
focus and network events.  Hard: sockets outlive the client's interest in them and
their handlers still run; timers fire after what they were set for has changed.
Correct when the current socket carries exactly the subscriptions, nobody is left
without a connection or a timer, and a hidden tab holds nothing.

**Live hub** (`live.ts` of the server).  State: sockets with their `subs` of stop
handles, and the map of shared Kubernetes watchers by user, cluster and path.
Operations: subscribe (start a watch, or join one and be painted from its memory),
unsubscribe, teardown of a socket, and the loop of a watch: list, watch, event,
clean end, failure, fatal answer.  Hard: panels come and go between a list and its
events, on different sockets, while the list breaks off or is refused.  Correct when
all panels of a watch show the same objects as the watch holds, a watch runs exactly
while somebody has it, a key has one, and a panel that stays follows the cluster.

**Flows hub** (`flows/hub.ts`, `subscribe.ts`, `h2c-grpc.ts`).  State: the viewers, one
stream to Hubble Relay with its abort controller, the frame timer, the idle timer,
the answer of each viewer's access check.  Operations: join, leave, connect, open,
fail and reconnect, the idle timer's stop, the minutely access check.  Hard: a
viewer, the timers, an abort and a reconnect meet in any order, and answers to access
checks overtake each other.  Correct when there is one stream while there are viewers
and none some time after, viewers are told what it is doing, and what they see
follows their permissions.

**Members of an organisation** (`workspace/handlers.ts`, `organizations.ts`,
`tenancy/org-access.ts`).  State: three kinds of Keycloak group and nothing else.
Operations: add, promote, demote, remove, leave, add to and remove from a team.  Hard:
each is a sequence of Keycloak calls without a transaction, two of them interleave
between any two calls, and a call may fail before or after it took effect.  Correct
when an organisation keeps an admin of its own, nobody is in a team or an admin of an
organisation they are no member of, and a refused change is undone.

**Service-account watches and knowledge graph** (`k8s/sa-watch.ts`,
`graph/builder.ts`, `graph/index-store.ts`, `graph/model.ts`).  State: per watched
kind the position of its list+watch loop and the keys it owns; the labels of pods
and selectors of services seen last; the index with its contributor counts.
Operations: list, upsert, prime, sweep, deliver, relist; apply and remove.  Hard:
two watches deliver in any order objects whose contributions depend on each other,
and deletions that happen while a watch is down are never delivered.  Correct when
a part stands exactly while somebody contributes it, correlated edges are those of
the present labels and selectors, and a caught-up graph is the cluster.

**Support tickets** (`support/queue.ts`, `service.ts`, `tickets.ts`, `plane.ts`,
`classify.ts`) fed by **notifications and platform events** (`notify.ts`,
`events/platform-events.ts`).  State: a bounded queue and one worker per replica,
one incident record per incident, Plane's work items.  Operations: observe,
request, push, open, comment, resolve, retry, restart.  Hard: the queue drops, calls
fail or are applied without an answer, the process dies between two writes, and
every replica runs the same pipeline.  Correct when an incident has one ticket at a
time, a new one links the one before, comments keep their distance, and a caught-up
worker has left every incident as its newest job asked.

**Others**, not modelled: creating, joining and deleting organisations, the per-user
caches, provisioning jobs, the workspace's projects, tokens and approvals, the tenancy
directory and the membership migration, scan waivers, billing, AI agents, the GitOps
writers (scaffolder, app deletion, teardown, scorecard fixes), the Kubernetes gateway
and exec plumbing, ticket evidence and redaction, the document store itself, and the
browser's pages, which are by far most of the repository's lines and hold no state that
anything else depends on.  `PROJECT.json` gives the reason for each.

## 2. The modules

| Module | Models | Checked by | Proofs |
|---|---|---|---|
| `AuthSession` | one browser session and its requests | `MCAuthSession` | `AuthSession_proofs` |
| `ToolCache` | the shared GET cache as the proxy uses it | `MCToolCache` | `ToolCache_proofs` |
| `LiveClient` | one tab's `LiveClient` | `MCLiveClient` | `LiveClient_proofs` |
| `LiveHub` | the server side of `/api/live`, topic k8s | `MCLiveHub` | `LiveHub_proofs` |
| `FlowsHub` | the shared flow stream and its viewers | `MCFlowsHub` | `FlowsHub_proofs` |
| `Membership` | changes to an organisation's members | `MCMembership` | `Membership_proofs` |
| `GraphIndex` | the reference-counted index (no behaviour of its own) | through `KnowledgeGraph` | through `KnowledgeGraph_proofs` |
| `KnowledgeGraph` | watches, builder and index | `MCKnowledgeGraph` | `KnowledgeGraph_proofs` |
| `TicketLedger` | what the ticket pipeline promises, abstractly | as a `PROPERTY` of `SupportTickets` | through `SupportTickets_proofs` |
| `SupportTickets` | queues, workers, records, Plane | `MCSupportTickets` | `SupportTickets_proofs` |

`KnowledgeGraph` instantiates `GraphIndex` (`Index == INSTANCE ...`);
`SupportTickets` instantiates `TicketLedger` with a refinement mapping that forgets
everything but state, number and link of each record.  MC modules only name values
and symmetries.  In every module, operators whose comment begins with `Mutant:`
are deliberately wrong variants of the definition that follows them, used to
confirm that a property notices; no specification refers to them.

### AuthSession

A step is what a request does from one await to the next.  `row` is the stored
session; `req[p]` is what request `p` holds: the session it works with, the copy it
just read, the refresh it awaits, and where it stands (`pc`, `stage`).  A token set
is its generation, which grows by one with each grant of Keycloak; time counts
access-token lifetimes.

| Action | Code |
|---|---|
| `LoadSession` / `UseSession` | `readSession`, then the synchronous part of `getValidSession` or `refreshSessionNow`: cap, expiry, join or start a refresh |
| `KeycloakAnswers` / `FlightSettles` | the token endpoint; the entry leaves `inflightRefresh` and all its waiters resume with the same answer |
| `SaveSession` | `signSessionToken`: an upsert of the whole session, or a put that fails |
| `ResolveTenant` | `resolveActiveTenant` and the rest of `computeContext`, with Keycloak or the directory failing |
| `DeleteSession` / `RevokeToken` | logout |
| `Tick` | a token lifetime; a forced refresh may be made again |

A lookup of the row that fails looks like a row that is not there, a delete that fails is
swallowed, and after a put that fails the request goes on with what it holds; Keycloak may
fail before or after it spent the token.  `spoilt` and `hurt` remember what a property has
to excuse: that new tokens were lost on the way to the row, which tokens were handed to
Keycloak again by somebody who could not join their refresh, that Keycloak could not be
asked, and that a request's own lookup or refresh failed.

Kinds of request: `plain` (needs a valid session), `context` (goes through
`getRequestContext`), `switch` (`activateOrganization`), `logout`.

### ToolCache

One tool whose state is a version number, the count of writes applied.  A GET is
`Hit`, or `Miss` followed by `Served`, `Answered` (headers: the entry is dated
here), `BodyRead` (the entry is stored), with `Refused` and `Failed` for what the
upstream may do; a write is `WriteApplied`, then `WriteAnswered` (drops the entries),
`AnsweredElsewhere` (it went through the other replica, whose cache is another one) or
`WriteLost`.  After the headers nothing limits the time of a body: `Stalls` is a body that
stops coming, `Dropped` the end of such a connection, which may never happen.  `entries` is a sequence because a JavaScript map evicts in
insertion order.  An oversized body (`Oversize`) is answered and not kept.

### LiveClient

One handler or timer of `class LiveClient` is one step.  `sock[k]` is a WebSocket
object with its `readyState`, the subscriptions the server has from it, and whether
it is half-open; `cur` is `this.ws`.  A socket that is no longer current keeps its
handlers, as in the code.  `Closed` is `onclose` of any socket.  The catch branch of
`new WebSocket` is left out (the constructor throws only for a malformed URL or a
content policy), and the backoff's length is not modelled: a set timer fires some
time.  The one timing fact used is that the reconnect delay (at most 30 s) is shorter
than the idle delay (60 s): `IdleFires` does not close while a reconnect timer runs.

### LiveHub

A panel is a subscription id on a socket; `handle[p]` is the watch that its stop handle
in `subs` belongs to, `watch[w]` one `K8sWatcher` with the position of its loop (`pc`),
`shared` the map `k8sWatchers`.  The cluster is a log of changes per list, so that a
list, an event and the version between them are positions in it, and `view[p]` is what
the browser shows after the messages it was sent.

| Action | Code |
|---|---|
| `Connect` / `Teardown` | the upgrade; `onclose` and `onerror`, which stop every handle |
| `Subscribe` | `onmessage` with `sub`: the older handle of the id is stopped, then `watchK8s` begins a watch (`Begin`) or joins one and replays its answer (`Join`) |
| `SubscribeBadly` | a `sub` the server refuses after it stopped the older handle, which stays in `subs` |
| `Unsubscribe` | `onmessage` with `unsub` |
| `Listed`, `ListRefused`, `ListFailed` | the list of the loop: resync to all, fatal answer to all, or wait |
| `Dialled`, `Event`, `StreamOver`, `Wake` | the watch request, one event, the end of the stream, the wait |
| `Hang`, `Resets` | an apiserver that falls silent in a call, and a connection the system then gives up, which it need not |
| `Change`, `Turn` | the cluster: an object comes or goes; a permission or a definition does |

The pages of one list are one step, and a JavaScript promise that settles after its
watch was stopped finds `stopped` set and does nothing, so a stopped watch takes no step.

### FlowsHub

`stream[s]` is one run of `#start`'s loop with its `AbortController`, `current` is `#ac`.
`Join` is `join` with the first access check of `subscribeFlows`; `Leave` the function
it returns; `IdleFires` and `OrphanFires` the idle timer, the second when its handle was
overwritten.  `Connected`, `Opened`, `Failed`, `Wake` are the loop, from the
connection over Relay's first frame to the wait before the next attempt.  `Refresh`,
`RefreshAgain`, `Reviewed`, `Answered` are the access check; the cluster's answer may
arrive after a later one.  An abort closes a connected stream, but is only noted while
one connects (`h2c-grpc.ts` attaches its listener afterwards).

### Membership

A request is one handler: `Begin` (the caller is confirmed to be an admin, live, in
Keycloak), `Read` (the person's groups), `Guard` (`otherAdmins` before anything is
taken), `Grant` / `Revoke` (one Keycloak call each, teams before the admin group before
the member group), `Recheck` (`otherAdmins` again), `GiveBack`, `Final`, `TakeBack`
(the rollback of `addToGroups`).  `Throws` lets any call fail before or after its
effect, `Dies` ends a request where it stands.

### GraphIndex and KnowledgeGraph

A part is a node or an edge; the index keeps, per part, who contributes it, and per
source, what it contributed.  `Contribute` is `apply` (and `remove`) for the sources
touched by one handler.  `KnowledgeGraph` has two watched kinds, pods and services,
that stand for the eleven: they are the ones correlated with each other, and the
pod's image node is a part shared by several objects.  A watch is `List`, `Fill` (one
listed object), `Filled` (ready, or the sweep of a resync), `Deliver`, `Break`;
`ListRefused` ends the watch of a kind that is not installed or not allowed, `Stall` is a
connection that falls silent and `Resets` one the system then gives up.  The cluster
changes at any moment (`Change`).

### TicketLedger and SupportTickets

`TicketLedger` says: a ticket is filed only when the incident has no open one, under
a number not used for it before, linked to the one before; an open ticket may be
resolved; nothing else happens.  `SupportTickets` has, per replica, a bounded queue
(`Push` drops the oldest) and a worker with one step per await: `Take`,
`LookFailure`, `CreateIssue`, `FileRecord`, `Extras`, `Comment`, `KeepRecord` for a
failure, `LookRecovery`, `CloseNext`, `MoveIssue`, `SettleRecord` for a recovery.
`Throw` is any store or Plane call failing, `Resend` the limiter repeating a POST
that Plane had applied, `Restart` the death of a process, `ObserveUnwritten` a
notification that could not be stored.  Every post on a ticket carries the time at which it
is posted, which is not the stamp the record keeps.  `Completed` says whether the project
has a completed state; where it has none an incident is resolved and its item stays put.

## 3. The runs

Passing runs check `TypeOK` where the module is first exercised; the table names
the rest.

| Run | Shows | Bounds |
|---|---|---|
| `auth_overlap` | `SingleFlight`, `NoSpuriousSignOut`, `RecreatedByOverlapOnly`: overlapping requests share refreshes, and who can share one is not signed out by it | 3 requests, 2 replicas, 1 expiry, rotation, 1 fault of Keycloak or the store; 3,257,051 states |
| `auth_turns` | `CapHolds`, `KeepsTenant`, `SignedOutForCause`, `EveryRequestAnswered` for requests one after the other | 2 requests of any kind, rotation, 1 fault, clock past the cap; 702,670 states |
| `auth_logout` | violates `LogoutFinal`: a refresh in progress writes the row back after logout | 3 requests, 1 replica |
| `toolcache_reads` | `MonotonicReads`, `QuietWriteVisible`, `EveryReadAnswered` | 3 GETs, 2 urls, 1 write through this process or another, 1 entry, both age limits passed, 1 fault (a stalled body among them); 459,246 states |
| `live_tab` | `CarriesSubs`, `NeverStranded`, `SuspendedStaysDown`, `ServedWhenAlone` | 2 subscriptions, 3 sockets at once, 2 visits, 2 faults; 239,185 states |
| `live_hub` | `SameView`, `OneWatchPerKey`, `PanelsFollow` | 3 panels on 2 sockets of 2 subscriptions each, 1 list of 1 object, 2 changes, 3 watchers, 2 faults (a call that hangs among them), 1 refused subscription; 91,672 states |
| `flows_hub` | `OneStream`, `ToldTheState`, `EveryoneServed` | 2 viewers, 2 streams at once, 1 fault, 1 handle stopped twice; 168,664 states |
| `members` | `AdminLeft`, `Nested`, `RefusedIsUndone` | 3 people, one of them a platform admin, 3 requests of any kind, 2 at once, 1 fault; 1,727,149 states |
| `graph_sync` | `RefCounted`, `SelectsExact`, `HoldsTheCluster`, `CatchesUp` | a pod and its successor of the same name, a service, 2 labels, 4 changes, 1 watch broken or silent, services may be refused; 117,250 states |
| `tickets_one` | `OneTicketAtATime`, `CommentCooldown` | 1 replica, 1 incident, 4 signals, 1 manual request, 1 refused call, 4 ticks; 1,278,933 states |
| `tickets_failures` | `CaughtUp`, `KeepsLedger`, `QueueDrains` | 2 incidents, a queue of 1, 3 signals, 1 failure of any of five kinds; 485,672 states |
| `tickets_replicas` | violates `OneTicketAtATime`: two replicas file two tickets | 2 replicas, 2 signals |

Why these bounds are enough to be interesting: three requests are the least in
which one starts a refresh, one joins it and one does something else; three GETs
over a cache of one entry give eviction, joining and a reader that comes after both;
two pods that share a name and an image give a part that changes hands and one that
is shared; a queue of one job drops at the second; four signals let an incident fail,
recur, recover and fail again; two faults let a socket drop and its successor fail
or go silent; three panels on two sockets give a watch that is started, joined, left,
ended and begun again under the same key, and one change before and one after a panel
joins; two flow streams are an aborted one that still connects and its successor; with
three people two admins can leave, be removed or be demoted at once while a platform
admin acts from outside, and a third request can follow.  Every action of every module fires in some passing run.

`CHECK_DEADLOCK FALSE` stands in the configurations whose environment stops at its
bounds (no more signals, faults, changes, visits, requests, names for streams); `AuthSession` has an explicit
`Finished` step instead and is checked for deadlock.

### Fairness

- `AuthSession`: every await returns.  The database answers and every call to
  Keycloak carries a timeout; the browser owes nothing.
- `ToolCache`: headers have a timeout.  A body ends, breaks off, or stops coming for
  good: nothing is assumed of `Dropped`, and `EveryReadAnswered` exempts the readers such a
  body holds.
- `LiveClient`: a connection attempt that does not fail succeeds, a socket told to
  close closes, a set timer fires, the watchdog interval runs.  Nobody owes a
  subscription or a look at the tab.
- `LiveHub`: a call of the loop ends, breaks, or hangs for good; the wait ends.  Nothing
  is assumed of `Resets`, so a watch that hangs may hang for ever, and `PanelsFollow` exempts
  its panels.  Panels and the cluster owe nothing; the number of faults is bounded.
- `FlowsHub`: the loop of a stream goes on, access checks are asked every minute and
  answered, the idle timer fires.  Viewers owe nothing.
- `Membership`: none; its properties are safety.
- `KnowledgeGraph`: the list has a time limit (`gateway.ts:564-565`) and is asked again,
  and what arrives on a working watch is read.  Nothing is assumed of `Resets`: a watch
  whose connection falls silent may stay so.
- `SupportTickets`: each await of the worker ends, successfully or by throwing, and
  `drain` goes on; only the number of failures is bounded.

### Assumptions of particular properties

- `NoSpuriousSignOut` excuses a session that ended (logout, revocation, cap), a request
  whose own lookup or refresh failed, and, as tokens rotate, a token handed to Keycloak
  twice by somebody the in-flight map could not let join.  That case does occur (section 6);
  the property says that there is no other.
- `SignedOutForCause` holds, and is proved, for requests one after the other: there, the only
  excuse beside an ended session and a failed call is that new tokens never reached the row.
- `KeepsTenant` holds, and is proved, for requests that do not overlap; with overlap it
  does not (section 6), and `LogoutFinal` is violated (`auth_logout`).
- `MonotonicReads` does not count answers too large for the cache, and like
  `QuietWriteVisible` it speaks of reads that come to one process.  A quiet write is one that
  process answered while no load of the read's url was running in it.
- `EveryReadAnswered` exempts a reader whose load's body has stopped coming.
- `OneTicketAtATime` and `CommentCooldown` are checked, and proved, for one replica
  without repeated POSTs, crashes and failing store calls.  A state lookup that is refused
  counts as a project without a completed state: of an item resolved that way
  `OneTicketAtATime` claims the link and not that it was closed.
- `CommentCooldown` is about three posts in a row, by the time they were posted: the last
  comes at least a cooldown after the first.  Two posts may come closer (section 6).
- `CaughtUp` exempts incidents whose newest job was dropped by the full queue, threw,
  or died with its process, and is checked for fewer open records than the page of
  200 holds.  `AutoResolve` is on in the passing runs.
- `HoldsTheCluster` is checked for lists of one page and speaks of each kind when it is
  caught up.  `CatchesUp` exempts a kind that is refused, whose first fill is then never
  reported, and one whose connection stays silent.
- `PanelsFollow` exempts the panels of a watch that hangs.
- `ServedWhenAlone` speaks of executions in which no second socket was ever opened;
  `CarriesSubs`, `NeverStranded` and `SuspendedStaysDown` of all.
- `OneWatchPerKey` says that the map holds the running watch of its key until a handle
  is stopped a second time (`strayed`), and that this takes a refused resubscription.
- `OneStream` and `ToldTheState` hold until a handle is stopped twice (`overrun`) or an
  abort goes unheard (`unheard`); `EveryoneServed` exempts the first.
- `AdminLeft` exempts an admin taken away by a request that did not get to look again
  (`unguarded`); `Nested` exempts people two requests were about at once, platform
  admins, and what a rollback left behind (`half`); `RefusedIsUndone` the teams of a
  person whose leave was refused.  Section 6 says what happens in these cases.

## 4. What is proved

All proofs are for arbitrary constants that satisfy the modules' `ASSUME`s.

**AuthSession_proofs**, for any number of overlapping requests and replicas:
`TypeCorrect`, `AbsoluteCap` (`CapHolds`), `SharedRefresh` (`SingleFlight`),
`OnlyOverlapsRecreate` (`RecreatedByOverlapOnly`) and, with rotating tokens or without,
`SharersNeverSignOut` (`NoSpuriousSignOut`).  `CapHolds` alone is not inductive:
nothing in it prevents a copy of the session in some request's hands from carrying a
younger sign-in.  `IInv` adds that every copy (the row, what requests hold, what a
refresh started from) dates from the sign-in, that a request past `getValidSession` came
in before the cap, and which stages go with which positions.  `OnlyOverlapsRecreate`
needs that a request which began after the row was gone holds nothing
(`LateComersEmptyHanded`); `SharersNeverSignOut` that a row that is not there was deleted or
not looked up (`NullsExplained`), and that Keycloak refuses a token only when the session is
over or the token is known to have been spent twice (`RefusalsExplained`).  One lemma per operator that moves a
request, then one step per action.

For a browser whose requests do not overlap (`MaxActive = 1`, which caps the requests in
progress in `Begin`, and `Req` finite, so that they can be counted), any number of requests
one after the other, any replicas and with rotation: `OrganisationKept` (`KeepsTenant`),
`LogoutFinalInTurn` (`LogoutFinal`) and `SignedOutForCauseInTurn` (`SignedOutForCause`).
`LogoutFinal` fails with overlap (section 5), so overlapping requests are all that can cause
that failure; with overlap `SignedOutForCause` would have to excuse tokens spent twice as
well.  The three rest on `TakingTurns` (`TurnsTaken`): the copy a request, or the refresh it
awaits, works from is still what the row holds (but for tokens a failed put has lost), it is
about to save another organisation only when told to, when Keycloak could not be asked, or
when the caller does not belong to the row's, and a refresh under way has its one waiter.
`OrganisationKept` reads the property off it.  `LogoutFinalInTurn` adds `SignedOut`: after
the logout the row stays deleted and nobody at work holds a session.
`SignedOutForCauseInTurn` adds `Newest`: until new tokens are lost, they are with the
refresh that was granted, else with the request about to save them, else in the row, so
that no token is spent twice.

`RequestsMoveOn` (`MovesOn`) needs no such assumption: with any overlap and any failures,
every step that touches a request lowers `Distance`, the number of stages and of positions
within the stage it still has before it, so that a request is answered after 47 steps at
the most.  The one position where others must move is the wait for a refresh, and
`SharedRefresh` says that the refresh is there.

**ToolCache_proofs**, for any requests, urls, writes, cache size and age limits:
`TypeCorrect` (with one entry per url and at most `MaxEntries`), `ReadsNeverGoBack`
(`MonotonicReads`), `QuietWritesShow` (`QuietWriteVisible`).  The two ghosts are floors
(the newest answer shown for a url; the version at the last quiet write about it), and the
invariant says where the floor lives: at most one load runs per url and its followers are
listed with it (`OneLoad`), the cached answer of a url is at least every answer shown
(`Newest`), versions count the writes applied (`Counted`).  `FollowersFollowALoad`
(`FollowsALoad`) and `ReadsMoveOn` (`MovesOn`): who joined a load waits for one that runs,
and every step that touches a read leaves it fewer awaits, of seven at the most.

**KnowledgeGraph_proofs**, for any pods, services, labels and any number of changes and
broken watches: `TypeCorrect`, `CountsAreExact` (`RefCounted`), `SelectsIsExact`
(`SelectsExact`) and, when every list fits one page, `CaughtUpIsTheCluster`
(`HoldsTheCluster`).  Everything that touches the index goes through `Absorb`; the heart
of the second and third is that the services outside `Affected` contribute the same before
and after.  `HoldsTheCluster` speaks of quiet moments only; `Synced` says, at every moment,
where the difference between graph and cluster is: in the objects still to fill, in the
events still on the stream, or in the keys the sweep is about to drop.

**LiveClient_proofs**, for any number of subscriptions and sockets: `TypeCorrect`,
`CurrentCarries` (`CarriesSubs`), `NobodyStranded` (`NeverStranded`), `SuspendedIsDown`
(`SuspendedStaysDown`).  `NeverStranded` is not inductive: `onclose` reconnects only when
`wantOpen` holds, so `TabInv` adds that whoever is subscribed, the client wants a
connection, and that the reconnect timer never runs in a suspended tab.

**LiveHub_proofs**, for any sockets, panels, lists, objects and changes: `TypeCorrect`,
`WatchedOnce` (`OneWatchPerKey`) and `EverybodySeesTheSame` (`SameView`).  The invariant
adds `Steady`: a watch that follows its stream has listed, a watch stands at a version
its list has reached, a stopped one has no panels, the map knows watches by their own
key, and only refused subscriptions leave spent handles.  Three lemmas carry the proof,
one for stopping any set of handles (`StopKeeps`), one for a panel that joins a watch
(`JoinedKeeps`), one per step of the loop; that a stopped watch is free for `Begin` to
reuse is a counting argument over the finite sets of panels and watches.

**FlowsHub_proofs**, for any number of viewers, streams and faults: `TypeCorrect`,
`AlwaysOneStream` (`OneStream`), `AlwaysTold` (`ToldTheState`).  The invariant ties each
stream's position to its being aborted or current (`StreamsOk`), the timers to there being
viewers (`WatchOk`), and the state to the current stream's position (`ToldOk`).

**Membership_proofs**, for any people, concurrent requests and failures: `TypeCorrect`,
`AdminAlwaysLeft` (`AdminLeft`).  `AdminLeft` speaks of an organisation at rest; the
invariant says what holds meanwhile: if there is no admin, some request is still obliged to
look and to give one back (`Owed`).  Two removals may both have passed the first check, but
the last of the two to take its admin away has its second look still before it.
`AlwaysNested` (`Nested`) and `RefusalsUndone` (`RefusedIsUndone`) need to know what a
request in the middle of its calls has left to do, and against which groups: `Tidy`
(`AlwaysTidy`) says that two requests about a person are remembered (`OneEach`), which
groups each kind of request adds, takes and notes (`Planned`), that what it found is still
there or noted as taken (`Undoable`), that what a refusal gives back completes what was
found (`Returning`), and that the member group is added first and taken last (`Orderly`).
The exemptions of the properties appear as the guards of its conjuncts.

**SupportTickets_proofs**, for one process (`Alone`) and any incidents, queue length,
cooldown, signals, requests and failures: `TypeCorrect` and `Refinement` (`KeepsLedger`:
every step is a step of `TicketLedger` or none) without further assumptions; `OneTicket`
(`OneTicketAtATime`) and `Cooled` (`CommentCooldown`) when nothing fails but calls that
Plane refuses (`Reliable`); `Caught` (`CaughtUp`) under every kind of failure, when the
page a recovery reads holds all open records (`WholePages`).  A model value stands for
the missing record, and is assumed to be no record (`RecordAssumption`).  None of the
properties is inductive, because each speaks of the store while the worker acts on a copy
it took some awaits ago.  `IInv` says that the copy is still good (`Sound`): nobody else
writes records, a ticket about to be filed is newer than any a record names, what a
recovery has still to close is what the store holds.  `Counted` bounds the work items by
the signals, requests and failures that caused them.  On top of it each theorem has an
invariant of its own: which of record and worker names the newest work item of an incident
(`Followed`), which of them knows when it was last commented on (`Heard`), and whether the
newest job about an incident waits, is in hand or shows in its record (`Newest`).  With two
processes `Sound` fails, and so does `OneTicketAtATime` (`tickets_replicas`).

Every safety property that a passing run checks is proved, under the assumptions named
here.  Only model-checked: all liveness (`EveryRequestAnswered`, `EveryReadAnswered`,
`ServedWhenAlone`, `PanelsFollow`, `EveryoneServed`, `CatchesUp`, `QueueDrains`), which
depends on fairness and is out of the prover's reach.  For the first two the part that
does not depend on it is proved: the `MovesOn` theorems bound the steps of a request and of
a read, and who waits for another's refresh or load has one that runs.  These two action
properties and `FollowsALoad` hold in TLC on the constants of `auth_turns`,
`auth_overlap` and `toolcache_reads` as well, but no run lists them: the theorems say more.

## 5. Disagreements a run shows

1. **Logout is undone by a refresh in progress** (`auth_logout`,
   `auth/session-store.ts:95`).  The session row is upserted whole from a copy read
   before an await.  `RecreatedByOverlapOnly` in `auth_overlap` bounds the damage: only
   a request already in progress at the logout can do it, and `LogoutFinalInTurn` proves
   that without overlap the logout is final.
2. **Two replicas file two tickets** (`tickets_replicas`, `support/tickets.ts:215`).
   The queue that serialises an incident is per process.

## 6. Known divergences without a run of their own

Met while modelling; each can be reproduced by changing a constant or a property.

Sessions
- With token rotation the in-flight map does not prevent every spurious logout
  (`handlers.ts:236-241`): the entry leaves the map in `finally`, before the new tokens are
  put into the row (`288` against `273`); a request that reads the row in between, that read
  it earlier, or that runs in the other replica spends the old token once more.  A request
  that re-signs the session from an older copy can also put spent tokens back
  (`session-store.ts:95`).  These are the `respent` tokens that `NoSpuriousSignOut` names.
- "A forced refresh that fails must never sign anyone out" (`handlers.ts:307-309`): if
  Keycloak spent the token and its answer, or the put of the new tokens, was lost, the row
  keeps a dead token and the next refresh signs the user out (`lost` in
  `SignedOutForCause`).
- A lookup of the row that throws is taken for a row that is not there
  (`session-store.ts:156-158`): a signed-in request is turned away.
- A delete that fails at logout is swallowed (`session-store.ts:173-177`) and the row stays;
  only the revocation at Keycloak then ends the session, at its next refresh.
- A switch of organisation that overlaps a refresh can lose: the refresh saves the
  organisation of the caller that started it (`server.ts:252-258`), also for a switch
  that joined it.
- A switch answered 409 has already been saved (`organizations.ts:669-674`, `689`).

Tool cache
- `invalidate` drops entries and not loads: an answer read before a write can be cached
  after the write has dropped the entries, and the next read within the time limit does not
  see the write (`tool-cache.ts:75`; `22-23` says it does).  `QuietWriteVisible` states
  what holds.
- The cache is per process and two replicas run (`deploy/k8s/deployment.yaml:11`): a write
  through one leaves the entries of the other, which are served until they expire, against
  "visible on the very next read" (`tool-cache.ts:22-23`).
- A body that stops coming holds its load, and every later reader of the url once its entry
  has expired joins that load (`proxy.ts:581-582`, `653`; `tool-cache.ts:67-68`).
- A load carries the abort signal of the request that started it (`proxy.ts:594`): when
  that browser goes away, every follower gets its error.
- Insertion order is not age order when loads overlap: `at` is taken when the headers
  arrive, the entry inserted when the body ends (`tool-cache.ts:57` against `86-90`).
- An oversized body returns from `set` before the older entry is deleted, which may
  then stand in as a stale answer (`tool-cache.ts:54`).

Live client
- `open` replaces `this.ws` without closing it, and neither does `ensureOpen` clear the
  reconnect timer nor the timer look at `this.ws`: a pending timer opens a second socket
  (`packages/shell-ui/src/live.ts:128`, `201`; `6-7` promise one per tab).
- A second socket that goes on receiving heartbeats keeps `lastMsgAt` fresh, so the
  watchdog never closes a half-open current socket: the page is frozen and says it is
  live (`live.ts:153`, the comment at `60-65`).
- The late `onclose` of a replaced socket stops the current one's watchdog and, with
  nobody subscribed at that moment, sets the status to offline over a working
  connection (`live.ts:178`, `182`).
- A second socket is not closed when the tab is suspended (`live.ts:236-241`).

Live hub
- A refused resubscription has stopped the panel's older handle and keeps it in `subs`
  (`live.ts:113`, `137`).  Stopping it once more finds its watch without panels, takes the
  key out of the map, and with it, possibly, the watch that has meanwhile begun under that
  key (`396`): later panels then open another one beside it.
- The calls of the loop pass their own signal, so the ceiling that `gateway.ts:559-565` puts
  on a half-open apiserver connection does not apply to them, and the read of the stream has
  no watchdog (`live.ts:274`, `320`, `328`): such a watch hangs, keeps its key, and later
  panels join it and see what it last held, or nothing.
- A watch runs with the identity of the panel that opened it, and its fatal answer is
  remembered (`live.ts:288`): one expired token refuses the list to every later panel of
  the same user until all of them have left.

Flows hub
- "ONE upstream stream" (`hub.ts:4`) is two after an abort that nobody heard because the
  connection was still being made (`h2c-grpc.ts:224-236`); the frames of both are counted.
- A handle that is stopped twice (see the live hub) starts a second idle timer and forgets
  the first, which stops the hub under a viewer who joins in between; that viewer gets
  nothing until somebody else joins (`hub.ts:161-167`).
- After a drop the stream asks for the last `backoff * 2` milliseconds only (`hub.ts:198`):
  flows of a longer gap are never shown.

Members
- A promotion that races a removal of the same person leaves an admin who is no member,
  which `org-access.ts:19-21` excludes.
- A group whose call was lost after it took effect is not taken back by `addToGroups`
  (`handlers.ts:624-635`), and taking back can remove the last admin.
- A leave that is refused with 409 has already dropped the person's teams
  (`organizations.ts:785-793`).
- A call that is lost between taking an admin away and looking again leaves an organisation
  without one.

Graph
- `apply` merges onto what the source said before, so a selector that was removed stays on
  its node (`index-store.ts:88`, against `61-62`); `DescribesTheCluster` in
  `KnowledgeGraph.tla` states what then fails.
- A list is read to one page (`limit`, no `continue`, `sa-watch.ts:118`): a resync
  sweeps live objects beyond it, and the header comment at `25-26` does not hold.
- A kind whose list answers 401, 403 or 404 never reports ready, so `bootComplete`
  stays false (`builder.ts:91`, `211`; `sa-watch.ts:123-132`).  One that is refused at a
  later list leaves its objects in the graph for good.
- A watch whose connection falls silent is not found out (`sa-watch.ts:174`; streams have no
  ceiling, `gateway.ts:562-565`): the graph stands still in that kind.

Caches
- An invalidation during a fill does not stop the fill from storing what it read before
  (`user-cache.ts:30`); a cookie's cached identity outlives its session for some seconds
  (`k8s/gateway.ts:405`).

Provisioning
- A job whose process dies stays `running` for ever (`provisioning-jobs.ts:93`).

Tickets
- The oldest waiting job that a full queue drops may be the last one about its
  incident; `queue.ts:8` promises that it costs a comment (`queue.ts:34`).
- Recovery by prefix reads one page of 200 open records and filters afterwards
  (`tickets.ts:296`; `tickets_test.ts:272` tests the small case).
- A POST applied by Plane whose answer is lost is repeated (`plane.ts:83`): a second
  work item that no record names (`tickets.ts:9-10`).
- A project without a completed state, or one whose states cannot be looked up, has its
  incident resolved and the item left open in Plane (`tickets.ts:307-309`); the next failure
  files another item beside it.
- "At most one per cooldown" (`tickets.ts:13`): the stamp is taken when the record is read
  (`216`), the comment posted after the evidence is collected (`240-241`), so that the next
  comment can follow within less than a cooldown.  `CommentCooldown` states what is left.

## 7. What is left out of the modelled parts

Sign-in itself (PKCE and state cookies), the inline-cookie and stateless session
fallbacks (after a put that fails the model's browser keeps its cookie, the code hands it a
trimmed inline one), the group cache of `entitlement.ts`; the proxy's routing, headers and
per-tool authentication, several tools at once; the topics poll, notifications and audit
of the live hub, its heartbeats, the pages of one list and `rv` expiry inside them; the
aggregation of flows, its frames and the wire formats; creating users, and the audit
log and rate limits around membership changes; the hooks above `LiveClient` and
`live-signal.ts`; the contributions of the other nine graph kinds, path queries,
access filters; ticket wording, evidence, label and project look-up, the allow-list
of the ticket configuration.  Detail of a graph node is one value per part (the
selector), because it is the one the sources disagree about.

Not modelled at all, and why: the browser's pages and the feature modules compute what
they show from one answer and keep nothing others rely on; scan waivers, billing and the
document store are single upserts; the AI agents and the GitOps writers are sequences of
calls to services whose state this repository does not define; provisioning jobs and the
per-user caches are small enough that the divergences above say all there is to say.

## 8. Plan

What would add most next, in this order.

1. **Organisations**: create, join requests and delete as further request kinds beside those
   of `Membership`, with the registry's rows; then the switch races of section 6 as a run.
2. **Poll topics** of the live hub, which share one poller the same way, and the composition
   of `LiveHub` with `LiveClient` for end-to-end delivery.
3. **LiveGroups** (`auth/entitlement.ts`): fill racing invalidation, together with the
   role checks of `Membership`.
4. **Flow gaps**: a log of flows behind `FlowsHub`, so that what a reconnect misses can be
   stated.
5. **Membership migration** (`migrate-membership.ts`): restartable steps over groups and rows.

More to prove: the new parts above, each with the invariant its properties need.
