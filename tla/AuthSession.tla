---------------------------- MODULE AuthSession ----------------------------
(***************************************************************************)
(* One browser session of the console: the row that holds its Keycloak     *)
(* tokens, and the requests that read, refresh and re-sign it.             *)
(*                                                                         *)
(* The session lives in one row of the `documents` table (session-store.ts *)
(* with session-store-db.ts); the cookie only names the row.  A request    *)
(* reads the row, refreshes the tokens when they are close to expiry, and  *)
(* writes the WHOLE row back.  Between a read and the write there is at    *)
(* least one await, so any other request can run.  Refreshes of the same   *)
(* token are shared inside a replica (the inflightRefresh map) but not     *)
(* between replicas.                                                       *)
(*                                                                         *)
(* An action is what a request does from one await to the next.  A token   *)
(* set is its generation: 0 at sign-in, one more at each grant of          *)
(* Keycloak.  Time counts whole access-token lifetimes.                    *)
(***************************************************************************)
EXTENDS Integers, FiniteSets

CONSTANTS
    Req,          \* the requests the browser sends with this session's cookie
    Replica,      \* console processes; each has an inflightRefresh map of its own
    Kind,         \* the kinds of request sent: a subset of Kinds
    Org,          \* organisations the directory lists
    Personal,     \* the caller's private tenant
    Entitled,     \* organisations Keycloak says the caller belongs to
    LoginGroups,  \* ... those the token of the sign-in shows
    FreshGroups,  \* ... those a refreshed token shows (a mapper may hide some)
    Rotate,       \* Keycloak accepts a refresh token once only
    AccessTtl,    \* lifetime of an access token
    AbsoluteTtl,  \* cfg.sessionAbsoluteTtlSeconds
    NoSession,    \* null
    MaxNow,       \* bound: the clock stops here
    MaxActive,    \* bound: requests in progress at once
    MaxFaults     \* bound: calls to Keycloak or to the store that fail

Kinds == {"plain", "context", "switch", "logout"}
Tenant == Org \union {Personal}

ASSUME AuthAssumption ==
    /\ Personal \notin Org
    /\ Kind \subseteq Kinds
    /\ Entitled \subseteq Org
    /\ LoginGroups \subseteq Entitled
    /\ FreshGroups \subseteq Entitled
    /\ Rotate \in BOOLEAN
    /\ AccessTtl \in Nat \ {0}
    /\ AbsoluteTtl \in Nat

\* What the row and every copy of it in a request's hands holds.
Session == [gen : Nat, expiresAt : Nat, authTime : Nat, tenant : Tenant]

ASSUME NoSessionAssumption == NoSession \notin Session

VARIABLES
    row,      \* the stored session, or NoSession
    flights,  \* refreshes in progress, over all replicas
    req,      \* per request: where it is and what it holds
    forced,   \* replicas that spent this period's forced refresh (forcedRefreshAt)
    kc,       \* Keycloak: newest token generation, and whether the session lives
    now,
    faults,
    ended,    \* history: has logout deleted the row, and who had begun when it last did
    spoilt    \* history: what went wrong with the session's tokens and tenant

vars == <<row, flights, req, forced, kc, now, faults, ended, spoilt>>

Stages == {"valid", "forced", "issueForced", "issueValid", "resign", "issue", "logout"}
Pcs == {"new", "read", "loaded", "wait", "resolve", "save", "delete", "revoke", "done"}
Results == {"none", "ok", "anon", "reauth", "failed"}

\* A refresh in progress: the replica, the token it spends, the session of the
\* caller that started it, and what Keycloak said.
Flight == [rep : Replica, gen : Nat, prev : Session,
           status : {"asked", "granted", "refused", "failed"}, new : Nat]

Request == [pc : Pcs, stage : Stages, kind : Kinds, rep : Replica,
            sess : Session \union {NoSession},  \* the session the handler works with
            seen : Session \union {NoSession},  \* what the row held when it was read
            key : Nat,                          \* the token whose refresh it awaits
            pick : Tenant,                      \* the tenant resolveActiveTenant chose
            want : Tenant,                      \* the organisation to switch to
            began : Nat,                        \* history: when it came in
            hurt : BOOLEAN,                     \* history: getValidSession got null from a failed call
            result : Results]

\* Keycloak spent a token and the new one never reached the row; the tokens
\* handed to a refresh again when it could not be joined; Keycloak could not be
\* asked for the caller's organisations.
Spoilt == [lost : BOOLEAN, respent : SUBSET Nat, unasked : BOOLEAN]

Active == {p \in Req : req[p].pc \notin {"new", "done"}}

\* The organisations a session's token shows.
Groups(s) == IF s.gen = 0 THEN LoginGroups ELSE FreshGroups

Init ==
    /\ \E t \in Tenant :
          row = [gen |-> 0, expiresAt |-> AccessTtl, authTime |-> 0, tenant |-> t]
    /\ flights = {}
    /\ \E r \in Replica :
          req = [p \in Req |-> [pc |-> "new", stage |-> "valid", kind |-> "plain",
                                rep |-> r, sess |-> NoSession, seen |-> NoSession, key |-> 0,
                                pick |-> Personal, want |-> Personal,
                                began |-> 0, hurt |-> FALSE, result |-> "none"]]
    /\ forced = {}
    /\ kc = [gen |-> 0, alive |-> TRUE]
    /\ now = 0
    /\ faults = 0
    /\ ended = [done |-> FALSE, before |-> {}]
    /\ spoilt = [lost |-> FALSE, respent |-> {}, unasked |-> FALSE]

----------------------------------------------------------------------------
(* What a request's record becomes when the call it awaited returns.       *)

Done(q, res) == [q EXCEPT !.pc = "done", !.result = res]
Go(q, pc, stage) == [q EXCEPT !.pc = pc, !.stage = stage]
Hold(q, s) == [q EXCEPT !.sess = s]
InTenant(s, t) == [s EXCEPT !.tenant = t]
Loaded(q, s) == [q EXCEPT !.pc = "loaded", !.seen = s]

\* A call of its own came to nothing while getValidSession was at work.
Hurt(q) == IF q.stage = "valid" THEN [q EXCEPT !.hurt = TRUE] ELSE q

\* The tail of computeContext: a switch goes on to issueSession, which starts
\* with a forced refresh when the token does not show the organisation.
AfterContext(q) ==
    IF q.kind # "switch" \/ q.want \notin Entitled THEN Done(q, "ok")
    ELSE Go(q, "read", IF q.want \in Groups(q.sess) THEN "issueValid" ELSE "issueForced")

\* Remember the tenant that was decided, when it is not the stored one.
FinishContext(q, t) ==
    IF t = q.sess.tenant THEN AfterContext(q)
    ELSE Go(Hold(q, InTenant(q.sess, t)), "save", "resign")

\* getValidSession or refreshSessionNow returned session s.
Got(q, s) ==
    IF q.stage \notin {"valid", "forced"}
    THEN Go(Hold(q, InTenant(s, q.want)), "save", "issue")
    ELSE IF q.stage = "valid" /\ q.kind = "plain" THEN Done(Hold(q, s), "ok")
    ELSE Go(Hold(q, s), "resolve", q.stage)

\* Mutant: a forced refresh that fails signs the caller out.
GotNullSignsOut(q) ==
    CASE q.stage = "issueForced" -> Go(q, "read", "issueValid")
      [] q.stage = "issueValid" -> Done(q, "failed")
      [] OTHER -> Done(q, "anon")

\* ... or returned null: only getValidSession turns a request away.
GotNull(q) ==
    CASE q.stage = "forced" -> FinishContext(q, q.pick)
      [] q.stage = "issueForced" -> Go(q, "read", "issueValid")
      [] q.stage = "issueValid" -> Done(q, "failed")
      [] OTHER -> Done(q, "anon")

----------------------------------------------------------------------------
(* Requests                                                                *)

Begin(p) ==
    /\ req[p].pc = "new"
    /\ Cardinality(Active) < MaxActive
    /\ \E k \in Kind, r \in Replica :
         \E w \in IF k = "switch" THEN Org ELSE {Personal} :
            req' = [req EXCEPT ![p].pc = "read", ![p].kind = k, ![p].rep = r,
                               ![p].want = w, ![p].began = now,
                               ![p].stage = IF k = "logout" THEN "logout" ELSE "valid"]
    /\ UNCHANGED <<row, flights, forced, kc, now, faults, ended, spoilt>>

\* A stored session still within the absolute cap.
Usable(s) == s # NoSession /\ now - s.authTime <= AbsoluteTtl
NeedsRefresh(s) == s.expiresAt <= now

\* A call to the store or to Keycloak fails.
Fault == faults < MaxFaults /\ faults' = faults + 1

\* Mutant: a lookup that finds no row serves the session a refresh started with.
LoadSessionOrFlight(p) ==
    /\ req[p].pc = "read"
    /\ req' = [req EXCEPT ![p].pc = "loaded",
                          ![p].seen = IF row = NoSession /\ flights # {}
                                      THEN (CHOOSE f \in flights : TRUE).prev ELSE row]
    /\ UNCHANGED <<row, flights, forced, kc, now, faults, ended, spoilt>>

\* readSession: the database answers the lookup of the row, or the lookup fails
\* and is taken for a row that is not there.
LoadSession(p) ==
    /\ req[p].pc = "read"
    /\ \/ req' = [req EXCEPT ![p] = Loaded(@, row)] /\ UNCHANGED faults
       \/ req' = [req EXCEPT ![p] = Loaded(Hurt(@), NoSession)] /\ Fault
    /\ UNCHANGED <<row, flights, forced, kc, now, ended, spoilt>>

\* Mutant: every caller starts a refresh of its own.
StartAlways(q, s) ==
    flights \union {[rep |-> q.rep, gen |-> s.gen, prev |-> s, status |-> "asked", new |-> 0]}

\* refreshShared: join the refresh of this token in this replica, else start it.
StartOrJoin(q, s) ==
    IF \E f \in flights : f.rep = q.rep /\ f.gen = s.gen
    THEN flights
    ELSE flights \union {[rep |-> q.rep, gen |-> s.gen, prev |-> s,
                          status |-> "asked", new |-> 0]}

\* The token goes to Keycloak again and no refresh in this replica can be joined:
\* it was granted a newer one before, or another replica is asking with it.
Respends(q, s) ==
    /\ \A f \in flights : ~(f.rep = q.rep /\ f.gen = s.gen)
    /\ s.gen # kc.gen \/ \E f \in flights : f.gen = s.gen /\ f.status = "asked"

\* The synchronous code behind the lookup, up to the next await.
UseSession(p) ==
    LET s == req[p].seen
        q == [req[p] EXCEPT !.seen = NoSession]
    IN
    /\ q.pc = "loaded"
    /\ \/ /\ q.stage = "logout"
          /\ req' = [req EXCEPT ![p] = [q EXCEPT !.pc = "delete", !.sess = s]]
          /\ UNCHANGED <<flights, spoilt>>
       \/ /\ q.stage # "logout"
          /\ ~Usable(s)
          /\ req' = [req EXCEPT ![p] = GotNull(q)]
          /\ UNCHANGED <<flights, spoilt>>
       \/ /\ q.stage \in {"valid", "issueValid"}
          /\ Usable(s) /\ ~NeedsRefresh(s)
          /\ req' = [req EXCEPT ![p] = Got(q, s)]
          /\ UNCHANGED <<flights, spoilt>>
       \/ /\ q.stage # "logout"
          /\ Usable(s)
          /\ q.stage \in {"valid", "issueValid"} => NeedsRefresh(s)
          /\ req' = [req EXCEPT ![p] = [q EXCEPT !.pc = "wait", !.key = s.gen]]
          /\ flights' = StartOrJoin(q, s)
          /\ spoilt' = IF Respends(q, s)
                       THEN [spoilt EXCEPT !.respent = @ \union {s.gen}] ELSE spoilt
    /\ UNCHANGED <<row, forced, kc, now, faults, ended>>

\* The request goes on with the session in its hands, whatever became of the put.
AfterSave(q) ==
    CASE q.stage = "resign" -> AfterContext(q)
      [] q.stage = "issue" -> Done(q, IF q.want \in Groups(q.sess) THEN "ok" ELSE "reauth")
      [] OTHER -> Got(q, q.sess)

\* signSessionToken: the whole session is upserted, whatever the row holds now.
\* A put that fails leaves the row, and new tokens with nobody but this request.
SaveSession(p) ==
    LET q == req[p] IN
    /\ q.pc = "save"
    /\ req' = [req EXCEPT ![p] = AfterSave(q)]
    /\ \/ row' = q.sess /\ UNCHANGED <<faults, spoilt>>
       \/ /\ Fault
          /\ spoilt' = [spoilt EXCEPT !.lost = @ \/ q.stage \notin {"resign", "issue"}]
          /\ UNCHANGED row
    /\ UNCHANGED <<flights, forced, kc, now, ended>>

\* resolveActiveTenant with Keycloak answering: the start tenant if the caller
\* belongs to it, else an organisation opened before, else the private tenant.
Picks(start) == IF start \in Entitled THEN {start} ELSE Entitled \union {Personal}

\* computeContext once the tenant t is decided: force a refresh if the token
\* does not show it, at most one per user, replica and period.
Decided(p, t) ==
    LET q == req[p] IN
    IF /\ q.stage = "valid"
       /\ t \in Org \ Groups(q.sess)
       /\ q.rep \notin forced
    THEN /\ req' = [req EXCEPT ![p] = Go([q EXCEPT !.pick = t], "read", "forced")]
         /\ forced' = forced \union {q.rep}
    ELSE /\ req' = [req EXCEPT ![p] = FinishContext(q, t)]
         /\ UNCHANGED forced

\* The directory could not be read: the request is answered in the private
\* tenant and the session is not re-signed.  A switch may yet find the
\* organisation when it asks for itself.
Degraded(q) == {Done(q, "ok"), AfterContext(q)}

ResolveTenant(p) ==
    LET q == req[p]
        start == IF q.stage = "forced" THEN q.pick ELSE q.sess.tenant
    IN
    /\ q.pc = "resolve"
    /\ \/ /\ \E t \in IF start \in Groups(q.sess) THEN {start} ELSE Picks(start) :
                Decided(p, t)
          /\ UNCHANGED <<faults, spoilt>>
       \/ \* Keycloak cannot be asked: the token's groups are all there is.
          /\ Fault
          /\ start \notin Groups(q.sess)
          /\ \E t \in Groups(q.sess) \union {Personal} : Decided(p, t)
          /\ spoilt' = [spoilt EXCEPT !.unasked = TRUE]
       \/ \* the directory cannot be read
          /\ \E d \in Degraded(q) : req' = [req EXCEPT ![p] = d]
          /\ UNCHANGED <<forced, faults, spoilt>>
    /\ UNCHANGED <<row, flights, kc, now, ended>>

----------------------------------------------------------------------------
(* Logout: read the row, delete it, then revoke its token at Keycloak      *)

\* destroySession: a delete that fails is swallowed, and the row stays.
DeleteSession(p) ==
    /\ req[p].pc = "delete"
    /\ req' = [req EXCEPT ![p] =
         IF req[p].sess = NoSession THEN Done(req[p], "ok") ELSE Go(req[p], "revoke", "logout")]
    /\ \/ /\ row' = NoSession
          /\ ended' = IF row = NoSession THEN ended
                      ELSE [done |-> TRUE, before |-> {r \in Req : req[r].pc # "new"}]
          /\ UNCHANGED faults
       \/ Fault /\ UNCHANGED <<row, ended>>
    /\ UNCHANGED <<flights, forced, kc, now, spoilt>>

RevokeToken(p) ==
    /\ req[p].pc = "revoke"
    /\ req' = [req EXCEPT ![p] = Done(req[p], "ok")]
    /\ \/ kc' = [kc EXCEPT !.alive = FALSE] /\ UNCHANGED faults
       \/ Fault /\ UNCHANGED kc
    /\ UNCHANGED <<row, flights, forced, now, ended, spoilt>>

----------------------------------------------------------------------------
(* A refresh: Keycloak answers, then the replica hands the answer out      *)

Accepts(g) == kc.alive /\ (Rotate => g = kc.gen)

Answer(f, status, n) == flights' = (flights \ {f}) \union {[f EXCEPT !.status = status, !.new = n]}

KeycloakAnswers(f) ==
    /\ f.status = "asked"
    /\ \/ /\ Accepts(f.gen)
          /\ kc' = [kc EXCEPT !.gen = @ + 1]
          /\ Answer(f, "granted", kc.gen + 1)
          /\ UNCHANGED <<faults, spoilt>>
       \/ /\ ~Accepts(f.gen)
          /\ Answer(f, "refused", 0)
          /\ UNCHANGED <<kc, faults, spoilt>>
       \/ \* timeout or error before the token was spent
          /\ Fault
          /\ Answer(f, "failed", 0)
          /\ UNCHANGED <<kc, spoilt>>
       \/ \* ... or after: the new one is nobody's
          /\ Fault
          /\ Accepts(f.gen)
          /\ Answer(f, "failed", 0)
          /\ kc' = [kc EXCEPT !.gen = @ + 1]
          /\ spoilt' = [spoilt EXCEPT !.lost = TRUE]
    /\ UNCHANGED <<row, req, forced, now, ended>>

\* Mutants of sessionFromTokens: the login time restarts; the organisation is
\* dropped; it is reset.
RefreshedRestartsCap(f) == [gen |-> f.new, expiresAt |-> now + AccessTtl,
                            authTime |-> now, tenant |-> f.prev.tenant]
RefreshedDropsTenant(f) == [gen |-> f.new, expiresAt |-> now + AccessTtl,
                            authTime |-> f.prev.authTime]
RefreshedResetsTenant(f) == [gen |-> f.new, expiresAt |-> now + AccessTtl,
                             authTime |-> f.prev.authTime, tenant |-> Personal]

\* sessionFromTokens: new tokens, and the rest from the starting caller's session.
Refreshed(f) == [gen |-> f.new, expiresAt |-> now + AccessTtl,
                 authTime |-> f.prev.authTime, tenant |-> f.prev.tenant]

\* Mutant: only callers of getValidSession are resumed.
WaitersValidOnly(f) == {p \in Req : req[p].pc = "wait" /\ req[p].stage = "valid"
                                      /\ req[p].rep = f.rep /\ req[p].key = f.gen}

Waiters(f) == {p \in Req : req[p].pc = "wait" /\ req[p].rep = f.rep /\ req[p].key = f.gen}

Resumed(q, f) == CASE f.status = "granted" -> Go(Hold(q, Refreshed(f)), "save", q.stage)
                   [] f.status = "failed" -> GotNull(Hurt(q))
                   [] OTHER -> GotNull(q)

\* The flight leaves the map and its promise settles: every waiter resumes.
FlightSettles(f) ==
    /\ f.status # "asked"
    /\ flights' = flights \ {f}
    /\ req' = [p \in Req |-> IF p \in Waiters(f) THEN Resumed(req[p], f) ELSE req[p]]
    /\ UNCHANGED <<row, forced, kc, now, faults, ended, spoilt>>

\* One access-token lifetime passes; the forced-refresh gap is shorter.
Tick ==
    /\ now < MaxNow
    /\ now' = now + 1
    /\ forced' = {}
    /\ UNCHANGED <<row, flights, req, kc, faults, ended, spoilt>>

----------------------------------------------------------------------------

Step(p) == LoadSession(p) \/ UseSession(p) \/ SaveSession(p) \/ ResolveTenant(p)
              \/ DeleteSession(p) \/ RevokeToken(p)

Finished == (\A p \in Req : req[p].pc = "done") /\ UNCHANGED vars

Next ==
    \/ \E p \in Req : Begin(p)
    \/ \E p \in Req : LoadSession(p)
    \/ \E p \in Req : UseSession(p)
    \/ \E p \in Req : SaveSession(p)
    \/ \E p \in Req : ResolveTenant(p)
    \/ \E p \in Req : DeleteSession(p)
    \/ \E p \in Req : RevokeToken(p)
    \/ \E f \in flights : KeycloakAnswers(f)
    \/ \E f \in flights : FlightSettles(f)
    \/ Tick
    \/ Finished

\* Every await returns: the database answers, and every call to Keycloak has an
\* AbortSignal.timeout.  Nothing obliges the browser to send a request.
Fairness ==
    /\ \A p \in Req : WF_vars(Step(p))
    /\ WF_vars(\E f \in flights : KeycloakAnswers(f))
    /\ WF_vars(\E f \in flights : FlightSettles(f))

Spec == Init /\ [][Next]_vars
FairSpec == Spec /\ Fairness

----------------------------------------------------------------------------
(* Properties                                                              *)

\* Every variable has its shape.
TypeOK ==
    /\ row \in Session \union {NoSession}
    /\ flights \subseteq Flight
    /\ req \in [Req -> Request]
    /\ forced \subseteq Replica
    /\ kc \in [gen : Nat, alive : BOOLEAN]
    /\ now \in Nat
    /\ faults \in Nat
    /\ ended \in [done : BOOLEAN, before : SUBSET Req]
    /\ spoilt \in Spoilt

\* A replica never has two refreshes of the same token under way, however many
\* requests come in while the first is unanswered; and a request that awaits one
\* has one that will settle: the entry leaves the map only together with the
\* answer every waiter receives (inflightRefresh, handlers.ts).
SingleFlight ==
    /\ \A f, g \in flights : f.rep = g.rep /\ f.gen = g.gen => f = g
    /\ \A p \in Req : req[p].pc = "wait" =>
         \E f \in flights : f.rep = req[p].rep /\ f.gen = req[p].key

\* No chain of refreshes and re-signs extends a session past the absolute cap:
\* a request that came in after it is never answered as signed in.
CapHolds ==
    \A p \in Req :
        req[p].kind # "logout" /\ req[p].began > AbsoluteTtl => req[p].result \in {"none", "anon"}

\* The session is over, or one of the calls this request made to find out failed:
\* the lookup of the row, or the refresh it started or joined.
Excused(q) == ended.done \/ ~kc.alive \/ now > AbsoluteTtl \/ q.hurt

\* However many requests of one browser overlap, in one replica or several, a
\* request is turned away only if the session really ended, if a call of its own
\* failed or, where tokens rotate, if the very token it refreshed was handed to
\* Keycloak a second time by someone whom the inflightRefresh map could not let
\* join: whoever can share a refresh is never signed out by it (handlers.ts:
\* "spurious logout").
NoSpuriousSignOut ==
    \A p \in Req : req[p].result = "anon" =>
        Excused(req[p]) \/ (Rotate /\ req[p].key \in spoilt.respent)

\* Of requests that come one after the other, one is turned away only if the
\* session ended, a call of its own failed or, where tokens rotate, new tokens
\* were lost on their way to the row.  A refresh the console forces, a re-sign or
\* a switch that fails in any other way leaves the next request its session
\* (handlers.ts: "a forced refresh that fails must never sign anyone out", which
\* it does when Keycloak had spent the token).
SignedOutForCause ==
    \A p \in Req : req[p].result = "anon" =>
        Excused(req[p]) \/ (Rotate /\ spoilt.lost)

\* Once logout has deleted the row, no request that comes in later is signed in
\* (session-store.ts: "real revocation"; docs/architecture/auth.md, Sessions).
LogoutFinal ==
    \A p \in Req :
        /\ ended.done
        /\ p \notin ended.before
        /\ req[p].kind # "logout"
        => req[p].result \in {"none", "anon"}

\* A deleted row comes back only through a request that was already in progress
\* when it was deleted; none that begins afterwards can bring it back.
RecreatedByOverlapOnly ==
    [][row = NoSession /\ row' # NoSession =>
          \E p \in ended.before : req[p].pc = "save" /\ row' = req[p].sess]_vars

\* The write of a refresh leaves the session in the organisation it works in
\* (server.ts: "A refresh keeps the organisation the session is working in").
\* And while Keycloak can be asked, an organisation the caller belongs to stays the
\* remembered one until they switch: an unreadable directory degrades requests
\* and never makes the session forget it (request-user.ts, entitlement.ts).
KeepsTenant ==
    /\ [][\A p \in Req :
            /\ req[p].pc = "save" /\ req'[p] # req[p]
            /\ req[p].stage \notin {"resign", "issue"}
            /\ row # NoSession
            => row'.tenant = row.tenant]_vars
    /\ [][/\ row # NoSession /\ row' # NoSession
          /\ row.tenant \in Entitled /\ row'.tenant # row.tenant
          /\ ~spoilt.unasked
          => \E p \in Req : req[p].pc = "save" /\ req[p].stage = "issue"
                            /\ req'[p].pc = "done"]_vars

\* Every request that came in is answered.
EveryRequestAnswered ==
    \A p \in Req : (req[p].pc # "new") ~> (req[p].pc = "done")

----------------------------------------------------------------------------
(* The inductive invariant behind the proofs (AuthSession_proofs)          *)

\* A session copy remembers the sign-in it came from, at time 0.
FromSignIn(s) == s \in Session /\ s.authTime = 0
Copy(s) == s = NoSession \/ FromSignIn(s)

\* The request got past getValidSession: the cap had not been reached.
Admitted(q) == q.kind # "logout" /\ q.began <= AbsoluteTtl

RequestInv(q) ==
    /\ q \in Request
    /\ Copy(q.sess) /\ Copy(q.seen)
    /\ q.began <= now
    /\ q.pc \in {"resolve", "save"} \/ q.stage = "forced" => FromSignIn(q.sess)
    /\ q.pc \in {"read", "loaded", "wait"} => q.stage \notin {"resign", "issue"}
    /\ q.pc \in {"delete", "revoke"} => q.stage = "logout"
    /\ q.pc \in {"wait", "resolve", "save"} => q.stage # "logout"
    /\ q.pc # "new" => (q.stage = "logout" <=> q.kind = "logout")
    /\ q.pc \in {"wait", "resolve", "save"} \/ q.stage \notin {"valid", "logout"}
          => Admitted(q)
    /\ q.pc # "done" => q.result = "none"
    /\ q.result \notin {"none", "anon"} => q.kind = "logout" \/ Admitted(q)
    /\ q.result = "anon" => q.stage = "valid"

IInv ==
    /\ TypeOK
    /\ Copy(row)
    /\ \A f \in flights : FromSignIn(f.prev)
    /\ \A p \in Req : RequestInv(req[p])

\* Where tokens rotate, Keycloak refuses a token only if somebody spent it who
\* could not share the refresh, and then the token is known to be spent twice.
RefusalsExplained ==
    /\ Rotate => /\ \A f \in flights : f.status = "asked" /\ f.gen # kc.gen
                                       => f.gen \in spoilt.respent
                 /\ \A f, g \in flights :
                       /\ f.status = "asked" /\ g.status = "asked"
                       /\ f.gen = g.gen /\ f # g
                       => f.gen \in spoilt.respent
    /\ \A f \in flights : f.status = "refused" =>
          ~kc.alive \/ (Rotate /\ f.gen \in spoilt.respent)

\* A row that is not there was deleted, or the lookup failed.
NullsExplained ==
    /\ row = NoSession => ended.done
    /\ \A p \in Req : /\ req[p].pc = "loaded" /\ req[p].seen = NoSession
                      /\ req[p].stage = "valid"
                      => ended.done \/ req[p].hurt

\* A request that never got hold of a session.
EmptyHanded(q) ==
    \/ q.pc = "new" \/ q.stage = "logout"
    \/ /\ q.stage = "valid"
       /\ q.pc \in {"read", "done"} \/ (q.pc = "loaded" /\ q.seen = NoSession)

\* While the row is deleted, only those that had begun before hold a session.
LateComersEmptyHanded ==
    row = NoSession => \A p \in Req : p \in ended.before \/ EmptyHanded(req[p])

\* One request at a time: what a request works from is what the row holds, but
\* for tokens that a put failed to save, and it changes the organisation only if
\* it was told to, if Keycloak could not be asked or if the caller does not
\* belong to the one the row names.
OnTurn(q, s, u) ==
    /\ q.pc = "loaded" => q.seen \in {s, NoSession}
    /\ q.pc = "resolve" => q.stage \in {"valid", "forced"}
    /\ q.pc = "resolve" \/ (q.stage = "forced" /\ q.pc \in {"read", "loaded", "wait"})
          => s # NoSession /\ q.sess.tenant = s.tenant /\ (u.lost \/ q.sess = s)
    /\ q.pc = "save" /\ q.stage \notin {"resign", "issue"}
          => s # NoSession /\ q.sess.tenant = s.tenant
    /\ q.pc = "save" /\ q.stage = "resign"
          => s # NoSession /\ (u.unasked \/ s.tenant \notin Entitled)
    /\ q.stage = "forced" /\ q.pc \in {"read", "loaded", "wait", "resolve", "save"}
          => u.unasked \/ s.tenant \notin Entitled \/ q.pick = s.tenant

TakingTurns ==
    /\ \A p, q \in Active : p = q
    /\ \A p \in Req : OnTurn(req[p], row, spoilt)
    /\ \A f \in flights :
          /\ f.prev = row
          /\ \E p \in Req : req[p].pc = "wait" /\ req[p].rep = f.rep /\ req[p].key = f.gen

\* Until they are lost, the newest tokens are in one place: with the refresh that
\* was granted, else with the request that saves them, else in the row.  So no
\* token is spent twice.
Newest ==
    ~spoilt.lost =>
        /\ spoilt.respent = {}
        /\ \A f \in flights : (IF f.status = "granted" THEN f.new ELSE f.gen) = kc.gen
        /\ \A p \in Req : req[p].pc = "save" => req[p].sess.gen = kc.gen
        /\ \/ row = NoSession \/ row.gen = kc.gen
           \/ \E f \in flights : f.status = "granted"
           \/ \E p \in Req : req[p].pc = "save" /\ req[p].stage \notin {"resign", "issue"}

\* After a logout the row stays deleted, and who is not answered got no session.
SignedOut ==
    ended.done =>
        /\ row = NoSession
        /\ \A p \in Req :
             IF req[p].pc = "done"
             THEN p \in ended.before \/ req[p].kind = "logout" \/ req[p].result = "anon"
             ELSE EmptyHanded(req[p])

\* How far a request has still to go, in awaits: the stages come in this order,
\* and within a stage the positions.
StagesAfter == [valid |-> 5, forced |-> 4, resign |-> 3, issueForced |-> 2,
                issueValid |-> 1, issue |-> 0, logout |-> 0]
AwaitsAfter == [new |-> 7, read |-> 6, loaded |-> 5, wait |-> 4, save |-> 3,
                resolve |-> 2, delete |-> 2, revoke |-> 1]
Distance(q) == IF q.pc = "done" THEN 0 ELSE 8 * StagesAfter[q.stage] + AwaitsAfter[q.pc]

\* No request goes round in circles, however others overlap it: whatever happens
\* to it brings it nearer to its answer (request-user.ts: one forced refresh and
\* one re-sign; handlers.ts: a failed refresh is not asked again).
MovesOn ==
    [][\A p \in Req : req'[p] # req[p] => Distance(req'[p]) < Distance(req[p])]_vars

\* Which stages a request can be in before it starts and while its tenant is resolved.
Placed(q) ==
    /\ q.pc = "new" => q.stage = "valid"
    /\ q.pc = "resolve" => q.stage \in {"valid", "forced"}
=============================================================================
