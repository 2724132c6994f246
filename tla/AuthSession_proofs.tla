------------------------ MODULE AuthSession_proofs ------------------------
(***************************************************************************)
(* Proofs about AuthSession, for any number of requests, replicas and      *)
(* organisations and for both settings of refresh-token rotation.  The     *)
(* theorems that need requests not to overlap say so.                      *)
(***************************************************************************)
EXTENDS AuthSession, TLAPS, FiniteSetTheorems

USE AuthAssumption, NoSessionAssumption

----------------------------------------------------------------------------
(* The operators a request moves by keep RequestInv                        *)

\* Moving a session to another organisation keeps its sign-in time.
LEMMA InTenantKeepsSignIn ==
    ASSUME NEW s, FromSignIn(s), NEW t \in Tenant
    PROVE  FromSignIn(InTenant(s, t))
BY DEF InTenant, FromSignIn, Session

\* Answering a request that is in progress.
LEMMA DoneKeepsInv ==
    ASSUME NEW q, RequestInv(q), q.pc # "new", NEW res \in Results \ {"none"},
           res = "anon" => q.stage = "valid",
           res # "anon" => q.kind = "logout" \/ Admitted(q)
    PROVE  RequestInv(Done(q, res))
BY DEF Done, RequestInv, Request, Pcs, Admitted

\* An admitted request that goes on to its next await.
LEMMA GoKeepsInv ==
    ASSUME NEW q, RequestInv(q), Admitted(q), q.pc \notin {"new", "done"},
           NEW pc \in {"read", "resolve", "save"},
           NEW stage \in Stages \ {"logout"},
           pc = "read" => stage \notin {"resign", "issue"},
           pc # "read" \/ stage = "forced" => FromSignIn(q.sess)
    PROVE  RequestInv(Go(q, pc, stage))
<1>1. pc \in Pcs
  BY DEF Pcs
<1>2. QED BY <1>1 DEF Go, RequestInv, Request, Admitted

\* Taking another session in hand changes nothing else of the request.
LEMMA HoldKeepsInv ==
    ASSUME NEW q, RequestInv(q), NEW s, FromSignIn(s)
    PROVE  RequestInv(Hold(q, s)) /\ Hold(q, s).sess = s
           /\ Hold(q, s).pc = q.pc /\ Hold(q, s).stage = q.stage
           /\ Hold(q, s).kind = q.kind /\ Hold(q, s).want = q.want
           /\ (Admitted(q) => Admitted(Hold(q, s)))
BY DEF Hold, RequestInv, Request, Admitted, FromSignIn, Copy

\* What a request does once its context is settled keeps the invariant.
LEMMA AfterContextKeepsInv ==
    ASSUME NEW q, RequestInv(q), Admitted(q), q.pc \notin {"new", "done"}
    PROVE  RequestInv(AfterContext(q))
<1>1. RequestInv(Done(q, "ok"))
  BY DoneKeepsInv DEF Results
<1>2. RequestInv(Go(q, "read", "issueValid")) /\ RequestInv(Go(q, "read", "issueForced"))
  BY GoKeepsInv DEF Stages
<1>3. QED BY <1>1, <1>2 DEF AfterContext

\* The same for the switch of organisation a request may end with.
LEMMA FinishContextKeepsInv ==
    ASSUME NEW q, RequestInv(q), Admitted(q), q.pc \notin {"new", "done"},
           FromSignIn(q.sess), NEW t \in Tenant
    PROVE  RequestInv(FinishContext(q, t))
<1> DEFINE h == Hold(q, InTenant(q.sess, t))
<1>1. FromSignIn(InTenant(q.sess, t))
  BY InTenantKeepsSignIn
<1>2. RequestInv(h) /\ Admitted(h) /\ h.pc \notin {"new", "done"} /\ FromSignIn(h.sess)
  BY <1>1, HoldKeepsInv
<1>3. RequestInv(Go(h, "save", "resign"))
  BY <1>2, GoKeepsInv DEF Stages
<1>4. QED BY <1>3, AfterContextKeepsInv DEF FinishContext

\* getValidSession or refreshSessionNow hands the request a session.
LEMMA GotKeepsInv ==
    ASSUME NEW q, RequestInv(q), Admitted(q), q.pc \notin {"new", "done"},
           NEW s, FromSignIn(s)
    PROVE  RequestInv(Got(q, s))
<1> DEFINE h == Hold(q, s)
           i == Hold(q, InTenant(s, q.want))
<1>1. RequestInv(h) /\ Admitted(h) /\ h.pc \notin {"new", "done"} /\ FromSignIn(h.sess)
  BY HoldKeepsInv
<1>2. RequestInv(Done(h, "ok"))
  BY <1>1, DoneKeepsInv DEF Results
<1>3. q.stage \in {"valid", "forced"} => RequestInv(Go(h, "resolve", q.stage))
  BY <1>1, GoKeepsInv DEF Stages
<1>4. FromSignIn(InTenant(s, q.want))
  BY InTenantKeepsSignIn DEF RequestInv, Request
<1>5. RequestInv(i) /\ Admitted(i) /\ i.pc \notin {"new", "done"} /\ FromSignIn(i.sess)
  BY <1>4, HoldKeepsInv
<1>6. RequestInv(Go(i, "save", "issue"))
  BY <1>5, GoKeepsInv DEF Stages
<1>7. QED BY <1>2, <1>3, <1>6 DEF Got

\* ... or null, which ends the request only where getValidSession was asked.
LEMMA GotNullKeepsInv ==
    ASSUME NEW q, RequestInv(q), q.pc \in {"loaded", "wait"}, q.stage # "logout"
    PROVE  RequestInv(GotNull(q))
<1>1. q.stage \in {"valid", "forced", "issueForced", "issueValid"}
  BY DEF RequestInv, Request, Stages
<1>2. q.stage # "valid" => Admitted(q)
  BY DEF RequestInv
<1>3. CASE q.stage = "forced"
  <2>1. FromSignIn(q.sess) /\ q.pick \in Tenant
    BY <1>3 DEF RequestInv, Request
  <2>2. QED BY <1>2, <1>3, <2>1, FinishContextKeepsInv DEF GotNull
<1>4. CASE q.stage = "issueForced"
  BY <1>2, <1>4, GoKeepsInv DEF GotNull, Stages
<1>5. CASE q.stage = "issueValid"
  BY <1>2, <1>5, DoneKeepsInv DEF GotNull, Results
<1>6. CASE q.stage = "valid"
  BY <1>6, DoneKeepsInv DEF GotNull, Results
<1>7. QED BY <1>1, <1>3, <1>4, <1>5, <1>6

\* A call that fails leaves its mark and nothing else.
LEMMA HurtLeaves ==
    ASSUME NEW q \in Request
    PROVE  /\ Hurt(q) \in Request /\ (q.stage = "valid" \/ q.hurt => Hurt(q).hurt)
           /\ Hurt(q).pc = q.pc /\ Hurt(q).stage = q.stage /\ Hurt(q).kind = q.kind
           /\ Hurt(q).rep = q.rep /\ Hurt(q).sess = q.sess /\ Hurt(q).seen = q.seen
           /\ Hurt(q).key = q.key /\ Hurt(q).pick = q.pick /\ Hurt(q).want = q.want
           /\ Hurt(q).began = q.began /\ Hurt(q).result = q.result
BY DEF Hurt, Request

\* What a lookup hands the request, and that the rest of it stays.
LEMMA LoadedLeaves ==
    ASSUME NEW q \in Request, NEW s \in Session \union {NoSession}
    PROVE  /\ Loaded(q, s) \in Request
           /\ Loaded(q, s).pc = "loaded" /\ Loaded(q, s).seen = s
           /\ Loaded(q, s).stage = q.stage /\ Loaded(q, s).kind = q.kind
           /\ Loaded(q, s).rep = q.rep /\ Loaded(q, s).sess = q.sess
           /\ Loaded(q, s).key = q.key /\ Loaded(q, s).pick = q.pick
           /\ Loaded(q, s).began = q.began /\ Loaded(q, s).hurt = q.hurt
           /\ Loaded(q, s).result = q.result
BY DEF Loaded, Request, Pcs

\* A lookup finds the row or, if the call fails, nothing.
LEMMA LoadStep ==
    ASSUME TypeOK, NEW p \in Req, LoadSession(p)
    PROVE  \E n \in Request :
             /\ req' = [req EXCEPT ![p] = n]
             /\ n.pc = "loaded" /\ n.seen \in {row, NoSession} /\ n.stage = req[p].stage
             /\ n.kind = req[p].kind /\ n.rep = req[p].rep /\ n.sess = req[p].sess
             /\ n.key = req[p].key /\ n.pick = req[p].pick /\ n.began = req[p].began
             /\ n.result = req[p].result
             /\ n.seen # row /\ n.stage = "valid" => n.hurt
<1> DEFINE q == req[p]
<1>1. q \in Request /\ req \in [Req -> Request] /\ row \in Session \union {NoSession}
  BY DEF TypeOK
<1>2. \/ req' = [req EXCEPT ![p] = Loaded(q, row)]
      \/ req' = [req EXCEPT ![p] = Loaded(Hurt(q), NoSession)]
  BY <1>1 DEF LoadSession
<1>3. ASSUME NEW k \in Request, NEW s \in {row, NoSession},
             req' = [req EXCEPT ![p] = Loaded(k, s)],
             /\ k.stage = q.stage /\ k.kind = q.kind /\ k.rep = q.rep /\ k.sess = q.sess
             /\ k.key = q.key /\ k.pick = q.pick /\ k.began = q.began /\ k.result = q.result,
             s # row /\ k.stage = "valid" => k.hurt
      PROVE  \E n \in Request :
               /\ req' = [req EXCEPT ![p] = n]
               /\ n.pc = "loaded" /\ n.seen \in {row, NoSession} /\ n.stage = q.stage
               /\ n.kind = q.kind /\ n.rep = q.rep /\ n.sess = q.sess
               /\ n.key = q.key /\ n.pick = q.pick /\ n.began = q.began
               /\ n.result = q.result
               /\ n.seen # row /\ n.stage = "valid" => n.hurt
  <2> DEFINE n == Loaded(k, s)
  <2>1. /\ n \in Request /\ n.pc = "loaded" /\ n.seen = s
        /\ n.stage = k.stage /\ n.kind = k.kind /\ n.rep = k.rep /\ n.sess = k.sess
        /\ n.key = k.key /\ n.pick = k.pick /\ n.began = k.began /\ n.hurt = k.hurt
        /\ n.result = k.result
    BY <1>1, LoadedLeaves
  <2>2. req' = [req EXCEPT ![p] = n]
    BY <1>3
  <2> HIDE DEF n, q
  <2>3. QED BY <1>3, <2>1, <2>2
<1>4. CASE req' = [req EXCEPT ![p] = Loaded(q, row)]
  BY <1>1, <1>3, <1>4
<1>5. CASE req' = [req EXCEPT ![p] = Loaded(Hurt(q), NoSession)]
  <2> DEFINE k == Hurt(q)
  <2>1. /\ k \in Request /\ (q.stage = "valid" => k.hurt) /\ k.stage = q.stage
        /\ k.kind = q.kind /\ k.rep = q.rep /\ k.sess = q.sess
        /\ k.key = q.key /\ k.pick = q.pick /\ k.began = q.began /\ k.result = q.result
    BY <1>1, HurtLeaves
  <2>2. req' = [req EXCEPT ![p] = Loaded(k, NoSession)]
    BY <1>5
  <2> HIDE DEF k
  <2>3. QED BY <1>3, <2>1, <2>2
<1>6. QED BY <1>2, <1>4, <1>5

----------------------------------------------------------------------------
(* The inductive invariant                                                 *)

\* At the start there is one fresh session and nobody asks for anything.
LEMMA InitIInv == Init => IInv
<1> SUFFICES ASSUME Init PROVE IInv
  OBVIOUS
<1>1. FromSignIn(row)
  BY DEF Init, FromSignIn, Session
<1>2. ASSUME NEW p \in Req PROVE RequestInv(req[p])
  BY DEF Init, RequestInv, Request, Copy, Pcs, Stages, Kinds, Results, Tenant
<1>3. req \in [Req -> Request]
  <2>1. \A p \in Req : req[p] \in Request
    BY <1>2 DEF RequestInv
  <2>2. req = [p \in Req |-> req[p]]
    BY DEF Init
  <2>3. QED BY <2>1, <2>2
<1>4. TypeOK
  BY <1>1, <1>3 DEF Init, TypeOK, FromSignIn, Spoilt
<1>5. QED BY <1>1, <1>2, <1>4 DEF Init, IInv, Copy

\* A step that replaces one request's record by one that satisfies RequestInv,
\* and leaves the clock alone, keeps the requests' part of the invariant.
LEMMA OneRequest ==
    ASSUME IInv, NEW p \in Req, NEW q, RequestInv(q),
           req' = [req EXCEPT ![p] = q], UNCHANGED now
    PROVE  /\ req' \in [Req -> Request]
           /\ \A r \in Req : RequestInv(req[r])'
<1>1. req \in [Req -> Request] /\ \A r \in Req : RequestInv(req[r])
  BY DEF IInv, TypeOK
<1>2. q \in Request
  BY DEF RequestInv
<1>3. req' \in [Req -> Request]
  BY <1>1, <1>2
<1>4. ASSUME NEW r \in Req PROVE RequestInv(req[r])'
  <2>1. req'[r] = req[r] \/ req'[r] = q
    BY <1>1
  <2>2. QED BY <1>1, <2>1 DEF RequestInv
<1>5. QED BY <1>3, <1>4

\* A request arrives with the cookie the browser holds.
LEMMA BeginIInv ==
    ASSUME IInv, NEW p \in Req, Begin(p)
    PROVE  IInv'
<1> USE DEF IInv
<1>1. req[p] \in Request /\ RequestInv(req[p]) /\ req[p].pc = "new" /\ now \in Nat
  BY DEF Begin, TypeOK
<1>2. PICK k \in Kind, r \in Replica : \E w \in IF k = "switch" THEN Org ELSE {Personal} :
          req' = [req EXCEPT ![p].pc = "read", ![p].kind = k, ![p].rep = r,
                             ![p].want = w, ![p].began = now,
                             ![p].stage = IF k = "logout" THEN "logout" ELSE "valid"]
  BY DEF Begin
<1>3. PICK w \in Tenant :
          req' = [req EXCEPT ![p].pc = "read", ![p].kind = k, ![p].rep = r,
                             ![p].want = w, ![p].began = now,
                             ![p].stage = IF k = "logout" THEN "logout" ELSE "valid"]
  BY <1>2 DEF Tenant
<1> DEFINE stage == IF k = "logout" THEN "logout" ELSE "valid"
           q == [req[p] EXCEPT !.pc = "read", !.kind = k, !.rep = r,
                               !.want = w, !.began = now, !.stage = stage]
<1>4. req' = [req EXCEPT ![p] = q]
  BY <1>1, <1>3 DEF TypeOK
<1>5. k \in Kinds
  OBVIOUS
<1>6. q \in Request
  BY <1>1, <1>5 DEF Request, Pcs, Stages
<1>7. RequestInv(q)
  BY <1>1, <1>6 DEF RequestInv, Request, Admitted
<1>8. UNCHANGED <<row, flights, forced, kc, now, faults, ended, spoilt>>
  BY DEF Begin
<1>9. QED BY <1>4, <1>7, <1>8, OneRequest DEF TypeOK, Copy, FromSignIn

\* A step that counts a failed call, or none.
LEMMA FaultCounts ==
    ASSUME faults \in Nat, UNCHANGED faults \/ Fault
    PROVE  faults' \in Nat
BY DEF Fault

\* readSession: the copy a request works on is the row, or nothing.
LEMMA LoadSessionIInv ==
    ASSUME IInv, NEW p \in Req, LoadSession(p)
    PROVE  IInv'
<1> USE DEF IInv
<1>1. RequestInv(req[p]) /\ req[p].pc = "read" /\ Copy(row)
  BY DEF LoadSession
<1>2. PICK n \in Request :
         /\ req' = [req EXCEPT ![p] = n]
         /\ n.pc = "loaded" /\ n.seen \in {row, NoSession} /\ n.stage = req[p].stage
         /\ n.kind = req[p].kind /\ n.sess = req[p].sess /\ n.began = req[p].began
         /\ n.result = req[p].result
  BY LoadStep
<1>3. RequestInv(n)
  BY <1>1, <1>2 DEF RequestInv, Copy, Admitted
<1>4. UNCHANGED <<row, flights, forced, kc, now, ended, spoilt>> /\ faults' \in Nat
  BY FaultCounts DEF LoadSession, TypeOK
<1>5. QED BY <1>2, <1>3, <1>4, OneRequest DEF TypeOK, Copy, FromSignIn

\* getValidSession, refreshSessionNow: fresh copy, cap, or a shared refresh.
LEMMA UseSessionIInv ==
    ASSUME IInv, NEW p \in Req, UseSession(p)
    PROVE  IInv'
<1> USE DEF IInv
<1> DEFINE s == req[p].seen
           q == [req[p] EXCEPT !.seen = NoSession]
<1>1. /\ RequestInv(req[p]) /\ req[p].pc = "loaded" /\ Copy(s)
      /\ req[p].stage \in {"valid", "forced", "issueForced", "issueValid", "logout"}
  BY DEF UseSession, RequestInv, Request, Stages
<1>2. RequestInv(q) /\ q.pc = "loaded" /\ q.stage = req[p].stage /\ q.kind = req[p].kind
      /\ q.began = req[p].began /\ q.rep \in Replica
  BY <1>1 DEF RequestInv, Request, Copy, Admitted
<1>3. UNCHANGED <<row, forced, kc, now, faults, ended>>
  BY DEF UseSession
<1>4. Usable(s) => FromSignIn(s)
  BY <1>1 DEF Usable, Copy
<1>5. Usable(s) /\ q.stage # "logout" => Admitted(q)
  BY <1>1, <1>2, <1>4
  DEF Usable, FromSignIn, Admitted, RequestInv, Request, Session, TypeOK
<1> DEFINE marked == IF Respends(q, s)
                     THEN [spoilt EXCEPT !.respent = @ \union {s.gen}] ELSE spoilt
<1>13. FromSignIn(s) => marked \in Spoilt
  BY DEF FromSignIn, Session, Spoilt, TypeOK
<1> HIDE DEF marked
<1>6. ASSUME NEW n, RequestInv(n), req' = [req EXCEPT ![p] = n],
             \/ UNCHANGED <<flights, spoilt>>
             \/ flights' = StartOrJoin(q, s) /\ FromSignIn(s) /\ spoilt' = marked
      PROVE  IInv'
  <2>1. flights' \subseteq Flight /\ \A f \in flights' : FromSignIn(f.prev)
    BY <1>2, <1>6 DEF StartOrJoin, TypeOK, Flight, FromSignIn, Session
  <2>2. req' \in [Req -> Request] /\ \A r \in Req : RequestInv(req[r])'
    BY <1>3, <1>6, OneRequest
  <2>3. QED BY <1>3, <1>6, <1>13, <2>1, <2>2 DEF TypeOK, Copy, FromSignIn
<1>7. CASE /\ q.stage = "logout"
           /\ req' = [req EXCEPT ![p] = [q EXCEPT !.pc = "delete", !.sess = s]]
           /\ UNCHANGED <<flights, spoilt>>
  <2>1. RequestInv([q EXCEPT !.pc = "delete", !.sess = s])
    BY <1>1, <1>2, <1>7 DEF RequestInv, Request, Pcs, Copy, FromSignIn, Admitted
  <2>2. QED BY <1>6, <1>7, <2>1
<1>8. CASE /\ q.stage # "logout" /\ req' = [req EXCEPT ![p] = GotNull(q)]
           /\ UNCHANGED <<flights, spoilt>>
  BY <1>2, <1>6, <1>8, GotNullKeepsInv
<1>9. CASE /\ q.stage # "logout" /\ Usable(s)
           /\ req' = [req EXCEPT ![p] = Got(q, s)] /\ UNCHANGED <<flights, spoilt>>
  BY <1>2, <1>4, <1>5, <1>6, <1>9, GotKeepsInv
<1>10. CASE /\ q.stage # "logout" /\ Usable(s)
            /\ req' = [req EXCEPT ![p] = [q EXCEPT !.pc = "wait", !.key = s.gen]]
            /\ flights' = StartOrJoin(q, s) /\ spoilt' = marked
  <2>1. RequestInv([q EXCEPT !.pc = "wait", !.key = s.gen])
    BY <1>2, <1>4, <1>5, <1>10
    DEF RequestInv, Request, Pcs, Copy, FromSignIn, Session, Admitted
  <2>2. QED BY <1>4, <1>6, <1>10, <2>1
<1>11. QED BY <1>7, <1>8, <1>9, <1>10 DEF UseSession, marked

\* signSessionToken: what is written dates from the same sign-in.
LEMMA SaveSessionIInv ==
    ASSUME IInv, NEW p \in Req, SaveSession(p)
    PROVE  IInv'
<1> USE DEF IInv
<1> DEFINE q == req[p]
<1>1. /\ RequestInv(q) /\ q.pc = "save" /\ FromSignIn(q.sess) /\ Admitted(q)
      /\ row' \in {row, q.sess} /\ req' = [req EXCEPT ![p] = AfterSave(q)]
      /\ UNCHANGED <<flights, forced, kc, now, ended>> /\ faults' \in Nat
  BY FaultCounts DEF SaveSession, RequestInv, TypeOK
<1>2. RequestInv(AfterContext(q)) /\ RequestInv(Got(q, q.sess))
  BY <1>1, AfterContextKeepsInv, GotKeepsInv
<1>3. RequestInv(Done(q, "ok")) /\ RequestInv(Done(q, "reauth"))
  BY <1>1, DoneKeepsInv DEF Results
<1>4. RequestInv(AfterSave(q))
  BY <1>2, <1>3 DEF AfterSave
<1>5. req' \in [Req -> Request] /\ \A r \in Req : RequestInv(req[r])'
  BY <1>1, <1>4, OneRequest
<1>6. spoilt' \in Spoilt
  BY DEF SaveSession, Spoilt, TypeOK
<1>7. QED BY <1>1, <1>5, <1>6 DEF TypeOK, Copy, FromSignIn

\* request-user.ts: the live membership settles what the request gets.
LEMMA ResolveTenantIInv ==
    ASSUME IInv, NEW p \in Req, ResolveTenant(p)
    PROVE  IInv'
<1> USE DEF IInv
<1> DEFINE q == req[p]
<1>1. /\ RequestInv(q) /\ q.pc = "resolve" /\ FromSignIn(q.sess) /\ Admitted(q)
      /\ q.pick \in Tenant /\ q.sess.tenant \in Tenant /\ q.rep \in Replica
      /\ UNCHANGED <<row, flights, kc, now, ended>>
  BY DEF ResolveTenant, RequestInv, Request, FromSignIn, Session
<1>2. ASSUME NEW t \in Tenant, Decided(p, t), faults' \in Nat, spoilt' \in Spoilt
      PROVE  IInv'
  <2>1. CASE /\ req' = [req EXCEPT ![p] = Go([q EXCEPT !.pick = t], "read", "forced")]
             /\ forced' = forced \union {q.rep}
    <3> DEFINE k == [q EXCEPT !.pick = t]
    <3>1. /\ RequestInv(k) /\ Admitted(k) /\ k.pc = "resolve" /\ FromSignIn(k.sess)
      BY <1>1 DEF RequestInv, Request, Admitted, Copy
    <3>2. RequestInv(Go(k, "read", "forced"))
      BY <3>1, GoKeepsInv DEF Stages
    <3>3. req' \in [Req -> Request] /\ \A r \in Req : RequestInv(req[r])'
      BY <1>1, <2>1, <3>2, OneRequest
    <3>4. QED BY <1>1, <1>2, <2>1, <3>3 DEF TypeOK, Copy, FromSignIn
  <2>2. CASE req' = [req EXCEPT ![p] = FinishContext(q, t)] /\ UNCHANGED forced
    <3>1. RequestInv(FinishContext(q, t))
      BY <1>1, FinishContextKeepsInv
    <3>2. req' \in [Req -> Request] /\ \A r \in Req : RequestInv(req[r])'
      BY <1>1, <2>2, <3>1, OneRequest
    <3>3. QED BY <1>1, <1>2, <2>2, <3>2 DEF TypeOK, Copy, FromSignIn
  <2>3. QED BY <1>2, <2>1, <2>2 DEF Decided
<1>3. CASE /\ UNCHANGED <<faults, spoilt>>
           /\ \E start \in Tenant :
                \E t \in IF start \in Groups(q.sess) THEN {start} ELSE Picks(start) :
                   Decided(p, t)
  BY <1>2, <1>3 DEF Picks, Tenant, TypeOK
<1>4. CASE /\ Fault /\ spoilt' = [spoilt EXCEPT !.unasked = TRUE]
           /\ \E t \in Groups(q.sess) \union {Personal} : Decided(p, t)
  <2>1. faults' \in Nat /\ spoilt' \in Spoilt
    BY <1>4, FaultCounts DEF TypeOK, Spoilt
  <2>2. QED BY <1>2, <1>4, <2>1 DEF Groups, Tenant
<1>5. CASE /\ \E d \in Degraded(q) : req' = [req EXCEPT ![p] = d]
           /\ UNCHANGED <<forced, faults, spoilt>>
  <2>1. PICK d \in Degraded(q) : req' = [req EXCEPT ![p] = d]
    BY <1>5
  <2>2. RequestInv(d)
    BY <1>1, DoneKeepsInv, AfterContextKeepsInv DEF Degraded, Results
  <2>3. req' \in [Req -> Request] /\ \A r \in Req : RequestInv(req[r])'
    BY <1>1, <2>1, <2>2, OneRequest
  <2>4. QED BY <1>1, <1>5, <2>3 DEF TypeOK, Copy, FromSignIn
<1>6. QED BY <1>1, <1>3, <1>4, <1>5 DEF ResolveTenant

\* handlers.ts, logout: the row goes, nothing is admitted.
LEMMA LogoutIInv ==
    ASSUME IInv, NEW p \in Req, DeleteSession(p) \/ RevokeToken(p)
    PROVE  IInv'
<1> USE DEF IInv
<1> DEFINE q == req[p]
<1>1. /\ RequestInv(q) /\ q.pc \in {"delete", "revoke"} /\ q.kind = "logout"
      /\ q.stage = "logout" /\ UNCHANGED now
  BY DEF DeleteSession, RevokeToken, RequestInv
<1>2. RequestInv(Done(q, "ok"))
  BY <1>1, DoneKeepsInv DEF Results
<1>3. RequestInv(Go(q, "revoke", "logout"))
  BY <1>1 DEF Go, RequestInv, Request, Pcs, Stages, Admitted
<1>4. req' \in [Req -> Request] /\ \A r \in Req : RequestInv(req[r])'
  <2>1. req' = [req EXCEPT ![p] = Done(q, "ok")]
        \/ req' = [req EXCEPT ![p] = Go(q, "revoke", "logout")]
    BY DEF DeleteSession, RevokeToken
  <2>2. QED BY <1>1, <1>2, <1>3, <2>1, OneRequest
<1>5. CASE DeleteSession(p)
  <2>1. faults' \in Nat /\ row' \in {row, NoSession}
    BY <1>5, FaultCounts DEF DeleteSession, TypeOK
  <2>2. ended' \in [done : BOOLEAN, before : SUBSET Req]
    <3>1. ended' = ended \/ ended' = [done |-> TRUE, before |-> {r \in Req : req[r].pc # "new"}]
      BY <1>5 DEF DeleteSession
    <3>2. [done |-> TRUE, before |-> {r \in Req : req[r].pc # "new"}]
             \in [done : BOOLEAN, before : SUBSET Req]
      OBVIOUS
    <3>3. ended \in [done : BOOLEAN, before : SUBSET Req]
      BY DEF TypeOK
    <3>4. QED BY <3>1, <3>2, <3>3
  <2>3. QED BY <1>4, <1>5, <2>1, <2>2 DEF DeleteSession, TypeOK, Copy, FromSignIn
<1>6. CASE RevokeToken(p)
  <2>1. kc' = [kc EXCEPT !.alive = FALSE] \/ kc' = kc
    BY <1>6 DEF RevokeToken
  <2>2. [kc EXCEPT !.alive = FALSE] \in [gen : Nat, alive : BOOLEAN]
    BY Zenon DEF TypeOK
  <2>3. kc' \in [gen : Nat, alive : BOOLEAN]
    BY <2>1, <2>2 DEF TypeOK
  <2>4. faults' \in Nat
    BY <1>6, FaultCounts DEF RevokeToken, TypeOK
  <2>5. QED BY <1>4, <1>6, <2>3, <2>4 DEF RevokeToken, TypeOK, Copy, FromSignIn
<1>7. QED BY <1>5, <1>6

\* Keycloak answers a flight; no session copy is touched.
LEMMA KeycloakAnswersIInv ==
    ASSUME IInv, NEW f \in flights, KeycloakAnswers(f)
    PROVE  IInv'
<1> USE DEF IInv
<1>1. UNCHANGED <<row, req, forced, now, ended>>
  BY DEF KeycloakAnswers
<1>2. PICK status \in {"granted", "refused", "failed"}, n \in Nat : Answer(f, status, n)
  BY DEF KeycloakAnswers, TypeOK
<1>3. kc' \in [gen : Nat, alive : BOOLEAN] /\ faults' \in Nat /\ spoilt' \in Spoilt
  <2>1. kc' \in {kc, [kc EXCEPT !.gen = @ + 1]} /\ spoilt' \in {spoilt, [spoilt EXCEPT !.lost = TRUE]}
    BY DEF KeycloakAnswers
  <2>2. [kc EXCEPT !.gen = @ + 1] \in [gen : Nat, alive : BOOLEAN]
    BY DEF TypeOK
  <2>3. [spoilt EXCEPT !.lost = TRUE] \in Spoilt
    BY Zenon DEF TypeOK, Spoilt
  <2>4. faults' \in Nat
    BY FaultCounts DEF KeycloakAnswers, TypeOK
  <2>5. QED BY <2>1, <2>2, <2>3, <2>4 DEF TypeOK
<1>4. flights' \subseteq Flight /\ \A g \in flights' : FromSignIn(g.prev)
  BY <1>2 DEF Answer, TypeOK, Flight
<1>5. \A r \in Req : RequestInv(req[r])'
  BY <1>1 DEF RequestInv
<1>6. QED BY <1>1, <1>3, <1>4, <1>5 DEF TypeOK, Copy, FromSignIn

\* The flight settles and every request that waits on it takes its answer.
LEMMA FlightSettlesIInv ==
    ASSUME IInv, NEW f \in flights, FlightSettles(f)
    PROVE  IInv'
<1> USE DEF IInv
<1>1. /\ UNCHANGED <<row, forced, kc, now, faults, ended, spoilt>>
      /\ flights' = flights \ {f}
      /\ f \in Flight /\ FromSignIn(f.prev) /\ f.status # "asked"
  BY DEF FlightSettles, TypeOK
<1>2. FromSignIn(Refreshed(f))
  BY <1>1 DEF Refreshed, FromSignIn, Session, Flight, TypeOK
<1>3. ASSUME NEW r \in Req PROVE RequestInv(req'[r])
  <2>1. RequestInv(req[r])
    OBVIOUS
  <2>2. CASE r \notin Waiters(f)
    BY <2>1, <2>2 DEF FlightSettles
  <2>3. CASE r \in Waiters(f)
    <3>1. req'[r] = Resumed(req[r], f)
      BY <2>3 DEF FlightSettles
    <3>2. /\ req[r].pc = "wait" /\ req[r].stage # "logout" /\ Admitted(req[r])
          /\ req[r].stage \in Stages
      BY <2>1, <2>3 DEF Waiters, RequestInv, Request
    <3>3. CASE f.status = "granted"
      <4> DEFINE h == Hold(req[r], Refreshed(f))
      <4>1. /\ RequestInv(h) /\ Admitted(h) /\ h.pc = "wait" /\ FromSignIn(h.sess)
        BY <1>2, <2>1, <3>2, HoldKeepsInv
      <4>2. RequestInv(Go(h, "save", req[r].stage))
        BY <3>2, <4>1, GoKeepsInv
      <4>3. QED BY <3>1, <3>3, <4>2 DEF Resumed
    <3>4. CASE f.status # "granted"
      <4> DEFINE h == Hurt(req[r])
      <4>1. h.pc = "wait" /\ h.stage = req[r].stage
        BY <3>2, HurtLeaves DEF RequestInv
      <4>2. RequestInv(h)
        BY <2>1, <3>2, HurtLeaves DEF RequestInv, Admitted
      <4>3. RequestInv(GotNull(h)) /\ RequestInv(GotNull(req[r]))
        BY <2>1, <3>2, <4>1, <4>2, GotNullKeepsInv
      <4>4. QED BY <3>1, <3>4, <4>3 DEF Resumed
    <3>5. QED BY <3>3, <3>4
  <2>4. QED BY <2>2, <2>3
<1>4. req' \in [Req -> Request]
  <2>1. \A r \in Req : req'[r] \in Request
    BY <1>3 DEF RequestInv
  <2>2. req' = [r \in Req |-> req'[r]]
    BY DEF FlightSettles
  <2>3. QED BY <2>1, <2>2
<1>5. \A r \in Req : RequestInv(req[r])'
  BY <1>1, <1>3 DEF RequestInv
<1>6. QED BY <1>1, <1>4, <1>5 DEF TypeOK, Copy, FromSignIn

\* Time passes; a request already admitted stays admitted.
LEMMA TickIInv ==
    ASSUME IInv, Tick
    PROVE  IInv'
<1> USE DEF IInv
<1>1. \A r \in Req : RequestInv(req[r])'
  BY DEF Tick, TypeOK, RequestInv, Request
<1>2. QED BY <1>1 DEF Tick, TypeOK, Copy, FromSignIn

\* A stuttering step.
LEMMA StutterIInv ==
    ASSUME IInv, UNCHANGED vars
    PROVE  IInv'
BY DEF IInv, vars, TypeOK, Copy, FromSignIn, RequestInv

\* Every step keeps the inductive invariant.
LEMMA NextIInv == IInv /\ [Next]_vars => IInv'
<1> SUFFICES ASSUME IInv, [Next]_vars PROVE IInv'
  OBVIOUS
<1>1. ASSUME NEW p \in Req,
             \/ Begin(p) \/ LoadSession(p) \/ UseSession(p) \/ SaveSession(p)
             \/ ResolveTenant(p) \/ DeleteSession(p) \/ RevokeToken(p)
      PROVE  IInv'
  BY <1>1, BeginIInv, LoadSessionIInv, UseSessionIInv, SaveSessionIInv,
     ResolveTenantIInv, LogoutIInv
<1>2. ASSUME NEW f \in flights, KeycloakAnswers(f) \/ FlightSettles(f)
      PROVE  IInv'
  BY <1>2, KeycloakAnswersIInv, FlightSettlesIInv
<1>3. QED BY <1>1, <1>2, TickIInv, StutterIInv DEF Next, Finished

\* Spec keeps the inductive invariant; the theorems below read it off.
THEOREM InductiveInvariant == Spec => []IInv
BY InitIInv, NextIInv, PTL DEF Spec

\* The variables keep their shape: no step of the session code, however the
\* requests interleave, puts anything but a whole session in the row.
THEOREM TypeCorrect == Spec => []TypeOK
<1>1. IInv => TypeOK
  BY DEF IInv
<1>2. QED BY <1>1, InductiveInvariant, PTL

\* The absolute lifetime holds for every request, however many refreshes and
\* re-signs came before it.
THEOREM AbsoluteCap == Spec => []CapHolds
<1>1. IInv => CapHolds
  BY DEF IInv, CapHolds, RequestInv, Request, Admitted, TypeOK
<1>2. QED BY <1>1, InductiveInvariant, PTL

----------------------------------------------------------------------------
(* Shared refreshes, late comers and nulls: how the operators a request    *)
(* moves by look from outside                                              *)

\* None of them parks a request or leaves it with the answer of a lookup.
LEMMA Unparked ==
    ASSUME NEW q \in Request
    PROVE  /\ \A res : Done(q, res).pc = "done"
           /\ \A pc, stage : Go(q, pc, stage).pc = pc
           /\ AfterContext(q).pc \notin {"wait", "loaded"}
           /\ \A t : FinishContext(q, t).pc \notin {"wait", "loaded"}
           /\ \A s : Got(q, s).pc \notin {"wait", "loaded"}
           /\ GotNull(q).pc \notin {"wait", "loaded"}
<1> USE DEF Request
<1>1. /\ \A res : Done(q, res).pc = "done"
      /\ \A pc, stage : Go(q, pc, stage).pc = pc
  BY DEF Done, Go
<1>2. AfterContext(q).pc \notin {"wait", "loaded"}
  BY DEF AfterContext, Done, Go
<1>3. ASSUME NEW t PROVE FinishContext(q, t).pc \notin {"wait", "loaded"}
  BY <1>2 DEF FinishContext, Go, Hold
<1>4. ASSUME NEW s PROVE Got(q, s).pc \notin {"wait", "loaded"}
  BY DEF Got, Done, Go, Hold
<1>5. GotNull(q).pc \notin {"wait", "loaded"}
  BY <1>3 DEF GotNull, Done, Go
<1>6. QED BY <1>1, <1>2, <1>3, <1>4, <1>5

\* They turn a request away only where they are handed null.
LEMMA Untouched ==
    ASSUME NEW q \in Request, q.result = "none"
    PROVE  /\ \A res : Done(q, res).result = res
           /\ \A pc, stage : Go(q, pc, stage).result = "none"
           /\ AfterContext(q).result # "anon"
           /\ \A t : FinishContext(q, t).result # "anon"
           /\ \A s : Got(q, s).result # "anon"
<1> USE DEF Request
<1>1. /\ \A res : Done(q, res).result = res
      /\ \A pc, stage : Go(q, pc, stage).result = "none"
  BY DEF Done, Go
<1>2. AfterContext(q).result # "anon"
  BY DEF AfterContext, Done, Go
<1>3. ASSUME NEW t PROVE FinishContext(q, t).result # "anon"
  BY <1>2 DEF FinishContext, Go, Hold
<1>4. ASSUME NEW s PROVE Got(q, s).result # "anon"
  BY DEF Got, Done, Go, Hold
<1>5. QED BY <1>1, <1>2, <1>3, <1>4

----------------------------------------------------------------------------
(* One refresh per token and replica                                       *)

\* A request that moves without starting to wait leaves the sharing as it is.
LEMMA MoveKeepsFlights ==
    ASSUME SingleFlight, NEW p \in Req, NEW q, q.pc # "wait",
           req' = [req EXCEPT ![p] = q], UNCHANGED flights
    PROVE  SingleFlight'
<1>1. ASSUME NEW r \in Req, req'[r].pc = "wait" PROVE req'[r] = req[r]
  BY <1>1 DEF SingleFlight
<1>2. QED BY <1>1 DEF SingleFlight

\* refreshShared: a request joins the refresh of its token or starts it.
LEMMA UseSessionKeepsFlights ==
    ASSUME IInv, SingleFlight, NEW p \in Req, UseSession(p)
    PROVE  SingleFlight'
<1> DEFINE s == req[p].seen
           q == [req[p] EXCEPT !.seen = NoSession]
           parked == [q EXCEPT !.pc = "wait", !.key = s.gen]
<1>1. req \in [Req -> Request] /\ q \in Request /\ flights \subseteq Flight
  BY DEF IInv, TypeOK, Request
<1>2. CASE /\ \/ req' = [req EXCEPT ![p] = [q EXCEPT !.pc = "delete", !.sess = s]]
              \/ req' = [req EXCEPT ![p] = GotNull(q)]
              \/ req' = [req EXCEPT ![p] = Got(q, s)]
           /\ UNCHANGED flights
  <2>1. [q EXCEPT !.pc = "delete", !.sess = s].pc # "wait"
    BY <1>1 DEF Request
  <2>2. GotNull(q).pc # "wait" /\ Got(q, s).pc # "wait"
    BY <1>1, Unparked
  <2> HIDE DEF q, s
  <2>3. QED BY <1>2, <2>1, <2>2, MoveKeepsFlights
<1>3. CASE req' = [req EXCEPT ![p] = parked] /\ flights' = StartOrJoin(q, s)
  <2>1. parked.rep = q.rep /\ parked.key = s.gen
    BY <1>1 DEF Request
  <2>2. /\ \A f \in flights' :
             f \in flights \/ (f.rep = q.rep /\ f.gen = s.gen
                               /\ \A g \in flights : ~(g.rep = q.rep /\ g.gen = s.gen))
        /\ \E f \in flights' : f.rep = q.rep /\ f.gen = s.gen
        /\ flights \subseteq flights'
        /\ \A f, g \in flights' : f \notin flights /\ g \notin flights => f = g
    <3> DEFINE fresh == [rep |-> q.rep, gen |-> s.gen, prev |-> s,
                         status |-> "asked", new |-> 0]
    <3>1. fresh.rep = q.rep /\ fresh.gen = s.gen
      OBVIOUS
    <3>2. \/ flights' = flights /\ \E f \in flights : f.rep = q.rep /\ f.gen = s.gen
          \/ /\ flights' = flights \union {fresh}
             /\ \A g \in flights : ~(g.rep = q.rep /\ g.gen = s.gen)
      BY <1>3 DEF StartOrJoin
    <3> HIDE DEF fresh, q, s
    <3>3. QED BY <3>1, <3>2
  <2>3. \A r \in Req : req'[r] = req[r] \/ req'[r] = parked
    BY <1>1, <1>3
  <2> HIDE DEF q, s, parked
  <2>4. \A f, g \in flights' : f.rep = g.rep /\ f.gen = g.gen => f = g
    BY <2>2 DEF SingleFlight
  <2>5. ASSUME NEW r \in Req, req'[r].pc = "wait"
        PROVE  \E f \in flights' : f.rep = req'[r].rep /\ f.gen = req'[r].key
    BY <2>1, <2>2, <2>3, <2>5 DEF SingleFlight
  <2>6. QED BY <2>4, <2>5 DEF SingleFlight
<1>4. QED BY <1>2, <1>3 DEF UseSession

\* Keycloak's answer changes nothing of what a refresh is for.
LEMMA AnswerKeepsFlights ==
    ASSUME IInv, SingleFlight, NEW f \in flights, KeycloakAnswers(f)
    PROVE  SingleFlight'
<1>1. flights \subseteq Flight /\ UNCHANGED req
  BY DEF IInv, TypeOK, KeycloakAnswers
<1>2. PICK status, n : flights' = (flights \ {f}) \union {[f EXCEPT !.status = status, !.new = n]}
  BY DEF KeycloakAnswers, Answer
<1> DEFINE a == [f EXCEPT !.status = status, !.new = n]
<1>3. a.rep = f.rep /\ a.gen = f.gen
  BY <1>1 DEF Flight
<1>4. flights' = (flights \ {f}) \union {a}
  BY <1>2
<1> HIDE DEF a
<1>5. QED BY <1>1, <1>3, <1>4 DEF SingleFlight

\* A refresh leaves the map together with everybody who waits for it.
LEMMA SettleKeepsFlights ==
    ASSUME IInv, SingleFlight, NEW f \in flights, FlightSettles(f)
    PROVE  SingleFlight'
<1>1. req \in [Req -> Request] /\ flights' = flights \ {f}
  BY DEF IInv, TypeOK, FlightSettles
<1>2. ASSUME NEW r \in Req, req'[r].pc = "wait"
      PROVE  \E g \in flights' : g.rep = req'[r].rep /\ g.gen = req'[r].key
  <2>1. CASE r \in Waiters(f)
    <3>1. req'[r] = Resumed(req[r], f)
      BY <2>1 DEF FlightSettles
    <3>2. GotNull(req[r]).pc # "wait" /\ GotNull(Hurt(req[r])).pc # "wait"
      BY <1>1, Unparked, HurtLeaves
    <3>3. Go(Hold(req[r], Refreshed(f)), "save", req[r].stage).pc = "save"
      BY <1>1 DEF Go, Hold, Request
    <3>4. QED BY <1>2, <3>1, <3>2, <3>3 DEF Resumed
  <2>2. CASE r \notin Waiters(f)
    <3>1. req'[r] = req[r]
      BY <2>2 DEF FlightSettles
    <3>2. PICK g \in flights : g.rep = req[r].rep /\ g.gen = req[r].key
      BY <1>2, <3>1 DEF SingleFlight
    <3>3. g # f
      BY <1>2, <2>2, <3>1, <3>2 DEF Waiters
    <3>4. QED BY <1>1, <3>1, <3>2, <3>3
  <2>3. QED BY <2>1, <2>2
<1>3. QED BY <1>1, <1>2 DEF SingleFlight

\* Every step keeps refreshes shared.
LEMMA NextKeepsFlights == IInv /\ SingleFlight /\ [Next]_vars => SingleFlight'
<1> SUFFICES ASSUME IInv, SingleFlight, [Next]_vars PROVE SingleFlight'
  OBVIOUS
<1>1. ASSUME NEW p \in Req, UNCHANGED flights, NEW q, q.pc # "wait",
             req' = [req EXCEPT ![p] = q]
      PROVE  SingleFlight'
  BY <1>1, MoveKeepsFlights
<1>2. req \in [Req -> Request] /\ \A p \in Req : req[p] \in Request
  BY DEF IInv, TypeOK
<1>3. ASSUME NEW p \in Req, Begin(p) PROVE SingleFlight'
  <2>1. \A r \in Req : req'[r].pc = "wait" => req'[r] = req[r]
    BY <1>2, <1>3 DEF Begin, Request
  <2>2. QED BY <1>3, <2>1 DEF Begin, SingleFlight
<1>4. ASSUME NEW p \in Req, LoadSession(p) PROVE SingleFlight'
  <2>1. PICK n : req' = [req EXCEPT ![p] = n] /\ n.pc = "loaded"
    BY <1>4, LoadStep DEF IInv
  <2>2. QED BY <1>1, <1>4, <2>1 DEF LoadSession
<1>5. ASSUME NEW p \in Req, SaveSession(p) PROVE SingleFlight'
  <2> DEFINE n == AfterSave(req[p])
  <2>1. n.pc # "wait"
    <3>1. Got(req[p], req[p].sess).pc # "wait"
      BY <1>2, Unparked
    <3>2. AfterContext(req[p]).pc # "wait"
      BY <1>2, Unparked
    <3>3. Done(req[p], "ok").pc # "wait" /\ Done(req[p], "reauth").pc # "wait"
      BY <1>2, Unparked
    <3>4. QED BY <3>1, <3>2, <3>3 DEF AfterSave
  <2>2. req' = [req EXCEPT ![p] = n] /\ UNCHANGED flights
    BY <1>5 DEF SaveSession
  <2> HIDE DEF n
  <2>3. QED BY <1>1, <2>1, <2>2
<1>6. ASSUME NEW p \in Req, ResolveTenant(p) PROVE SingleFlight'
  <2>1. ASSUME NEW t, Decided(p, t) PROVE SingleFlight'
    <3>1. [req[p] EXCEPT !.pick = t].pc = req[p].pc
      BY <1>2 DEF Request
    <3>2. Go([req[p] EXCEPT !.pick = t], "read", "forced").pc = "read"
      BY <1>2 DEF Go, Request
    <3>3. FinishContext(req[p], t).pc # "wait"
      BY <1>2, Unparked
    <3>4. QED BY <1>1, <1>6, <2>1, <3>2, <3>3 DEF Decided, ResolveTenant
  <2>2. \A d \in Degraded(req[p]) : d.pc # "wait"
    BY <1>2, Unparked DEF Degraded
  <2>3. QED BY <1>1, <1>6, <2>1, <2>2 DEF ResolveTenant
<1>7. ASSUME NEW p \in Req, DeleteSession(p) \/ RevokeToken(p) PROVE SingleFlight'
  BY <1>1, <1>2, <1>7, Unparked DEF DeleteSession, RevokeToken
<1>8. CASE Tick \/ UNCHANGED vars
  BY <1>8 DEF Tick, vars, SingleFlight
<1>9. QED
  BY <1>3, <1>4, <1>5, <1>6, <1>7, <1>8, UseSessionKeepsFlights,
     AnswerKeepsFlights, SettleKeepsFlights DEF Next, Finished

\* However many requests come in while a refresh is unanswered, a replica spends
\* a refresh token once at a time and strands nobody who joined (handlers.ts,
\* inflightRefresh).
THEOREM SharedRefresh == Spec => []SingleFlight
<1>1. Init => SingleFlight
  BY DEF Init, SingleFlight
<1>2. QED BY <1>1, InductiveInvariant, NextKeepsFlights, PTL DEF Spec

----------------------------------------------------------------------------
(* A deleted row comes back through an overlap only                        *)

\* A request that moves and stays empty-handed leaves the late comers so.
LEMMA MoveKeepsEmptyHanded ==
    ASSUME req \in [Req -> Request], LateComersEmptyHanded, NEW p \in Req, NEW q,
           row' = NoSession => row = NoSession,
           EmptyHanded(req[p]) => EmptyHanded(q),
           req' = [req EXCEPT ![p] = q], UNCHANGED ended
    PROVE  LateComersEmptyHanded'
<1>1. \A r \in Req : req'[r] = req[r] \/ (r = p /\ req'[r] = q)
  OBVIOUS
<1>2. ASSUME NEW r \in Req, EmptyHanded(req'[r]) PROVE EmptyHanded(req[r])'
  BY <1>2 DEF EmptyHanded
<1>3. ASSUME NEW r \in Req, row' = NoSession, r \notin ended.before PROVE EmptyHanded(req'[r])
  BY <1>1, <1>3 DEF LateComersEmptyHanded
<1>4. QED BY <1>2, <1>3 DEF LateComersEmptyHanded

\* A request without a session gets none while there is no row.
LEMMA UseSessionKeepsEmptyHanded ==
    ASSUME IInv, LateComersEmptyHanded, NEW p \in Req, UseSession(p)
    PROVE  LateComersEmptyHanded'
<1> DEFINE s == req[p].seen
           q == [req[p] EXCEPT !.seen = NoSession]
<1>1. req \in [Req -> Request] /\ q \in Request /\ req[p].pc = "loaded"
  BY DEF IInv, TypeOK, Request, UseSession
<1>2. UNCHANGED <<row, ended>>
  BY DEF UseSession
<1>3. ASSUME EmptyHanded(req[p]), req[p].stage # "logout"
      PROVE  req' = [req EXCEPT ![p] = GotNull(q)] /\ EmptyHanded(GotNull(q))
  <2>1. s = NoSession /\ q.stage = "valid"
    BY <1>1, <1>3 DEF EmptyHanded, Request
  <2>2. req' = [req EXCEPT ![p] = GotNull(q)]
    BY <2>1 DEF UseSession, Usable
  <2>3. EmptyHanded(GotNull(q))
    BY <1>1, <2>1 DEF GotNull, Done, EmptyHanded, Request
  <2>4. QED BY <2>2, <2>3
<1>4. CASE EmptyHanded(req[p]) /\ req[p].stage # "logout"
  BY <1>1, <1>2, <1>3, <1>4, MoveKeepsEmptyHanded
<1>5. CASE req[p].stage = "logout"
  <2>1. q.stage = "logout"
    BY <1>1, <1>5 DEF Request
  <2>2. req' = [req EXCEPT ![p] = [q EXCEPT !.pc = "delete", !.sess = s]]
    BY <2>1 DEF UseSession
  <2>3. EmptyHanded([q EXCEPT !.pc = "delete", !.sess = s])
    BY <1>1, <2>1 DEF EmptyHanded, Request
  <2>4. QED BY <1>1, <1>2, <2>2, <2>3, MoveKeepsEmptyHanded
<1>6. CASE ~EmptyHanded(req[p])
  <2>1. PICK n : req' = [req EXCEPT ![p] = n]
    BY DEF UseSession
  <2>2. QED BY <1>1, <1>2, <1>6, <2>1, MoveKeepsEmptyHanded
<1>7. QED BY <1>4, <1>5, <1>6

\* Every step leaves the late comers empty-handed while the row is deleted.
LEMMA NextKeepsEmptyHanded ==
    IInv /\ LateComersEmptyHanded /\ [Next]_vars => LateComersEmptyHanded'
<1> SUFFICES ASSUME IInv, LateComersEmptyHanded, [Next]_vars PROVE LateComersEmptyHanded'
  OBVIOUS
<1>1. req \in [Req -> Request] /\ \A p \in Req : RequestInv(req[p])
  BY DEF IInv, TypeOK
<1>2. ASSUME NEW p \in Req, Begin(p) PROVE LateComersEmptyHanded'
  <2>1. PICK k \in Kind, r \in Replica : \E w \in IF k = "switch" THEN Org ELSE {Personal} :
           req' = [req EXCEPT ![p].pc = "read", ![p].kind = k, ![p].rep = r,
                              ![p].want = w, ![p].began = now,
                              ![p].stage = IF k = "logout" THEN "logout" ELSE "valid"]
    BY <1>2 DEF Begin
  <2>2. PICK w \in Tenant :
           req' = [req EXCEPT ![p].pc = "read", ![p].kind = k, ![p].rep = r,
                              ![p].want = w, ![p].began = now,
                              ![p].stage = IF k = "logout" THEN "logout" ELSE "valid"]
    BY <2>1 DEF Tenant
  <2> DEFINE st == IF k = "logout" THEN "logout" ELSE "valid"
             q == [req[p] EXCEPT !.pc = "read", !.kind = k, !.rep = r,
                                 !.want = w, !.began = now, !.stage = st]
  <2>3. req' = [req EXCEPT ![p] = q]
    BY <1>1, <2>2
  <2>4. EmptyHanded(q)
    BY <1>1 DEF EmptyHanded, Request
  <2>5. UNCHANGED <<row, ended>>
    BY <1>2 DEF Begin
  <2> HIDE DEF q
  <2>6. QED BY <1>1, <2>3, <2>4, <2>5, MoveKeepsEmptyHanded
<1>3. ASSUME NEW p \in Req, LoadSession(p) PROVE LateComersEmptyHanded'
  <2>1. PICK n : /\ req' = [req EXCEPT ![p] = n] /\ n.pc = "loaded"
                 /\ n.seen \in {row, NoSession} /\ n.stage = req[p].stage
    BY <1>3, LoadStep DEF IInv
  <2>2. row = NoSession /\ EmptyHanded(req[p]) => EmptyHanded(n)
    BY <1>3, <2>1 DEF EmptyHanded, LoadSession
  <2>3. UNCHANGED <<row, ended>>
    BY <1>3 DEF LoadSession
  <2>4. CASE row = NoSession
    BY <1>1, <2>1, <2>2, <2>3, <2>4, MoveKeepsEmptyHanded
  <2>5. QED BY <2>3, <2>4 DEF LateComersEmptyHanded
<1>4. ASSUME NEW p \in Req, SaveSession(p) PROVE LateComersEmptyHanded'
  <2>1. FromSignIn(req[p].sess) /\ row' \in {row, req[p].sess} /\ UNCHANGED ended
    BY <1>1, <1>4 DEF SaveSession, RequestInv
  <2>2. row' = NoSession => row = NoSession
    BY <2>1, NoSessionAssumption DEF FromSignIn
  <2>3. ~EmptyHanded(req[p])
    BY <1>1, <1>4 DEF SaveSession, EmptyHanded, RequestInv
  <2>4. PICK n : req' = [req EXCEPT ![p] = n]
    BY <1>4 DEF SaveSession
  <2>5. QED BY <1>1, <2>1, <2>2, <2>3, <2>4, MoveKeepsEmptyHanded
<1>5. ASSUME NEW p \in Req, ResolveTenant(p) PROVE LateComersEmptyHanded'
  <2>1. PICK n : req' = [req EXCEPT ![p] = n]
    BY <1>5 DEF ResolveTenant, Decided
  <2>2. ~EmptyHanded(req[p])
    BY <1>1, <1>5 DEF ResolveTenant, EmptyHanded, RequestInv
  <2>3. UNCHANGED <<row, ended>>
    BY <1>5 DEF ResolveTenant
  <2>4. QED BY <1>1, <2>1, <2>2, <2>3, MoveKeepsEmptyHanded
<1>6. ASSUME NEW p \in Req, DeleteSession(p) \/ RevokeToken(p) PROVE LateComersEmptyHanded'
  <2>1. req[p].stage = "logout" /\ req[p] \in Request
    BY <1>1, <1>6 DEF DeleteSession, RevokeToken, RequestInv
  <2>2. PICK n : n.stage = "logout" /\ req' = [req EXCEPT ![p] = n]
    <3>1. Done(req[p], "ok").stage = "logout" /\ Go(req[p], "revoke", "logout").stage = "logout"
      BY <2>1 DEF Done, Go, Request
    <3>2. QED BY <1>6, <3>1 DEF DeleteSession, RevokeToken
  <2>3. EmptyHanded(n)
    BY <2>2 DEF EmptyHanded
  <2>4. CASE UNCHANGED ended /\ (row' = NoSession => row = NoSession)
    BY <1>1, <2>2, <2>3, <2>4, MoveKeepsEmptyHanded
  <2>5. CASE ended' = [done |-> TRUE, before |-> {r \in Req : req[r].pc # "new"}]
    <3>1. ASSUME NEW r \in Req, r \notin ended'.before PROVE EmptyHanded(req'[r])
      <4>1. r = p \/ (req'[r] = req[r] /\ req[r].pc = "new")
        BY <1>1, <2>2, <2>5, <3>1
      <4>2. CASE r = p
        BY <1>1, <2>2, <2>3, <4>2
      <4>3. CASE req'[r] = req[r] /\ req[r].pc = "new"
        BY <4>3 DEF EmptyHanded
      <4>4. QED BY <4>1, <4>2, <4>3
    <3>2. QED BY <3>1 DEF LateComersEmptyHanded, EmptyHanded
  <2>6. QED BY <1>6, <2>4, <2>5 DEF DeleteSession, RevokeToken
<1>7. ASSUME NEW f \in flights, FlightSettles(f) PROVE LateComersEmptyHanded'
  <2>1. UNCHANGED <<row, ended>>
    BY <1>7 DEF FlightSettles
  <2>2. ASSUME NEW r \in Req, EmptyHanded(req[r]) PROVE EmptyHanded(req'[r])
    <3>1. r \notin Waiters(f)
      BY <1>1, <2>2 DEF Waiters, EmptyHanded, RequestInv
    <3>2. req'[r] = req[r]
      BY <1>7, <3>1 DEF FlightSettles
    <3>3. QED BY <2>2, <3>2
  <2>3. QED BY <2>1, <2>2 DEF LateComersEmptyHanded, EmptyHanded
<1>8. ASSUME UNCHANGED <<row, req, ended>> PROVE LateComersEmptyHanded'
  BY <1>8 DEF LateComersEmptyHanded, EmptyHanded
<1>9. ASSUME NEW p \in Req, UseSession(p) PROVE LateComersEmptyHanded'
  BY <1>9, UseSessionKeepsEmptyHanded
<1>10. ASSUME NEW f \in flights, KeycloakAnswers(f) PROVE LateComersEmptyHanded'
  BY <1>8, <1>10 DEF KeycloakAnswers
<1>11. CASE Tick \/ UNCHANGED vars
  BY <1>8, <1>11 DEF Tick, vars
<1>12. QED
  BY <1>2, <1>3, <1>4, <1>5, <1>6, <1>7, <1>9, <1>10, <1>11 DEF Next, Finished

\* What a logout deleted comes back only by the hand of a request that was in
\* progress when it was deleted: nobody who comes in afterwards is ever given a
\* session to write back, for any number of requests and replicas.
THEOREM OnlyOverlapsRecreate == Spec => RecreatedByOverlapOnly
<1>1. Init => LateComersEmptyHanded
  BY NoSessionAssumption DEF Init, LateComersEmptyHanded, EmptyHanded
<1>2. ASSUME IInv, LateComersEmptyHanded, [Next]_vars, row = NoSession, row' # NoSession
      PROVE  \E p \in ended.before : req[p].pc = "save" /\ row' = req[p].sess
  <2>1. PICK p \in Req : SaveSession(p)
    BY <1>2 DEF Next, Begin, LoadSession, UseSession, ResolveTenant, DeleteSession,
                RevokeToken, KeycloakAnswers, FlightSettles, Tick, Finished, vars
  <2>2. req[p].pc = "save" /\ row' = req[p].sess /\ req[p].stage # "logout"
    BY <1>2, <2>1 DEF SaveSession, IInv, RequestInv
  <2>3. p \in ended.before
    BY <1>2, <2>2 DEF LateComersEmptyHanded, EmptyHanded
  <2>4. QED BY <2>2, <2>3
<1>3. IInv /\ LateComersEmptyHanded /\ [Next]_vars =>
        [row = NoSession /\ row' # NoSession =>
          \E p \in ended.before : req[p].pc = "save" /\ row' = req[p].sess]_vars
  BY <1>2
<1>4. QED
  BY <1>1, <1>3, InductiveInvariant, NextKeepsEmptyHanded, PTL DEF Spec, RecreatedByOverlapOnly

----------------------------------------------------------------------------
(* Nobody is signed out by a neighbour whose refresh could be shared       *)

\* What a request was handed, or answered, has a reason by now.
Explains(q) ==
    /\ q.pc = "loaded" /\ q.seen = NoSession /\ q.stage = "valid" => ended.done \/ q.hurt
    /\ q.result = "anon" => Excused(q) \/ (Rotate /\ q.key \in spoilt.respent)

\* Reasons stay.
LEMMA ReasonsLast ==
    ASSUME TypeOK, [Next]_vars
    PROVE  /\ ended.done => ended'.done
           /\ ~kc.alive => ~kc'.alive
           /\ now \in Nat /\ now' \in Nat /\ now' >= now
           /\ spoilt.respent \subseteq spoilt'.respent
<1> USE DEF TypeOK, Spoilt
<1>1. ASSUME UNCHANGED <<kc, now, ended>>, spoilt.respent \subseteq spoilt'.respent
      PROVE  /\ (ended.done => ended'.done) /\ (~kc.alive => ~kc'.alive)
             /\ now \in Nat /\ now' \in Nat /\ now' >= now
             /\ spoilt.respent \subseteq spoilt'.respent
  BY <1>1
<1>2. ASSUME NEW p \in Req, Begin(p) \/ LoadSession(p) \/ UseSession(p) \/ SaveSession(p)
                            \/ ResolveTenant(p)
      PROVE  UNCHANGED <<kc, now, ended>> /\ spoilt.respent \subseteq spoilt'.respent
  <2>1. UNCHANGED <<kc, now, ended>>
    BY <1>2 DEF Begin, LoadSession, UseSession, SaveSession, ResolveTenant
  <2>2. \/ UNCHANGED spoilt
        \/ \E g : spoilt' = [spoilt EXCEPT !.respent = @ \union {g}]
        \/ \E b : spoilt' = [spoilt EXCEPT !.lost = b]
        \/ spoilt' = [spoilt EXCEPT !.unasked = TRUE]
    BY <1>2 DEF Begin, LoadSession, UseSession, SaveSession, ResolveTenant
  <2>3. QED BY <2>1, <2>2
<1>3. ASSUME NEW p \in Req, DeleteSession(p) \/ RevokeToken(p)
      PROVE  /\ (ended.done => ended'.done) /\ (~kc.alive => ~kc'.alive)
             /\ UNCHANGED <<now, spoilt>>
  BY <1>3 DEF DeleteSession, RevokeToken
<1>4. ASSUME NEW f \in flights, KeycloakAnswers(f) \/ FlightSettles(f)
      PROVE  /\ kc'.alive = kc.alive /\ UNCHANGED <<now, ended>>
             /\ spoilt.respent \subseteq spoilt'.respent
  <2>1. /\ kc' \in {kc, [kc EXCEPT !.gen = @ + 1]}
        /\ spoilt' \in {spoilt, [spoilt EXCEPT !.lost = TRUE]}
        /\ UNCHANGED <<now, ended>>
    BY <1>4 DEF KeycloakAnswers, FlightSettles
  <2>2. QED BY <2>1
<1>5. CASE Tick
  BY <1>5 DEF Tick
<1>6. CASE UNCHANGED vars
  BY <1>1, <1>6 DEF vars
<1>7. QED BY <1>1, <1>2, <1>3, <1>4, <1>5, <1>6 DEF Next, Finished

\* A step that leaves the refreshes and Keycloak alone.
LEMMA RefusalsStay ==
    ASSUME RefusalsExplained, UNCHANGED flights, kc'.gen = kc.gen, ~kc.alive => ~kc'.alive,
           spoilt.respent \subseteq spoilt'.respent
    PROVE  RefusalsExplained'
BY DEF RefusalsExplained

\* A refresh that is started while the token is being spent, or was, is marked.
LEMMA UseSessionKeepsRefusals ==
    ASSUME TypeOK, RefusalsExplained, NEW p \in Req, UseSession(p)
    PROVE  RefusalsExplained'
<1> DEFINE s == req[p].seen
           q == [req[p] EXCEPT !.seen = NoSession]
           fresh == [rep |-> q.rep, gen |-> s.gen, prev |-> s, status |-> "asked", new |-> 0]
<1>1. UNCHANGED kc
  BY DEF UseSession
<1>2. CASE UNCHANGED <<flights, spoilt>>
  BY <1>1, <1>2, RefusalsStay
<1>3. CASE /\ flights' = StartOrJoin(q, s)
           /\ spoilt' = IF Respends(q, s)
                        THEN [spoilt EXCEPT !.respent = @ \union {s.gen}] ELSE spoilt
  <2>1. spoilt.respent \subseteq spoilt'.respent /\ (Respends(q, s) => s.gen \in spoilt'.respent)
    BY <1>3 DEF TypeOK, Spoilt
  <2>2. \/ UNCHANGED flights
        \/ /\ flights' = flights \union {fresh}
           /\ \A f \in flights : ~(f.rep = q.rep /\ f.gen = s.gen)
    BY <1>3 DEF StartOrJoin
  <2>3. fresh.status = "asked" /\ fresh.gen = s.gen
    OBVIOUS
  <2>4. CASE UNCHANGED flights
    BY <1>1, <2>1, <2>4, RefusalsStay
  <2> HIDE DEF fresh, q, s
  <2>5. CASE /\ flights' = flights \union {fresh}
             /\ \A f \in flights : ~(f.rep = q.rep /\ f.gen = s.gen)
    <3>1. s.gen # kc.gen \/ (\E f \in flights : f.gen = s.gen /\ f.status = "asked")
             => s.gen \in spoilt'.respent
      BY <2>1, <2>5 DEF Respends
    <3>2. ASSUME NEW f \in flights', f.status = "asked", f.gen # kc.gen, Rotate
          PROVE  f.gen \in spoilt'.respent
      BY <2>1, <2>3, <2>5, <3>1, <3>2 DEF RefusalsExplained
    <3>3. ASSUME NEW f \in flights', NEW g \in flights', f.status = "asked", g.status = "asked",
                 f.gen = g.gen, f # g, Rotate
          PROVE  f.gen \in spoilt'.respent
      <4>1. CASE f \in flights /\ g \in flights
        BY <2>1, <3>3, <4>1 DEF RefusalsExplained
      <4>2. CASE f \notin flights \/ g \notin flights
        BY <2>3, <2>5, <3>1, <3>3, <4>2
      <4>3. QED BY <4>1, <4>2
    <3>4. ASSUME NEW f \in flights', f.status = "refused"
          PROVE  ~kc.alive \/ (Rotate /\ f.gen \in spoilt'.respent)
      BY <2>1, <2>3, <2>5, <3>4 DEF RefusalsExplained
    <3>5. QED BY <1>1, <3>2, <3>3, <3>4 DEF RefusalsExplained
  <2>6. QED BY <2>2, <2>4, <2>5
<1>4. QED BY <1>2, <1>3 DEF UseSession

\* Keycloak refuses a token, or grants the next one: whoever still asks with the
\* one it took was marked when it started.
LEMMA AnswerKeepsRefusals ==
    ASSUME TypeOK, RefusalsExplained, NEW f \in flights, KeycloakAnswers(f)
    PROVE  RefusalsExplained'
<1>1. /\ f \in Flight /\ f.status = "asked" /\ kc \in [gen : Nat, alive : BOOLEAN]
      /\ kc' \in {kc, [kc EXCEPT !.gen = @ + 1]}
      /\ spoilt' \in {spoilt, [spoilt EXCEPT !.lost = TRUE]}
  BY DEF TypeOK, KeycloakAnswers
<1>2. kc'.alive = kc.alive /\ spoilt'.respent = spoilt.respent
  BY <1>1 DEF TypeOK, Spoilt
<1>3. kc' = kc \/ (Accepts(f.gen) /\ kc'.gen # kc.gen)
  BY <1>1 DEF KeycloakAnswers
<1>4. PICK status \in {"granted", "refused", "failed"}, n \in Nat :
         Answer(f, status, n) /\ (status = "refused" => ~Accepts(f.gen))
  BY <1>1 DEF KeycloakAnswers, TypeOK
<1> DEFINE a == [f EXCEPT !.status = status, !.new = n]
<1>5. /\ flights' = (flights \ {f}) \union {a}
      /\ a.status = status /\ a.gen = f.gen
  BY <1>1, <1>4 DEF Answer, Flight
<1> HIDE DEF a
<1>6. \A g \in flights' : g.status = "asked" => g \in flights /\ g # f
  BY <1>4, <1>5
<1>7. ASSUME NEW g \in flights', g.status = "asked", g.gen # kc'.gen, Rotate
      PROVE  g.gen \in spoilt.respent
  <2>1. g \in flights /\ g # f
    BY <1>6, <1>7
  <2>2. CASE g.gen # kc.gen
    BY <1>7, <2>1, <2>2 DEF RefusalsExplained
  <2>3. CASE g.gen = kc.gen
    <3>1. f.gen = g.gen
      BY <1>3, <1>7, <2>3 DEF Accepts
    <3>2. QED BY <1>1, <1>7, <2>1, <3>1 DEF RefusalsExplained
  <2>4. QED BY <2>2, <2>3
<1>8. ASSUME NEW g \in flights', NEW h \in flights', g.status = "asked", h.status = "asked",
             g.gen = h.gen, g # h, Rotate
      PROVE  g.gen \in spoilt.respent
  BY <1>6, <1>8 DEF RefusalsExplained
<1>9. ASSUME NEW g \in flights', g.status = "refused"
      PROVE  ~kc.alive \/ (Rotate /\ g.gen \in spoilt.respent)
  <2>1. CASE g \in flights
    BY <1>9, <2>1 DEF RefusalsExplained
  <2>2. CASE g \notin flights
    <3>1. g.gen = f.gen /\ ~Accepts(f.gen)
      BY <1>4, <1>5, <1>9, <2>2
    <3>2. QED BY <1>1, <3>1, AuthAssumption DEF Accepts, RefusalsExplained
  <2>3. QED BY <2>1, <2>2
<1>10. QED BY <1>2, <1>7, <1>8, <1>9 DEF RefusalsExplained

\* Every step keeps the refusals explained.
LEMMA NextKeepsRefusals ==
    ASSUME TypeOK, RefusalsExplained, [Next]_vars
    PROVE  RefusalsExplained'
<1>1. (~kc.alive => ~kc'.alive) /\ spoilt.respent \subseteq spoilt'.respent
  BY ReasonsLast
<1>2. CASE UNCHANGED flights /\ kc'.gen = kc.gen
  BY <1>1, <1>2, RefusalsStay
<1>3. ASSUME NEW p \in Req, RevokeToken(p) PROVE UNCHANGED flights /\ kc'.gen = kc.gen
  BY <1>3 DEF RevokeToken, TypeOK
<1>4. ASSUME NEW f \in flights, FlightSettles(f) PROVE RefusalsExplained'
  BY <1>4 DEF FlightSettles, RefusalsExplained
<1>5. QED
  BY <1>2, <1>3, <1>4, UseSessionKeepsRefusals, AnswerKeepsRefusals
  DEF Next, Begin, LoadSession, SaveSession, ResolveTenant, DeleteSession, Tick, Finished, vars

\* A request that is handed null for a reason is answered for it.
LEMMA GotNullExplains ==
    ASSUME NEW q \in Request, q.result = "none",
           q.stage \in {"valid", "forced", "issueForced", "issueValid"},
           q.stage = "valid" => Excused(q) \/ (Rotate /\ q.key \in spoilt.respent)
    PROVE  Explains(GotNull(q))
<1>1. GotNull(q).pc # "loaded"
  BY Unparked
<1>2. CASE q.stage = "valid"
  <2>1. GotNull(q) = Done(q, "anon")
    BY <1>2 DEF GotNull
  <2>2. /\ Done(q, "anon").hurt = q.hurt /\ Done(q, "anon").key = q.key
        /\ Done(q, "anon").pc = "done"
    BY DEF Done, Request
  <2>3. QED BY <1>2, <2>1, <2>2 DEF Explains, Excused
<1>3. CASE q.stage # "valid"
  <2>1. GotNull(q).result # "anon"
    BY <1>3, Untouched DEF GotNull
  <2>2. QED BY <1>1, <2>1 DEF Explains
<1>4. QED BY <1>2, <1>3

\* One request moves, and what it moves to has a reason.
LEMMA MoveExplains ==
    ASSUME req \in [Req -> Request], \A r \in Req : Explains(req[r]),
           NEW p \in Req, NEW n, Explains(n), req' = [req EXCEPT ![p] = n]
    PROVE  \A r \in Req : Explains(req'[r])
<1>1. ASSUME NEW r \in Req PROVE req'[r] = req[r] \/ req'[r] = n
  OBVIOUS
<1>2. QED BY <1>1

\* getValidSession and refreshSessionNow hand out null for a reason.
LEMMA UseSessionExplains ==
    ASSUME IInv, \A r \in Req : Explains(req[r]), NEW p \in Req, UseSession(p)
    PROVE  \A r \in Req : Explains(req'[r])
<1> DEFINE s == req[p].seen
           q == [req[p] EXCEPT !.seen = NoSession]
<1>1. /\ req[p] \in Request /\ q \in Request /\ req[p].pc = "loaded"
      /\ Copy(s) /\ req[p].result = "none" /\ q.result = "none"
      /\ q.stage = req[p].stage /\ q.hurt = req[p].hurt /\ now \in Nat
      /\ req \in [Req -> Request] /\ Explains(req[p])
      /\ q.stage \in {"valid", "forced", "issueForced", "issueValid", "logout"}
  BY DEF IInv, TypeOK, RequestInv, Request, UseSession, Stages
<1>2. ASSUME NEW n, n.pc # "loaded", n.result # "anon", req' = [req EXCEPT ![p] = n]
      PROVE  \A r \in Req : Explains(req'[r])
  BY <1>1, <1>2, MoveExplains DEF Explains
<1>3. CASE q.stage # "logout" /\ ~Usable(s) /\ req' = [req EXCEPT ![p] = GotNull(q)]
  <2>1. q.stage = "valid" => Excused(q)
    <3>1. CASE s = NoSession
      BY <1>1, <3>1 DEF Explains, Excused
    <3>2. CASE s # NoSession
      <4>1. s.authTime = 0 /\ ~(now - s.authTime <= AbsoluteTtl)
        BY <1>1, <1>3, <3>2 DEF Usable, Copy, FromSignIn
      <4>2. now > AbsoluteTtl
        BY <1>1, <4>1, AuthAssumption
      <4>3. QED BY <4>2 DEF Excused
    <3>3. QED BY <3>1, <3>2
  <2>2. Explains(GotNull(q))
    BY <1>1, <1>3, <2>1, GotNullExplains
  <2> HIDE DEF q
  <2>3. QED BY <1>1, <1>3, <2>2, MoveExplains
<1>4. CASE req' = [req EXCEPT ![p] = Got(q, s)]
  <2>1. Got(q, s).pc # "loaded" /\ Got(q, s).result # "anon"
    BY <1>1, Unparked, Untouched
  <2> HIDE DEF q, s
  <2>2. QED BY <1>2, <1>4, <2>1
<1>5. CASE req' = [req EXCEPT ![p] = [q EXCEPT !.pc = "delete", !.sess = s]]
  <2> DEFINE n == [q EXCEPT !.pc = "delete", !.sess = s]
  <2>1. n.pc # "loaded" /\ n.result # "anon" /\ req' = [req EXCEPT ![p] = n]
    BY <1>1, <1>5 DEF Request
  <2> HIDE DEF n
  <2>2. QED BY <1>2, <2>1
<1>6. CASE req' = [req EXCEPT ![p] = [q EXCEPT !.pc = "wait", !.key = s.gen]]
  <2> DEFINE n == [q EXCEPT !.pc = "wait", !.key = s.gen]
  <2>1. n.pc # "loaded" /\ n.result # "anon" /\ req' = [req EXCEPT ![p] = n]
    BY <1>1, <1>6 DEF Request
  <2> HIDE DEF n
  <2>2. QED BY <1>2, <2>1
<1>7. QED BY <1>3, <1>4, <1>5, <1>6 DEF UseSession

\* Who waited for a refresh that came to nothing is handed its reason.
LEMMA SettleExplains ==
    ASSUME IInv, RefusalsExplained, \A r \in Req : Explains(req[r]),
           NEW f \in flights, FlightSettles(f)
    PROVE  \A r \in Req : Explains(req'[r])
<1> SUFFICES ASSUME NEW r \in Req, r \in Waiters(f) PROVE Explains(req'[r])
  BY DEF FlightSettles
<1> DEFINE q == req[r]
           k == Hurt(q)
<1>1. /\ q \in Request /\ RequestInv(q) /\ q.pc = "wait" /\ q.key = f.gen
      /\ req'[r] = Resumed(q, f)
      /\ f.status \in {"granted", "refused", "failed"}
  BY DEF FlightSettles, Waiters, IInv, TypeOK, Flight
<1>2. q.result = "none" /\ q.stage \in {"valid", "forced", "issueForced", "issueValid"}
  BY <1>1 DEF RequestInv, Request, Stages
<1>3. CASE f.status = "granted"
  <2> DEFINE n == Go(Hold(q, Refreshed(f)), "save", q.stage)
  <2>1. n.pc = "save" /\ n.result = "none"
    BY <1>1, <1>2 DEF Go, Hold, Request
  <2>2. req'[r] = n
    BY <1>1, <1>3 DEF Resumed
  <2> HIDE DEF n
  <2>3. QED BY <2>1, <2>2 DEF Explains
<1>4. CASE f.status = "failed"
  <2>1. /\ k \in Request /\ k.result = "none" /\ k.stage = q.stage
        /\ k.stage = "valid" => Excused(k)
    BY <1>1, <1>2, HurtLeaves DEF Excused
  <2>2. Explains(GotNull(k))
    BY <1>2, <2>1, GotNullExplains
  <2>3. QED BY <1>1, <1>4, <2>2 DEF Resumed
<1>5. CASE f.status = "refused"
  <2>1. ~kc.alive \/ (Rotate /\ q.key \in spoilt.respent)
    BY <1>1, <1>5 DEF RefusalsExplained
  <2>2. Explains(GotNull(q))
    BY <1>1, <1>2, <2>1, GotNullExplains DEF Excused
  <2>3. QED BY <1>1, <1>5, <2>2 DEF Resumed
<1>6. QED BY <1>1, <1>3, <1>4, <1>5

\* Every step hands out null for a reason.
LEMMA NextExplains ==
    ASSUME IInv, RefusalsExplained, NullsExplained, \A r \in Req : Explains(req[r]), [Next]_vars
    PROVE  \A r \in Req : Explains(req'[r])
<1>1. /\ req \in [Req -> Request] /\ TypeOK
      /\ \A r \in Req : RequestInv(req[r]) /\ req[r] \in Request
  BY DEF IInv, TypeOK
<1>2. ASSUME NEW p \in Req, NEW n, n.pc # "loaded", n.result # "anon",
             req' = [req EXCEPT ![p] = n]
      PROVE  \A r \in Req : Explains(req'[r])
  BY <1>1, <1>2, MoveExplains DEF Explains
<1>3. ASSUME NEW p \in Req, Begin(p) PROVE \A r \in Req : Explains(req'[r])
  <2>1. \A r \in Req : req'[r] = req[r] \/ (req'[r].pc = "read" /\ req'[r].result = "none")
    BY <1>1, <1>3 DEF Begin, Request, RequestInv
  <2>2. QED BY <2>1 DEF Explains
<1>4. ASSUME NEW p \in Req, LoadSession(p) PROVE \A r \in Req : Explains(req'[r])
  <2>1. PICK n \in Request : /\ req' = [req EXCEPT ![p] = n] /\ n.seen \in {row, NoSession}
                             /\ n.result = req[p].result
                             /\ n.seen # row /\ n.stage = "valid" => n.hurt
    BY <1>1, <1>4, LoadStep
  <2>2. n.result = "none"
    BY <1>1, <1>4, <2>1 DEF LoadSession, RequestInv
  <2>3. Explains(n)
    BY <2>1, <2>2 DEF Explains, NullsExplained
  <2>4. QED BY <1>1, <2>1, <2>3, MoveExplains
<1>5. ASSUME NEW p \in Req, SaveSession(p) PROVE \A r \in Req : Explains(req'[r])
  <2> DEFINE n == AfterSave(req[p])
  <2>1. req[p] \in Request /\ req[p].result = "none"
    BY <1>1, <1>5 DEF SaveSession, RequestInv
  <2>2. /\ Got(req[p], req[p].sess).pc # "loaded" /\ Got(req[p], req[p].sess).result # "anon"
        /\ AfterContext(req[p]).pc # "loaded" /\ AfterContext(req[p]).result # "anon"
    BY <2>1, Unparked, Untouched
  <2>3. /\ Done(req[p], "ok").pc # "loaded" /\ Done(req[p], "ok").result # "anon"
        /\ Done(req[p], "reauth").pc # "loaded" /\ Done(req[p], "reauth").result # "anon"
    BY <2>1, Unparked, Untouched
  <2>4. n.pc # "loaded" /\ n.result # "anon"
    BY <2>2, <2>3 DEF AfterSave
  <2>5. req' = [req EXCEPT ![p] = n]
    BY <1>5 DEF SaveSession
  <2> HIDE DEF n
  <2>6. QED BY <1>2, <2>4, <2>5
<1>6. ASSUME NEW p \in Req, ResolveTenant(p) PROVE \A r \in Req : Explains(req'[r])
  <2>1. req[p] \in Request /\ req[p].result = "none"
    BY <1>1, <1>6 DEF ResolveTenant, RequestInv
  <2>2. ASSUME NEW t, Decided(p, t) PROVE \A r \in Req : Explains(req'[r])
    <3> DEFINE k == Go([req[p] EXCEPT !.pick = t], "read", "forced")
    <3>1. k.pc # "loaded" /\ k.result # "anon"
      BY <2>1 DEF Go, Request
    <3>2. FinishContext(req[p], t).pc # "loaded" /\ FinishContext(req[p], t).result # "anon"
      BY <2>1, Unparked, Untouched
    <3>3. req' = [req EXCEPT ![p] = k] \/ req' = [req EXCEPT ![p] = FinishContext(req[p], t)]
      BY <2>2 DEF Decided
    <3> HIDE DEF k
    <3>4. QED BY <1>2, <3>1, <3>2, <3>3
  <2>3. \A d \in Degraded(req[p]) : d.pc # "loaded" /\ d.result # "anon"
    BY <2>1, Unparked, Untouched DEF Degraded
  <2>4. QED BY <1>2, <1>6, <2>2, <2>3 DEF ResolveTenant
<1>7. ASSUME NEW p \in Req, DeleteSession(p) \/ RevokeToken(p)
      PROVE  \A r \in Req : Explains(req'[r])
  <2>1. req[p] \in Request /\ req[p].result = "none"
    BY <1>1, <1>7 DEF DeleteSession, RevokeToken, RequestInv
  <2>2. /\ Done(req[p], "ok").pc # "loaded" /\ Done(req[p], "ok").result # "anon"
        /\ Go(req[p], "revoke", "logout").pc # "loaded"
        /\ Go(req[p], "revoke", "logout").result # "anon"
    BY <2>1, Unparked, Untouched
  <2>3. req' = [req EXCEPT ![p] = Done(req[p], "ok")]
        \/ req' = [req EXCEPT ![p] = Go(req[p], "revoke", "logout")]
    BY <1>7 DEF DeleteSession, RevokeToken
  <2>4. QED BY <1>2, <2>2, <2>3
<1>8. CASE UNCHANGED req
  BY <1>8
<1>9. QED
  BY <1>3, <1>4, <1>5, <1>6, <1>7, <1>8, UseSessionExplains, SettleExplains
  DEF Next, KeycloakAnswers, Tick, Finished, vars

\* A row that goes was deleted by a logout.
LEMMA RowGoes ==
    ASSUME IInv, NullsExplained, [Next]_vars
    PROVE  row' = NoSession => ended'.done
<1>1. ended.done => ended'.done
  BY ReasonsLast DEF IInv
<1>2. ASSUME NEW p \in Req, SaveSession(p) PROVE row' = NoSession => row = NoSession
  BY <1>2, NoSessionAssumption DEF SaveSession, IInv, RequestInv, FromSignIn
<1>3. ASSUME NEW p \in Req, DeleteSession(p) PROVE row' = NoSession => row = NoSession \/ ended'.done
  BY <1>3 DEF DeleteSession
<1>4. row' = NoSession => row = NoSession \/ ended'.done
  BY <1>2, <1>3 DEF Next, Begin, LoadSession, UseSession, ResolveTenant, RevokeToken,
     KeycloakAnswers, FlightSettles, Tick, Finished, vars
<1>5. QED BY <1>1, <1>4 DEF NullsExplained

\* However many requests, replicas and refreshes overlap, a request is turned
\* away only after a logout, the cap, a failed call of its own or, where tokens
\* rotate, because its token was spent twice by refreshes that the inflightRefresh
\* map had no way to share (handlers.ts).
THEOREM SharersNeverSignOut == Spec => []NoSpuriousSignOut
<1> DEFINE Inv == RefusalsExplained /\ NullsExplained /\ NoSpuriousSignOut
<1>1. Init => Inv
  BY NoSessionAssumption DEF Init, NullsExplained, RefusalsExplained, NoSpuriousSignOut, Session
<1>2. IInv /\ Inv /\ [Next]_vars => Inv'
  <2> SUFFICES ASSUME IInv, Inv, [Next]_vars PROVE Inv'
    OBVIOUS
  <2>1. RefusalsExplained'
    BY NextKeepsRefusals DEF IInv
  <2>2. \A r \in Req : Explains(req[r])
    BY DEF NullsExplained, NoSpuriousSignOut, Explains
  <2>3. \A r \in Req : Explains(req'[r])
    BY <2>2, NextExplains
  <2>4. /\ (ended.done => ended'.done) /\ (~kc.alive => ~kc'.alive)
        /\ now \in Nat /\ now' \in Nat /\ now' >= now
        /\ spoilt.respent \subseteq spoilt'.respent
    BY ReasonsLast DEF IInv
  <2>5. NullsExplained'
    BY <2>3, <2>4, RowGoes DEF NullsExplained, Explains
  <2>6. NoSpuriousSignOut'
    BY <2>3, <2>4, AuthAssumption DEF NoSpuriousSignOut, Explains, Excused
  <2>7. QED BY <2>1, <2>5, <2>6
<1>3. Inv => NoSpuriousSignOut
  OBVIOUS
<1> HIDE DEF Inv
<1>4. QED BY <1>1, <1>2, <1>3, InductiveInvariant, PTL DEF Spec

----------------------------------------------------------------------------
(* One request at a time: the organisation stays                           *)

\* The condition on the organisation a forced refresh was started for.
Picked(t, s, u) == u.unasked \/ s.tenant \notin Entitled \/ t = s.tenant

\* A request that is answered, or goes on to issueSession, is free of the row.
LEMMA FreeOnTurn ==
    ASSUME NEW q \in Request, NEW s, NEW u
    PROVE  /\ \A res : OnTurn(Done(q, res), s, u)
           /\ \A stage : stage # "forced" => OnTurn(Go(q, "read", stage), s, u)
           /\ OnTurn(AfterContext(q), s, u)
<1>1. \A res : OnTurn(Done(q, res), s, u)
  BY DEF OnTurn, Done, Request
<1>2. ASSUME NEW stage, stage # "forced"
      PROVE  OnTurn(Go(q, "read", stage), s, u)
  BY <1>2 DEF OnTurn, Go, Request
<1>3. OnTurn(AfterContext(q), s, u)
  BY <1>1, <1>2 DEF AfterContext
<1>4. QED BY <1>1, <1>2, <1>3

\* A context is settled in the organisation of the row, or in another for a reason.
LEMMA FinishContextOnTurn ==
    ASSUME NEW q \in Request, NEW s, s # NoSession, q.sess.tenant = s.tenant,
           NEW u, NEW t, Picked(t, s, u)
    PROVE  OnTurn(FinishContext(q, t), s, u)
<1>1. CASE t = q.sess.tenant
  BY <1>1, FreeOnTurn DEF FinishContext
<1>2. CASE t # q.sess.tenant
  <2> DEFINE k == Go(Hold(q, InTenant(q.sess, t)), "save", "resign")
  <2>1. k.pc = "save" /\ k.stage = "resign"
    BY DEF Go, Hold, Request
  <2>2. u.unasked \/ s.tenant \notin Entitled
    BY <1>2 DEF Picked
  <2>3. FinishContext(q, t) = k
    BY <1>2 DEF FinishContext
  <2> HIDE DEF k
  <2>4. QED BY <2>1, <2>2, <2>3 DEF OnTurn
<1>3. QED BY <1>1, <1>2

\* A request that is handed the session of the row, or newer tokens of its.
LEMMA GotOnTurn ==
    ASSUME NEW q \in Request, NEW s, s # NoSession, NEW u,
           NEW h, h.tenant = s.tenant, u.lost \/ h = s,
           q.stage = "forced" => Picked(q.pick, s, u)
    PROVE  OnTurn(Got(q, h), s, u)
<1>1. CASE q.stage = "valid" /\ q.kind = "plain"
  <2> DEFINE k == Done(Hold(q, h), "ok")
  <2>1. k.pc = "done"
    BY DEF Done, Hold, Request
  <2>2. Got(q, h) = k
    BY <1>1 DEF Got
  <2> HIDE DEF k
  <2>3. QED BY <2>1, <2>2 DEF OnTurn
<1>2. CASE q.stage \in {"valid", "forced"} /\ ~(q.stage = "valid" /\ q.kind = "plain")
  <2> DEFINE k == Go(Hold(q, h), "resolve", q.stage)
  <2>1. k.pc = "resolve" /\ k.stage = q.stage /\ k.sess = h /\ k.pick = q.pick
    BY DEF Go, Hold, Request
  <2>2. Got(q, h) = k
    BY <1>2 DEF Got
  <2> HIDE DEF k
  <2>3. QED BY <1>2, <2>1, <2>2 DEF OnTurn, Picked
<1>3. CASE q.stage \notin {"valid", "forced"}
  <2> DEFINE k == Go(Hold(q, InTenant(h, q.want)), "save", "issue")
  <2>1. k.pc = "save" /\ k.stage = "issue"
    BY DEF Go, Hold, Request
  <2>2. Got(q, h) = k
    BY <1>3 DEF Got
  <2> HIDE DEF k
  <2>3. QED BY <2>1, <2>2 DEF OnTurn
<1>4. QED BY <1>1, <1>2, <1>3

\* A request that is handed null.
LEMMA GotNullOnTurn ==
    ASSUME NEW q \in Request, NEW s, NEW u,
           q.stage = "forced" => /\ s # NoSession /\ q.sess.tenant = s.tenant
                                 /\ Picked(q.pick, s, u)
    PROVE  OnTurn(GotNull(q), s, u)
<1>1. CASE q.stage = "forced"
  BY <1>1, FinishContextOnTurn DEF GotNull
<1>2. CASE q.stage # "forced"
  BY <1>2, FreeOnTurn DEF GotNull
<1>3. QED BY <1>1, <1>2

\* No operator a request moves by makes it new again.
LEMMA Restarted ==
    ASSUME NEW q \in Request
    PROVE  /\ \A res : Done(q, res).pc # "new"
           /\ AfterContext(q).pc # "new"
           /\ \A t : FinishContext(q, t).pc # "new"
           /\ \A s : Got(q, s).pc # "new"
           /\ GotNull(q).pc # "new"
<1> USE DEF Request
<1>1. \A res : Done(q, res).pc # "new"
  BY DEF Done
<1>2. AfterContext(q).pc # "new"
  BY DEF AfterContext, Done, Go
<1>3. ASSUME NEW t PROVE FinishContext(q, t).pc # "new"
  BY <1>2 DEF FinishContext, Go, Hold
<1>4. ASSUME NEW s PROVE Got(q, s).pc # "new"
  BY DEF Got, Done, Go, Hold
<1>5. GotNull(q).pc # "new"
  BY <1>3 DEF GotNull, Done, Go
<1>6. QED BY <1>1, <1>2, <1>3, <1>4, <1>5

\* Who is at work, while one request is taken at a time.
LEMMA OnlyOne ==
    ASSUME IInv, TakingTurns, NEW p \in Active
    PROVE  /\ \A r \in Req : r # p => req[r].pc \in {"new", "done"}
           /\ req[p].pc # "wait" => flights = {}
<1>1. \A r \in Req : r # p => req[r].pc \in {"new", "done"}
  BY DEF TakingTurns, Active
<1>2. ASSUME NEW f \in flights PROVE req[p].pc = "wait"
  <2>1. PICK r \in Req : req[r].pc = "wait"
    BY DEF TakingTurns
  <2>2. r = p
    BY <1>1, <2>1
  <2>3. QED BY <2>1, <2>2
<1>3. QED BY <1>1, <1>2

\* The one request moves; the others are not at work.
LEMMA TurnMoves ==
    ASSUME IInv, TakingTurns, NEW p \in Active, NEW q, q.pc # "new",
           req' = [req EXCEPT ![p] = q], OnTurn(q, row', spoilt'),
           \A f \in flights' : /\ f.prev = row'
                               /\ q.pc = "wait" /\ q.rep = f.rep /\ q.key = f.gen
    PROVE  TakingTurns'
<1>1. /\ req \in [Req -> Request] /\ p \in Req
      /\ req'[p] = q /\ \A r \in Req : r # p => req'[r] = req[r]
  BY DEF IInv, TypeOK, Active
<1>2. \A r \in Req : r # p => req'[r].pc \in {"new", "done"}
  BY <1>1, OnlyOne
<1>3. Active' \subseteq {p}
  BY <1>2 DEF Active
<1>4. ASSUME NEW r \in Req PROVE OnTurn(req'[r], row', spoilt')
  <2>1. CASE r = p
    BY <1>1, <2>1
  <2>2. CASE r # p
    BY <1>2, <2>2 DEF OnTurn
  <2>3. QED BY <2>1, <2>2
<1>5. QED BY <1>1, <1>3, <1>4 DEF TakingTurns

\* The same for a step after which the request does not wait.
LEMMA TurnGoesOn ==
    ASSUME IInv, TakingTurns, NEW p \in Active, req[p].pc # "wait", NEW q, q.pc # "new",
           req' = [req EXCEPT ![p] = q], OnTurn(q, row', spoilt'), UNCHANGED flights
    PROVE  TakingTurns'
BY OnlyOne, TurnMoves

\* A request comes in when nobody else is at work.
LEMMA BeginOnTurn ==
    ASSUME IsFiniteSet(Req), MaxActive = 1, IInv, SingleFlight, TakingTurns,
           NEW p \in Req, Begin(p)
    PROVE  TakingTurns'
<1>1. Active = {}
  <2>1. IsFiniteSet(Active)
    BY FS_Subset DEF Active
  <2>2. Cardinality(Active) \in Nat /\ Cardinality(Active) < 1
    BY <2>1, FS_CardinalityType DEF Begin
  <2>3. Cardinality(Active) = 0
    BY <2>2
  <2>4. QED BY <2>1, <2>3, FS_EmptySet
<1>2. \A r \in Req : req[r].pc \in {"new", "done"}
  BY <1>1 DEF Active
<1>3. flights = {}
  BY <1>2 DEF TakingTurns
<1>4. /\ req \in [Req -> Request] /\ req[p] \in Request
      /\ UNCHANGED <<row, flights, spoilt>>
  BY DEF IInv, TypeOK, Begin
<1>5. req'[p].pc = "read" /\ req'[p].stage # "forced" /\ \A r \in Req : r # p => req'[r] = req[r]
  BY <1>4 DEF Begin, Request
<1>6. Active' \subseteq {p}
  BY <1>2, <1>5 DEF Active
<1>7. ASSUME NEW r \in Req PROVE OnTurn(req'[r], row', spoilt')
  BY <1>2, <1>5 DEF OnTurn
<1>8. QED BY <1>3, <1>4, <1>6, <1>7 DEF TakingTurns

\* The lookup of the row returns, and nothing changes the row behind it.
LEMMA LoadSessionOnTurn ==
    ASSUME IInv, TakingTurns, NEW p \in Req, LoadSession(p)
    PROVE  TakingTurns'
<1>1. /\ req[p] \in Request /\ req[p].pc = "read"
      /\ OnTurn(req[p], row, spoilt)
      /\ UNCHANGED <<row, flights, spoilt>>
  BY DEF LoadSession, IInv, TypeOK, TakingTurns
<1>2. PICK n \in Request :
         /\ req' = [req EXCEPT ![p] = n]
         /\ n.pc = "loaded" /\ n.seen \in {row, NoSession} /\ n.stage = req[p].stage
         /\ n.sess = req[p].sess /\ n.pick = req[p].pick
  BY LoadStep DEF IInv
<1>3. OnTurn(n, row, spoilt)
  BY <1>1, <1>2 DEF OnTurn
<1>4. p \in Active
  BY <1>1 DEF Active
<1>5. QED BY <1>1, <1>2, <1>3, <1>4, TurnGoesOn

\* What it read is used, or the refresh it starts works from it.
LEMMA UseSessionOnTurn ==
    ASSUME IInv, TakingTurns, NEW p \in Req, UseSession(p)
    PROVE  TakingTurns'
<1> DEFINE s == req[p].seen
           q == [req[p] EXCEPT !.seen = NoSession]
<1>1. /\ req[p] \in Request /\ req \in [Req -> Request] /\ req[p].pc = "loaded"
      /\ OnTurn(req[p], row, spoilt) /\ RequestInv(req[p]) /\ s \in {row, NoSession}
      /\ UNCHANGED row
  BY DEF UseSession, IInv, TypeOK, TakingTurns, OnTurn
<1>2. /\ q \in Request /\ q.pc = "loaded" /\ q.stage = req[p].stage /\ q.sess = req[p].sess
      /\ q.pick = req[p].pick /\ q.kind = req[p].kind /\ q.rep = req[p].rep
  BY <1>1 DEF Request
<1>3. Usable(s) => s = row /\ row # NoSession
  BY <1>1 DEF Usable
<1>4. q.stage = "forced" => /\ row # NoSession /\ q.sess.tenant = row.tenant
                            /\ spoilt.lost \/ q.sess = row
                            /\ Picked(q.pick, row, spoilt)
  BY <1>1, <1>2 DEF OnTurn, Picked
<1>5. spoilt'.lost = spoilt.lost /\ spoilt'.unasked = spoilt.unasked
  BY DEF UseSession, IInv, TypeOK, Spoilt
<1>6. p \in Active
  BY <1>1 DEF Active
<1>7. CASE /\ q.stage = "logout"
           /\ req' = [req EXCEPT ![p] = [q EXCEPT !.pc = "delete", !.sess = s]]
           /\ UNCHANGED flights
  <2> DEFINE k == [q EXCEPT !.pc = "delete", !.sess = s]
  <2>1. k.pc = "delete"
    BY <1>2 DEF Request
  <2>2. req' = [req EXCEPT ![p] = k]
    BY <1>7
  <2> HIDE DEF k
  <2>3. OnTurn(k, row', spoilt')
    BY <2>1 DEF OnTurn
  <2>4. QED BY <1>1, <1>6, <1>7, <2>1, <2>2, <2>3, TurnGoesOn
<1>8. CASE req' = [req EXCEPT ![p] = GotNull(q)] /\ UNCHANGED flights
  <2>1. OnTurn(GotNull(q), row', spoilt')
    BY <1>1, <1>2, <1>4, <1>5, GotNullOnTurn DEF Picked
  <2>2. GotNull(q).pc # "new"
    BY <1>2, Restarted
  <2> HIDE DEF q
  <2>3. QED BY <1>1, <1>6, <1>8, <2>1, <2>2, TurnGoesOn
<1>9. CASE /\ q.stage \in {"valid", "issueValid"} /\ Usable(s)
           /\ req' = [req EXCEPT ![p] = Got(q, s)] /\ UNCHANGED flights
  <2>1. OnTurn(Got(q, s), row', spoilt')
    BY <1>1, <1>2, <1>3, <1>9, GotOnTurn
  <2>2. Got(q, s).pc # "new"
    BY <1>2, Restarted
  <2> HIDE DEF q, s
  <2>3. QED BY <1>1, <1>6, <1>9, <2>1, <2>2, TurnGoesOn
<1>10. CASE /\ Usable(s)
            /\ req' = [req EXCEPT ![p] = [q EXCEPT !.pc = "wait", !.key = s.gen]]
            /\ flights' = StartOrJoin(q, s)
  <2> DEFINE k == [q EXCEPT !.pc = "wait", !.key = s.gen]
             fresh == [rep |-> q.rep, gen |-> s.gen, prev |-> s,
                       status |-> "asked", new |-> 0]
  <2>1. /\ k.pc = "wait" /\ k.key = s.gen /\ k.rep = q.rep /\ k.stage = q.stage
        /\ k.sess = q.sess /\ k.pick = q.pick
    BY <1>2 DEF Request
  <2>2. req' = [req EXCEPT ![p] = k]
    BY <1>10
  <2>3. flights = {}
    BY <1>1, <1>6, OnlyOne
  <2>4. flights' = {fresh}
    BY <1>10, <2>3 DEF StartOrJoin
  <2>5. fresh.prev = row /\ fresh.rep = q.rep /\ fresh.gen = s.gen
    BY <1>3, <1>10
  <2> HIDE DEF k, fresh, q, s
  <2>6. OnTurn(k, row', spoilt')
    BY <1>1, <1>4, <1>5, <2>1 DEF OnTurn, Picked
  <2>7. QED BY <1>1, <1>6, <2>1, <2>2, <2>4, <2>5, <2>6, TurnMoves
<1>11. QED BY <1>7, <1>8, <1>9, <1>10 DEF UseSession

\* What is written, if the put succeeds, is what the request worked with.
LEMMA SaveSessionOnTurn ==
    ASSUME IInv, TakingTurns, NEW p \in Req, SaveSession(p)
    PROVE  TakingTurns'
<1> DEFINE q == req[p]
<1>1. /\ q \in Request /\ q.pc = "save" /\ OnTurn(q, row, spoilt) /\ FromSignIn(q.sess)
      /\ req' = [req EXCEPT ![p] = AfterSave(q)] /\ UNCHANGED flights
      /\ spoilt'.unasked = spoilt.unasked
  BY DEF SaveSession, IInv, TypeOK, TakingTurns, RequestInv, Spoilt
<1>2. \/ row' = q.sess
      \/ row' = row /\ (q.stage \in {"resign", "issue"} \/ spoilt'.lost)
  BY DEF SaveSession, IInv, TypeOK, Spoilt
<1>3. p \in Active
  BY <1>1 DEF Active
<1>4. AfterSave(q).pc # "new"
  BY <1>1, Restarted DEF AfterSave
<1>5. OnTurn(AfterSave(q), row', spoilt')
  <2>1. CASE q.stage = "resign"
    BY <1>1, <2>1, FreeOnTurn DEF AfterSave
  <2>2. CASE q.stage = "issue"
    BY <1>1, <2>2, FreeOnTurn DEF AfterSave
  <2>3. CASE q.stage \notin {"resign", "issue"}
    <3>1. row # NoSession /\ q.sess.tenant = row.tenant
      BY <1>1, <2>3 DEF OnTurn
    <3>2. row' # NoSession /\ q.sess.tenant = row'.tenant /\ (spoilt'.lost \/ q.sess = row')
      BY <1>1, <1>2, <2>3, <3>1, NoSessionAssumption DEF FromSignIn
    <3>3. q.stage = "forced" => Picked(q.pick, row, spoilt)
      BY <1>1, <2>3 DEF OnTurn, Picked
    <3>4. q.stage = "forced" => Picked(q.pick, row', spoilt')
      BY <1>1, <3>1, <3>2, <3>3 DEF Picked
    <3>5. OnTurn(Got(q, q.sess), row', spoilt')
      BY <1>1, <3>2, <3>4, GotOnTurn
    <3>6. AfterSave(q) = Got(q, q.sess)
      BY <2>3 DEF AfterSave
    <3>7. QED BY <3>5, <3>6
  <2>4. QED BY <2>1, <2>2, <2>3
<1>6. req[p].pc # "wait"
  BY <1>1
<1> HIDE DEF q
<1>7. QED BY <1>1, <1>3, <1>4, <1>5, <1>6, TurnGoesOn DEF q

\* The organisation that is decided is the one of the row, or there is a reason.
LEMMA ResolveTenantOnTurn ==
    ASSUME IInv, TakingTurns, NEW p \in Req, ResolveTenant(p)
    PROVE  TakingTurns'
<1> DEFINE q == req[p]
           start == IF q.stage = "forced" THEN q.pick ELSE q.sess.tenant
<1>1. /\ q \in Request /\ req \in [Req -> Request] /\ q.pc = "resolve"
      /\ OnTurn(q, row, spoilt) /\ spoilt \in Spoilt
      /\ UNCHANGED <<row, flights>>
  BY DEF ResolveTenant, IInv, TypeOK, TakingTurns
<1>2. p \in Active
  BY <1>1 DEF Active
<1>3. /\ q.stage \in {"valid", "forced"}
      /\ q.stage = "forced" => Picked(q.pick, row, spoilt)
  BY <1>1 DEF OnTurn, Picked
<1>4. row # NoSession /\ q.sess.tenant = row.tenant /\ (spoilt.lost \/ q.sess = row)
  BY <1>1 DEF OnTurn
<1>5. ASSUME NEW n, n.pc # "new", req' = [req EXCEPT ![p] = n], OnTurn(n, row, spoilt')
      PROVE  TakingTurns'
  BY <1>1, <1>2, <1>5, TurnGoesOn
<1>6. ASSUME NEW t, Decided(p, t), Picked(t, row, spoilt'), spoilt'.lost = spoilt.lost
      PROVE  TakingTurns'
  <2>1. CASE req' = [req EXCEPT ![p] = Go([q EXCEPT !.pick = t], "read", "forced")]
    <3> DEFINE n == Go([q EXCEPT !.pick = t], "read", "forced")
    <3>1. n.pc = "read" /\ n.stage = "forced" /\ n.sess = q.sess /\ n.pick = t
      BY <1>1 DEF Go, Request
    <3> HIDE DEF n
    <3>2. OnTurn(n, row, spoilt')
      BY <1>4, <1>6, <3>1 DEF OnTurn, Picked
    <3>3. req' = [req EXCEPT ![p] = n]
      BY <2>1 DEF n
    <3>4. QED BY <1>5, <3>1, <3>2, <3>3
  <2>2. CASE req' = [req EXCEPT ![p] = FinishContext(q, t)]
    <3>1. OnTurn(FinishContext(q, t), row, spoilt')
      BY <1>1, <1>3, <1>4, <1>6, FinishContextOnTurn
    <3>2. FinishContext(q, t).pc # "new"
      BY <1>1, Restarted
    <3>3. QED BY <1>5, <2>2, <3>1, <3>2
  <2>3. QED BY <1>6, <2>1, <2>2 DEF Decided
<1>7. CASE /\ UNCHANGED spoilt
           /\ \E t \in IF start \in Groups(q.sess) THEN {start} ELSE Picks(start) :
                Decided(p, t)
  <2>1. PICK t \in IF start \in Groups(q.sess) THEN {start} ELSE Picks(start) : Decided(p, t)
    BY <1>7
  <2>2. start \in Entitled => t = start
    BY <2>1 DEF Picks
  <2>3. Picked(start, row, spoilt)
    BY <1>3, <1>4 DEF Picked
  <2>4. start \notin Entitled => spoilt.unasked \/ row.tenant \notin Entitled
    BY <2>3 DEF Picked
  <2> HIDE DEF start
  <2>5. Picked(t, row, spoilt')
    BY <1>7, <2>2, <2>3, <2>4 DEF Picked
  <2>6. QED BY <1>6, <1>7, <2>1, <2>5
<1>8. CASE /\ spoilt' = [spoilt EXCEPT !.unasked = TRUE]
           /\ \E t \in Groups(q.sess) \union {Personal} : Decided(p, t)
  <2>1. PICK t \in Groups(q.sess) \union {Personal} : Decided(p, t)
    BY <1>8
  <2>2. Picked(t, row, spoilt') /\ spoilt'.lost = spoilt.lost
    BY <1>1, <1>8 DEF Picked, Spoilt
  <2>3. QED BY <1>6, <2>1, <2>2
<1>9. CASE \E d \in Degraded(q) : req' = [req EXCEPT ![p] = d]
  <2>1. PICK d \in Degraded(q) : req' = [req EXCEPT ![p] = d]
    BY <1>9
  <2>2. d = Done(q, "ok") \/ d = AfterContext(q)
    BY DEF Degraded
  <2>3. OnTurn(d, row, spoilt')
    BY <1>1, <2>2, FreeOnTurn
  <2>4. d.pc # "new"
    BY <1>1, <2>2, Restarted
  <2>5. QED BY <1>5, <2>1, <2>3, <2>4
<1>10. QED BY <1>7, <1>8, <1>9 DEF ResolveTenant

\* A logout has nothing in hand that could change the organisation.
LEMMA LogoutOnTurn ==
    ASSUME IInv, TakingTurns, NEW p \in Req, DeleteSession(p) \/ RevokeToken(p)
    PROVE  TakingTurns'
<1> DEFINE q == req[p]
<1>1. /\ q \in Request /\ req \in [Req -> Request] /\ q.pc \in {"delete", "revoke"}
      /\ UNCHANGED flights
  BY DEF DeleteSession, RevokeToken, IInv, TypeOK, TakingTurns
<1>2. p \in Active /\ q.pc # "wait"
  BY <1>1 DEF Active
<1>3. ASSUME NEW n, n.pc \in {"done", "revoke"}, n.pc = "revoke" => n.stage = "logout",
             req' = [req EXCEPT ![p] = n]
      PROVE  TakingTurns'
  <2>1. OnTurn(n, row', spoilt')
    BY <1>3 DEF OnTurn
  <2>2. n.pc # "new"
    BY <1>3
  <2>3. QED BY <1>1, <1>2, <1>3, <2>1, <2>2, TurnGoesOn
<1>4. /\ Done(q, "ok").pc = "done"
      /\ Go(q, "revoke", "logout").pc = "revoke" /\ Go(q, "revoke", "logout").stage = "logout"
  BY <1>1 DEF Done, Go, Request
<1>5. \/ req' = [req EXCEPT ![p] = Done(q, "ok")]
      \/ req' = [req EXCEPT ![p] = Go(q, "revoke", "logout")]
  BY DEF DeleteSession, RevokeToken
<1> HIDE DEF q
<1>6. QED BY <1>3, <1>4, <1>5

\* Keycloak's answer leaves the row and what the refresh is for as they were.
LEMMA KeycloakAnswersOnTurn ==
    ASSUME IInv, TakingTurns, NEW f \in flights, KeycloakAnswers(f)
    PROVE  TakingTurns'
<1>1. /\ flights \subseteq Flight /\ UNCHANGED <<req, row>>
      /\ spoilt'.unasked = spoilt.unasked /\ (spoilt.lost => spoilt'.lost)
  BY DEF IInv, TypeOK, KeycloakAnswers, Spoilt
<1>2. PICK status, n : flights' = (flights \ {f}) \union {[f EXCEPT !.status = status, !.new = n]}
  BY DEF KeycloakAnswers, Answer
<1> DEFINE a == [f EXCEPT !.status = status, !.new = n]
<1>3. a.rep = f.rep /\ a.gen = f.gen /\ a.prev = f.prev
  BY <1>1 DEF Flight
<1>4. flights' = (flights \ {f}) \union {a}
  BY <1>2
<1> HIDE DEF a
<1>5. ASSUME NEW r \in Req PROVE OnTurn(req[r], row, spoilt')
  <2>1. OnTurn(req[r], row, spoilt)
    BY DEF TakingTurns
  <2>2. QED BY <1>1, <2>1 DEF OnTurn
<1>6. \A g \in flights' : \E h \in flights : g.prev = h.prev /\ g.rep = h.rep /\ g.gen = h.gen
  BY <1>3, <1>4
<1>7. UNCHANGED Active
  BY <1>1 DEF Active
<1>8. QED BY <1>1, <1>5, <1>6, <1>7 DEF TakingTurns

\* The one request that waits resumes with the organisation of the row.
LEMMA FlightSettlesOnTurn ==
    ASSUME IInv, SingleFlight, TakingTurns, NEW f \in flights, FlightSettles(f)
    PROVE  TakingTurns'
<1>1. PICK p \in Req : req[p].pc = "wait" /\ req[p].rep = f.rep /\ req[p].key = f.gen
  BY DEF TakingTurns
<1> DEFINE q == req[p]
           n == Resumed(q, f)
<1>2. /\ q \in Request /\ req \in [Req -> Request] /\ OnTurn(q, row, spoilt) /\ RequestInv(q)
      /\ q.pc = "wait"
      /\ f.prev = row /\ FromSignIn(f.prev)
      /\ flights' = flights \ {f} /\ UNCHANGED <<row, spoilt>>
  BY <1>1 DEF FlightSettles, IInv, TypeOK, TakingTurns
<1>3. row # NoSession /\ row \in Session
  BY <1>2 DEF FromSignIn
<1>4. p \in Active
  BY <1>2 DEF Active
<1>5. \A r \in Req : req[r].pc = "wait" => r = p
  BY <1>4, OnlyOne
<1>6. flights' = {}
  <2>1. ASSUME NEW g \in flights PROVE g = f
    <3>1. g.rep = q.rep /\ g.gen = q.key
      BY <1>5 DEF TakingTurns
    <3>2. QED BY <1>1, <3>1 DEF SingleFlight
  <2>2. QED BY <1>2, <2>1
<1>7. Waiters(f) = {p}
  BY <1>1, <1>5 DEF Waiters
<1>8. req' = [req EXCEPT ![p] = n]
  BY <1>2, <1>7 DEF FlightSettles
<1>9. q.stage = "forced" => q.sess.tenant = row.tenant /\ Picked(q.pick, row, spoilt)
  BY <1>2 DEF OnTurn, Picked
<1>10. n.pc # "new" /\ OnTurn(n, row', spoilt')
  <2>1. CASE f.status = "granted"
    <3> DEFINE k == Go(Hold(q, Refreshed(f)), "save", q.stage)
    <3>1. /\ k.pc = "save" /\ k.stage = q.stage /\ k.pick = q.pick
          /\ k.sess = Refreshed(f)
      BY <1>2 DEF Go, Hold, Request
    <3>2. Refreshed(f).tenant = row.tenant
      BY <1>2 DEF Refreshed
    <3>3. q.stage \notin {"resign", "issue"}
      BY <1>2 DEF RequestInv
    <3>4. n = k
      BY <2>1 DEF Resumed
    <3> HIDE DEF k, n, q
    <3>5. OnTurn(k, row', spoilt')
      BY <1>2, <1>3, <1>9, <3>1, <3>2, <3>3 DEF OnTurn, Picked
    <3>6. QED BY <3>1, <3>4, <3>5
  <2>2. CASE f.status # "granted"
    <3>1. PICK h \in {q, Hurt(q)} : n = GotNull(h)
      BY <2>2 DEF Resumed
    <3>2. /\ h \in Request /\ h.stage = q.stage /\ h.sess = q.sess /\ h.pick = q.pick
      BY <1>2, <3>1, HurtLeaves
    <3> HIDE DEF n, q
    <3>3. OnTurn(GotNull(h), row, spoilt)
      BY <1>3, <1>9, <3>2, GotNullOnTurn
    <3>4. GotNull(h).pc # "new"
      BY <3>2, Restarted
    <3>5. QED BY <1>2, <3>1, <3>3, <3>4
  <2>3. QED BY <2>1, <2>2
<1> HIDE DEF n, q
<1>11. QED BY <1>4, <1>6, <1>8, <1>10, TurnMoves

\* Every step keeps what a request works from and the row together.
LEMMA NextOnTurn ==
    ASSUME IsFiniteSet(Req), MaxActive = 1
    PROVE  IInv /\ SingleFlight /\ TakingTurns /\ [Next]_vars => TakingTurns'
<1> SUFFICES ASSUME IInv, SingleFlight, TakingTurns, [Next]_vars PROVE TakingTurns'
  OBVIOUS
<1>1. CASE Tick \/ UNCHANGED vars
  BY <1>1 DEF Tick, vars, TakingTurns, Active
<1>2. QED
  BY <1>1, BeginOnTurn, LoadSessionOnTurn, UseSessionOnTurn, SaveSessionOnTurn,
     ResolveTenantOnTurn, LogoutOnTurn, KeycloakAnswersOnTurn, FlightSettlesOnTurn
  DEF Next, Finished

\* With one request at a time, what a request works from is what the row holds.
THEOREM TurnsTaken ==
    ASSUME IsFiniteSet(Req), MaxActive = 1
    PROVE  Spec => []TakingTurns
<1>1. Init => TakingTurns
  BY DEF Init, TakingTurns, OnTurn, Active
<1>2. IInv /\ SingleFlight /\ TakingTurns /\ [Next]_vars => TakingTurns'
  BY NextOnTurn
<1>3. QED BY <1>1, <1>2, InductiveInvariant, SharedRefresh, PTL DEF Spec

\* While a browser sends one request at a time, the write of a refresh leaves the
\* session in its organisation, and an organisation the caller belongs to stays
\* the remembered one until they switch, for any number of requests, replicas and
\* organisations: an unreadable directory, a token that hides a group and a forced
\* refresh that fails change nothing (handlers.ts, request-user.ts).
THEOREM OrganisationKept ==
    ASSUME IsFiniteSet(Req), MaxActive = 1
    PROVE  Spec => KeepsTenant
<1>1. ASSUME IInv, TakingTurns, [Next]_vars, NEW p \in Req,
             req[p].pc = "save", req'[p] # req[p],
             req[p].stage \notin {"resign", "issue"}, row # NoSession
      PROVE  row'.tenant = row.tenant
  <2>1. req[p].sess.tenant = row.tenant
    BY <1>1 DEF TakingTurns, OnTurn
  <2>2. p \in Active
    BY <1>1 DEF Active
  <2>3. row' \in {row, req[p].sess}
    <3>1. ASSUME NEW r \in Req, SaveSession(r) \/ DeleteSession(r) PROVE r = p
      <4>1. req[r].pc \in {"save", "delete"}
        BY <3>1 DEF SaveSession, DeleteSession
      <4>2. QED BY <1>1, <2>2, <4>1, OnlyOne
    <3>2. ~DeleteSession(p)
      BY <1>1 DEF DeleteSession
    <3>3. QED
      BY <1>1, <3>1, <3>2 DEF Next, Begin, LoadSession, UseSession, SaveSession, ResolveTenant,
         RevokeToken, KeycloakAnswers, FlightSettles, Tick, Finished, vars
  <2>4. QED BY <2>1, <2>3
<1>2. ASSUME IInv, TakingTurns, [Next]_vars, row # NoSession, row' # NoSession,
             row.tenant \in Entitled, row'.tenant # row.tenant, ~spoilt.unasked
      PROVE  \E p \in Req : req[p].pc = "save" /\ req[p].stage = "issue" /\ req'[p].pc = "done"
  <2>1. PICK p \in Req : SaveSession(p)
    BY <1>2 DEF Next, Begin, LoadSession, UseSession, ResolveTenant, DeleteSession,
                RevokeToken, KeycloakAnswers, FlightSettles, Tick, Finished, vars
  <2>2. /\ req[p].pc = "save" /\ row' \in {row, req[p].sess} /\ OnTurn(req[p], row, spoilt)
        /\ req \in [Req -> Request] /\ req[p] \in Request
    BY <1>2, <2>1 DEF SaveSession, TakingTurns, IInv, TypeOK
  <2>3. req[p].stage = "issue"
    BY <1>2, <2>2 DEF OnTurn
  <2>4. req'[p] \in {Done(req[p], "ok"), Done(req[p], "reauth")}
    BY <2>1, <2>2, <2>3 DEF SaveSession, AfterSave
  <2>5. req'[p].pc = "done"
    BY <2>2, <2>4, Unparked
  <2>6. QED BY <2>2, <2>3, <2>5
<1>3. IInv /\ TakingTurns /\ [Next]_vars =>
        [\A p \in Req :
            /\ req[p].pc = "save" /\ req'[p] # req[p]
            /\ req[p].stage \notin {"resign", "issue"}
            /\ row # NoSession
            => row'.tenant = row.tenant]_vars
  BY <1>1
<1>4. IInv /\ TakingTurns /\ [Next]_vars =>
        [/\ row # NoSession /\ row' # NoSession
         /\ row.tenant \in Entitled /\ row'.tenant # row.tenant
         /\ ~spoilt.unasked
         => \E p \in Req : req[p].pc = "save" /\ req[p].stage = "issue"
                           /\ req'[p].pc = "done"]_vars
  BY <1>2
<1>5. QED
  BY <1>3, <1>4, InductiveInvariant, TurnsTaken, PTL DEF Spec, KeepsTenant

----------------------------------------------------------------------------
(* One request at a time: a logout is final                                *)

\* The request that moves holds no session, or is answered as it should be.
LEMMA MoveStaysOut ==
    ASSUME IInv, SignedOut, NEW p \in Req, NEW q, req' = [req EXCEPT ![p] = q],
           UNCHANGED ended, row' = NoSession,
           IF q.pc = "done" THEN q.kind = "logout" \/ q.result = "anon" ELSE EmptyHanded(q)
    PROVE  SignedOut'
<1>1. req \in [Req -> Request]
  BY DEF IInv, TypeOK
<1>2. ASSUME NEW r \in Req, ended.done
      PROVE  IF req'[r].pc = "done"
             THEN r \in ended.before \/ req'[r].kind = "logout" \/ req'[r].result = "anon"
             ELSE EmptyHanded(req'[r])
  <2>1. CASE r = p
    BY <1>1, <2>1
  <2>2. CASE r # p
    BY <1>1, <1>2, <2>2 DEF SignedOut
  <2>3. QED BY <2>1, <2>2
<1>3. QED BY <1>2 DEF SignedOut

\* The logout that deletes the row: nobody else is at work.
LEMMA DeleteSignsOut ==
    ASSUME IInv, TakingTurns, NEW p \in Req, DeleteSession(p), ~ended.done
    PROVE  SignedOut'
<1>1. /\ req[p] \in Request /\ req \in [Req -> Request] /\ req[p].pc = "delete"
      /\ req[p].stage = "logout" /\ req[p].kind = "logout"
  BY DEF IInv, TypeOK, RequestInv, DeleteSession
<1>2. p \in Active
  BY <1>1 DEF Active
<1>3. /\ Done(req[p], "ok").pc = "done" /\ Done(req[p], "ok").kind = "logout"
      /\ Go(req[p], "revoke", "logout").pc = "revoke"
      /\ Go(req[p], "revoke", "logout").stage = "logout"
  BY <1>1 DEF Done, Go, Request
<1>4. req' = [req EXCEPT ![p] = Done(req[p], "ok")]
      \/ req' = [req EXCEPT ![p] = Go(req[p], "revoke", "logout")]
  BY DEF DeleteSession
<1>5. IF req'[p].pc = "done" THEN req'[p].kind = "logout" ELSE EmptyHanded(req'[p])
  BY <1>1, <1>3, <1>4 DEF EmptyHanded
<1>6. CASE /\ row' = NoSession
           /\ ended' = [done |-> TRUE, before |-> {r \in Req : req[r].pc # "new"}]
  <2>1. ASSUME NEW r \in Req, r # p
        PROVE  IF req'[r].pc = "done" THEN r \in ended'.before ELSE EmptyHanded(req'[r])
    <3>1. req'[r] = req[r] /\ req[r].pc \in {"new", "done"}
      BY <1>1, <1>2, <1>4, <2>1, OnlyOne
    <3>2. QED BY <1>6, <3>1 DEF EmptyHanded
  <2>2. QED BY <1>5, <1>6, <2>1 DEF SignedOut
<1>7. CASE ended' = ended
  BY <1>7 DEF SignedOut
<1>8. QED BY <1>6, <1>7 DEF DeleteSession

\* Nothing that happens after the logout signs anyone in.
LEMMA NextSignedOut ==
    ASSUME IInv, TakingTurns, SignedOut, [Next]_vars
    PROVE  SignedOut'
<1>1. ASSUME ~ended.done PROVE SignedOut'
  <2>1. ASSUME NEW p \in Req, DeleteSession(p) PROVE SignedOut'
    BY <1>1, <2>1, DeleteSignsOut
  <2>2. CASE UNCHANGED ended
    BY <1>1, <2>2 DEF SignedOut
  <2>3. QED
    BY <2>1, <2>2 DEF Next, Begin, LoadSession, UseSession, SaveSession, ResolveTenant,
       RevokeToken, KeycloakAnswers, FlightSettles, Tick, Finished, vars
<1>2. ASSUME ended.done PROVE SignedOut'
  <2>1. /\ row = NoSession /\ req \in [Req -> Request]
        /\ \A p \in Req : /\ RequestInv(req[p]) /\ req[p] \in Request
                          /\ req[p].pc # "done" => EmptyHanded(req[p])
    BY <1>2 DEF SignedOut, IInv, TypeOK
  <2>2. \A p \in Req : req[p].pc \notin {"wait", "resolve", "save"}
    BY <2>1 DEF RequestInv, EmptyHanded
  <2>3. ASSUME NEW p \in Req, Begin(p) PROVE SignedOut'
    <3>1. req'[p].pc = "read" /\ req'[p].stage \in {"valid", "logout"}
      BY <2>1, <2>3 DEF Begin, Request
    <3>2. \A r \in Req : r # p => req'[r] = req[r]
      BY <2>1, <2>3 DEF Begin
    <3>3. EmptyHanded(req'[p])
      BY <3>1 DEF EmptyHanded
    <3>4. UNCHANGED <<row, ended>>
      BY <2>3 DEF Begin
    <3>5. QED BY <1>2, <3>1, <3>2, <3>3, <3>4 DEF SignedOut
  <2>4. ASSUME NEW p \in Req, LoadSession(p) PROVE SignedOut'
    <3>1. PICK q \in Request :
             /\ req' = [req EXCEPT ![p] = q]
             /\ q.pc = "loaded" /\ q.seen = NoSession /\ q.stage = req[p].stage
      BY <2>1, <2>4, LoadStep DEF IInv
    <3>2. EmptyHanded(req[p]) /\ req[p].pc = "read"
      BY <2>1, <2>4 DEF LoadSession
    <3>3. EmptyHanded(q)
      BY <3>1, <3>2 DEF EmptyHanded
    <3>4. QED BY <2>1, <2>4, <3>1, <3>3, MoveStaysOut DEF LoadSession
  <2>5. ASSUME NEW p \in Req, UseSession(p) PROVE SignedOut'
    <3> DEFINE s == req[p].seen
               q == [req[p] EXCEPT !.seen = NoSession]
    <3>1. /\ req[p].pc = "loaded" /\ UNCHANGED <<row, ended>> /\ q \in Request
          /\ q.stage = req[p].stage /\ q.stage \in {"valid", "logout"}
          /\ q.stage = "valid" => s = NoSession
      BY <2>1, <2>5 DEF UseSession, EmptyHanded, Request
    <3>2. CASE req' = [req EXCEPT ![p] = [q EXCEPT !.pc = "delete", !.sess = s]]
               /\ q.stage = "logout"
      <4> DEFINE n == [q EXCEPT !.pc = "delete", !.sess = s]
      <4>1. n.pc = "delete" /\ n.stage = "logout" /\ req' = [req EXCEPT ![p] = n]
        BY <3>1, <3>2 DEF Request
      <4> HIDE DEF n
      <4>2. QED BY <2>1, <3>1, <4>1, MoveStaysOut DEF EmptyHanded
    <3>3. CASE req' = [req EXCEPT ![p] = GotNull(q)] /\ q.stage = "valid"
      <4>1. GotNull(q).pc = "done" /\ GotNull(q).result = "anon"
        BY <3>1, <3>3 DEF GotNull, Done, Request
      <4> HIDE DEF q
      <4>2. QED BY <2>1, <3>1, <3>3, <4>1, MoveStaysOut
    <3>4. s = NoSession => ~Usable(s)
      BY DEF Usable
    <3>5. QED BY <2>5, <3>1, <3>2, <3>3, <3>4 DEF UseSession
  <2>6. ASSUME NEW p \in Req, DeleteSession(p) \/ RevokeToken(p) PROVE SignedOut'
    <3>1. req[p].kind = "logout" /\ req[p] \in Request
      BY <2>1, <2>6 DEF DeleteSession, RevokeToken, RequestInv
    <3>2. /\ Done(req[p], "ok").pc = "done" /\ Done(req[p], "ok").kind = "logout"
          /\ Go(req[p], "revoke", "logout").pc = "revoke"
          /\ Go(req[p], "revoke", "logout").stage = "logout"
      BY <3>1 DEF Done, Go, Request
    <3>3. EmptyHanded(Go(req[p], "revoke", "logout"))
      BY <3>2 DEF EmptyHanded
    <3>4. UNCHANGED ended /\ row' = NoSession
      BY <2>1, <2>6 DEF DeleteSession, RevokeToken
    <3>5. req' = [req EXCEPT ![p] = Done(req[p], "ok")]
          \/ req' = [req EXCEPT ![p] = Go(req[p], "revoke", "logout")]
      BY <2>6 DEF DeleteSession, RevokeToken
    <3>6. QED BY <3>2, <3>3, <3>4, <3>5, MoveStaysOut
  <2>7. ASSUME NEW f \in flights, FlightSettles(f) PROVE SignedOut'
    <3>1. Waiters(f) = {}
      BY <2>2 DEF Waiters
    <3>2. \A p \in Req : req'[p] = req[p]
      BY <2>7, <3>1 DEF FlightSettles
    <3>3. QED BY <2>7, <3>2 DEF FlightSettles, SignedOut
  <2>8. ASSUME NEW f \in flights, KeycloakAnswers(f) PROVE SignedOut'
    BY <2>8 DEF KeycloakAnswers, SignedOut
  <2>9. CASE Tick \/ UNCHANGED vars
    BY <2>9 DEF Tick, vars, SignedOut
  <2>10. QED
    BY <2>2, <2>3, <2>4, <2>5, <2>6, <2>7, <2>8, <2>9
    DEF Next, Finished, SaveSession, ResolveTenant
<1>3. QED BY <1>1, <1>2

\* A logout is final for a browser that sends one request at a time: it takes a
\* request that overlaps the logout to write the row back (session-store.ts).
THEOREM LogoutFinalInTurn ==
    ASSUME IsFiniteSet(Req), MaxActive = 1
    PROVE  Spec => []LogoutFinal
<1>1. Init => SignedOut
  BY DEF Init, SignedOut
<1>2. IInv /\ TakingTurns /\ SignedOut /\ [Next]_vars => SignedOut'
  BY NextSignedOut
<1>3. IInv /\ SignedOut => LogoutFinal
  <2> SUFFICES ASSUME IInv, SignedOut, ended.done, NEW p \in Req, p \notin ended.before,
                      req[p].kind # "logout"
               PROVE  req[p].result \in {"none", "anon"}
    BY DEF LogoutFinal
  <2>1. req[p].pc # "done" => req[p].result = "none"
    BY DEF IInv, RequestInv
  <2>2. QED BY <2>1 DEF SignedOut
<1>4. QED BY <1>1, <1>2, <1>3, InductiveInvariant, TurnsTaken, PTL DEF Spec

----------------------------------------------------------------------------
(* One request at a time: the newest tokens are never lost                 *)

\* What is to be saved has tokens of generation g.
Saves(q, g) == q.pc = "save" => q.sess.gen = g

\* The operators a request moves by save the tokens they were handed.
LEMMA SavesWhatItGot ==
    ASSUME NEW q \in Request, NEW g
    PROVE  /\ \A res : Saves(Done(q, res), g)
           /\ Saves(AfterContext(q), g)
           /\ \A t : q.sess \in Session /\ q.sess.gen = g => Saves(FinishContext(q, t), g)
           /\ \A s \in Session : s.gen = g => Saves(Got(q, s), g)
           /\ (q.stage = "forced" => q.sess \in Session /\ q.sess.gen = g)
                => Saves(GotNull(q), g)
<1>1. \A res : Saves(Done(q, res), g)
  BY DEF Saves, Done, Request
<1>2. \A pc, stage : pc # "save" => Saves(Go(q, pc, stage), g)
  BY DEF Saves, Go, Request
<1>3. Saves(AfterContext(q), g)
  BY <1>1, <1>2 DEF AfterContext
<1>4. ASSUME NEW t, NEW s \in Session, s.gen = g, NEW stage
      PROVE  Saves(Go(Hold(q, InTenant(s, t)), "save", stage), g)
  <2>1. InTenant(s, t).gen = g
    BY <1>4 DEF InTenant, Session
  <2>2. Go(Hold(q, InTenant(s, t)), "save", stage).sess = InTenant(s, t)
    BY DEF Go, Hold, Request
  <2>3. QED BY <2>1, <2>2 DEF Saves
<1>5. ASSUME NEW t, q.sess \in Session, q.sess.gen = g
      PROVE  Saves(FinishContext(q, t), g)
  BY <1>3, <1>4, <1>5 DEF FinishContext
<1>6. ASSUME NEW s \in Session, s.gen = g PROVE Saves(Got(q, s), g)
  <2>1. Saves(Done(Hold(q, s), "ok"), g)
    BY DEF Saves, Done, Hold, Request
  <2>2. Saves(Go(Hold(q, s), "resolve", q.stage), g)
    BY DEF Saves, Go, Hold, Request
  <2>3. QED BY <1>4, <1>6, <2>1, <2>2 DEF Got
<1>7. ASSUME q.stage = "forced" => q.sess \in Session /\ q.sess.gen = g
      PROVE  Saves(GotNull(q), g)
  BY <1>1, <1>2, <1>5, <1>7 DEF GotNull
<1>8. QED BY <1>1, <1>3, <1>5, <1>6, <1>7

\* Who neither waits nor saves works beside a row that holds the newest tokens.
LEMMA RowIsNewest ==
    ASSUME IInv, TakingTurns, Newest, ~spoilt.lost,
           \/ Active = {}
           \/ \E p \in Active : req[p].pc \notin {"wait", "save"}
    PROVE  flights = {} /\ (row = NoSession \/ row.gen = kc.gen)
<1>1. \A r \in Req : req[r].pc \notin {"wait", "save"}
  <2>1. CASE Active = {}
    BY <2>1 DEF Active
  <2>2. CASE Active # {}
    BY <2>2, OnlyOne
  <2>3. QED BY <2>1, <2>2
<1>2. flights = {}
  BY <1>1 DEF TakingTurns
<1>3. QED BY <1>1, <1>2 DEF Newest

\* Row s holds the tokens of generation g, or request q is about to save them.
Kept(q, s, g) ==
    s = NoSession \/ s.gen = g \/ (q.pc = "save" /\ q.stage \notin {"resign", "issue"})

\* The one request moves.
LEMMA NewestMoves ==
    ASSUME IInv, TakingTurns, NEW p \in Active, NEW q, req' = [req EXCEPT ![p] = q],
           spoilt'.lost
           \/ /\ spoilt'.respent = {} /\ Saves(q, kc'.gen) /\ Kept(q, row', kc'.gen)
              /\ \A f \in flights' : (IF f.status = "granted" THEN f.new ELSE f.gen) = kc'.gen
    PROVE  Newest'
<1>1. /\ req \in [Req -> Request] /\ p \in Req
      /\ req'[p] = q /\ \A r \in Req : r # p => req'[r] = req[r]
  BY DEF IInv, TypeOK, Active
<1>2. \A r \in Req : r # p => req'[r].pc # "save"
  BY <1>1, OnlyOne
<1>3. QED BY <1>1, <1>2 DEF Newest, Saves, Kept

\* A request that neither waits nor saves hands on the tokens of the row.
LEMMA NewestGoesOn ==
    ASSUME IInv, TakingTurns, Newest, NEW p \in Active, req[p].pc \notin {"wait", "save"},
           NEW q, req' = [req EXCEPT ![p] = q],
           spoilt'.lost = spoilt.lost, spoilt'.respent = spoilt.respent,
           kc'.gen = kc.gen, UNCHANGED flights, row' \in {row, NoSession},
           ~spoilt.lost /\ row # NoSession /\ row.gen = kc.gen => Saves(q, kc.gen),
           ~spoilt.lost /\ row = NoSession => q.pc # "save"
    PROVE  Newest'
<1>1. ~spoilt'.lost => flights = {} /\ (row = NoSession \/ row.gen = kc.gen)
  BY RowIsNewest
<1>2. ~spoilt'.lost => Saves(q, kc'.gen) /\ spoilt'.respent = {}
  BY <1>1 DEF Saves, Newest
<1>3. ~spoilt'.lost => Kept(q, row', kc'.gen)
  BY <1>1 DEF Kept
<1>4. QED BY <1>1, <1>2, <1>3, NewestMoves

\* A lookup is used: what it found is the row, with the newest tokens.
LEMMA UseSessionNewest ==
    ASSUME IInv, TakingTurns, Newest, NEW p \in Req, UseSession(p)
    PROVE  Newest'
<1> DEFINE s == req[p].seen
           q == [req[p] EXCEPT !.seen = NoSession]
<1>1. /\ req[p] \in Request /\ req \in [Req -> Request] /\ req[p].pc = "loaded"
      /\ OnTurn(req[p], row, spoilt) /\ RequestInv(req[p])
      /\ UNCHANGED <<row, kc>> /\ spoilt \in Spoilt
  BY DEF UseSession, IInv, TypeOK, TakingTurns
<1>2. q \in Request /\ q.pc = "loaded" /\ q.stage = req[p].stage /\ q.sess = req[p].sess
  BY <1>1 DEF Request
<1>3. Usable(s) => s = row /\ row \in Session
  BY <1>1 DEF OnTurn, Usable, IInv, TypeOK
<1>4. ~spoilt.lost /\ q.stage = "forced" => q.sess = row /\ row \in Session
  BY <1>1, <1>2 DEF OnTurn, RequestInv, FromSignIn
<1>5. p \in Active
  BY <1>1 DEF Active
<1>6. CASE /\ req' = [req EXCEPT ![p] = [q EXCEPT !.pc = "delete", !.sess = s]]
           /\ UNCHANGED <<flights, spoilt>>
  <2> DEFINE n == [q EXCEPT !.pc = "delete", !.sess = s]
  <2>1. n.pc = "delete"
    BY <1>2 DEF Request
  <2>2. req' = [req EXCEPT ![p] = n]
    BY <1>6
  <2> HIDE DEF n
  <2>3. QED BY <1>1, <1>5, <1>6, <2>1, <2>2, NewestGoesOn DEF Saves
<1>7. CASE req' = [req EXCEPT ![p] = GotNull(q)] /\ UNCHANGED <<flights, spoilt>>
  <2>1. ~spoilt.lost /\ row # NoSession /\ row.gen = kc.gen => Saves(GotNull(q), kc.gen)
    BY <1>2, <1>4, SavesWhatItGot
  <2>2. ~spoilt.lost /\ row = NoSession => q.stage # "forced"
    BY <1>4, NoSessionAssumption
  <2>3. ~spoilt.lost /\ row = NoSession => GotNull(q).pc # "save"
    BY <1>2, <2>2 DEF GotNull, Done, Go, Request
  <2> HIDE DEF q
  <2>4. QED BY <1>1, <1>5, <1>7, <2>1, <2>3, NewestGoesOn
<1>8. CASE Usable(s) /\ req' = [req EXCEPT ![p] = Got(q, s)] /\ UNCHANGED <<flights, spoilt>>
  <2>1. row # NoSession /\ row \in Session
    BY <1>3, <1>8, NoSessionAssumption
  <2>2. row.gen = kc.gen => Saves(Got(q, s), kc.gen)
    BY <1>2, <1>3, <1>8, <2>1, SavesWhatItGot
  <2> HIDE DEF q, s
  <2>3. QED BY <1>1, <1>5, <1>8, <2>1, <2>2, NewestGoesOn
<1>9. CASE /\ Usable(s) /\ req' = [req EXCEPT ![p] = [q EXCEPT !.pc = "wait", !.key = s.gen]]
           /\ flights' = StartOrJoin(q, s)
           /\ spoilt' = IF Respends(q, s)
                        THEN [spoilt EXCEPT !.respent = @ \union {s.gen}] ELSE spoilt
  <2> DEFINE n == [q EXCEPT !.pc = "wait", !.key = s.gen]
             fresh == [rep |-> q.rep, gen |-> s.gen, prev |-> s,
                       status |-> "asked", new |-> 0]
  <2>1. n.pc = "wait" /\ req' = [req EXCEPT ![p] = n]
    BY <1>2, <1>9 DEF Request
  <2>2. row # NoSession /\ s = row
    BY <1>3, <1>9, NoSessionAssumption
  <2>3. ~spoilt.lost => row.gen = kc.gen /\ flights = {}
    BY <1>1, <1>5, <2>2, RowIsNewest
  <2>4. flights = {} => flights' = {fresh}
    BY <1>9 DEF StartOrJoin
  <2>5. fresh.status = "asked" /\ fresh.gen = row.gen
    BY <2>2
  <2>6. spoilt'.lost = spoilt.lost
    BY <1>1, <1>9 DEF Spoilt
  <2>7. ~spoilt.lost => spoilt'.respent = {}
    BY <1>9, <2>2, <2>3 DEF Respends, Newest
  <2> HIDE DEF n, fresh, q, s
  <2>8. /\ Saves(n, kc'.gen) /\ (~spoilt'.lost => Kept(n, row', kc'.gen))
        /\ ~spoilt'.lost =>
             \A f \in flights' : (IF f.status = "granted" THEN f.new ELSE f.gen) = kc'.gen
    BY <1>1, <2>1, <2>3, <2>4, <2>5, <2>6 DEF Saves, Kept
  <2>9. QED BY <1>5, <2>1, <2>6, <2>7, <2>8, NewestMoves
<1>10. QED BY <1>6, <1>7, <1>8, <1>9 DEF UseSession

\* The row becomes what was saved, unless the put fails.
LEMMA SaveSessionNewest ==
    ASSUME IInv, TakingTurns, Newest, NEW p \in Req, SaveSession(p)
    PROVE  Newest'
<1> DEFINE q == req[p]
           refreshed == q.stage \notin {"resign", "issue"}
<1>1. /\ q \in Request /\ q.pc = "save" /\ q.sess \in Session /\ spoilt \in Spoilt
      /\ req' = [req EXCEPT ![p] = AfterSave(q)] /\ UNCHANGED <<flights, kc>>
      /\ spoilt'.respent = spoilt.respent
      /\ \/ row' = q.sess /\ spoilt'.lost = spoilt.lost
         \/ row' = row /\ spoilt'.lost = (spoilt.lost \/ refreshed)
  BY DEF SaveSession, IInv, TypeOK, RequestInv, FromSignIn, Spoilt
<1>2. p \in Active
  BY <1>1 DEF Active
<1>3. flights = {} /\ \A r \in Req : req[r].pc = "save" => r = p
  BY <1>1, <1>2, OnlyOne
<1>4. ~spoilt.lost => q.sess.gen = kc.gen /\ spoilt.respent = {}
  BY <1>1 DEF Newest
<1>5. ~spoilt.lost /\ ~refreshed => row = NoSession \/ row.gen = kc.gen
  BY <1>3 DEF Newest
<1>6. q.sess.gen = kc.gen => Saves(AfterSave(q), kc.gen)
  <2>1. /\ Saves(AfterContext(q), kc.gen) /\ \A res : Saves(Done(q, res), kc.gen)
        /\ q.sess.gen = kc.gen => Saves(Got(q, q.sess), kc.gen)
    BY <1>1, SavesWhatItGot
  <2>2. \/ AfterSave(q) = AfterContext(q) \/ AfterSave(q) = Got(q, q.sess)
        \/ AfterSave(q) = Done(q, IF q.want \in Groups(q.sess) THEN "ok" ELSE "reauth")
    BY DEF AfterSave
  <2> HIDE DEF q
  <2>3. QED BY <2>1, <2>2
<1>7. ~spoilt'.lost => ~spoilt.lost /\ (row' = NoSession \/ row'.gen = kc.gen)
  BY <1>1, <1>4, <1>5 DEF Spoilt
<1> HIDE DEF q, refreshed
<1>8. ~spoilt'.lost => /\ spoilt'.respent = {} /\ Saves(AfterSave(q), kc'.gen)
                       /\ Kept(AfterSave(q), row', kc'.gen) /\ flights' = {}
  BY <1>1, <1>3, <1>4, <1>6, <1>7 DEF Kept
<1>9. QED BY <1>1, <1>2, <1>8, NewestMoves

\* A context is settled with the session of the row.
LEMMA ResolveTenantNewest ==
    ASSUME IInv, TakingTurns, Newest, NEW p \in Req, ResolveTenant(p)
    PROVE  Newest'
<1> DEFINE q == req[p]
<1>1. /\ q \in Request /\ q.pc = "resolve" /\ q.sess \in Session
      /\ row # NoSession /\ (~spoilt.lost => q.sess = row)
      /\ UNCHANGED <<row, flights, kc>>
      /\ spoilt'.lost = spoilt.lost /\ spoilt'.respent = spoilt.respent
  BY DEF ResolveTenant, IInv, TypeOK, TakingTurns, OnTurn, RequestInv, FromSignIn, Spoilt
<1>2. p \in Active
  BY <1>1 DEF Active
<1>3. ASSUME NEW n, req' = [req EXCEPT ![p] = n], q.sess.gen = kc.gen => Saves(n, kc.gen)
      PROVE  Newest'
  BY <1>1, <1>2, <1>3, NewestGoesOn
<1>4. ASSUME NEW t, Decided(p, t) PROVE Newest'
  <2> DEFINE k == Go([q EXCEPT !.pick = t], "read", "forced")
  <2>1. k.pc = "read"
    BY <1>1 DEF Go, Request
  <2>2. q.sess.gen = kc.gen => Saves(FinishContext(q, t), kc.gen)
    BY <1>1, SavesWhatItGot
  <2>3. req' = [req EXCEPT ![p] = k] \/ req' = [req EXCEPT ![p] = FinishContext(q, t)]
    BY <1>4 DEF Decided
  <2> HIDE DEF k, q
  <2>4. QED BY <1>3, <2>1, <2>2, <2>3 DEF Saves
<1>5. ASSUME NEW d \in Degraded(q), req' = [req EXCEPT ![p] = d] PROVE Newest'
  <2>1. d = Done(q, "ok") \/ d = AfterContext(q)
    BY DEF Degraded
  <2>2. Saves(d, kc.gen)
    BY <1>1, <2>1, SavesWhatItGot
  <2>3. QED BY <1>3, <1>5, <2>2
<1>6. QED BY <1>4, <1>5 DEF ResolveTenant

\* A logout saves nothing.
LEMMA LogoutNewest ==
    ASSUME IInv, TakingTurns, Newest, NEW p \in Req, DeleteSession(p) \/ RevokeToken(p)
    PROVE  Newest'
<1> DEFINE q == req[p]
<1>1. /\ q \in Request /\ q.pc \in {"delete", "revoke"}
      /\ kc'.gen = kc.gen /\ UNCHANGED <<flights, spoilt>> /\ row' \in {row, NoSession}
  BY DEF DeleteSession, RevokeToken, IInv, TypeOK
<1>2. p \in Active
  BY <1>1 DEF Active
<1>3. Done(q, "ok").pc = "done" /\ Go(q, "revoke", "logout").pc = "revoke"
  BY <1>1 DEF Done, Go, Request
<1>4. PICK n : req' = [req EXCEPT ![p] = n] /\ n.pc # "save"
  BY <1>3 DEF DeleteSession, RevokeToken
<1> HIDE DEF q
<1>5. req[p].pc \notin {"wait", "save"}
  BY <1>1 DEF q
<1>6. QED BY <1>1, <1>2, <1>4, <1>5, NewestGoesOn DEF Saves

\* Who waits, waits for the only refresh there is.
LEMMA OneFlight ==
    ASSUME IInv, SingleFlight, TakingTurns, NEW f \in flights
    PROVE  /\ flights = {f}
           /\ \E p \in Active : /\ req[p].pc = "wait" /\ Waiters(f) = {p}
                                /\ \A r \in Req : r # p => req[r].pc \in {"new", "done"}
<1>1. PICK p \in Req : req[p].pc = "wait" /\ req[p].rep = f.rep /\ req[p].key = f.gen
  BY DEF TakingTurns
<1>2. p \in Active
  BY <1>1 DEF Active
<1>3. \A r \in Req : r # p => req[r].pc \in {"new", "done"}
  BY <1>2, OnlyOne
<1>4. ASSUME NEW g \in flights PROVE g = f
  <2>1. g.rep = req[p].rep /\ g.gen = req[p].key
    BY <1>3 DEF TakingTurns
  <2>2. QED BY <1>1, <2>1 DEF SingleFlight
<1>5. Waiters(f) = {p}
  BY <1>1, <1>3 DEF Waiters
<1>6. QED BY <1>1, <1>2, <1>3, <1>4, <1>5

\* Keycloak hands out the next tokens, or refuses.
LEMMA KeycloakAnswersNewest ==
    ASSUME IInv, SingleFlight, TakingTurns, Newest, NEW f \in flights, KeycloakAnswers(f)
    PROVE  Newest'
<1>1. SUFFICES ASSUME ~spoilt'.lost PROVE Newest'
  BY DEF Newest
<1>2. /\ f \in Flight /\ UNCHANGED <<row, req>> /\ f.status = "asked" /\ spoilt \in Spoilt
  BY DEF IInv, TypeOK, KeycloakAnswers
<1>3. /\ UNCHANGED spoilt
      /\ \/ kc' = [kc EXCEPT !.gen = @ + 1] /\ Answer(f, "granted", kc.gen + 1)
         \/ UNCHANGED kc /\ Answer(f, "refused", 0)
         \/ UNCHANGED kc /\ Answer(f, "failed", 0)
  BY <1>1, <1>2 DEF KeycloakAnswers, Spoilt
<1>4. flights = {f} /\ \A r \in Req : req[r].pc # "save"
  BY OneFlight
<1>5. f.gen = kc.gen /\ (row = NoSession \/ row.gen = kc.gen)
  BY <1>1, <1>2, <1>3, <1>4 DEF Newest
<1>6. CASE kc' = [kc EXCEPT !.gen = @ + 1] /\ Answer(f, "granted", kc.gen + 1)
  <2> DEFINE a == [f EXCEPT !.status = "granted", !.new = kc.gen + 1]
  <2>1. a.status = "granted" /\ a.new = kc.gen + 1
    BY <1>2 DEF Flight
  <2>2. flights' = {a}
    BY <1>4, <1>6 DEF Answer
  <2>3. kc'.gen = kc.gen + 1
    BY <1>6 DEF IInv, TypeOK
  <2> HIDE DEF a
  <2>4. QED BY <1>1, <1>2, <1>3, <1>4, <2>1, <2>2, <2>3 DEF Newest
<1>7. ASSUME NEW status \in {"refused", "failed"}, UNCHANGED kc, Answer(f, status, 0)
      PROVE  Newest'
  <2> DEFINE a == [f EXCEPT !.status = status, !.new = 0]
  <2>1. a.status # "granted" /\ a.gen = f.gen
    BY <1>2 DEF Flight
  <2>2. flights' = {a}
    BY <1>4, <1>7 DEF Answer
  <2> HIDE DEF a
  <2>3. QED BY <1>1, <1>2, <1>3, <1>4, <1>5, <1>7, <2>1, <2>2 DEF Newest
<1>8. QED BY <1>3, <1>6, <1>7

\* The request that waited saves the tokens that were granted, or has the row's.
LEMMA FlightSettlesNewest ==
    ASSUME IInv, SingleFlight, TakingTurns, Newest, NEW f \in flights, FlightSettles(f)
    PROVE  Newest'
<1>1. PICK p \in Active : /\ req[p].pc = "wait" /\ Waiters(f) = {p}
                          /\ \A r \in Req : r # p => req[r].pc \in {"new", "done"}
  BY OneFlight
<1> DEFINE q == req[p]
           n == Resumed(q, f)
<1>2. /\ p \in Req /\ q \in Request /\ req \in [Req -> Request] /\ q.pc = "wait"
      /\ OnTurn(q, row, spoilt) /\ RequestInv(q)
      /\ UNCHANGED <<row, spoilt, kc>> /\ (row = NoSession \/ row \in Session)
  BY <1>1 DEF FlightSettles, IInv, TypeOK, TakingTurns, Active
<1>3. flights = {f} /\ flights' = {}
  BY OneFlight DEF FlightSettles
<1>4. req' = [req EXCEPT ![p] = n]
  BY <1>1, <1>2 DEF FlightSettles
<1>5. ~spoilt.lost /\ q.stage = "forced" => q.sess = row /\ row \in Session
  BY <1>2 DEF OnTurn, RequestInv, FromSignIn
<1>6. CASE f.status = "granted"
  <2> DEFINE k == Go(Hold(q, Refreshed(f)), "save", q.stage)
  <2>1. /\ k.pc = "save" /\ k.sess.gen = f.new
        /\ k.stage \notin {"resign", "issue"}
    BY <1>2 DEF Go, Hold, Request, Refreshed, RequestInv
  <2>2. n = k
    BY <1>6 DEF Resumed
  <2>3. ~spoilt.lost => f.new = kc.gen /\ spoilt.respent = {}
    BY <1>6 DEF Newest
  <2> HIDE DEF k, n, q
  <2>4. QED BY <1>1, <1>2, <1>3, <1>4, <2>1, <2>2, <2>3, NewestMoves DEF Saves, Kept
<1>7. CASE f.status # "granted"
  <2>1. \A r \in Req : req[r].pc # "save"
    BY <1>1
  <2>2. ~spoilt.lost => (row = NoSession \/ row.gen = kc.gen) /\ spoilt.respent = {}
    BY <1>3, <1>7, <2>1 DEF Newest
  <2>3. PICK h \in {q, Hurt(q)} : n = GotNull(h)
    BY <1>7 DEF Resumed
  <2>4. h \in Request /\ h.stage = q.stage /\ h.sess = q.sess
    BY <1>2, <2>3, HurtLeaves
  <2> HIDE DEF n, q
  <2>5. ~spoilt.lost /\ row.gen = kc.gen => Saves(GotNull(h), kc.gen)
    BY <1>5, <2>4, SavesWhatItGot
  <2>6. ~spoilt.lost /\ row = NoSession => h.stage # "forced"
    BY <1>5, <2>4, NoSessionAssumption
  <2>7. ~spoilt.lost /\ row = NoSession => Saves(GotNull(h), kc.gen)
    BY <2>4, <2>6 DEF Saves, GotNull, Done, Go, Request
  <2>8. ~spoilt'.lost => /\ spoilt'.respent = {} /\ Saves(n, kc'.gen)
                         /\ Kept(n, row', kc'.gen) /\ flights' = {}
    BY <1>2, <1>3, <2>2, <2>3, <2>5, <2>7 DEF Kept
  <2>9. QED BY <1>1, <1>4, <2>8, NewestMoves
<1>8. QED BY <1>6, <1>7

\* Every step keeps the newest tokens in one of the three places.
LEMMA NextNewest ==
    ASSUME IsFiniteSet(Req), MaxActive = 1,
           IInv, SingleFlight, TakingTurns, Newest, [Next]_vars
    PROVE  Newest'
<1>1. ASSUME NEW p \in Req, Begin(p) PROVE Newest'
  <2>1. /\ req \in [Req -> Request] /\ UNCHANGED <<row, flights, kc, spoilt>>
    BY <1>1 DEF Begin, IInv, TypeOK
  <2>2. \A r \in Req : req'[r].pc = "save" <=> req[r].pc = "save"
    BY <1>1, <2>1 DEF Begin, Request
  <2>3. \A r \in Req : req'[r].pc = "save" => req'[r] = req[r]
    BY <1>1, <2>1 DEF Begin, Request
  <2>4. QED BY <2>1, <2>2, <2>3 DEF Newest
<1>2. ASSUME NEW p \in Req, LoadSession(p) PROVE Newest'
  <2>1. /\ req \in [Req -> Request] /\ UNCHANGED <<row, flights, kc, spoilt>>
        /\ req[p].pc = "read"
    BY <1>2 DEF LoadSession, IInv, TypeOK
  <2>2. PICK n \in Request : req' = [req EXCEPT ![p] = n] /\ n.pc = "loaded"
    BY <1>2, LoadStep DEF IInv
  <2>3. /\ req'[p].pc # "save" /\ req[p].pc # "save"
        /\ \A r \in Req : r # p => req'[r] = req[r]
    BY <2>1, <2>2
  <2>4. QED BY <2>1, <2>3 DEF Newest
<1>3. CASE Tick \/ UNCHANGED vars
  BY <1>3 DEF Tick, vars, Newest
<1>4. QED
  BY <1>1, <1>2, <1>3, UseSessionNewest, SaveSessionNewest, ResolveTenantNewest,
     LogoutNewest, KeycloakAnswersNewest, FlightSettlesNewest DEF Next, Finished

\* A browser that sends one request at a time is turned away only if the session
\* ended, a call of the request failed or, where tokens rotate, new tokens were
\* lost on their way to the row; a forced refresh, a re-sign or a switch that fails
\* in any other way signs nobody out (handlers.ts, session-store.ts).
THEOREM SignedOutForCauseInTurn ==
    ASSUME IsFiniteSet(Req), MaxActive = 1
    PROVE  Spec => []SignedOutForCause
<1>1. Init => Newest
  BY DEF Init, Newest
<1>2. IInv /\ SingleFlight /\ TakingTurns /\ Newest /\ [Next]_vars => Newest'
  BY NextNewest
<1>3. Newest /\ NoSpuriousSignOut => SignedOutForCause
  BY DEF Newest, NoSpuriousSignOut, SignedOutForCause
<1>4. QED
  BY <1>1, <1>2, <1>3, InductiveInvariant, SharedRefresh, TurnsTaken, SharersNeverSignOut,
     PTL DEF Spec

----------------------------------------------------------------------------
(* No request goes round in circles                                        *)

\* Request q goes on as n, nearer to its answer.
Nears(q, n) == Placed(n) /\ Distance(n) < Distance(q)

\* The distance counts awaits.
LEMMA DistanceCounts ==
    ASSUME NEW q \in Request, q.pc # "done"
    PROVE  Distance(q) \in Nat /\ Distance(q) > 0
BY DEF Distance, StagesAfter, AwaitsAfter, Request, Stages, Pcs

\* An answer ends the way of a request.
LEMMA DoneNears ==
    ASSUME NEW q \in Request, q.pc # "done", NEW k \in Request, NEW res
    PROVE  Nears(q, Done(k, res))
<1>1. Done(k, res).pc = "done"
  BY DEF Done, Request
<1>2. Distance(Done(k, res)) = 0
  BY <1>1 DEF Distance
<1>3. QED BY <1>1, <1>2, DistanceCounts DEF Nears, Placed

\* A step to a later position of the stage, or to a later stage.
LEMMA GoNears ==
    ASSUME NEW q \in Request, q.pc # "done", NEW k \in Request,
           NEW pc \in Pcs \ {"new", "done"}, NEW stage \in Stages,
           pc = "resolve" => stage \in {"valid", "forced"},
           \/ StagesAfter[stage] < StagesAfter[q.stage]
           \/ stage = q.stage /\ AwaitsAfter[pc] < AwaitsAfter[q.pc]
    PROVE  Nears(q, Go(k, pc, stage))
<1> DEFINE n == Go(k, pc, stage)
<1>1. n.pc = pc /\ n.stage = stage
  BY DEF Go, Request
<1>2. Placed(n)
  BY <1>1 DEF Placed
<1>3. /\ StagesAfter[stage] \in 0..5 /\ StagesAfter[q.stage] \in 0..5
      /\ AwaitsAfter[pc] \in 1..7 /\ AwaitsAfter[q.pc] \in 1..7
  BY DEF StagesAfter, AwaitsAfter, Stages, Pcs, Request
<1>4. Distance(n) = 8 * StagesAfter[stage] + AwaitsAfter[pc]
  BY <1>1 DEF Distance
<1>5. Distance(q) = 8 * StagesAfter[q.stage] + AwaitsAfter[q.pc]
  BY DEF Distance
<1> HIDE DEF n
<1>6. Distance(n) < Distance(q)
  BY <1>3, <1>4, <1>5
<1>7. QED BY <1>2, <1>6 DEF Nears, n

\* Once its tenant is settled, a request has only a switch before it.
LEMMA AfterContextNears ==
    ASSUME NEW q \in Request, q.pc # "done", q.stage \in {"valid", "forced", "resign"}
    PROVE  Nears(q, AfterContext(q))
<1>1. ASSUME NEW stage \in {"issueValid", "issueForced"} PROVE Nears(q, Go(q, "read", stage))
  <2>1. StagesAfter[stage] < StagesAfter[q.stage]
    BY DEF StagesAfter
  <2>2. QED BY <2>1, GoNears DEF Stages, Pcs
<1>2. QED BY <1>1, DoneNears DEF AfterContext

\* A request that has its session is answered, or has only a switch before it.
LEMMA FinishContextNears ==
    ASSUME NEW q \in Request, q.pc # "done", q.stage \in {"valid", "forced"}, NEW t \in Tenant,
           FromSignIn(q.sess)
    PROVE  Nears(q, FinishContext(q, t))
<1>1. Hold(q, InTenant(q.sess, t)) \in Request
  BY DEF Hold, InTenant, Request, FromSignIn, Session
<1>2. StagesAfter["resign"] < StagesAfter[q.stage]
  BY DEF StagesAfter
<1>3. Nears(q, Go(Hold(q, InTenant(q.sess, t)), "save", "resign"))
  BY <1>1, <1>2, GoNears DEF Stages, Pcs
<1>4. QED BY <1>3, AfterContextNears DEF FinishContext

\* A request that is handed a session leaves the stage, or has its tenant to settle.
LEMMA GotNears ==
    ASSUME NEW q \in Request, q.pc \in {"loaded", "wait", "save"},
           q.stage \notin {"resign", "issue", "logout"}, NEW s, FromSignIn(s)
    PROVE  Nears(q, Got(q, s))
<1>1. Hold(q, s) \in Request /\ Hold(q, InTenant(s, q.want)) \in Request
  BY DEF Hold, InTenant, Request, FromSignIn, Session
<1>2. CASE q.stage \notin {"valid", "forced"}
  <2>1. StagesAfter["issue"] < StagesAfter[q.stage]
    BY <1>2 DEF StagesAfter, Request, Stages
  <2>2. Nears(q, Go(Hold(q, InTenant(s, q.want)), "save", "issue"))
    BY <1>1, <2>1, GoNears DEF Stages, Pcs
  <2>3. QED BY <1>2, <2>2 DEF Got
<1>3. CASE q.stage \in {"valid", "forced"}
  <2>1. AwaitsAfter["resolve"] < AwaitsAfter[q.pc]
    BY DEF AwaitsAfter
  <2>2. Nears(q, Go(Hold(q, s), "resolve", q.stage))
    BY <1>1, <1>3, <2>1, GoNears DEF Stages, Pcs
  <2>3. Nears(q, Done(Hold(q, s), "ok"))
    BY <1>1, DoneNears
  <2>4. QED BY <1>3, <2>2, <2>3 DEF Got
<1>4. QED BY <1>2, <1>3

\* A request that is handed null leaves the stage.
LEMMA GotNullNears ==
    ASSUME NEW q \in Request, q.pc # "done", q.stage = "forced" => FromSignIn(q.sess)
    PROVE  Nears(q, GotNull(q))
<1>1. CASE q.stage = "forced"
  BY <1>1, FinishContextNears DEF GotNull, Request
<1>2. CASE q.stage = "issueForced"
  <2>1. StagesAfter["issueValid"] < StagesAfter[q.stage]
    BY <1>2 DEF StagesAfter
  <2>2. QED BY <1>2, <2>1, GoNears DEF GotNull, Stages, Pcs
<1>3. CASE q.stage \notin {"forced", "issueForced"}
  BY <1>3, DoneNears DEF GotNull
<1>4. QED BY <1>1, <1>2, <1>3

\* The state of all requests: what moves moves nearer.
AllPlaced == \A p \in Req : Placed(req[p])
AllMoveOn == \A p \in Req : req'[p] # req[p] => Nears(req[p], req'[p])

\* One request moves.
LEMMA OneMovesOn ==
    ASSUME IInv, NEW p \in Req, NEW n, req' = [req EXCEPT ![p] = n], Nears(req[p], n)
    PROVE  AllMoveOn
BY DEF AllMoveOn, IInv, TypeOK

\* Whatever a request finds in the session document it read, it moves on.
LEMMA UseSessionMovesOn ==
    ASSUME IInv, NEW p \in Req, UseSession(p)
    PROVE  AllMoveOn
<1> DEFINE s == req[p].seen
           q == [req[p] EXCEPT !.seen = NoSession]
<1>1. /\ req[p] \in Request /\ RequestInv(req[p]) /\ req[p].pc = "loaded" /\ Copy(s)
      /\ req[p].stage \in {"valid", "forced", "issueForced", "issueValid", "logout"}
  BY DEF UseSession, IInv, TypeOK, RequestInv, Request, Stages
<1>2. /\ q \in Request /\ q.pc = "loaded" /\ q.stage = req[p].stage /\ q.sess = req[p].sess
  BY <1>1 DEF Request
<1>3. Distance(q) = Distance(req[p])
  BY <1>1, <1>2 DEF Distance
<1>4. Usable(s) => FromSignIn(s)
  BY <1>1 DEF Usable, Copy
<1>5. ASSUME NEW n, Nears(q, n), req' = [req EXCEPT ![p] = n] PROVE AllMoveOn
  <2>1. Nears(req[p], n)
    BY <1>3, <1>5 DEF Nears
  <2>2. QED BY <1>5, <2>1, OneMovesOn
<1>6. CASE req' = [req EXCEPT ![p] = [q EXCEPT !.pc = "delete", !.sess = s]]
  <2> DEFINE n == [q EXCEPT !.pc = "delete", !.sess = s]
  <2>1. n.pc = "delete" /\ n.stage = q.stage
    BY <1>2 DEF Request
  <2>2. Distance(n) < Distance(q)
    BY <1>1, <1>2, <2>1 DEF Distance, StagesAfter, AwaitsAfter
  <2>3. Placed(n)
    BY <2>1 DEF Placed
  <2>4. req' = [req EXCEPT ![p] = n]
    BY <1>6
  <2> HIDE DEF n, q
  <2>5. QED BY <1>5, <2>2, <2>3, <2>4 DEF Nears
<1>7. CASE req' = [req EXCEPT ![p] = [q EXCEPT !.pc = "wait", !.key = s.gen]]
  <2> DEFINE n == [q EXCEPT !.pc = "wait", !.key = s.gen]
  <2>1. n.pc = "wait" /\ n.stage = q.stage
    BY <1>2 DEF Request
  <2>2. Distance(n) < Distance(q)
    BY <1>1, <1>2, <2>1 DEF Distance, StagesAfter, AwaitsAfter
  <2>3. Placed(n)
    BY <2>1 DEF Placed
  <2>4. req' = [req EXCEPT ![p] = n]
    BY <1>7
  <2> HIDE DEF n, q
  <2>5. QED BY <1>5, <2>2, <2>3, <2>4 DEF Nears
<1>8. CASE req' = [req EXCEPT ![p] = GotNull(q)]
  <2>1. q.stage = "forced" => FromSignIn(q.sess)
    BY <1>1, <1>2 DEF RequestInv
  <2>2. Nears(q, GotNull(q))
    BY <1>2, <2>1, GotNullNears
  <2>3. QED BY <1>5, <1>8, <2>2
<1>9. CASE Usable(s) /\ q.stage \in {"valid", "issueValid"} /\ req' = [req EXCEPT ![p] = Got(q, s)]
  <2>1. Nears(q, Got(q, s))
    BY <1>2, <1>4, <1>9, GotNears
  <2>2. QED BY <1>5, <1>9, <2>1
<1>10. QED BY <1>6, <1>7, <1>8, <1>9 DEF UseSession

\* A request that has written its session moves on, the requests that wait for it too.
LEMMA SaveSessionMovesOn ==
    ASSUME IInv, NEW p \in Req, SaveSession(p)
    PROVE  AllMoveOn
<1> DEFINE q == req[p]
<1>1. /\ q \in Request /\ q.pc = "save" /\ FromSignIn(q.sess) /\ q.stage # "logout"
      /\ req' = [req EXCEPT ![p] = AfterSave(q)]
  BY DEF SaveSession, IInv, TypeOK, RequestInv
<1>2. CASE q.stage = "resign"
  <2>1. AfterSave(q) = AfterContext(q)
    BY <1>2 DEF AfterSave
  <2>2. QED BY <1>1, <1>2, <2>1, AfterContextNears, OneMovesOn
<1>3. CASE q.stage = "issue"
  <2>1. AfterSave(q) = Done(q, IF q.want \in Groups(q.sess) THEN "ok" ELSE "reauth")
    BY <1>3 DEF AfterSave
  <2>2. Nears(q, AfterSave(q))
    BY <1>1, <2>1, DoneNears
  <2>3. QED BY <1>1, <2>2, OneMovesOn
<1>4. CASE q.stage \notin {"resign", "issue"}
  <2>1. AfterSave(q) = Got(q, q.sess)
    BY <1>4 DEF AfterSave
  <2>2. QED BY <1>1, <1>4, <2>1, GotNears, OneMovesOn
<1>5. QED BY <1>2, <1>3, <1>4

\* A request whose tenant is read, or cannot be, moves on.
LEMMA ResolveTenantMovesOn ==
    ASSUME IInv, AllPlaced, NEW p \in Req, ResolveTenant(p)
    PROVE  AllMoveOn
<1> DEFINE q == req[p]
<1>1. /\ q \in Request /\ q.pc = "resolve" /\ FromSignIn(q.sess)
      /\ q.stage \in {"valid", "forced"}
  BY DEF ResolveTenant, IInv, TypeOK, RequestInv, AllPlaced, Placed
<1>2. ASSUME NEW t \in Tenant, Decided(p, t) PROVE AllMoveOn
  <2>1. CASE /\ q.stage = "valid"
             /\ req' = [req EXCEPT ![p] = Go([q EXCEPT !.pick = t], "read", "forced")]
    <3>1. [q EXCEPT !.pick = t] \in Request
      BY <1>1 DEF Request
    <3>2. StagesAfter["forced"] < StagesAfter["valid"]
      BY DEF StagesAfter
    <3>3. Nears(q, Go([q EXCEPT !.pick = t], "read", "forced"))
      BY <1>1, <2>1, <3>1, <3>2, GoNears DEF Stages, Pcs
    <3>4. QED BY <2>1, <3>3, OneMovesOn
  <2>2. CASE req' = [req EXCEPT ![p] = FinishContext(q, t)]
    BY <1>1, <2>2, FinishContextNears, OneMovesOn
  <2>3. QED BY <1>2, <2>1, <2>2 DEF Decided
<1>3. ASSUME NEW start \in Tenant, NEW t \in Groups(q.sess) \union Picks(start) \union {start, Personal}
      PROVE  t \in Tenant
  BY DEF Groups, Picks, Tenant
<1>4. q.pick \in Tenant /\ q.sess.tenant \in Tenant
  BY <1>1 DEF Request, FromSignIn, Session
<1>5. CASE \E d \in Degraded(q) : req' = [req EXCEPT ![p] = d]
  <2>1. ASSUME NEW d \in Degraded(q) PROVE Nears(q, d)
    <3>1. d = Done(q, "ok") \/ d = AfterContext(q)
      BY DEF Degraded
    <3>2. QED BY <1>1, <3>1, DoneNears, AfterContextNears
  <2>2. QED BY <1>5, <2>1, OneMovesOn
<1>6. QED BY <1>2, <1>3, <1>4, <1>5 DEF ResolveTenant

\* A refresh that settles moves all that wait for it on.
LEMMA FlightSettlesMovesOn ==
    ASSUME IInv, NEW f \in flights, FlightSettles(f)
    PROVE  AllMoveOn
<1> SUFFICES ASSUME NEW p \in Req, req'[p] # req[p] PROVE Nears(req[p], req'[p])
  BY DEF AllMoveOn
<1>1. p \in Waiters(f) /\ req'[p] = Resumed(req[p], f)
  BY DEF FlightSettles
<1>2. /\ req[p] \in Request /\ RequestInv(req[p]) /\ req[p].pc = "wait" /\ f \in Flight
      /\ FromSignIn(f.prev) /\ now \in Nat
  BY <1>1 DEF IInv, TypeOK, Waiters
<1>3. Refreshed(f) \in Session
  BY <1>2 DEF Refreshed, Session, Flight, FromSignIn
<1>4. Hold(req[p], Refreshed(f)) \in Request
  BY <1>2, <1>3 DEF Hold, Request
<1>5. AwaitsAfter["save"] < AwaitsAfter["wait"]
  BY DEF AwaitsAfter
<1>6. Nears(req[p], Go(Hold(req[p], Refreshed(f)), "save", req[p].stage))
  BY <1>2, <1>4, <1>5, GoNears DEF Pcs, Request
<1>7. ASSUME NEW h \in {req[p], Hurt(req[p])} PROVE Nears(req[p], GotNull(h))
  <2>1. /\ h \in Request /\ h.pc = req[p].pc /\ h.stage = req[p].stage /\ h.sess = req[p].sess
    BY <1>2, HurtLeaves
  <2>2. Distance(h) = Distance(req[p])
    BY <2>1 DEF Distance
  <2>3. Nears(h, GotNull(h))
    BY <1>2, <2>1, GotNullNears DEF RequestInv
  <2>4. QED BY <2>2, <2>3 DEF Nears
<1>8. QED BY <1>1, <1>6, <1>7 DEF Resumed

\* Every step moves the requests on that it touches.
LEMMA NextMovesOn ==
    ASSUME IInv, AllPlaced, [Next]_vars
    PROVE  AllMoveOn
<1>1. req \in [Req -> Request] /\ \A p \in Req : RequestInv(req[p]) /\ Placed(req[p])
  BY DEF IInv, TypeOK, AllPlaced
<1>2. ASSUME NEW p \in Req, Begin(p) PROVE AllMoveOn
  <2>1. /\ req[p].pc = "new" /\ req[p].stage = "valid" /\ req'[p].pc = "read"
        /\ req'[p].stage \in {"valid", "logout"} /\ \A r \in Req : r # p => req'[r] = req[r]
    BY <1>1, <1>2 DEF Begin, Request, Placed
  <2>2. Nears(req[p], req'[p])
    BY <2>1 DEF Nears, Placed, Distance, StagesAfter, AwaitsAfter
  <2>3. QED BY <2>1, <2>2 DEF AllMoveOn
<1>3. ASSUME NEW p \in Req, LoadSession(p) PROVE AllMoveOn
  <2>1. PICK n \in Request : /\ req' = [req EXCEPT ![p] = n]
                             /\ n.pc = "loaded" /\ n.stage = req[p].stage
    BY <1>3, LoadStep DEF IInv
  <2>2. req[p].pc = "read" /\ req[p].stage \in Stages
    BY <1>1, <1>3 DEF LoadSession, Request
  <2>3. Nears(req[p], n)
    BY <2>1, <2>2 DEF Nears, Placed, Distance, StagesAfter, AwaitsAfter, Stages
  <2>4. QED BY <2>1, <2>3, OneMovesOn
<1>4. ASSUME NEW p \in Req, DeleteSession(p) \/ RevokeToken(p) PROVE AllMoveOn
  <2>1. req[p].pc \in {"delete", "revoke"} /\ req[p].stage = "logout" /\ req[p] \in Request
    BY <1>1, <1>4 DEF DeleteSession, RevokeToken, RequestInv
  <2>2. Nears(req[p], Done(req[p], "ok"))
    BY <2>1, DoneNears
  <2>3. req[p].pc = "delete" => Nears(req[p], Go(req[p], "revoke", "logout"))
    <3>1. AwaitsAfter["revoke"] < AwaitsAfter["delete"]
      BY DEF AwaitsAfter
    <3>2. QED BY <2>1, <3>1, GoNears DEF Stages, Pcs
  <2>4. QED BY <1>4, <2>2, <2>3, OneMovesOn DEF DeleteSession, RevokeToken
<1>5. CASE UNCHANGED req
  BY <1>5 DEF AllMoveOn
<1>6. QED
  BY <1>2, <1>3, <1>4, <1>5, UseSessionMovesOn, SaveSessionMovesOn, ResolveTenantMovesOn,
     FlightSettlesMovesOn DEF Next, KeycloakAnswers, Tick, Finished, vars

\* However requests overlap and whatever fails, every await of a request that
\* returns brings it nearer to its answer: 47 steps at the most, and one that
\* waits for a refresh has one (SharedRefresh).
THEOREM RequestsMoveOn == Spec => MovesOn
<1>1. Init => AllPlaced
  BY DEF Init, AllPlaced, Placed
<1>2. IInv /\ AllPlaced /\ [Next]_vars => AllMoveOn
  BY NextMovesOn
<1>3. AllPlaced /\ AllMoveOn => AllPlaced'
  BY DEF AllPlaced, AllMoveOn, Nears
<1>4. AllMoveOn => [\A p \in Req : req'[p] # req[p] => Distance(req'[p]) < Distance(req[p])]_vars
  BY DEF AllMoveOn, Nears
<1>5. QED BY <1>1, <1>2, <1>3, <1>4, InductiveInvariant, PTL DEF Spec, MovesOn

=============================================================================
