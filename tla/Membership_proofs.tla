--------------------------- MODULE Membership_proofs ---------------------------
(* Proofs about Membership, for any number of people, concurrent requests and *)
(* failures: the organisation keeps an admin of its own, its groups are       *)
(* nested, and a change that is refused is undone.                            *)
EXTENDS Membership, TLAPS

Pc == {"idle", "read", "guard", "grant", "revoke", "recheck", "giveBack", "final",
       "takeBack"}
RequestRecord == [pc : Pc, kind : Kind, on : Person \cup {Nobody},
                  had : SUBSET Group, todo : SUBSET Group, done : SUBSET Group]

(* What one request looks like: it has something to call Keycloak for, is     *)
(* about a person, and reaches the checks of the last admin with an admin.    *)
Sound(q) ==
  /\ q.pc \in {"grant", "revoke", "giveBack"} => q.todo # {}
  /\ q.pc \in {"recheck", "giveBack"} => "admin" \in q.done
  /\ q.pc = "guard" => "admin" \in q.had
  /\ q.pc # "idle" => q.on \in Person

(* A request that will put an admin back, if none is left. *)
WillGiveBack(q) == q.pc = "recheck" \/ (q.pc = "giveBack" /\ "admin" \in q.todo)

Typed ==
  /\ groups \in [Person -> SUBSET Group]
  /\ req \in [Request -> RequestRecord]
  /\ {started, faults} \subseteq Nat
  /\ overlapped \subseteq Person
  /\ {half, unguarded} \subseteq BOOLEAN
  /\ \A r \in Request : Sound(req[r])

(* While the organisation has no admin, a request is on its way to see that. *)
Owed ==
  \/ unguarded
  \/ Admins(groups) # {}
  \/ \E r \in Request : WillGiveBack(req[r])

IInv == Typed /\ Owed

-------------------------------------------------------------------------------
(* Operators *)

\* The first group to add is one of those to add, and never the team while the
\* admin group is among them.
LEMMA WidestIn ==
  ASSUME NEW G \in SUBSET Group, G # {}
  PROVE  /\ Widest(G) \in G
         /\ "admin" \in G => Widest(G) \in {"member", "admin"}
BY DEF Widest, Group

\* The first group to take away is one of those to take away.
LEMMA NarrowestIn ==
  ASSUME NEW G \in SUBSET Group, G # {}
  PROVE  Narrowest(G) \in G
BY DEF Narrowest, Group

\* Both are groups, whatever they are asked for.
LEMMA AlwaysGroups ==
  ASSUME NEW G
  PROVE  Widest(G) \in Group /\ Narrowest(G) \in Group
BY DEF Widest, Narrowest, Group

\* Adding somebody to a group keeps the groups' shape and every admin; adding to
\* the admin group makes an admin.
LEMMA AddingFacts ==
  ASSUME Typed, NEW r \in Request, req[r].on \in Person, NEW g \in Group, Adding(r, g)
  PROVE  /\ groups' \in [Person -> SUBSET Group]
         /\ Admins(groups) \subseteq Admins(groups')
         /\ g = "admin" => Admins(groups') # {}
BY DEF Adding, Typed, Admins

\* Taking somebody out of a group other than the admin group keeps the admins.
LEMMA TakingFacts ==
  ASSUME Typed, NEW r \in Request, NEW g \in Group, Taking(r, g)
  PROVE  /\ groups' \in [Person -> SUBSET Group]
         /\ g # "admin" => Admins(groups') = Admins(groups)
BY DEF Taking, Typed, Admins

\* Replacing one request by a sound one keeps the shape of them all.
LEMMA ReqReplaced ==
  ASSUME Typed, NEW r \in Request, NEW q \in RequestRecord, Sound(q),
         req' = [req EXCEPT ![r] = q]
  PROVE  /\ req' \in [Request -> RequestRecord]
         /\ \A s \in Request : Sound(req'[s])
         /\ req'[r] = q
         /\ \A s \in Request : s # r => req'[s] = req[s]
BY DEF Typed

\* The invariant after a step of request r: the admins are unharmed or the loss
\* is recorded or r itself will give one back; if r was to give one back, it
\* still will, or there is one, or the loss is recorded.
LEMMA OwedKept ==
  ASSUME IInv, NEW r \in Request,
         \A s \in Request : s # r => req'[s] = req[s],
         unguarded => unguarded',
         \/ unguarded'
         \/ WillGiveBack(req'[r])
         \/ Admins(groups') # {}
         \/ Admins(groups') = Admins(groups) /\ ~WillGiveBack(req[r])
  PROVE  Owed'
BY DEF IInv, Owed

\* A request that is answered is gone.
LEMMA AnswerFacts ==
  ASSUME Typed, NEW r \in Request, Answer(r)
  PROVE  /\ req' \in [Request -> RequestRecord]
         /\ \A s \in Request : Sound(req'[s])
         /\ req'[r] = Idle
         /\ \A s \in Request : s # r => req'[s] = req[s]
<1>1. Idle \in RequestRecord /\ Sound(Idle)
  BY DEF Idle, RequestRecord, Sound, Pc, Kind
<1>2. QED BY <1>1, ReqReplaced DEF Answer

\* What a request may go on with.
Fits(r, pc, todo, done) ==
  /\ pc \in Pc /\ todo \in SUBSET Group /\ done \in SUBSET Group
  /\ pc # "idle" => req[r].on \in Person
  /\ pc \in {"grant", "revoke", "giveBack"} => todo # {}
  /\ pc \in {"recheck", "giveBack"} => "admin" \in done
  /\ pc = "guard" => "admin" \in req[r].had

\* A request that goes on with other work, or at another place.
LEMMA WorkFacts ==
  ASSUME Typed, NEW r \in Request, NEW pc, NEW todo, NEW done, Fits(r, pc, todo, done),
         req' = [req EXCEPT ![r].pc = pc, ![r].todo = todo, ![r].done = done]
  PROVE  /\ req' \in [Request -> RequestRecord]
         /\ \A s \in Request : Sound(req'[s])
         /\ req'[r].pc = pc /\ req'[r].todo = todo
         /\ \A s \in Request : s # r => req'[s] = req[s]
<1> DEFINE q == [req[r] EXCEPT !.pc = pc, !.todo = todo, !.done = done]
<1>1. q \in RequestRecord /\ q.pc = pc /\ q.todo = todo /\ q.done = done
      /\ q.on = req[r].on /\ q.had = req[r].had
  BY DEF Typed, RequestRecord, Fits
<1>2. req' = [req EXCEPT ![r] = q]
  BY DEF Typed, RequestRecord
<1>3. Sound(q)
  BY <1>1 DEF Sound, Fits
<1> HIDE DEF q
<1>4. QED BY <1>1, <1>2, <1>3, ReqReplaced

\* The frame of most steps.
LEMMA Kept ==
  ASSUME Typed, NEW r \in Request,
         groups' \in [Person -> SUBSET Group],
         req' \in [Request -> RequestRecord],
         \A s \in Request : Sound(req'[s]),
         UNCHANGED <<started, faults, overlapped, half>>, unguarded' \in BOOLEAN
  PROVE  Typed'
BY DEF Typed

-------------------------------------------------------------------------------
(* The actions *)

\* A new request takes nobody's place.
LEMMA BeginKeeps ==
  ASSUME IInv, NEW r \in Request, NEW kind \in Kind, NEW p \in Person, Begin(r, kind, p)
  PROVE  IInv'
<1> DEFINE q == [Idle EXCEPT !.pc = "read", !.kind = kind, !.on = p]
<1>1. q \in RequestRecord /\ Sound(q)
  BY DEF Idle, RequestRecord, Sound, Pc
<1>2. req' = [req EXCEPT ![r] = q]
  BY DEF Begin
<1> HIDE DEF q
<1>3. /\ req' \in [Request -> RequestRecord]
      /\ \A s \in Request : Sound(req'[s])
      /\ \A s \in Request : s # r => req'[s] = req[s]
  BY <1>1, <1>2, ReqReplaced DEF IInv
<1>4. Typed'
  BY <1>3 DEF Typed, IInv, Begin
<1>5. Admins(groups') = Admins(groups) /\ unguarded' = unguarded /\ ~WillGiveBack(req[r])
  BY DEF Begin, At, WillGiveBack, Admins
<1>6. Owed'
  BY <1>3, <1>5, OwedKept
<1>7. QED BY <1>4, <1>6 DEF IInv

\* Reading the person's groups decides what is done, and changes nothing yet.
LEMMA ReadKeeps ==
  ASSUME IInv, NEW r \in Request, Read(r)
  PROVE  IInv'
<1> DEFINE had == groups[req[r].on]
           With(pc, todo) ==
             req' = [req EXCEPT ![r].had = had, ![r].pc = pc, ![r].todo = todo]
<1>1. req[r].on \in Person /\ had \in SUBSET Group /\ req[r] \in RequestRecord
      /\ req \in [Request -> RequestRecord]
  BY DEF IInv, Typed, Sound, Read, At
<1>2. \/ \E pc \in {"grant", "revoke"}, todo \in SUBSET Group : todo # {} /\ With(pc, todo)
      \/ "admin" \in had /\ With("guard", {})
      \/ With("final", {})
      \/ Answer(r)
  <2>1. CASE req[r].kind = "add" /\ ~InOrg(req[r].on)
    <3>1. \E more \in SUBSET {"admin", "team"} : With("grant", {"member"} \cup more)
      BY <2>1 DEF Read
    <3>2. \A more \in SUBSET {"admin", "team"} :
            {"member"} \cup more \in SUBSET Group /\ {"member"} \cup more # {}
      BY DEF Group
    <3>3. QED BY <3>1, <3>2
  <2>2. CASE /\ req[r].kind = "promote" /\ InOrg(req[r].on)
             /\ ~({"member", "admin"} \subseteq had)
    <3>1. With("grant", {"member", "admin"} \ had)
      BY <2>2 DEF Read
    <3>2. {"member", "admin"} \ had \in SUBSET Group /\ {"member", "admin"} \ had # {}
      BY <2>2 DEF Group
    <3>3. QED BY <3>1, <3>2
  <2>3. CASE req[r].kind \in {"demote", "remove", "leave"} /\ "admin" \in had
    BY <2>3 DEF Read
  <2>4. CASE /\ req[r].kind \in {"remove", "leave"} /\ "admin" \notin had
             /\ InOrg(req[r].on)
    BY <2>4 DEF Read, Group
  <2>5. CASE /\ req[r].kind = "joinTeam"
             /\ InOrg(req[r].on) \/ req[r].on \in PlatformAdmin
    BY <2>5 DEF Read, Group
  <2>6. CASE req[r].kind = "quitTeam"
    BY <2>6 DEF Read, Group
  <2>7. CASE /\ ~(req[r].kind = "add" /\ ~InOrg(req[r].on))
             /\ ~(/\ req[r].kind = "promote" /\ InOrg(req[r].on)
                  /\ ~({"member", "admin"} \subseteq had))
             /\ ~(req[r].kind \in {"demote", "remove", "leave"} /\ "admin" \in had)
             /\ ~(/\ req[r].kind \in {"remove", "leave"} /\ "admin" \notin had
                  /\ InOrg(req[r].on))
             /\ ~(/\ req[r].kind = "joinTeam"
                  /\ InOrg(req[r].on) \/ req[r].on \in PlatformAdmin)
             /\ req[r].kind # "quitTeam"
    BY <2>7 DEF Read
  <2>8. QED BY <2>1, <2>2, <2>3, <2>4, <2>5, <2>6, <2>7
<1>3. /\ req' \in [Request -> RequestRecord]
      /\ \A s \in Request : Sound(req'[s])
      /\ \A s \in Request : s # r => req'[s] = req[s]
  <2>1. ASSUME NEW pc \in Pc, NEW todo \in SUBSET Group, With(pc, todo),
               pc \in {"grant", "revoke", "giveBack"} => todo # {},
               pc \notin {"recheck", "giveBack"},
               pc = "guard" => "admin" \in had
        PROVE  /\ req' \in [Request -> RequestRecord]
               /\ \A s \in Request : Sound(req'[s])
               /\ \A s \in Request : s # r => req'[s] = req[s]
    <3> DEFINE q == [req[r] EXCEPT !.had = had, !.pc = pc, !.todo = todo]
    <3>1. /\ q \in RequestRecord
          /\ q.pc = pc /\ q.todo = todo /\ q.had = had /\ q.on = req[r].on
      BY <1>1, <2>1 DEF RequestRecord
    <3>2. req' = [req EXCEPT ![r] = q]
      BY <1>1, <2>1 DEF RequestRecord
    <3>3. Sound(q)
      BY <1>1, <2>1, <3>1 DEF Sound
    <3> HIDE DEF q
    <3>4. QED BY <3>1, <3>2, <3>3, ReqReplaced DEF IInv
  <2>2. {"grant", "revoke", "guard", "final"} \subseteq Pc /\ {} \in SUBSET Group
    BY DEF Pc
  <2> HIDE DEF With, had
  <2>3. CASE Answer(r)
    BY <2>3, AnswerFacts DEF IInv
  <2>4. CASE \E pc \in {"grant", "revoke"}, todo \in SUBSET Group : todo # {} /\ With(pc, todo)
    BY <2>1, <2>2, <2>4
  <2>5. CASE "admin" \in had /\ With("guard", {})
    BY <2>1, <2>2, <2>5
  <2>6. CASE With("final", {})
    BY <2>1, <2>2, <2>6
  <2>7. QED BY <1>2, <2>3, <2>4, <2>5, <2>6
<1>4. Typed'
  BY <1>3, Kept DEF IInv, Typed, Read
<1>5. Admins(groups') = Admins(groups) /\ unguarded' = unguarded /\ ~WillGiveBack(req[r])
  BY DEF Read, At, WillGiveBack, Admins
<1>6. QED BY <1>3, <1>4, <1>5, OwedKept DEF IInv

\* The guard changes nothing.
LEMMA GuardKeeps ==
  ASSUME IInv, NEW r \in Request, Guard(r)
  PROVE  IInv'
<1>1. req[r].on \in Person /\ "admin" \in req[r].had /\ req[r] \in RequestRecord
  BY DEF IInv, Typed, Sound, Guard, At
<1>2. /\ req' \in [Request -> RequestRecord]
      /\ \A s \in Request : Sound(req'[s])
      /\ \A s \in Request : s # r => req'[s] = req[s]
  <2>1. CASE Answer(r)
    BY <2>1, AnswerFacts DEF IInv
  <2>2. CASE ~Answer(r)
    <3>1. \E pc \in {"grant", "revoke"}, todo \in SUBSET Group :
            todo # {} /\ req' = [req EXCEPT ![r].pc = pc, ![r].todo = todo]
      BY <1>1, <2>2 DEF Guard, Work, Group
    <3>2. PICK pc \in {"grant", "revoke"}, todo \in SUBSET Group :
            todo # {} /\ req' = [req EXCEPT ![r].pc = pc, ![r].todo = todo]
      BY <3>1
    <3>3. req' = [req EXCEPT ![r].pc = pc, ![r].todo = todo, ![r].done = req[r].done]
          /\ req[r].done \in SUBSET Group /\ pc \in Pc
      BY <1>1, <3>2 DEF IInv, Typed, RequestRecord, Pc
    <3>4. Fits(r, pc, todo, req[r].done)
      BY <1>1, <3>2, <3>3 DEF Fits
    <3>5. QED BY <3>3, <3>4, WorkFacts DEF IInv
  <2>3. QED BY <2>1, <2>2
<1>3. Typed'
  BY <1>2, Kept DEF IInv, Typed, Guard
<1>4. Admins(groups') = Admins(groups) /\ unguarded' = unguarded /\ ~WillGiveBack(req[r])
  BY DEF Guard, At, WillGiveBack, Admins
<1>5. QED BY <1>2, <1>3, <1>4, OwedKept DEF IInv

\* What a step may use of the request it is about.
LEMMA RequestFacts ==
  ASSUME Typed, NEW r \in Request
  PROVE  /\ req[r].pc \in Pc /\ req[r].todo \in SUBSET Group /\ req[r].done \in SUBSET Group
         /\ req[r].pc # "idle" => req[r].on \in Person
         /\ req[r].pc \in {"grant", "revoke", "giveBack"} => req[r].todo # {}
         /\ req[r].pc \in {"recheck", "giveBack"} => "admin" \in req[r].done
         /\ req \in [Request -> RequestRecord]
BY DEF Typed, Sound, RequestRecord

\* A field that is not mentioned keeps its value.
LEMMA TodoKept ==
  ASSUME NEW r \in Request, req \in [Request -> RequestRecord], NEW done,
         req' = [req EXCEPT ![r].done = done]
  PROVE  req' = [req EXCEPT ![r].pc = req[r].pc, ![r].todo = req[r].todo, ![r].done = done]
<1> DEFINE q == req[r]
<1>1. q = [pc |-> q.pc, kind |-> q.kind, on |-> q.on, had |-> q.had,
           todo |-> q.todo, done |-> q.done]
  BY DEF RequestRecord
<1>2. [q EXCEPT !.done = done] = [q EXCEPT !.pc = q.pc, !.todo = q.todo, !.done = done]
  BY <1>1
<1>3. QED BY <1>2

\* The next group is added: the admins can only become more.
LEMMA GrantKeeps ==
  ASSUME IInv, NEW r \in Request, Grant(r)
  PROVE  IInv'
<1> DEFINE g == Widest(req[r].todo)
           rest == req[r].todo \ {g}
           more == req[r].done \cup {g}
<1>1. Typed /\ req[r].pc = "grant"
  BY DEF IInv, Grant, At
<1>2. req[r].on \in Person /\ req \in [Request -> RequestRecord] /\ g \in Group
  BY <1>1, RequestFacts, AlwaysGroups
<1>3. rest \in SUBSET Group /\ more \in SUBSET Group
  BY <1>1, <1>2, RequestFacts
<1>4. /\ Adding(r, g)
      /\ \/ rest # {} /\ req' = [req EXCEPT ![r].todo = rest, ![r].done = more]
         \/ req' = [req EXCEPT ![r].pc = "revoke", ![r].todo = {"admin"},
                               ![r].done = req[r].done]
         \/ Answer(r)
  <2>1. CASE rest # {}
    BY <2>1 DEF Grant
  <2>2. CASE rest = {}
    BY <1>1, <1>2, <2>2 DEF Grant, Work, RequestRecord
  <2>3. QED BY <2>1, <2>2
<1> HIDE DEF g, rest, more
<1>5. /\ req' \in [Request -> RequestRecord]
      /\ \A s \in Request : Sound(req'[s])
      /\ \A s \in Request : s # r => req'[s] = req[s]
  <2>1. "grant" \in Pc /\ "revoke" \in Pc /\ {"admin"} \in SUBSET Group /\ {"admin"} # {}
        /\ req[r].done \in SUBSET Group
    BY <1>1, RequestFacts DEF Pc, Group
  <2>2. CASE rest # {} /\ req' = [req EXCEPT ![r].todo = rest, ![r].done = more]
    <3> DEFINE q == [req[r] EXCEPT !.todo = rest, !.done = more]
    <3>1. /\ q \in RequestRecord
          /\ q.pc = "grant" /\ q.todo = rest /\ q.on = req[r].on
      BY <1>1, <1>2, <1>3 DEF RequestRecord
    <3>2. req' = [req EXCEPT ![r] = q]
      BY <1>2, <2>2 DEF RequestRecord
    <3>3. Sound(q)
      BY <1>2, <2>2, <3>1 DEF Sound
    <3> HIDE DEF q
    <3>4. QED BY <1>1, <3>1, <3>2, <3>3, ReqReplaced
  <2>3. CASE req' = [req EXCEPT ![r].pc = "revoke", ![r].todo = {"admin"},
                                ![r].done = req[r].done]
    <3>1. Fits(r, "revoke", {"admin"}, req[r].done)
      BY <1>2, <2>1 DEF Fits
    <3>2. QED BY <1>1, <2>3, <3>1, WorkFacts
  <2>4. CASE Answer(r)
    BY <1>1, <2>4, AnswerFacts
  <2>5. QED BY <1>4, <2>2, <2>3, <2>4
<1>6. groups' \in [Person -> SUBSET Group] /\ Admins(groups) \subseteq Admins(groups')
  BY <1>1, <1>2, <1>4, AddingFacts
<1>7. Typed'
  BY <1>1, <1>5, <1>6, Kept DEF Typed, Grant
<1>8. Admins(groups') # {} \/ (Admins(groups') = Admins(groups) /\ ~WillGiveBack(req[r]))
  BY <1>1, <1>6 DEF WillGiveBack
<1>9. unguarded => unguarded'
  BY DEF Grant
<1>10. QED BY <1>5, <1>7, <1>8, <1>9, OwedKept DEF IInv

\* A group is taken away; if it was the admin group, the admins are counted next.
LEMMA RevokeKeeps ==
  ASSUME IInv, NEW r \in Request, Revoke(r)
  PROVE  IInv'
<1> DEFINE g == Narrowest(req[r].todo)
           next == AfterRevoke(r, g)
           rest == req[r].todo \ {g}
           more == req[r].done \cup {g}
<1>1. Typed /\ req[r].pc = "revoke"
  BY DEF IInv, Revoke, At
<1>2. req[r].on \in Person /\ req \in [Request -> RequestRecord] /\ g \in Group
  BY <1>1, RequestFacts, AlwaysGroups
<1>3. rest \in SUBSET Group /\ more \in SUBSET Group /\ g \in more
  BY <1>1, <1>2, RequestFacts
<1>4. /\ next \in {"recheck", "revoke", "final", "idle"}
      /\ next = "recheck" <=> g = "admin"
      /\ next = "revoke" => rest # {}
  BY DEF AfterRevoke
<1>5. /\ Taking(r, g)
      /\ \/ next = "idle" /\ Answer(r)
         \/ next # "idle" /\ req' = [req EXCEPT ![r].pc = next, ![r].todo = rest,
                                                ![r].done = more]
  BY <1>1, <1>2 DEF Revoke, RequestRecord
<1> HIDE DEF g, next, rest, more
<1>6. /\ req' \in [Request -> RequestRecord]
      /\ \A s \in Request : Sound(req'[s])
      /\ \A s \in Request : s # r => req'[s] = req[s]
      /\ g = "admin" => req'[r].pc = "recheck"
  <2>1. CASE next = "idle" /\ Answer(r)
    BY <1>1, <1>4, <2>1, AnswerFacts
  <2>2. CASE next # "idle" /\ req' = [req EXCEPT ![r].pc = next, ![r].todo = rest,
                                                 ![r].done = more]
    <3>1. Fits(r, next, rest, more)
      BY <1>2, <1>3, <1>4 DEF Fits, Pc
    <3>2. QED BY <1>1, <1>4, <2>2, <3>1, WorkFacts
  <2>3. QED BY <1>5, <2>1, <2>2
<1>7. groups' \in [Person -> SUBSET Group] /\ (g # "admin" => Admins(groups') = Admins(groups))
  BY <1>1, <1>2, <1>5, TakingFacts
<1>8. Typed'
  BY <1>1, <1>6, <1>7, Kept DEF Typed, Revoke
<1>9. \/ WillGiveBack(req'[r])
      \/ Admins(groups') = Admins(groups) /\ ~WillGiveBack(req[r])
  BY <1>1, <1>6, <1>7 DEF WillGiveBack
<1>10. unguarded => unguarded'
  BY DEF Revoke
<1>11. QED BY <1>6, <1>8, <1>9, <1>10, OwedKept DEF IInv

\* The admins are counted again: there is one, or one is given back.
LEMMA RecheckKeeps ==
  ASSUME IInv, NEW r \in Request, Recheck(r)
  PROVE  IInv'
<1>1. Typed /\ req[r].pc = "recheck"
  BY DEF IInv, Recheck, At
<1>2. /\ req[r].on \in Person /\ req \in [Request -> RequestRecord]
      /\ req[r].done \in SUBSET Group /\ "admin" \in req[r].done
      /\ req[r].todo \in SUBSET Group
  BY <1>1, RequestFacts
<1>3. GivenBack(r) \in SUBSET Group /\ "admin" \in GivenBack(r)
  BY <1>2 DEF GivenBack, Group
<1>4. \/ req' = [req EXCEPT ![r].pc = "giveBack", ![r].todo = GivenBack(r),
                            ![r].done = req[r].done]
      \/ Admins(groups) # {} /\ Answer(r)
      \/ Admins(groups) # {} /\ req' = [req EXCEPT ![r].pc = "final", ![r].todo = req[r].todo,
                                                   ![r].done = req[r].done]
  BY <1>1, <1>2 DEF Recheck, Work, Goto, RequestRecord
<1>5. /\ req' \in [Request -> RequestRecord]
      /\ \A s \in Request : Sound(req'[s])
      /\ \A s \in Request : s # r => req'[s] = req[s]
      /\ Admins(groups) # {} \/ WillGiveBack(req'[r])
  <2>1. "giveBack" \in Pc /\ "final" \in Pc
    BY DEF Pc
  <2>2. CASE req' = [req EXCEPT ![r].pc = "giveBack", ![r].todo = GivenBack(r),
                                ![r].done = req[r].done]
    <3>1. Fits(r, "giveBack", GivenBack(r), req[r].done)
      BY <1>2, <1>3, <2>1 DEF Fits
    <3>2. req'[r].pc = "giveBack" /\ req'[r].todo = GivenBack(r)
      BY <1>1, <2>2, <3>1, WorkFacts
    <3>3. WillGiveBack(req'[r])
      BY <1>3, <3>2 DEF WillGiveBack
    <3>4. QED BY <1>1, <2>2, <3>1, <3>3, WorkFacts
  <2>3. CASE Admins(groups) # {} /\ req' = [req EXCEPT ![r].pc = "final",
                                              ![r].todo = req[r].todo, ![r].done = req[r].done]
    <3>1. Fits(r, "final", req[r].todo, req[r].done)
      BY <1>2, <2>1 DEF Fits
    <3>2. QED BY <1>1, <2>3, <3>1, WorkFacts
  <2>4. CASE Admins(groups) # {} /\ Answer(r)
    BY <1>1, <2>4, AnswerFacts
  <2>5. QED BY <1>4, <2>2, <2>3, <2>4
<1>6. Typed'
  BY <1>1, <1>5, Kept DEF Typed, Recheck
<1>7. Admins(groups') = Admins(groups) /\ (unguarded => unguarded')
  BY DEF Recheck, Admins
<1>8. QED BY <1>5, <1>6, <1>7, OwedKept DEF IInv

\* Groups are given back, the widest first, so that the admin group is still to
\* come after the member group.
LEMMA GiveBackKeeps ==
  ASSUME IInv, NEW r \in Request, GiveBack(r)
  PROVE  IInv'
<1> DEFINE g == Widest(req[r].todo)
           rest == req[r].todo \ {g}
<1>1. Typed /\ req[r].pc = "giveBack"
  BY DEF IInv, GiveBack, At
<1>2. /\ req[r].on \in Person /\ req \in [Request -> RequestRecord] /\ g \in Group
      /\ req[r].todo \in SUBSET Group /\ req[r].todo # {}
      /\ req[r].done \in SUBSET Group /\ "admin" \in req[r].done
  BY <1>1, RequestFacts, AlwaysGroups
<1>3. g \in req[r].todo /\ ("admin" \in req[r].todo => g \in {"member", "admin"})
  BY <1>2, WidestIn
<1>4. rest \in SUBSET Group /\ ("admin" \in req[r].todo => g = "admin" \/ "admin" \in rest)
  BY <1>2, <1>3
<1>5. /\ Adding(r, g)
      /\ \/ rest = {} /\ Answer(r)
         \/ rest # {} /\ req' = [req EXCEPT ![r].pc = "giveBack", ![r].todo = rest,
                                            ![r].done = req[r].done]
  <2>1. req[r].todo = {g} <=> rest = {}
    BY <1>3
  <2>2. QED BY <1>1, <1>2, <2>1 DEF GiveBack, Work, RequestRecord
<1> HIDE DEF g, rest
<1>6. /\ req' \in [Request -> RequestRecord]
      /\ \A s \in Request : Sound(req'[s])
      /\ \A s \in Request : s # r => req'[s] = req[s]
      /\ "admin" \in rest => WillGiveBack(req'[r])
  <2>1. CASE rest = {} /\ Answer(r)
    BY <1>1, <2>1, AnswerFacts
  <2>2. CASE rest # {} /\ req' = [req EXCEPT ![r].pc = "giveBack", ![r].todo = rest,
                                             ![r].done = req[r].done]
    <3>1. Fits(r, "giveBack", rest, req[r].done)
      BY <1>2, <1>4, <2>2 DEF Fits, Pc
    <3>2. req'[r].pc = "giveBack" /\ req'[r].todo = rest
      BY <1>1, <2>2, <3>1, WorkFacts
    <3>3. "admin" \in rest => WillGiveBack(req'[r])
      BY <3>2 DEF WillGiveBack
    <3>4. QED BY <1>1, <2>2, <3>1, <3>3, WorkFacts
  <2>3. QED BY <1>5, <2>1, <2>2
<1>7. /\ groups' \in [Person -> SUBSET Group]
      /\ Admins(groups) \subseteq Admins(groups')
      /\ g = "admin" => Admins(groups') # {}
  BY <1>1, <1>2, <1>5, AddingFacts
<1>8. Typed'
  BY <1>1, <1>6, <1>7, Kept DEF Typed, GiveBack
<1>9. \/ WillGiveBack(req'[r])
      \/ Admins(groups') # {}
      \/ Admins(groups') = Admins(groups) /\ ~WillGiveBack(req[r])
  BY <1>1, <1>4, <1>6, <1>7 DEF WillGiveBack
<1>10. unguarded => unguarded'
  BY DEF GiveBack
<1>11. QED BY <1>6, <1>8, <1>9, <1>10, OwedKept DEF IInv

\* The member group goes last.
LEMMA FinalKeeps ==
  ASSUME IInv, NEW r \in Request, Final(r)
  PROVE  IInv'
<1>1. Typed /\ req[r].pc = "final" /\ "member" \in Group /\ "member" # "admin"
  BY DEF IInv, Final, At, Group
<1>2. /\ req' \in [Request -> RequestRecord]
      /\ \A s \in Request : Sound(req'[s])
      /\ \A s \in Request : s # r => req'[s] = req[s]
  BY <1>1, AnswerFacts DEF Final
<1>3. groups' \in [Person -> SUBSET Group] /\ Admins(groups') = Admins(groups)
  BY <1>1, TakingFacts DEF Final
<1>4. Typed'
  BY <1>1, <1>2, <1>3, Kept DEF Typed, Final
<1>5. ~WillGiveBack(req[r]) /\ (unguarded => unguarded')
  BY <1>1 DEF WillGiveBack, Final
<1>6. QED BY <1>2, <1>3, <1>4, <1>5, OwedKept DEF IInv

\* An addition that failed is taken back; an admin taken back is a recorded loss.
LEMMA TakeBackKeeps ==
  ASSUME IInv, NEW r \in Request, TakeBack(r)
  PROVE  IInv'
<1> DEFINE g == Narrowest(req[r].done)
           less == req[r].done \ {g}
<1>1. Typed /\ req[r].pc = "takeBack"
  BY DEF IInv, TakeBack, At
<1>2. /\ req[r].on \in Person /\ req \in [Request -> RequestRecord] /\ g \in Group
      /\ less \in SUBSET Group /\ req[r].todo \in SUBSET Group
  BY <1>1, RequestFacts, AlwaysGroups
<1>3. /\ Taking(r, g)
      /\ \/ Answer(r)
         \/ req' = [req EXCEPT ![r].pc = "takeBack", ![r].todo = req[r].todo, ![r].done = less]
  <2>1. /\ Taking(r, g)
        /\ Answer(r) \/ req' = [req EXCEPT ![r].done = less]
    BY DEF TakeBack
  <2>2. req' = [req EXCEPT ![r].done = less]
          => req' = [req EXCEPT ![r].pc = "takeBack", ![r].todo = req[r].todo, ![r].done = less]
    <3> HIDE DEF g, less
    <3>1. ASSUME req' = [req EXCEPT ![r].done = less]
          PROVE  req' = [req EXCEPT ![r].pc = req[r].pc, ![r].todo = req[r].todo,
                                    ![r].done = less]
      BY <1>2, <3>1, TodoKept
    <3>2. QED BY <1>1, <3>1
  <2>3. QED BY <2>1, <2>2
<1> HIDE DEF g, less
<1>4. /\ req' \in [Request -> RequestRecord]
      /\ \A s \in Request : Sound(req'[s])
      /\ \A s \in Request : s # r => req'[s] = req[s]
  <2>1. Fits(r, "takeBack", req[r].todo, less)
    BY <1>2 DEF Fits, Pc
  <2>2. CASE Answer(r)
    BY <1>1, <2>2, AnswerFacts
  <2>3. CASE req' = [req EXCEPT ![r].pc = "takeBack", ![r].todo = req[r].todo, ![r].done = less]
    BY <1>1, <2>1, <2>3, WorkFacts
  <2>4. QED BY <1>3, <2>2, <2>3
<1>5. groups' \in [Person -> SUBSET Group] /\ (g # "admin" => Admins(groups') = Admins(groups))
  BY <1>1, <1>2, <1>3, TakingFacts
<1>6. unguarded' \in BOOLEAN /\ (unguarded => unguarded') /\ (g = "admin" => unguarded')
  <2>1. unguarded' = (unguarded \/ g = "admin")
    BY Zenon DEF TakeBack, g
  <2>2. QED BY <1>1, <2>1, Zenon DEF Typed
<1>7. Typed'
  BY <1>1, <1>4, <1>5, <1>6, Kept DEF TakeBack
<1>8. ~WillGiveBack(req[r])
  BY <1>1 DEF WillGiveBack
<1>9. QED BY <1>4, <1>5, <1>6, <1>7, <1>8, OwedKept DEF IInv

\* A call throws.  Whatever of it took effect, an admin that is lost is recorded.
LEMMA ThrowsKeeps ==
  ASSUME IInv, NEW r \in Request, Throws(r)
  PROVE  IInv'
<1> DEFINE w == Widest(req[r].todo)
           rest == req[r].todo \ {w}
           n == Narrowest(req[r].done)
           less == req[r].done \ {n}
<1>1. /\ Typed /\ req[r].pc \in Pc \ {"idle", "read", "guard"}
      /\ "member" \in Group /\ "member" # "admin"
  BY RequestFacts DEF IInv, Throws, Group
<1>2. /\ req[r].on \in Person /\ req \in [Request -> RequestRecord]
      /\ req[r].todo \in SUBSET Group /\ req[r].done \in SUBSET Group
      /\ req[r].pc \in {"grant", "revoke", "giveBack"} => req[r].todo # {}
      /\ req[r].pc \in {"recheck", "giveBack"} => "admin" \in req[r].done
      /\ w \in Group /\ n \in Group /\ Narrowest(req[r].todo) \in Group
      /\ rest \in SUBSET Group /\ less \in SUBSET Group
  BY <1>1, RequestFacts, AlwaysGroups
<1>3. /\ req' \in [Request -> RequestRecord]
      /\ \A s \in Request : Sound(req'[s])
      /\ \A s \in Request : s # r => req'[s] = req[s]
  <2>1. \/ req' = [req EXCEPT ![r].pc = "takeBack", ![r].todo = req[r].todo,
                              ![r].done = req[r].done]
        \/ rest # {} /\ req' = [req EXCEPT ![r].pc = "giveBack", ![r].todo = rest,
                                           ![r].done = req[r].done]
              /\ req[r].pc = "giveBack"
        \/ req' = [req EXCEPT ![r].done = less] /\ req[r].pc = "takeBack"
        \/ Answer(r)
    <3>1. CASE At(r, "grant") /\ req[r].done # {}
      <4>1. Goto(r, "takeBack")
        BY <3>1 DEF Throws, At
      <4>2. QED BY <1>2, <4>1 DEF Goto, RequestRecord
    <3>2. CASE At(r, "giveBack") /\ req[r].todo # {w}
      <4>1. Work(r, "giveBack", rest)
        BY <3>2 DEF Throws, At
      <4>2. rest # {}
        BY <1>2, <3>2, WidestIn DEF At
      <4>3. QED BY <1>2, <3>2, <4>1, <4>2 DEF Work, RequestRecord, At
    <3>3. CASE At(r, "takeBack") /\ req[r].done # {n}
      BY <3>3 DEF Throws, At
    <3>4. CASE /\ ~(At(r, "grant") /\ req[r].done # {})
               /\ ~(At(r, "giveBack") /\ req[r].todo # {w})
               /\ ~(At(r, "takeBack") /\ req[r].done # {n})
      BY <3>4 DEF Throws
    <3>5. QED BY <3>1, <3>2, <3>3, <3>4
  <2> HIDE DEF rest, less
  <2>2. CASE req' = [req EXCEPT ![r].pc = "takeBack", ![r].todo = req[r].todo,
                                ![r].done = req[r].done]
    <3>1. Fits(r, "takeBack", req[r].todo, req[r].done)
      BY <1>2 DEF Fits, Pc
    <3>2. QED BY <1>1, <2>2, <3>1, WorkFacts
  <2>3. CASE /\ rest # {} /\ req[r].pc = "giveBack"
             /\ req' = [req EXCEPT ![r].pc = "giveBack", ![r].todo = rest,
                                   ![r].done = req[r].done]
    <3>1. Fits(r, "giveBack", rest, req[r].done)
      BY <1>2, <2>3 DEF Fits, Pc
    <3>2. QED BY <1>1, <2>3, <3>1, WorkFacts
  <2>4. CASE req' = [req EXCEPT ![r].done = less] /\ req[r].pc = "takeBack"
    <3> DEFINE q == [req[r] EXCEPT !.done = less]
    <3>1. q \in RequestRecord /\ q.pc = "takeBack" /\ q.on = req[r].on
      BY <1>2, <2>4 DEF RequestRecord
    <3>2. req' = [req EXCEPT ![r] = q]
      BY <2>4
    <3>3. Sound(q)
      BY <1>2, <3>1 DEF Sound
    <3> HIDE DEF q
    <3>4. QED BY <1>1, <3>1, <3>2, <3>3, ReqReplaced
  <2>5. CASE Answer(r)
    BY <1>1, <2>5, AnswerFacts
  <2>6. QED BY <2>1, <2>2, <2>3, <2>4, <2>5
<1>4. Effect(r) \/ UNCHANGED groups
  BY DEF Throws
<1>5. /\ groups' \in [Person -> SUBSET Group]
      /\ \/ Guarding(r)
         \/ Admins(groups') # {}
         \/ Admins(groups') = Admins(groups)
  <2>1. CASE UNCHANGED groups
    BY <1>1, <2>1 DEF Typed, Admins
  <2>2. CASE Effect(r) /\ req[r].pc \in {"grant", "giveBack"}
    <3>1. Adding(r, w)
      BY <2>2 DEF Effect, At
    <3> HIDE DEF w
    <3>2. QED BY <1>1, <1>2, <3>1, AddingFacts
  <2>3. CASE Effect(r) /\ req[r].pc = "revoke"
    <3>1. Taking(r, Narrowest(req[r].todo))
      BY <2>3 DEF Effect, At
    <3>2. QED BY <1>1, <1>2, <2>3, <3>1, TakingFacts DEF Guarding, At
  <2>4. CASE Effect(r) /\ req[r].pc = "takeBack"
    <3>1. Taking(r, n)
      BY <2>4 DEF Effect, At
    <3>2. QED BY <1>1, <1>2, <2>4, <3>1, TakingFacts DEF Guarding, At
  <2>5. CASE Effect(r) /\ req[r].pc = "final"
    <3>1. Taking(r, "member")
      BY <2>5 DEF Effect, At
    <3>2. QED BY <1>1, <3>1, TakingFacts
  <2>6. CASE Effect(r) /\ req[r].pc \notin {"grant", "giveBack", "revoke", "takeBack", "final"}
    BY <2>1, <2>6 DEF Effect, At
  <2>7. QED BY <1>4, <2>1, <2>2, <2>3, <2>4, <2>5, <2>6
<1>6. unguarded' \in BOOLEAN /\ (unguarded => unguarded') /\ (Guarding(r) => unguarded')
  <2>1. unguarded' = (unguarded \/ Guarding(r))
    BY Zenon DEF Throws
  <2>2. QED BY <1>1, <2>1, Zenon DEF Typed
<1>7. ~Guarding(r) => ~WillGiveBack(req[r])
  BY DEF Guarding, WillGiveBack
<1>8. half' \in BOOLEAN
  <2>1. \/ half' = (half \/ (At(r, "grant") /\ req[r].done # {}))
        \/ half' = (half \/ At(r, "takeBack"))
    BY Zenon DEF Throws
  <2>2. QED BY <1>1, <2>1, Zenon DEF Typed
<1>9. Typed'
  <2>1. /\ {started, faults}' \subseteq Nat
        /\ overlapped' \subseteq Person
    BY <1>1 DEF Throws, Typed
  <2>2. QED BY <1>3, <1>5, <1>6, <1>8, <2>1 DEF Typed
<1>10. QED BY <1>3, <1>5, <1>6, <1>7, <1>9, OwedKept DEF IInv

\* The process dies: an admin that it owed is recorded.
LEMMA DiesKeeps ==
  ASSUME IInv, NEW r \in Request, Dies(r)
  PROVE  IInv'
<1>1. Typed
  BY DEF IInv
<1>2. /\ req' \in [Request -> RequestRecord]
      /\ \A s \in Request : Sound(req'[s])
      /\ \A s \in Request : s # r => req'[s] = req[s]
  BY <1>1, AnswerFacts DEF Dies
<1>3. unguarded' \in BOOLEAN /\ (unguarded => unguarded')
      /\ (req[r].pc \in {"recheck", "giveBack"} => unguarded')
  <2>1. unguarded' = (unguarded \/ req[r].pc \in {"recheck", "giveBack"})
    BY Zenon DEF Dies
  <2>2. QED BY <1>1, <2>1, Zenon DEF Typed
<1>4. Typed'
  <2>1. {started, faults}' \subseteq Nat /\ UNCHANGED <<groups, overlapped, half>>
    BY <1>1 DEF Dies, Typed
  <2>2. QED BY <1>1, <1>2, <1>3, <2>1 DEF Typed
<1>5. unguarded' \/ (Admins(groups') = Admins(groups) /\ ~WillGiveBack(req[r]))
  BY <1>3 DEF Dies, WillGiveBack, Admins
<1>6. QED BY <1>2, <1>3, <1>4, <1>5, OwedKept DEF IInv

-------------------------------------------------------------------------------
(* The invariant *)

\* Every step keeps the invariant.
LEMMA StepKeeps == IInv /\ [Next]_vars => IInv'
<1> SUFFICES ASSUME IInv, [Next]_vars PROVE IInv'
  OBVIOUS
<1>1. CASE UNCHANGED vars
  BY <1>1 DEF vars, IInv, Typed, Owed, Admins
<1>2. ASSUME NEW r \in Request, Step(r) PROVE IInv'
  BY <1>2, ReadKeeps, GuardKeeps, GrantKeeps, RevokeKeeps, RecheckKeeps, GiveBackKeeps,
     FinalKeeps, TakeBackKeeps DEF Step
<1>3. QED BY <1>1, <1>2, BeginKeeps, ThrowsKeeps, DiesKeeps DEF Next

\* It holds at the start: nobody is at work and there is an admin.
LEMMA InitIInv == Init => IInv
<1> SUFFICES ASSUME Init PROVE IInv
  OBVIOUS
<1>1. Idle \in RequestRecord /\ Sound(Idle)
  BY DEF Idle, RequestRecord, Sound, Pc, Kind
<1>2. groups \in [Person -> SUBSET Group]
  BY DEF Init, Group
<1>3. req \in [Request -> RequestRecord] /\ \A r \in Request : Sound(req[r])
  BY <1>1 DEF Init
<1>4. Typed
  <2>1. {started, faults} \subseteq Nat /\ overlapped \subseteq Person
    BY DEF Init
  <2>2. {half, unguarded} \subseteq BOOLEAN
    BY DEF Init
  <2>3. QED BY <1>2, <1>3, <2>1, <2>2 DEF Typed
<1>5. Owed
  BY DEF Init, Owed
<1>6. QED BY <1>4, <1>5 DEF IInv

\* The invariant holds throughout.
THEOREM Invariance == Spec => []IInv
<1>1. QED BY InitIInv, StepKeeps, PTL DEF Spec

\* The variables keep their types, and only a person whose admin group was taken
\* is given groups back, for any number of people, requests and failures.
THEOREM TypeCorrect == Spec => []TypeOK
<1>1. IInv => TypeOK
  BY DEF IInv, Typed, TypeOK, Sound, RequestRecord, Pc
<1>2. QED BY <1>1, Invariance, PTL

\* The organisation keeps an admin of its own, however many leaves, removals and
\* demotions interleave, at any number of replicas.
THEOREM AdminAlwaysLeft == Spec => []AdminLeft
<1>1. IInv => AdminLeft
  BY DEF IInv, Owed, AdminLeft, Running, WillGiveBack
<1>2. QED BY <1>1, Invariance, PTL

-------------------------------------------------------------------------------
(* The groups of one person, as the one request about them sees them *)

Leaving == {"demote", "remove", "leave"}
Wide == {"admin", "team"}

(* What a request of each kind is doing at each step, whatever the groups are. *)
Planned(q) ==
  /\ q.pc = "read" => q.done = {}
  /\ q.pc = "guard" => q.kind \in Leaving /\ q.done = {}
  /\ q.pc = "grant" => /\ q.kind \in {"add", "promote", "joinTeam", "demote"}
                       /\ q.kind = "demote" => q.todo = {"member"} /\ q.done = {}
  /\ q.pc = "revoke" => /\ q.kind \in Leaving \cup {"quitTeam"}
                        /\ q.todo \cup q.done \subseteq Wide
                        /\ q.kind = "demote" => q.todo = {"admin"} /\ q.done = {}
                        /\ q.kind = "quitTeam" => q.todo = {"team"}
  /\ q.pc = "recheck" => /\ q.kind \in Leaving /\ q.done \subseteq Wide
                         /\ q.kind = "demote" => q.done = {"admin"}
  /\ q.pc = "giveBack" => q.kind \in Leaving
  /\ q.pc = "final" => q.kind \in {"remove", "leave"}
  /\ q.pc = "takeBack" => q.done # {}

(* What the request found is still there, or it has taken it away itself. *)
Undoable(q, G) ==
  /\ q.pc = "guard" => q.had = G
  /\ q.pc = "grant" /\ q.kind = "demote" => q.had \subseteq G
  /\ q.pc \in {"revoke", "recheck"} /\ q.kind \in Leaving => q.had \subseteq G \cup q.done

(* A change that is undone: what was found is there, or to be given back. *)
Spared(q) == IF q.kind = "leave" THEN {"team"} ELSE {}
Returning(q, G) == q.pc = "giveBack" => q.had \ Spared(q) \subseteq G \cup q.todo

(* The member group comes first and goes last. *)
Orderly(q, G) ==
  /\ q.pc = "grant" => /\ "member" \in G \/ "member" \in q.todo
                       /\ q.kind = "demote" => "member" \in G
                       /\ "member" \in q.todo /\ q.kind # "demote" => G = {} /\ q.done = {}
                       /\ "member" \in q.done => G \subseteq q.done
  /\ q.pc = "takeBack" => ("member" \in q.done => G \subseteq q.done)
  /\ q.pc = "revoke" => /\ q.kind \in Leaving => "member" \in G
                        /\ q.kind \in {"remove", "leave"} => G \cap Wide \subseteq q.todo
  /\ q.pc = "recheck" => /\ "member" \in G
                         /\ q.kind \in {"remove", "leave"} => G \cap Wide = {}
  /\ q.pc = "giveBack" => "member" \in G
  /\ q.pc = "final" => G \cap Wide = {}

NestedIn(G) == G \cap Wide # {} => "member" \in G

(* Two requests about one person at once are remembered. *)
OneEach ==
  \A r, s \in Request :
    req[r].pc # "idle" /\ req[s].pc # "idle" /\ r # s /\ req[r].on = req[s].on
      => req[r].on \in overlapped

Tidy ==
  /\ OneEach
  /\ \A r \in Request : Planned(req[r])
  /\ \A r \in Request : req[r].pc # "idle" /\ req[r].on \notin overlapped
       => Undoable(req[r], groups[req[r].on])
  /\ ~unguarded => \A r \in Request : req[r].pc # "idle" /\ req[r].on \notin overlapped
       => Returning(req[r], groups[req[r].on])
  /\ ~half => \A r \in Request : req[r].pc # "idle" /\ req[r].on \notin overlapped \cup PlatformAdmin
       => Orderly(req[r], groups[req[r].on])
  /\ ~half => \A p \in Person \ (overlapped \cup PlatformAdmin) : NestedIn(groups[p])

\* What the invariant says of the request that takes a step.
LEMMA Mine ==
  ASSUME Typed, Tidy, NEW r \in Request, req[r].pc # "idle"
  PROVE  /\ req[r].on \in Person /\ req[r] \in RequestRecord /\ groups[req[r].on] \in SUBSET Group
         /\ Planned(req[r])
         /\ req[r].on \notin overlapped => Undoable(req[r], groups[req[r].on])
         /\ ~unguarded /\ req[r].on \notin overlapped => Returning(req[r], groups[req[r].on])
         /\ ~half /\ req[r].on \notin overlapped \cup PlatformAdmin
              => Orderly(req[r], groups[req[r].on]) /\ NestedIn(groups[req[r].on])
<1>1. req[r].on \in Person
  BY DEF Typed, Sound
<1>2. QED BY <1>1 DEF Typed, Tidy

\* A step of request r leaves it as q and the groups of its person as G.
Becomes(r, q, G) ==
  /\ req' = [req EXCEPT ![r] = q]
  /\ groups' = [groups EXCEPT ![req[r].on] = G]

\* Only what the request leaves behind has to be looked at.
LEMMA TidyKept ==
  ASSUME Typed, Tidy, NEW r \in Request, req[r].pc # "idle",
         NEW q, NEW G \in SUBSET Group, Becomes(r, q, G),
         q.pc = "idle" \/ q.on = req[r].on,
         overlapped' = overlapped, half => half', unguarded => unguarded',
         Planned(q),
         req[r].on \notin overlapped => Undoable(q, G),
         ~unguarded' /\ req[r].on \notin overlapped => Returning(q, G),
         ~half' /\ req[r].on \notin overlapped \cup PlatformAdmin => Orderly(q, G) /\ NestedIn(G)
  PROVE  Tidy'
<1> DEFINE p == req[r].on
<1>1. /\ p \in Person
      /\ req'[r] = q /\ groups'[p] = G
      /\ \A s \in Request : s # r => req'[s] = req[s]
      /\ \A o \in Person : o # p => groups'[o] = groups[o]
      /\ \A s \in Request : req[s].pc # "idle" => req[s].on \in Person
  BY DEF Typed, Sound, Becomes
<1>2. \A s \in Request : s # r /\ req[s].pc # "idle" /\ req[s].on \notin overlapped => req[s].on # p
  BY DEF Tidy, OneEach
<1> HIDE DEF p
<1>3. OneEach'
  BY <1>1 DEF Tidy, OneEach, p
<1>4. ASSUME NEW s \in Request, s # r, req[s].pc # "idle", req[s].on \notin overlapped
      PROVE  req'[s] = req[s] /\ groups'[req[s].on] = groups[req[s].on]
  BY <1>1, <1>2, <1>4
<1>5. \A s \in Request : Planned(req'[s])
  BY <1>1 DEF Tidy
<1>6. ASSUME NEW s \in Request, req'[s].pc # "idle", req'[s].on \notin overlapped'
      PROVE  /\ Undoable(req'[s], groups'[req'[s].on])
             /\ ~unguarded' => Returning(req'[s], groups'[req'[s].on])
             /\ ~half' /\ req'[s].on \notin PlatformAdmin => Orderly(req'[s], groups'[req'[s].on])
  <2>1. CASE s = r
    BY <1>1, <1>6, <2>1 DEF p
  <2>2. CASE s # r
    <3>1. req'[s] = req[s]
      BY <1>1, <2>2
    <3>2. groups'[req[s].on] = groups[req[s].on]
      BY <1>4, <1>6, <2>2, <3>1
    <3>3. QED BY <1>6, <3>1, <3>2 DEF Tidy
  <2>3. QED BY <2>1, <2>2
<1>7. ASSUME ~half', NEW o \in Person \ (overlapped \cup PlatformAdmin)'
      PROVE  NestedIn(groups'[o])
  BY <1>1, <1>7 DEF Tidy, p
<1>8. QED BY <1>3, <1>5, <1>6, <1>7 DEF Tidy

\* A request that is answered leaves only its person's groups behind.
LEMMA TidyAnswered ==
  ASSUME Typed, Tidy, NEW r \in Request, req[r].pc # "idle", Answer(r),
         NEW G \in SUBSET Group, groups' = [groups EXCEPT ![req[r].on] = G],
         overlapped' = overlapped, half => half', unguarded => unguarded',
         ~half' /\ req[r].on \notin overlapped \cup PlatformAdmin => NestedIn(G)
  PROVE  Tidy'
<1>1. Becomes(r, Idle, G)
  BY DEF Becomes, Answer
<1>2. Idle.pc = "idle" /\ Planned(Idle) /\ Undoable(Idle, G) /\ Returning(Idle, G)
      /\ Orderly(Idle, G)
  BY DEF Idle, Planned, Undoable, Returning, Orderly
<1>3. QED BY <1>1, <1>2, TidyKept

(* A step leaves request r as n, at pc with todo and done, and the groups of  *)
(* its person as G.                                                           *)
Leaves(r, n, G, pc, todo, done) ==
  /\ Becomes(r, n, G)
  /\ n.pc = pc /\ n.todo = todo /\ n.done = done
  /\ n.kind = req[r].kind /\ n.on = req[r].on /\ n.had = req[r].had

\* A step writes it in one of five forms.  It goes elsewhere, with other work.
LEMMA WorkForm ==
  ASSUME NEW r \in Request, req \in [Request -> RequestRecord], NEW G, NEW pc, NEW todo,
         req' = [req EXCEPT ![r].pc = pc, ![r].todo = todo],
         groups' = [groups EXCEPT ![req[r].on] = G]
  PROVE  \E n : Leaves(r, n, G, pc, todo, req[r].done)
<1> DEFINE n == [req[r] EXCEPT !.pc = pc, !.todo = todo]
<1>1. Leaves(r, n, G, pc, todo, req[r].done)
  BY DEF Leaves, Becomes, RequestRecord
<1>2. QED BY <1>1

\* Only what it has done changes.
LEMMA DoneForm ==
  ASSUME NEW r \in Request, req \in [Request -> RequestRecord], NEW G, NEW done,
         req' = [req EXCEPT ![r].done = done],
         groups' = [groups EXCEPT ![req[r].on] = G]
  PROVE  \E n : Leaves(r, n, G, req[r].pc, req[r].todo, done)
<1> DEFINE n == [req[r] EXCEPT !.done = done]
<1>1. Leaves(r, n, G, req[r].pc, req[r].todo, done)
  BY DEF Leaves, Becomes, RequestRecord
<1>2. QED BY <1>1

\* Only where it is changes.
LEMMA GotoForm ==
  ASSUME NEW r \in Request, req \in [Request -> RequestRecord], NEW G, NEW pc,
         req' = [req EXCEPT ![r].pc = pc],
         groups' = [groups EXCEPT ![req[r].on] = G]
  PROVE  \E n : Leaves(r, n, G, pc, req[r].todo, req[r].done)
<1> DEFINE n == [req[r] EXCEPT !.pc = pc]
<1>1. Leaves(r, n, G, pc, req[r].todo, req[r].done)
  BY DEF Leaves, Becomes, RequestRecord
<1>2. QED BY <1>1

\* It goes on with the rest of its list.
LEMMA GrantForm ==
  ASSUME NEW r \in Request, req \in [Request -> RequestRecord], NEW G, NEW todo, NEW done,
         req' = [req EXCEPT ![r].todo = todo, ![r].done = done],
         groups' = [groups EXCEPT ![req[r].on] = G]
  PROVE  \E n : Leaves(r, n, G, req[r].pc, todo, done)
<1> DEFINE n == [req[r] EXCEPT !.todo = todo, !.done = done]
<1>1. Leaves(r, n, G, req[r].pc, todo, done)
  BY DEF Leaves, Becomes, RequestRecord
<1>2. QED BY <1>1

\* It goes on with the rest of its list, or elsewhere.
LEMMA RevokeForm ==
  ASSUME NEW r \in Request, req \in [Request -> RequestRecord], NEW G, NEW pc, NEW todo, NEW done,
         req' = [req EXCEPT ![r].todo = todo, ![r].done = done, ![r].pc = pc],
         groups' = [groups EXCEPT ![req[r].on] = G]
  PROVE  \E n : Leaves(r, n, G, pc, todo, done)
<1> DEFINE n == [req[r] EXCEPT !.todo = todo, !.done = done, !.pc = pc]
<1>1. Leaves(r, n, G, pc, todo, done)
  BY DEF Leaves, Becomes, RequestRecord
<1>2. QED BY <1>1

\* A group is added to, or taken from, the groups of the request's person.
LEMMA GroupForms ==
  ASSUME Typed, NEW r \in Request, req[r].pc # "idle", NEW g \in Group
  PROVE  /\ Adding(r, g) => groups' = [groups EXCEPT ![req[r].on] = groups[req[r].on] \cup {g}]
         /\ Taking(r, g) => groups' = [groups EXCEPT ![req[r].on] = groups[req[r].on] \ {g}]
         /\ UNCHANGED groups => groups' = [groups EXCEPT ![req[r].on] = groups[req[r].on]]
         /\ groups[req[r].on] \cup {g} \in SUBSET Group
         /\ groups[req[r].on] \ {g} \in SUBSET Group
<1>1. req[r].on \in Person /\ groups \in [Person -> SUBSET Group]
  BY DEF Typed, Sound
<1>2. QED BY <1>1 DEF Adding, Taking

\* A new request about a person another is about, is remembered.
LEMMA BeginTidy ==
  ASSUME Typed, Tidy, NEW r \in Request, NEW kind \in Kind, NEW p \in Person, Begin(r, kind, p)
  PROVE  Tidy'
<1> DEFINE q == [Idle EXCEPT !.pc = "read", !.kind = kind, !.on = p]
<1>1. /\ q.pc = "read" /\ q.on = p /\ q.done = {}
      /\ Planned(q) /\ \A G : Undoable(q, G) /\ Returning(q, G) /\ Orderly(q, G)
  BY DEF Idle, Planned, Undoable, Returning, Orderly
<1>2. req' = [req EXCEPT ![r] = q] /\ req[r].pc = "idle" /\ groups' = groups
      /\ half' = half /\ unguarded' = unguarded
  BY DEF Begin, At
<1> HIDE DEF q
<1>3. req'[r] = q /\ \A s \in Request : s # r => req'[s] = req[s]
  BY <1>2 DEF Typed
<1>4. /\ overlapped \subseteq overlapped'
      /\ (\E s \in Request : req[s].pc # "idle" /\ req[s].on = p) => p \in overlapped'
  BY DEF Begin, Running
<1>5. OneEach'
  BY <1>1, <1>2, <1>3, <1>4 DEF Tidy, OneEach
<1>6. \A s \in Request : Planned(req'[s])
  BY <1>1, <1>3 DEF Tidy
<1>7. ASSUME NEW s \in Request, req'[s].pc # "idle", req'[s].on \notin overlapped'
      PROVE  /\ Undoable(req'[s], groups'[req'[s].on])
             /\ ~unguarded' => Returning(req'[s], groups'[req'[s].on])
             /\ ~half' /\ req'[s].on \notin PlatformAdmin => Orderly(req'[s], groups'[req'[s].on])
  <2>1. CASE s = r
    BY <1>1, <1>3, <2>1
  <2>2. CASE s # r
    BY <1>2, <1>3, <1>4, <1>7, <2>2 DEF Tidy
  <2>3. QED BY <2>1, <2>2
<1>8. ASSUME ~half', NEW o \in Person \ (overlapped \cup PlatformAdmin)'
      PROVE  NestedIn(groups'[o])
  BY <1>2, <1>4, <1>8 DEF Tidy
<1>9. QED BY <1>5, <1>6, <1>7, <1>8 DEF Tidy

\* The request has read G, and goes to pc with todo.
Finds(r, G, pc, todo) ==
  req' = [req EXCEPT ![r].had = G, ![r].pc = pc, ![r].todo = todo]

Finding(r, n, G, pc, todo) ==
  /\ Becomes(r, n, G)
  /\ n.pc = pc /\ n.todo = todo /\ n.had = G
  /\ n.done = req[r].done /\ n.kind = req[r].kind /\ n.on = req[r].on

\* Reading its person's groups leaves the request with them, and with its plan.
LEMMA FoundForm ==
  ASSUME NEW r \in Request, req \in [Request -> RequestRecord], NEW G, NEW pc, NEW todo,
         Finds(r, G, pc, todo),
         groups' = [groups EXCEPT ![req[r].on] = G]
  PROVE  \E n : Finding(r, n, G, pc, todo)
<1> DEFINE n == [req[r] EXCEPT !.had = G, !.pc = pc, !.todo = todo]
<1>1. Becomes(r, n, G)
  BY DEF Becomes, Finds
<1>2. /\ n.pc = pc /\ n.todo = todo /\ n.had = G
      /\ n.done = req[r].done /\ n.kind = req[r].kind /\ n.on = req[r].on
  BY DEF RequestRecord
<1> HIDE DEF n
<1>3. QED BY <1>1, <1>2 DEF Finding

\* What is to be done follows from the groups read, and from nothing before.
LEMMA ReadTidy ==
  ASSUME Typed, Tidy, NEW r \in Request, Read(r)
  PROVE  Tidy'
<1> DEFINE p == req[r].on
           G == groups[p]
<1>1. /\ req[r].pc = "read" /\ groups' = groups
      /\ overlapped' = overlapped /\ half' = half /\ unguarded' = unguarded
  BY DEF Read, At
<1>2. /\ p \in Person /\ req[r] \in RequestRecord /\ G \in SUBSET Group
      /\ req[r].done = {} /\ req \in [Request -> RequestRecord]
      /\ ~half /\ p \notin overlapped \cup PlatformAdmin => NestedIn(G)
      /\ groups' = [groups EXCEPT ![p] = G]
  BY <1>1, Mine DEF Planned, Typed
<1>3. ASSUME NEW pc, NEW todo, Finds(r, G, pc, todo)
      PROVE  \E n : /\ Becomes(r, n, G)
                   /\ n.pc = pc /\ n.todo = todo /\ n.had = G
                   /\ n.done = {} /\ n.kind = req[r].kind /\ n.on = p
  <2> HIDE DEF G
  <2>1. \E n : Finding(r, n, G, pc, todo)
    BY <1>2, <1>3, FoundForm
  <2>2. QED BY <1>2, <2>1 DEF Finding
<1>4. CASE req[r].kind = "add" /\ ~InOrg(p)
  <2>1. PICK more \in SUBSET {"admin", "team"} : Finds(r, G, "grant", {"member"} \cup more)
    BY <1>1, <1>4 DEF Read, Finds
  <2>2. NestedIn(G) => G = {}
    BY <1>2, <1>4 DEF NestedIn, InOrg, Wide, Group
  <2>3. PICK n :
         /\ n.pc = "grant" /\ n.todo = {"member"} \cup more /\ n.kind = "add" /\ n.on = p
         /\ n.done = {} /\ Becomes(r, n, G)
    BY <1>3, <1>4, <2>1
  <2>4. Planned(n) /\ Undoable(n, G) /\ Returning(n, G)
    BY <2>3 DEF Planned, Undoable, Returning
  <2>5. NestedIn(G) => Orderly(n, G)
    BY <2>2, <2>3 DEF Orderly
  <2>6. QED BY <1>1, <1>2, <2>3, <2>4, <2>5, TidyKept
<1>5. CASE req[r].kind = "promote" /\ InOrg(p) /\ ~({"member", "admin"} \subseteq G)
  <2> DEFINE todo == {"member", "admin"} \ G
  <2>1. Finds(r, G, "grant", todo)
    BY <1>1, <1>5 DEF Read, Finds
  <2>2. NestedIn(G) => "member" \in G /\ "member" \notin todo
    BY <1>2, <1>5 DEF NestedIn, InOrg, Wide, Group
  <2> HIDE DEF todo
  <2>3. PICK n :
         /\ n.pc = "grant" /\ n.todo = todo /\ n.kind = "promote" /\ n.on = p
         /\ n.done = {} /\ Becomes(r, n, G)
    BY <1>3, <1>5, <2>1
  <2>4. Planned(n) /\ Undoable(n, G) /\ Returning(n, G)
    BY <2>3 DEF Planned, Undoable, Returning
  <2>5. NestedIn(G) => Orderly(n, G)
    BY <2>2, <2>3 DEF Orderly
  <2>6. QED BY <1>1, <1>2, <2>3, <2>4, <2>5, TidyKept
<1>6. CASE req[r].kind \in Leaving /\ "admin" \in G
  <2>1. Finds(r, G, "guard", {})
    BY <1>1, <1>6 DEF Read, Leaving, Finds
  <2>2. PICK n :
         /\ n.pc = "guard" /\ n.kind \in Leaving /\ n.on = p /\ n.had = G
         /\ n.done = {} /\ Becomes(r, n, G)
    BY <1>3, <1>6, <2>1
  <2>3. Planned(n) /\ Undoable(n, G) /\ Returning(n, G) /\ Orderly(n, G)
    BY <2>2 DEF Planned, Undoable, Returning, Orderly
  <2>4. QED BY <1>1, <1>2, <2>2, <2>3, TidyKept
<1>7. CASE req[r].kind \in {"remove", "leave"} /\ "admin" \notin G /\ InOrg(p)
  <2>1. IF "team" \in G THEN Finds(r, G, "revoke", {"team"}) ELSE Finds(r, G, "final", {})
    BY <1>1, <1>7 DEF Read, Finds
  <2>2. CASE "team" \in G
    <3>1. PICK n :
           /\ n.pc = "revoke" /\ n.kind \in {"remove", "leave"} /\ n.on = p /\ n.had = G
           /\ n.todo = {"team"} /\ n.done = {} /\ Becomes(r, n, G)
      BY <1>3, <1>7, <2>1, <2>2
    <3>2. Planned(n) /\ Undoable(n, G) /\ Returning(n, G)
      BY <3>1 DEF Planned, Undoable, Returning, Leaving, Wide
    <3>3. NestedIn(G) => Orderly(n, G)
      BY <1>7, <2>2, <3>1 DEF Orderly, NestedIn, Wide
    <3>4. QED BY <1>1, <1>2, <3>1, <3>2, <3>3, TidyKept
  <2>3. CASE "team" \notin G
    <3>1. PICK n :
           /\ n.pc = "final" /\ n.kind \in {"remove", "leave"} /\ n.on = p /\ n.had = G
           /\ n.todo = {} /\ n.done = {} /\ Becomes(r, n, G)
      BY <1>3, <1>7, <2>1, <2>3
    <3>2. Planned(n) /\ Undoable(n, G) /\ Returning(n, G)
      BY <3>1 DEF Planned, Undoable, Returning
    <3>3. Orderly(n, G)
      BY <1>7, <2>3, <3>1 DEF Orderly, Wide
    <3>4. QED BY <1>1, <1>2, <3>1, <3>2, <3>3, TidyKept
  <2>4. QED BY <2>2, <2>3
<1>8. CASE req[r].kind = "joinTeam" /\ (InOrg(p) \/ p \in PlatformAdmin)
  <2>1. Finds(r, G, "grant", {"team"})
    BY <1>1, <1>8 DEF Read, Finds
  <2>2. PICK n :
         /\ n.pc = "grant" /\ n.kind = "joinTeam" /\ n.on = p /\ n.had = G
         /\ n.todo = {"team"} /\ n.done = {} /\ Becomes(r, n, G)
    BY <1>3, <1>8, <2>1
  <2>3. Planned(n) /\ Undoable(n, G) /\ Returning(n, G)
    BY <2>2 DEF Planned, Undoable, Returning
  <2>4. NestedIn(G) /\ p \notin PlatformAdmin => Orderly(n, G)
    BY <1>8, <2>2 DEF Orderly, NestedIn, InOrg, Wide
  <2>5. QED BY <1>1, <1>2, <2>2, <2>3, <2>4, TidyKept
<1>9. CASE req[r].kind = "quitTeam"
  <2>1. Finds(r, G, "revoke", {"team"})
    BY <1>1, <1>9 DEF Read, Finds
  <2>2. PICK n :
         /\ n.pc = "revoke" /\ n.kind = "quitTeam" /\ n.on = p /\ n.had = G
         /\ n.todo = {"team"} /\ n.done = {} /\ Becomes(r, n, G)
    BY <1>3, <1>9, <2>1
  <2>3. Planned(n) /\ Undoable(n, G) /\ Returning(n, G) /\ Orderly(n, G)
    BY <2>2 DEF Planned, Undoable, Returning, Orderly, Leaving, Wide
  <2>4. QED BY <1>1, <1>2, <2>2, <2>3, TidyKept
<1>10. CASE Answer(r)
  BY <1>1, <1>2, <1>10, TidyAnswered
<1>11. \/ req[r].kind = "add" /\ ~InOrg(p)
       \/ req[r].kind = "promote" /\ InOrg(p) /\ ~({"member", "admin"} \subseteq G)
       \/ req[r].kind \in Leaving /\ "admin" \in G
       \/ req[r].kind \in {"remove", "leave"} /\ "admin" \notin G /\ InOrg(p)
       \/ req[r].kind = "joinTeam" /\ (InOrg(p) \/ p \in PlatformAdmin)
       \/ req[r].kind = "quitTeam"
       \/ Answer(r)
  BY DEF Read, Leaving
<1>12. QED BY <1>4, <1>5, <1>6, <1>7, <1>8, <1>9, <1>10, <1>11

\* Nothing changes between the reading and the guard, so all that was found is
\* there to be taken.
LEMMA GuardTidy ==
  ASSUME Typed, Tidy, NEW r \in Request, Guard(r)
  PROVE  Tidy'
<1> DEFINE p == req[r].on
           G == groups[p]
           old == req[r]
<1>1. /\ req[r].pc = "guard" /\ groups' = groups
      /\ overlapped' = overlapped /\ half' = half /\ unguarded' = unguarded
  BY DEF Guard, At
<1>2. /\ p \in Person /\ old \in RequestRecord /\ G \in SUBSET Group
      /\ Planned(old)
      /\ p \notin overlapped => Undoable(old, G)
      /\ ~half /\ p \notin overlapped \cup PlatformAdmin => NestedIn(G)
      /\ groups' = [groups EXCEPT ![p] = G]
      /\ req \in [Request -> RequestRecord]
      /\ "admin" \in old.had
  BY <1>1, Mine DEF Typed, Sound
<1>3. /\ old.kind \in Leaving /\ old.done = {}
      /\ p \notin overlapped => old.had = G
  BY <1>1, <1>2 DEF Planned, Undoable
<1>4. CASE Answer(r)
  BY <1>1, <1>2, <1>4, TidyAnswered
<1>5. CASE old.kind = "demote" /\ Work(r, "grant", {"member"})
  <2>1. PICK n : Leaves(r, n, G, "grant", {"member"}, old.done)
    BY <1>2, <1>5, WorkForm DEF Work
  <2>2. /\ n.pc = "grant" /\ n.kind = "demote" /\ n.on = p /\ n.had = old.had
        /\ n.todo = {"member"} /\ n.done = {} /\ Becomes(r, n, G)
    BY <1>3, <1>5, <2>1 DEF Leaves
  <2>3. Planned(n) /\ Returning(n, G)
    BY <2>2 DEF Planned, Returning
  <2>4. old.had = G => Undoable(n, G)
    BY <2>2 DEF Undoable
  <2>5. old.had = G /\ NestedIn(G) => Orderly(n, G)
    BY <1>2, <2>2 DEF Orderly, NestedIn, Wide
  <2>6. QED BY <1>1, <1>2, <1>3, <2>2, <2>3, <2>4, <2>5, TidyKept
<1>6. CASE old.kind # "demote" /\ Work(r, "revoke", old.had \cap {"admin", "team"})
  <2>1. PICK n : Leaves(r, n, G, "revoke", old.had \cap {"admin", "team"}, old.done)
    BY <1>2, <1>6, WorkForm DEF Work
  <2>2. /\ n.pc = "revoke" /\ n.kind \in {"remove", "leave"} /\ n.on = p /\ n.had = old.had
        /\ n.todo = old.had \cap Wide /\ n.done = {} /\ Becomes(r, n, G)
    BY <1>3, <1>6, <2>1 DEF Leaves, Leaving, Wide
  <2>3. Planned(n) /\ Returning(n, G)
    BY <2>2 DEF Planned, Returning, Leaving
  <2>4. old.had = G => Undoable(n, G)
    BY <2>2 DEF Undoable
  <2>5. old.had = G /\ NestedIn(G) => Orderly(n, G)
    BY <1>2, <2>2 DEF Orderly, NestedIn, Wide
  <2>6. QED BY <1>1, <1>2, <1>3, <2>2, <2>3, <2>4, <2>5, TidyKept
<1>7. QED BY <1>4, <1>5, <1>6 DEF Guard

\* Which group is the widest, and which the narrowest.
LEMMA WidestIs ==
  ASSUME NEW S \in SUBSET Group, S # {}
  PROVE  /\ Widest(S) \in S
         /\ "member" \in S => Widest(S) = "member"
BY DEF Widest, Group

\* ... and the narrowest is the member group only when it is alone.
LEMMA NarrowestIs ==
  ASSUME NEW S \in SUBSET Group, S # {}
  PROVE  /\ Narrowest(S) \in S
         /\ Narrowest(S) = "member" => S = {"member"}
         /\ Narrowest(S) = "admin" => "team" \notin S
         /\ Narrowest(S) \in {"member", "admin", "team"}
BY DEF Narrowest, Group

(* What the invariant says of request r, of its person p and their groups G.  *)
Facing(r, p, G, q) ==
  /\ p = req[r].on /\ G = groups[p] /\ q = req[r]
  /\ p \in Person /\ q \in RequestRecord /\ G \in SUBSET Group
  /\ q.todo \in SUBSET Group /\ q.done \in SUBSET Group /\ q.had \in SUBSET Group
  /\ req \in [Request -> RequestRecord]
  /\ q.pc \in {"grant", "revoke", "giveBack"} => q.todo # {}
  /\ q.pc \in {"recheck", "giveBack"} => "admin" \in q.done
  /\ Planned(q)
  /\ p \notin overlapped => Undoable(q, G)
  /\ ~unguarded /\ p \notin overlapped => Returning(q, G)
  /\ ~half /\ p \notin overlapped \cup PlatformAdmin => Orderly(q, G) /\ NestedIn(G)

\* What a step starts from.
LEMMA Now ==
  ASSUME Typed, Tidy, NEW r \in Request, req[r].pc # "idle"
  PROVE  \E p, G, q : Facing(r, p, G, q)
<1>1. /\ req[r].todo \in SUBSET Group /\ req[r].done \in SUBSET Group
      /\ req[r].had \in SUBSET Group
      /\ req[r].pc \in {"grant", "revoke", "giveBack"} => req[r].todo # {}
      /\ req[r].pc \in {"recheck", "giveBack"} => "admin" \in req[r].done
      /\ req \in [Request -> RequestRecord]
  BY DEF Typed, Sound, RequestRecord
<1>2. Facing(r, req[r].on, groups[req[r].on], req[r])
  BY <1>1, Mine DEF Facing
<1>3. QED BY <1>2

\* The member group is added first, to a person in no group.
LEMMA GrantTidy ==
  ASSUME Typed, Tidy, NEW r \in Request, Grant(r)
  PROVE  Tidy'
<1>1. /\ req[r].pc = "grant"
      /\ overlapped' = overlapped /\ half' = half /\ unguarded' = unguarded
  BY DEF Grant, At
<1>2. PICK p, G, q : Facing(r, p, G, q)
  BY <1>1, Now
<1> USE DEF Facing
<1>3. PICK g : g = Widest(q.todo)
  OBVIOUS
<1>4. g \in q.todo /\ g \in Group /\ ("member" \in q.todo => g = "member")
  BY <1>1, <1>2, <1>3, WidestIs, AlwaysGroups
<1>5. PICK H : H = G \cup {g}
  OBVIOUS
<1>6. H \in SUBSET Group /\ groups' = [groups EXCEPT ![req[r].on] = H]
  BY <1>1, <1>2, <1>3, <1>4, <1>5, GroupForms DEF Grant
<1>7. Orderly(q, G) => "member" \in H /\ NestedIn(H)
  BY <1>1, <1>2, <1>4, <1>5 DEF Orderly, NestedIn
<1>8. \/ /\ q.todo \ {g} # {}
         /\ req' = [req EXCEPT ![r].todo = q.todo \ {g}, ![r].done = q.done \cup {g}]
      \/ q.kind = "demote" /\ Work(r, "revoke", {"admin"})
      \/ Answer(r)
  <2>1. g = Widest(req[r].todo) /\ req[r] = q
    BY <1>2, <1>3
  <2>2. CASE q.todo \ {g} # {}
    BY <2>1, <2>2 DEF Grant
  <2>3. CASE q.todo \ {g} = {}
    BY <2>1, <2>3 DEF Grant
  <2>4. QED BY <2>2, <2>3
<1>9. CASE /\ q.todo \ {g} # {}
           /\ req' = [req EXCEPT ![r].todo = q.todo \ {g}, ![r].done = q.done \cup {g}]
  <2>1. PICK n : Leaves(r, n, H, req[r].pc, q.todo \ {g}, q.done \cup {g})
    BY <1>2, <1>6, <1>9, GrantForm
  <2>2. /\ n.pc = "grant" /\ n.kind = q.kind /\ n.on = p /\ n.had = q.had
        /\ n.todo = q.todo \ {g} /\ n.done = q.done \cup {g} /\ Becomes(r, n, H)
    BY <1>1, <1>2, <2>1 DEF Leaves
  <2>3. q.kind \in {"add", "promote", "joinTeam"}
    BY <1>1, <1>2, <1>4, <1>9 DEF Planned
  <2>4. Planned(n) /\ Undoable(n, H) /\ Returning(n, H)
    BY <2>2, <2>3 DEF Planned, Undoable, Returning
  <2>5. Orderly(q, G) => Orderly(n, H)
    BY <1>1, <1>2, <1>4, <1>5, <1>7, <2>2, <2>3 DEF Orderly
  <2>6. QED BY <1>1, <1>2, <1>6, <1>7, <2>2, <2>4, <2>5, TidyKept
<1>10. CASE q.kind = "demote" /\ Work(r, "revoke", {"admin"})
  <2>1. PICK n : Leaves(r, n, H, "revoke", {"admin"}, req[r].done)
    BY <1>2, <1>6, <1>10, WorkForm DEF Work
  <2>2. /\ n.pc = "revoke" /\ n.kind = "demote" /\ n.on = p /\ n.had = q.had
        /\ n.todo = {"admin"} /\ n.done = {} /\ Becomes(r, n, H)
    BY <1>1, <1>2, <1>10, <2>1 DEF Leaves, Planned
  <2>3. Planned(n) /\ Returning(n, H)
    BY <2>2 DEF Planned, Returning, Leaving, Wide
  <2>4. Undoable(q, G) => Undoable(n, H)
    BY <1>1, <1>2, <1>5, <1>10, <2>2 DEF Undoable
  <2>5. "member" \in H => Orderly(n, H)
    BY <2>2 DEF Orderly
  <2>6. QED BY <1>1, <1>2, <1>6, <1>7, <2>2, <2>3, <2>4, <2>5, TidyKept
<1>11. CASE Answer(r)
  BY <1>1, <1>2, <1>6, <1>7, <1>11, TidyAnswered
<1>12. QED BY <1>8, <1>9, <1>10, <1>11

\* Teams and the admin group are taken, and noted; the member group is not.
LEMMA RevokeTidy ==
  ASSUME Typed, Tidy, NEW r \in Request, Revoke(r)
  PROVE  Tidy'
<1>1. /\ req[r].pc = "revoke"
      /\ overlapped' = overlapped /\ half' = half /\ unguarded' = unguarded
  BY DEF Revoke, At
<1>2. PICK p, G, q : Facing(r, p, G, q)
  BY <1>1, Now
<1> USE DEF Facing
<1>3. PICK g : g = Narrowest(q.todo)
  OBVIOUS
<1>4. /\ q.kind \in Leaving \cup {"quitTeam"}
      /\ q.todo \cup q.done \subseteq Wide
      /\ q.kind = "demote" => q.todo = {"admin"} /\ q.done = {}
      /\ q.kind = "quitTeam" => q.todo = {"team"}
  BY <1>1, <1>2 DEF Planned
<1>5. /\ g \in q.todo /\ g \in Wide /\ g \in Group
      /\ g = "admin" => q.todo = {"admin"}
  BY <1>1, <1>2, <1>3, <1>4, NarrowestIs DEF Wide, Group
<1>6. PICK H : H = G \ {g}
  OBVIOUS
<1>7. H \in SUBSET Group /\ groups' = [groups EXCEPT ![req[r].on] = H]
  BY <1>1, <1>2, <1>3, <1>5, <1>6, GroupForms DEF Revoke
<1>8. /\ NestedIn(G) => NestedIn(H)
      /\ "member" \in G => "member" \in H
      /\ q.had \subseteq G \cup q.done => q.had \subseteq H \cup q.done \cup {g}
  BY <1>5, <1>6 DEF NestedIn, Wide
<1>9. PICK next : next = AfterRevoke(r, g)
  OBVIOUS
<1>10. IF next = "idle" THEN Answer(r)
       ELSE req' = [req EXCEPT ![r].todo = q.todo \ {g}, ![r].done = q.done \cup {g},
                               ![r].pc = next]
  BY <1>2, <1>3, <1>9 DEF Revoke
<1>11. CASE next = "idle"
  BY <1>1, <1>2, <1>7, <1>8, <1>10, <1>11, TidyAnswered
<1>12. CASE next # "idle"
  <2>1. PICK n : Leaves(r, n, H, next, q.todo \ {g}, q.done \cup {g})
    BY <1>2, <1>7, <1>10, <1>12, RevokeForm
  <2>2. /\ n.pc = next /\ n.kind = q.kind /\ n.on = p /\ n.had = q.had
        /\ n.todo = q.todo \ {g} /\ n.done = q.done \cup {g} /\ Becomes(r, n, H)
    BY <1>2, <2>1 DEF Leaves
  <2>3. CASE g = "admin"
    <3>1. next = "recheck" /\ q.kind \in Leaving
      BY <1>4, <1>5, <1>9, <2>3 DEF AfterRevoke
    <3>2. Planned(n) /\ Returning(n, H)
      BY <1>4, <1>5, <2>2, <2>3, <3>1 DEF Planned, Returning
    <3>3. Undoable(q, G) => Undoable(n, H)
      BY <1>1, <1>2, <1>8, <2>2, <3>1 DEF Undoable
    <3>4. Orderly(q, G) => Orderly(n, H)
      BY <1>1, <1>2, <1>5, <1>6, <1>8, <2>2, <2>3, <3>1 DEF Orderly, Wide
    <3>5. QED BY <1>1, <1>2, <1>7, <1>8, <2>2, <3>2, <3>3, <3>4, TidyKept
  <2>4. CASE g # "admin" /\ q.todo \ {g} # {}
    <3>1. next = "revoke" /\ q.kind \in {"remove", "leave"}
      BY <1>2, <1>4, <1>5, <1>9, <2>4 DEF AfterRevoke, Leaving, Wide
    <3>2. Planned(n) /\ Returning(n, H)
      BY <1>4, <1>5, <2>2, <3>1 DEF Planned, Returning
    <3>3. Undoable(q, G) => Undoable(n, H)
      BY <1>1, <1>2, <1>4, <1>8, <2>2, <3>1 DEF Undoable
    <3>4. Orderly(q, G) => Orderly(n, H)
      BY <1>1, <1>2, <1>4, <1>6, <1>8, <2>2, <3>1 DEF Orderly
    <3>5. QED BY <1>1, <1>2, <1>7, <1>8, <2>2, <3>2, <3>3, <3>4, TidyKept
  <2>5. CASE g # "admin" /\ q.todo \ {g} = {}
    <3>1. next = "final" /\ q.kind \in {"remove", "leave"}
      BY <1>2, <1>9, <1>12, <2>5 DEF AfterRevoke
    <3>2. Planned(n) /\ Returning(n, H) /\ Undoable(n, H)
      BY <2>2, <3>1 DEF Planned, Returning, Undoable
    <3>3. Orderly(q, G) => Orderly(n, H)
      BY <1>1, <1>2, <1>6, <2>2, <2>5, <3>1 DEF Orderly
    <3>4. QED BY <1>1, <1>2, <1>7, <1>8, <2>2, <3>2, <3>3, TidyKept
  <2>6. QED BY <2>3, <2>4, <2>5
<1>13. QED BY <1>11, <1>12

\* A change that is refused has taken nothing that it will not give back, but
\* the teams of somebody who leaves.
LEMMA RecheckTidy ==
  ASSUME Typed, Tidy, NEW r \in Request, Recheck(r)
  PROVE  Tidy'
<1>1. /\ req[r].pc = "recheck" /\ groups' = groups
      /\ overlapped' = overlapped /\ half' = half /\ unguarded' = unguarded
  BY DEF Recheck, At
<1>2. PICK p, G, q : Facing(r, p, G, q)
  BY <1>1, Now
<1> USE DEF Facing
<1>3. groups' = [groups EXCEPT ![req[r].on] = G]
  BY <1>1, <1>2, GroupForms DEF Typed
<1>4. /\ q.kind \in Leaving /\ q.done \subseteq Wide
      /\ q.kind = "demote" => q.done = {"admin"}
  BY <1>1, <1>2 DEF Planned
<1>5. PICK back : back = GivenBack(r)
  OBVIOUS
<1>6. q.had \subseteq G \cup q.done => q.had \ Spared(q) \subseteq G \cup back
  BY <1>2, <1>4, <1>5 DEF GivenBack, Spared, Leaving, Wide
<1>7. CASE Work(r, "giveBack", back)
  <2>1. PICK n : Leaves(r, n, G, "giveBack", back, req[r].done)
    BY <1>2, <1>3, <1>7, WorkForm DEF Work
  <2>2. /\ n.pc = "giveBack" /\ n.kind = q.kind /\ n.on = p /\ n.had = q.had
        /\ n.todo = back /\ Becomes(r, n, G)
    BY <1>2, <2>1 DEF Leaves
  <2>3. Planned(n) /\ Undoable(n, G)
    BY <1>4, <2>2 DEF Planned, Undoable
  <2>4. Undoable(q, G) => Returning(n, G)
    BY <1>1, <1>2, <1>4, <1>6, <2>2 DEF Undoable, Returning, Spared
  <2>5. Orderly(q, G) => Orderly(n, G)
    BY <1>1, <1>2, <2>2 DEF Orderly
  <2>6. QED BY <1>1, <1>2, <2>2, <2>3, <2>4, <2>5, TidyKept
<1>8. CASE Answer(r)
  BY <1>1, <1>2, <1>3, <1>8, TidyAnswered
<1>9. CASE q.kind # "demote" /\ Goto(r, "final")
  <2>1. PICK n : Leaves(r, n, G, "final", req[r].todo, req[r].done)
    BY <1>2, <1>3, <1>9, GotoForm DEF Goto
  <2>2. n.pc = "final" /\ n.kind = q.kind /\ n.on = p /\ Becomes(r, n, G)
    BY <1>2, <2>1 DEF Leaves
  <2>3. Planned(n) /\ Undoable(n, G) /\ Returning(n, G)
    BY <1>4, <1>9, <2>2 DEF Planned, Undoable, Returning, Leaving
  <2>4. Orderly(q, G) => Orderly(n, G)
    BY <1>1, <1>2, <1>4, <1>9, <2>2 DEF Orderly, Leaving
  <2>5. QED BY <1>1, <1>2, <2>2, <2>3, <2>4, TidyKept
<1>10. QED BY <1>2, <1>5, <1>7, <1>8, <1>9 DEF Recheck

\* What is given back is there again.
LEMMA GiveBackTidy ==
  ASSUME Typed, Tidy, NEW r \in Request, GiveBack(r)
  PROVE  Tidy'
<1>1. /\ req[r].pc = "giveBack"
      /\ overlapped' = overlapped /\ half' = half /\ unguarded' = unguarded
  BY DEF GiveBack, At
<1>2. PICK p, G, q : Facing(r, p, G, q)
  BY <1>1, Now
<1> USE DEF Facing
<1>3. PICK g : g = Widest(q.todo)
  OBVIOUS
<1>4. g \in q.todo /\ g \in Group
  BY <1>1, <1>2, <1>3, WidestIs, AlwaysGroups
<1>5. PICK H : H = G \cup {g}
  OBVIOUS
<1>6. H \in SUBSET Group /\ groups' = [groups EXCEPT ![req[r].on] = H]
  BY <1>1, <1>2, <1>3, <1>4, <1>5, GroupForms DEF GiveBack
<1>7. Orderly(q, G) => "member" \in H /\ NestedIn(H)
  BY <1>1, <1>2, <1>5 DEF Orderly, NestedIn
<1>8. CASE Answer(r)
  BY <1>1, <1>2, <1>6, <1>7, <1>8, TidyAnswered
<1>9. CASE Work(r, "giveBack", q.todo \ {g})
  <2>1. PICK n : Leaves(r, n, H, "giveBack", q.todo \ {g}, req[r].done)
    BY <1>2, <1>6, <1>9, WorkForm DEF Work
  <2>2. /\ n.pc = "giveBack" /\ n.kind = q.kind /\ n.on = p /\ n.had = q.had
        /\ n.todo = q.todo \ {g} /\ Becomes(r, n, H)
    BY <1>2, <2>1 DEF Leaves
  <2>3. Planned(n) /\ Undoable(n, H)
    BY <1>1, <1>2, <2>2 DEF Planned, Undoable
  <2>4. Returning(q, G) => Returning(n, H)
    BY <1>1, <1>2, <1>5, <2>2 DEF Returning, Spared
  <2>5. "member" \in H => Orderly(n, H)
    BY <2>2 DEF Orderly
  <2>6. QED BY <1>1, <1>2, <1>6, <1>7, <2>2, <2>3, <2>4, <2>5, TidyKept
<1>10. QED BY <1>2, <1>3, <1>8, <1>9 DEF GiveBack

\* The member group goes when no other is left.
LEMMA FinalTidy ==
  ASSUME Typed, Tidy, NEW r \in Request, Final(r)
  PROVE  Tidy'
<1>1. /\ req[r].pc = "final" /\ Answer(r) /\ Taking(r, "member")
      /\ overlapped' = overlapped /\ half' = half /\ unguarded' = unguarded
  BY DEF Final, At
<1>2. PICK p, G, q : Facing(r, p, G, q)
  BY <1>1, Now
<1>3. PICK H : H = G \ {"member"}
  OBVIOUS
<1>4. H \in SUBSET Group /\ groups' = [groups EXCEPT ![req[r].on] = H]
  <2>1. "member" \in Group
    BY DEF Group
  <2>2. QED BY <1>1, <1>2, <1>3, <2>1, GroupForms DEF Facing
<1>5. Orderly(q, G) => NestedIn(H)
  BY <1>1, <1>2, <1>3 DEF Orderly, NestedIn, Facing
<1>6. QED BY <1>1, <1>2, <1>4, <1>5, TidyAnswered DEF Facing

\* Of what was added the member group goes last.
LEMMA TakeBackTidy ==
  ASSUME Typed, Tidy, NEW r \in Request, TakeBack(r)
  PROVE  Tidy'
<1>1. /\ req[r].pc = "takeBack"
      /\ overlapped' = overlapped /\ half' = half
  BY DEF TakeBack, At
<1>2. PICK p, G, q : Facing(r, p, G, q)
  BY <1>1, Now
<1> USE DEF Facing
<1>3. PICK g : g = Narrowest(q.done)
  OBVIOUS
<1>4. g \in q.done /\ g \in Group /\ (g = "member" => q.done = {"member"})
      /\ g \in {"member", "admin", "team"}
  BY <1>1, <1>2, <1>3, NarrowestIs, AlwaysGroups DEF Planned
<1>5. PICK H : H = G \ {g}
  OBVIOUS
<1>6. H \in SUBSET Group /\ groups' = [groups EXCEPT ![req[r].on] = H]
  BY <1>1, <1>2, <1>3, <1>4, <1>5, GroupForms DEF TakeBack
<1>7. unguarded => unguarded'
  <2>1. unguarded' = (unguarded \/ Narrowest(req[r].done) = "admin")
    BY Zenon DEF TakeBack
  <2>2. QED BY <2>1, Zenon
<1>8. Orderly(q, G) /\ NestedIn(G) => NestedIn(H)
  BY <1>1, <1>2, <1>4, <1>5 DEF Orderly, NestedIn, Wide
<1>9. CASE Answer(r)
  BY <1>1, <1>2, <1>6, <1>7, <1>8, <1>9, TidyAnswered
<1>10. CASE q.done # {g} /\ req' = [req EXCEPT ![r].done = q.done \ {g}]
  <2>1. PICK n : Leaves(r, n, H, req[r].pc, req[r].todo, q.done \ {g})
    BY <1>2, <1>6, <1>10, DoneForm
  <2>2. /\ n.pc = "takeBack" /\ n.on = p /\ n.done = q.done \ {g} /\ Becomes(r, n, H)
    BY <1>1, <1>2, <2>1 DEF Leaves
  <2>3. Planned(n) /\ Undoable(n, H) /\ Returning(n, H)
    BY <1>4, <1>10, <2>2 DEF Planned, Undoable, Returning
  <2>4. Orderly(q, G) => Orderly(n, H)
    BY <1>1, <1>2, <1>5, <2>2 DEF Orderly
  <2>5. QED BY <1>1, <1>2, <1>6, <1>7, <1>8, <2>2, <2>3, <2>4, TidyKept
<1>11. QED BY <1>2, <1>3, <1>9, <1>10 DEF TakeBack

\* A call throws: the groups are as before it or as after it.
LEMMA ThrowsTidy ==
  ASSUME Typed, Tidy, NEW r \in Request, Throws(r)
  PROVE  Tidy'
<1>1. /\ req[r].pc \notin {"idle", "read", "guard"}
      /\ overlapped' = overlapped
  BY DEF Throws
<1>2. PICK p, G, q : Facing(r, p, G, q)
  BY <1>1, Now
<1> USE DEF Facing
<1>3. PICK w, m, d : w = Widest(q.todo) /\ m = Narrowest(q.todo) /\ d = Narrowest(q.done)
  OBVIOUS
<1>4. /\ w \in Group /\ m \in Group /\ d \in Group /\ "member" \in Group
      /\ q.pc \in {"grant", "giveBack"} => w \in q.todo /\ ("member" \in q.todo => w = "member")
      /\ q.pc = "revoke" => m \in q.todo
      /\ q.pc = "takeBack" => d \in q.done /\ (d = "member" => q.done = {"member"})
  BY <1>2, <1>3, WidestIs, NarrowestIs, AlwaysGroups DEF Planned, Group
<1>5. /\ half => half'
      /\ unguarded => unguarded'
      /\ q.pc = "giveBack" => unguarded'
  <2>1. \/ half' = (half \/ (At(r, "grant") /\ req[r].done # {}))
        \/ half' = (half \/ At(r, "takeBack"))
    BY Zenon DEF Throws
  <2>2. unguarded' = (unguarded \/ Guarding(r))
    BY Zenon DEF Throws
  <2>3. half => half'
    BY <2>1, Zenon
  <2>4. (unguarded => unguarded') /\ (Guarding(r) => unguarded')
    BY <2>2, Zenon
  <2>5. q.pc = "giveBack" => Guarding(r)
    BY <1>2 DEF Guarding
  <2>6. QED BY <2>3, <2>4, <2>5
<1>6. \/ UNCHANGED groups /\ (q.pc = "takeBack" => half')
      \/ Effect(r) /\ (q.pc = "grant" /\ q.done # {} => half')
  <2>1. \/ Effect(r) /\ half' = (half \/ (At(r, "grant") /\ req[r].done # {}))
        \/ UNCHANGED groups /\ half' = (half \/ At(r, "takeBack"))
    BY Zenon DEF Throws
  <2>2. CASE Effect(r) /\ half' = (half \/ (At(r, "grant") /\ req[r].done # {}))
    <3>1. At(r, "grant") /\ req[r].done # {} => half'
      BY <2>2, Zenon
    <3>2. QED BY <1>2, <2>2, <3>1 DEF At
  <2>3. CASE UNCHANGED groups /\ half' = (half \/ At(r, "takeBack"))
    <3>1. At(r, "takeBack") => half'
      BY <2>3, Zenon
    <3>2. QED BY <1>2, <2>3, <3>1 DEF At
  <2>4. QED BY <2>1, <2>2, <2>3
<1>7. PICK H \in SUBSET Group :
        /\ groups' = [groups EXCEPT ![req[r].on] = H]
        /\ \/ H = G /\ (q.pc = "takeBack" => half')
           \/ /\ q.pc = "grant" /\ q.done # {} => half'
              /\ \/ q.pc \in {"grant", "giveBack"} /\ H = G \cup {w}
                 \/ q.pc = "revoke" /\ H = G \ {m}
                 \/ q.pc = "takeBack" /\ H = G \ {d}
                 \/ q.pc = "final" /\ H = G \ {"member"}
                 \/ q.pc = "recheck" /\ H = G
  <2>1. CASE UNCHANGED groups /\ (q.pc = "takeBack" => half')
    BY <1>1, <1>2, <1>4, <2>1, GroupForms
  <2>2. CASE Effect(r) /\ (q.pc = "grant" /\ q.done # {} => half')
    <3>1. CASE q.pc \in {"grant", "giveBack"}
      <4>1. Adding(r, w)
        <5>1. req[r].pc \in {"grant", "giveBack"} /\ w = Widest(req[r].todo)
          BY <1>2, <1>3, <3>1
        <5>2. Adding(r, Widest(req[r].todo))
          BY <2>2, <5>1 DEF Effect, At
        <5>3. QED BY <5>1, <5>2
      <4>2. QED BY <1>1, <1>2, <1>4, <2>2, <3>1, <4>1, GroupForms
    <3>2. CASE q.pc = "revoke"
      <4>1. Taking(r, m)
        BY <1>2, <1>3, <2>2, <3>2 DEF Effect, At
      <4>2. QED BY <1>1, <1>2, <1>4, <2>2, <3>2, <4>1, GroupForms
    <3>3. CASE q.pc = "takeBack"
      <4>1. Taking(r, d)
        BY <1>2, <1>3, <2>2, <3>3 DEF Effect, At
      <4>2. QED BY <1>1, <1>2, <1>4, <2>2, <3>3, <4>1, GroupForms
    <3>4. CASE q.pc = "final"
      <4>1. Taking(r, "member")
        BY <1>2, <2>2, <3>4 DEF Effect, At
      <4>2. QED BY <1>1, <1>2, <1>4, <2>2, <3>4, <4>1, GroupForms
    <3>5. CASE q.pc = "recheck"
      <4>1. UNCHANGED groups
        BY <1>2, <2>2, <3>5 DEF Effect, At
      <4>2. QED BY <1>1, <1>2, <1>4, <2>2, <3>5, <4>1, GroupForms
    <3>6. q.pc \in {"grant", "giveBack", "revoke", "takeBack", "final", "recheck"}
      BY <1>1, <1>2 DEF RequestRecord, Pc
    <3>7. QED BY <3>1, <3>2, <3>3, <3>4, <3>5, <3>6
  <2>3. QED BY <1>6, <2>1, <2>2
<1>8. /\ ~half' /\ Orderly(q, G) /\ NestedIn(G) => NestedIn(H)
  <2>1. CASE q.pc = "grant" /\ H = G \cup {w}
    BY <1>4, <2>1 DEF Orderly, NestedIn
  <2>2. CASE q.pc = "giveBack" /\ H = G \cup {w}
    BY <2>2 DEF Orderly, NestedIn
  <2>3. CASE q.pc = "revoke" /\ H = G \ {m}
    <3>1. m # "member"
      BY <1>2, <1>4, <2>3 DEF Planned, Wide
    <3>2. QED BY <2>3, <3>1 DEF NestedIn
  <2>4. CASE q.pc = "takeBack" /\ H = G \ {d}
    BY <1>4, <2>4 DEF Orderly, NestedIn, Wide, Group
  <2>5. CASE q.pc = "final" /\ H = G \ {"member"}
    BY <2>5 DEF Orderly, NestedIn
  <2>6. QED BY <1>7, <2>1, <2>2, <2>3, <2>4, <2>5
<1>9. CASE Answer(r)
  BY <1>1, <1>2, <1>5, <1>7, <1>8, <1>9, TidyAnswered
<1>10. CASE q.pc = "grant" /\ q.done # {} /\ Goto(r, "takeBack")
  <2>1. PICK n : Leaves(r, n, H, "takeBack", req[r].todo, req[r].done)
    BY <1>2, <1>7, <1>10, GotoForm DEF Goto
  <2>2. n.pc = "takeBack" /\ n.on = p /\ n.done = q.done /\ Becomes(r, n, H)
    BY <1>2, <2>1 DEF Leaves
  <2>3. Planned(n) /\ Undoable(n, H) /\ Returning(n, H)
    BY <1>10, <2>2 DEF Planned, Undoable, Returning
  <2>4. ~half' /\ Orderly(q, G) => Orderly(n, H)
    BY <1>7, <1>10, <2>2 DEF Orderly
  <2>5. QED BY <1>1, <1>2, <1>5, <1>7, <1>8, <2>2, <2>3, <2>4, TidyKept
<1>11. CASE q.pc = "giveBack" /\ Work(r, "giveBack", q.todo \ {w})
  <2>1. PICK n : Leaves(r, n, H, "giveBack", q.todo \ {w}, req[r].done)
    BY <1>2, <1>7, <1>11, WorkForm DEF Work
  <2>2. n.pc = "giveBack" /\ n.kind = q.kind /\ n.on = p /\ Becomes(r, n, H)
    BY <1>2, <2>1 DEF Leaves
  <2>3. Planned(n) /\ Undoable(n, H)
    BY <1>2, <1>11, <2>2 DEF Planned, Undoable
  <2>4. Orderly(q, G) => Orderly(n, H)
    BY <1>7, <1>11, <2>2 DEF Orderly
  <2>5. QED BY <1>1, <1>2, <1>5, <1>7, <1>8, <1>11, <2>2, <2>3, <2>4, TidyKept
<1>12. CASE q.pc = "takeBack" /\ q.done # {d} /\ req' = [req EXCEPT ![r].done = q.done \ {d}]
  <2>1. PICK n : Leaves(r, n, H, req[r].pc, req[r].todo, q.done \ {d})
    BY <1>2, <1>7, <1>12, DoneForm
  <2>2. n.pc = "takeBack" /\ n.on = p /\ n.done = q.done \ {d} /\ Becomes(r, n, H)
    BY <1>2, <1>12, <2>1 DEF Leaves
  <2>3. Planned(n) /\ Undoable(n, H) /\ Returning(n, H)
    BY <1>4, <1>12, <2>2 DEF Planned, Undoable, Returning
  <2>4. ~half' /\ Orderly(q, G) => Orderly(n, H)
    BY <1>7, <1>12, <2>2 DEF Orderly
  <2>5. QED BY <1>1, <1>2, <1>5, <1>7, <1>8, <2>2, <2>3, <2>4, TidyKept
<1>13. \/ q.pc = "grant" /\ q.done # {} /\ Goto(r, "takeBack")
       \/ q.pc = "giveBack" /\ Work(r, "giveBack", q.todo \ {w})
       \/ q.pc = "takeBack" /\ q.done # {d} /\ req' = [req EXCEPT ![r].done = q.done \ {d}]
       \/ Answer(r)
  <2>1. CASE At(r, "grant") /\ req[r].done # {}
    BY <1>2, <2>1 DEF Throws, At
  <2>2. CASE At(r, "giveBack") /\ req[r].todo # {Widest(req[r].todo)}
    BY <1>2, <1>3, <2>2 DEF Throws, At
  <2>3. CASE At(r, "takeBack") /\ req[r].done # {Narrowest(req[r].done)}
    <3>1. req' = [req EXCEPT ![r].done = q.done \ {d}]
      BY <1>2, <1>3, <2>3 DEF Throws, At
    <3>2. QED BY <1>2, <1>3, <2>3, <3>1 DEF At
  <2>4. CASE /\ ~(At(r, "grant") /\ req[r].done # {})
             /\ ~(At(r, "giveBack") /\ req[r].todo # {Widest(req[r].todo)})
             /\ ~(At(r, "takeBack") /\ req[r].done # {Narrowest(req[r].done)})
    BY <2>4 DEF Throws
  <2>5. QED BY <2>1, <2>2, <2>3, <2>4
<1>14. QED BY <1>9, <1>10, <1>11, <1>12, <1>13

\* A process that dies leaves the groups as they are.
LEMMA DiesTidy ==
  ASSUME Typed, Tidy, NEW r \in Request, Dies(r)
  PROVE  Tidy'
<1>1. /\ req[r].pc # "idle" /\ Answer(r) /\ groups' = groups
      /\ overlapped' = overlapped /\ half' = half
  BY DEF Dies, Running
<1>2. PICK p, G, q : Facing(r, p, G, q)
  BY <1>1, Now
<1>3. unguarded => unguarded'
  <2>1. unguarded' = (unguarded \/ req[r].pc \in {"recheck", "giveBack"})
    BY Zenon DEF Dies
  <2>2. QED BY <2>1, Zenon
<1>4. groups' = [groups EXCEPT ![req[r].on] = G]
  BY <1>1, <1>2 DEF Facing, Typed
<1>5. QED BY <1>1, <1>2, <1>3, <1>4, TidyAnswered DEF Facing

-------------------------------------------------------------------------------
(* Groups are nested, and a refused change is undone *)

\* Nobody is at work at the start, and the groups are nested.
LEMMA InitTidy == Init => Tidy
<1> SUFFICES ASSUME Init PROVE Tidy
  OBVIOUS
<1>1. \A r \in Request : req[r] = Idle
  BY DEF Init
<1>2. \A p \in Person : NestedIn(groups[p])
  BY DEF Init, NestedIn, Wide
<1>3. Idle.pc = "idle" /\ Planned(Idle)
  BY DEF Idle, Planned
<1>4. QED BY <1>1, <1>2, <1>3 DEF Tidy, OneEach

\* Every step keeps it.
LEMMA StepTidy == Typed /\ Tidy /\ [Next]_vars => Tidy'
<1> SUFFICES ASSUME Typed, Tidy, [Next]_vars PROVE Tidy'
  OBVIOUS
<1>1. CASE UNCHANGED vars
  BY <1>1 DEF vars, Tidy, OneEach
<1>2. ASSUME NEW r \in Request, Step(r) PROVE Tidy'
  BY <1>2, ReadTidy, GuardTidy, GrantTidy, RevokeTidy, RecheckTidy, GiveBackTidy,
     FinalTidy, TakeBackTidy DEF Step
<1>3. QED BY <1>1, <1>2, BeginTidy, ThrowsTidy, DiesTidy DEF Next

\* The invariant holds throughout.
THEOREM AlwaysTidy == Spec => [](Typed /\ Tidy)
<1>1. IInv => Typed
  BY DEF IInv
<1>2. QED BY <1>1, Invariance, InitTidy, StepTidy, PTL DEF Spec

\* Whoever is in a team or is an admin is a member.
THEOREM AlwaysNested == Spec => []Nested
<1>1. Tidy => Nested
  BY DEF Tidy, Nested, NestedIn, Wide
<1>2. QED BY <1>1, AlwaysTidy, PTL

\* A step is about one request, and leaves the others alone.
LEMMA OthersKept ==
  ASSUME Typed, NEW r \in Request, NEW s \in Request, s # r,
         \/ \E kind \in Kind, p \in Person : Begin(r, kind, p)
         \/ Step(r) \/ Throws(r) \/ Dies(r)
  PROVE  req'[s] = req[s]
<1>1. req \in [Request -> RequestRecord]
  BY DEF Typed
<1>2. CASE \E kind \in Kind, p \in Person : Begin(r, kind, p)
  BY <1>1, <1>2 DEF Begin
<1>3. CASE Read(r)
  BY <1>1, <1>3 DEF Read, Answer
<1>4. CASE Guard(r)
  BY <1>1, <1>4 DEF Guard, Answer, Work
<1>5. CASE Grant(r)
  BY <1>1, <1>5 DEF Grant, Answer, Work
<1>6. CASE Revoke(r)
  BY <1>1, <1>6 DEF Revoke, Answer
<1>7. CASE Recheck(r)
  BY <1>1, <1>7 DEF Recheck, Answer, Work, Goto
<1>8. CASE GiveBack(r)
  BY <1>1, <1>8 DEF GiveBack, Answer, Work
<1>9. CASE Final(r)
  BY <1>1, <1>9 DEF Final, Answer
<1>10. CASE TakeBack(r)
  BY <1>1, <1>10 DEF TakeBack, Answer
<1>11. CASE Throws(r)
  BY <1>1, <1>11 DEF Throws, Answer, Work, Goto
<1>12. CASE Dies(r)
  BY <1>1, <1>12 DEF Dies, Answer
<1>13. QED BY <1>2, <1>3, <1>4, <1>5, <1>6, <1>7, <1>8, <1>9, <1>10, <1>11, <1>12 DEF Step

\* The step that refuses a change gives back the last of what it took.
LEMMA RefusalUndoes ==
  ASSUME Typed, Tidy, NEW r \in Request, GiveBack(r), req'[r].pc = "idle",
         ~unguarded, req[r].on \notin overlapped
  PROVE  req[r].had \ Spared(req[r]) \subseteq groups'[req[r].on]
<1>1. req[r].pc = "giveBack"
  BY DEF GiveBack, At
<1>2. PICK p, G, q : Facing(r, p, G, q)
  BY <1>1, Now
<1>3. PICK g : g = Widest(q.todo)
  OBVIOUS
<1>4. q.todo = {g}
  <2>1. CASE Work(r, "giveBack", q.todo \ {g})
    <3>1. req'[r].pc = "giveBack"
      BY <1>2, <2>1 DEF Work, Facing, RequestRecord
    <3>2. QED BY <3>1
  <2>2. QED BY <1>2, <1>3, <2>1 DEF GiveBack, Facing
<1>5. q.had \ Spared(q) \subseteq G \cup q.todo
  BY <1>1, <1>2 DEF Facing, Returning
<1>6. groups'[p] = G \cup {g}
  BY <1>2, <1>3 DEF GiveBack, Adding, Facing, Typed
<1>7. QED BY <1>2, <1>4, <1>5, <1>6 DEF Facing

\* A change that is refused gives back what it took.
THEOREM RefusalsUndone == Spec => RefusedIsUndone
<1>1. ASSUME Typed, Tidy, [Next]_vars
      PROVE  [\A r \in Request :
                At(r, "giveBack") /\ req'[r].pc = "idle" /\ ~unguarded' /\ req[r].on \notin overlapped
                  => LET kept == IF req[r].kind = "leave" THEN {"team"} ELSE {} IN
                     req[r].had \ kept \subseteq groups'[req[r].on]]_vars
  <2> SUFFICES ASSUME Next, NEW r \in Request, At(r, "giveBack"), req'[r].pc = "idle",
                      ~unguarded', req[r].on \notin overlapped
               PROVE  req[r].had \ Spared(req[r]) \subseteq groups'[req[r].on]
    BY <1>1 DEF Spared
  <2>1. PICK s \in Request :
          \/ \E kind \in Kind, p \in Person : Begin(s, kind, p)
          \/ Step(s) \/ Throws(s) \/ Dies(s)
    BY DEF Next
  <2>2. s = r
    BY <1>1, <2>1, OthersKept DEF At
  <2>3. CASE GiveBack(r)
    <3>1. ~unguarded
      BY <2>3 DEF GiveBack
    <3>2. QED BY <1>1, <2>3, <3>1, RefusalUndoes
  <2>4. ~Throws(r) /\ ~Dies(r)
    <3>1. Throws(r) => unguarded' = (unguarded \/ Guarding(r))
      BY Zenon DEF Throws
    <3>2. Dies(r) => unguarded' = (unguarded \/ req[r].pc \in {"recheck", "giveBack"})
      BY Zenon DEF Dies
    <3>3. Guarding(r) /\ req[r].pc \in {"recheck", "giveBack"}
      BY DEF Guarding, At
    <3>4. QED BY <3>1, <3>2, <3>3, Zenon
  <2>5. GiveBack(r)
    BY <2>1, <2>2, <2>4 DEF Step, Begin, Read, Guard, Grant, Revoke, Recheck, Final, TakeBack, At
  <2>6. QED BY <2>3, <2>5
<1>2. QED BY <1>1, AlwaysTidy, PTL DEF Spec, RefusedIsUndone

===============================================================================
