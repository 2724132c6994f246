------------------------------ MODULE Membership ------------------------------
(* The people of one organisation, kept in Keycloak groups and nowhere else:  *)
(* workspace/handlers.ts (add, change the role of, or remove somebody, and a  *)
(* team's members) and organizations.ts (leave).  A change is a sequence of   *)
(* Keycloak calls, one await each; requests interleave between any two, on    *)
(* any replica, and a call may fail before or after it took effect.           *)
(*                                                                            *)
(* The groups are the organisation's member group, its admin group and one    *)
(* team's.  The organisation is not the platform's own, whose last admin is   *)
(* not guarded.                                                               *)
EXTENDS Naturals, FiniteSets

CONSTANTS
  Person,
  Nobody,         \* whom a request that is not there is about
  PlatformAdmin,  \* people whose platform groups make them admin of everything
  Request,        \* names for requests, reused when answered
  MaxRequests,    \* bound: requests
  MaxFaults       \* bound: Keycloak calls that fail, and processes that die

ASSUME MembershipAssumption ==
  /\ PlatformAdmin \subseteq Person /\ Nobody \notin Person
  /\ {MaxRequests, MaxFaults} \subseteq Nat

Group == {"member", "admin", "team"}
Kind == {"add", "promote", "demote", "remove", "leave", "joinTeam", "quitTeam"}

VARIABLES
  groups,      \* Keycloak: the groups of each person
  req,         \* the requests
  started,     \* how many requests there have been
  faults,
  overlapped,  \* people two requests were about at the same time
  half,        \* addToGroups left something it had added behind
  unguarded    \* an admin was taken away and nobody made sure one is left

vars == <<groups, req, started, faults, overlapped, half, unguarded>>

Idle == [pc |-> "idle", kind |-> "add", on |-> Nobody,
         had |-> {}, todo |-> {}, done |-> {}]

Admins(gs) == {p \in Person : "admin" \in gs[p]}
InOrg(p) == groups[p] \cap {"member", "admin"} # {}
Running == {r \in Request : req[r].pc # "idle"}

Init ==
  /\ groups \in [Person -> {{}, {"member"}, {"member", "team"}, {"member", "admin"},
                            {"member", "admin", "team"}}]
  /\ Admins(groups) # {}
  /\ req = [r \in Request |-> Idle]
  /\ started = 0 /\ faults = 0
  /\ overlapped = {}
  /\ half = FALSE /\ unguarded = FALSE

-------------------------------------------------------------------------------
(* Steps of a request *)

At(r, pc) == req[r].pc = pc

Goto(r, pc) == req' = [req EXCEPT ![r].pc = pc]
Work(r, pc, todo) == req' = [req EXCEPT ![r].pc = pc, ![r].todo = todo]
Answer(r) == req' = [req EXCEPT ![r] = Idle]

\* Groups are added in the order member, admin, team, and taken away in the
\* reverse order: the narrowest grant goes first.
Widest(G) ==
  IF "member" \in G THEN "member" ELSE IF "admin" \in G THEN "admin" ELSE "team"

\* Mutant: the widest grant goes first.
WidestFirst(G) == Widest(G)

Narrowest(G) ==
  IF "team" \in G THEN "team" ELSE IF "admin" \in G THEN "admin" ELSE "member"

Adding(r, g) == groups' = [groups EXCEPT ![req[r].on] = @ \cup {g}]
Taking(r, g) == groups' = [groups EXCEPT ![req[r].on] = @ \ {g}]

\* A request arrives and, for the handlers of an administrator, the caller is
\* confirmed with Keycloak to be one; nobody removes themself that way.
Begin(r, kind, p) ==
  /\ At(r, "idle") /\ started < MaxRequests
  /\ kind = "leave" \/ \E caller \in Admins(groups) \cup PlatformAdmin :
                         kind = "remove" => caller # p
  /\ started' = started + 1
  /\ req' = [req EXCEPT ![r] = [Idle EXCEPT !.pc = "read", !.kind = kind, !.on = p]]
  /\ overlapped' = IF \E q \in Running : req[q].on = p THEN overlapped \cup {p} ELSE overlapped
  /\ UNCHANGED <<groups, faults, half, unguarded>>

\* The person's groups are read; what is to be done follows from them.
Read(r) ==
  LET had == groups[req[r].on]
      with(pc, todo) == req' = [req EXCEPT ![r].had = had, ![r].pc = pc, ![r].todo = todo] IN
  /\ At(r, "read")
  /\ CASE req[r].kind = "add" /\ ~InOrg(req[r].on) ->
            \E more \in SUBSET {"admin", "team"} : with("grant", {"member"} \cup more)
       [] req[r].kind = "promote" /\ InOrg(req[r].on) /\ ~({"member", "admin"} \subseteq had) ->
            with("grant", {"member", "admin"} \ had)
       [] req[r].kind \in {"demote", "remove", "leave"} /\ "admin" \in had -> with("guard", {})
       [] req[r].kind \in {"remove", "leave"} /\ "admin" \notin had /\ InOrg(req[r].on) ->
            IF "team" \in had THEN with("revoke", {"team"}) ELSE with("final", {})
       [] req[r].kind = "joinTeam" /\ (InOrg(req[r].on) \/ req[r].on \in PlatformAdmin) ->
            with("grant", {"team"})
       [] req[r].kind = "quitTeam" -> with("revoke", {"team"})
       [] OTHER -> Answer(r)
  /\ UNCHANGED <<groups, started, faults, overlapped, half, unguarded>>

\* otherAdmins, before anything is taken away.  None: refused.
Guard(r) ==
  /\ At(r, "guard")
  /\ IF Admins(groups) \subseteq {req[r].on} THEN Answer(r)
     ELSE IF req[r].kind = "demote" THEN Work(r, "grant", {"member"})
     ELSE Work(r, "revoke", req[r].had \cap {"admin", "team"})
  /\ UNCHANGED <<groups, started, faults, overlapped, half, unguarded>>

\* addUserToGroup: the next group of a list, or the member group of an admin
\* who is demoted.
Grant(r) ==
  LET g == Widest(req[r].todo)
      rest == req[r].todo \ {g} IN
  /\ At(r, "grant")
  /\ Adding(r, g)
  /\ IF rest # {} THEN req' = [req EXCEPT ![r].todo = rest, ![r].done = @ \cup {g}]
     ELSE IF req[r].kind = "demote" THEN Work(r, "revoke", {"admin"})
     ELSE Answer(r)
  /\ UNCHANGED <<started, faults, overlapped, half, unguarded>>

\* Mutant: the admins are not counted again after one was taken away.
AfterRevokeTrusting(r, g) ==
  IF req[r].todo \ {g} # {} THEN "revoke"
  ELSE IF req[r].kind \in {"remove", "leave"} THEN "final" ELSE "idle"

\* Mutant: the admins are counted again after any removal.
AfterRevokeAlways(r, g) ==
  IF req[r].todo \ {g} # {} THEN "revoke" ELSE "recheck"

\* After a team comes the admin group, after that the admins are counted again.
AfterRevoke(r, g) ==
  IF g = "admin" THEN "recheck"
  ELSE IF req[r].todo \ {g} # {} THEN "revoke"
  ELSE IF req[r].kind \in {"remove", "leave"} THEN "final" ELSE "idle"

\* removeUserFromGroup: the next of the teams and the admin group.
Revoke(r) ==
  LET g == Narrowest(req[r].todo)
      next == AfterRevoke(r, g) IN
  /\ At(r, "revoke")
  /\ Taking(r, g)
  /\ IF next = "idle" THEN Answer(r)
     ELSE req' = [req EXCEPT ![r].todo = @ \ {g}, ![r].done = @ \cup {g}, ![r].pc = next]
  /\ UNCHANGED <<started, faults, overlapped, half, unguarded>>

\* Mutant: a removal that is undone gives back the admin group only.
GivenBackAdmin(r) == {"admin"}

\* What a change that would leave no admin gives back: removeMember all it took,
\* leaveOrganization and patchMember the admin group.
GivenBack(r) == IF req[r].kind = "remove" THEN req[r].done ELSE {"admin"}

\* otherAdmins again: two such changes at once would both pass the guard.
Recheck(r) ==
  /\ At(r, "recheck")
  /\ IF Admins(groups) \subseteq (IF req[r].kind = "leave" THEN {req[r].on} ELSE {})
     THEN Work(r, "giveBack", GivenBack(r))
     ELSE IF req[r].kind = "demote" THEN Answer(r) ELSE Goto(r, "final")
  /\ UNCHANGED <<groups, started, faults, overlapped, half, unguarded>>

\* The change is undone, and the request refused when all is given back.
GiveBack(r) ==
  LET g == Widest(req[r].todo) IN
  /\ At(r, "giveBack")
  /\ Adding(r, g)
  /\ IF req[r].todo = {g} THEN Answer(r) ELSE Work(r, "giveBack", req[r].todo \ {g})
  /\ UNCHANGED <<started, faults, overlapped, half, unguarded>>

\* The member group, last.
Final(r) ==
  /\ At(r, "final")
  /\ Taking(r, "member")
  /\ Answer(r)
  /\ UNCHANGED <<started, faults, overlapped, half, unguarded>>

\* addToGroups takes back what it had added; it does not count the admins.
TakeBack(r) ==
  LET g == Narrowest(req[r].done) IN
  /\ At(r, "takeBack")
  /\ Taking(r, g)
  /\ IF req[r].done = {g} THEN Answer(r)
     ELSE req' = [req EXCEPT ![r].done = @ \ {g}]
  /\ unguarded' = (unguarded \/ g = "admin")
  /\ UNCHANGED <<started, faults, overlapped, half>>

-------------------------------------------------------------------------------
(* Failures *)

\* The effect of the call that is being made, if it has one.
Effect(r) ==
  CASE req[r].pc \in {"grant", "giveBack"} -> Adding(r, Widest(req[r].todo))
    [] At(r, "revoke") -> Taking(r, Narrowest(req[r].todo))
    [] At(r, "takeBack") -> Taking(r, Narrowest(req[r].done))
    [] At(r, "final") -> Taking(r, "member")
    [] OTHER -> UNCHANGED groups

\* The call takes an admin away, or makes sure that one is left.
Guarding(r) ==
  \/ req[r].pc \in {"recheck", "giveBack"}
  \/ At(r, "revoke") /\ Narrowest(req[r].todo) = "admin"
  \/ At(r, "takeBack") /\ Narrowest(req[r].done) = "admin"

\* A call throws, whether or not it took effect.  addToGroups takes back what it
\* had added, but not the group whose call was lost after it took effect; giving
\* back and taking back go on; everything else ends there.
Throws(r) ==
  /\ req[r].pc \notin {"idle", "read", "guard"}
  /\ faults < MaxFaults
  /\ faults' = faults + 1
  /\ \/ Effect(r) /\ half' = (half \/ (At(r, "grant") /\ req[r].done # {}))
     \/ UNCHANGED groups /\ half' = (half \/ At(r, "takeBack"))
  /\ unguarded' = (unguarded \/ Guarding(r))
  /\ CASE At(r, "grant") /\ req[r].done # {} -> Goto(r, "takeBack")
       [] At(r, "giveBack") /\ req[r].todo # {Widest(req[r].todo)} ->
            Work(r, "giveBack", req[r].todo \ {Widest(req[r].todo)})
       [] At(r, "takeBack") /\ req[r].done # {Narrowest(req[r].done)} ->
            req' = [req EXCEPT ![r].done = @ \ {Narrowest(@)}]
       [] OTHER -> Answer(r)
  /\ UNCHANGED <<started, overlapped>>

\* The process dies.  What addToGroups had added stays.
Dies(r) ==
  /\ r \in Running
  /\ faults < MaxFaults
  /\ faults' = faults + 1
  /\ Answer(r)
  /\ unguarded' = (unguarded \/ req[r].pc \in {"recheck", "giveBack"})
  /\ UNCHANGED <<groups, started, overlapped, half>>

Step(r) ==
  Read(r) \/ Guard(r) \/ Grant(r) \/ Revoke(r) \/ Recheck(r) \/ GiveBack(r) \/ Final(r)
    \/ TakeBack(r)

Next ==
  \E r \in Request :
    \/ \E kind \in Kind, p \in Person : Begin(r, kind, p)
    \/ Step(r) \/ Throws(r) \/ Dies(r)

Spec == Init /\ [][Next]_vars

-------------------------------------------------------------------------------
(* Properties *)

\* The variables have their types; a call is being made for something, and only
\* a person whose admin group was taken can be given groups back.
TypeOK ==
  /\ groups \in [Person -> SUBSET Group]
  /\ req \in [Request -> [pc : {"idle", "read", "guard", "grant", "revoke", "recheck",
                                "giveBack", "final", "takeBack"},
                          kind : Kind, on : Person \cup {Nobody},
                          had : SUBSET Group, todo : SUBSET Group, done : SUBSET Group]]
  /\ \A r \in Request : req[r].pc \in {"grant", "revoke", "giveBack"} => req[r].todo # {}
  /\ \A r \in Request : req[r].pc \in {"recheck", "giveBack"} => "admin" \in req[r].done
  /\ {started, faults} \subseteq Nat
  /\ overlapped \subseteq Person
  /\ {half, unguarded} \subseteq BOOLEAN

\* When no change is under way the organisation has an admin of its own, however
\* leaves, removals and demotions interleaved.  Only two things can leave it
\* without: a call that is lost between taking an admin away and making sure
\* that one is left, and an addition that fails and takes its admin back
\* (handlers.ts:737-746, :782-801; organizations.ts:778-795).
AdminLeft == Running = {} /\ ~unguarded => Admins(groups) # {}

\* Admins and team members are members, at every moment, also after a call
\* failed or the process died half way: "an interruption never leaves someone
\* in a team of an organisation they left" (handlers.ts:786-787).  Not so for a
\* person two requests were about at the same time, nor when addToGroups cannot
\* take back what it added.
Nested ==
  ~half => \A p \in Person \ (overlapped \cup PlatformAdmin) :
             groups[p] \cap {"admin", "team"} # {} => "member" \in groups[p]

\* A change that is refused because it would leave no admin gives back what it
\* took, except the teams of a person who wanted to leave
\* (handlers.ts:743-746, :798-801; organizations.ts:788-794).
RefusedIsUndone ==
  [][\A r \in Request :
       At(r, "giveBack") /\ req'[r].pc = "idle" /\ ~unguarded' /\ req[r].on \notin overlapped
         => LET kept == IF req[r].kind = "leave" THEN {"team"} ELSE {} IN
            req[r].had \ kept \subseteq groups'[req[r].on]]_vars

===============================================================================
