----------------------------- MODULE TicketLedger -----------------------------
(* What the support-ticket pipeline promises about each incident, free of     *)
(* queues, workers and Plane calls (the header of support/tickets.ts): one    *)
(* ticket while the incident lasts, resolved when the platform recovers, and  *)
(* a failure after that opens a NEW ticket that links the resolved one.       *)
EXTENDS Integers

CONSTANTS Incident,     \* incident ids
          NoTicket,     \* the incident has no record
          MaxItem       \* bound on the numbers Plane gives to work items

VARIABLE ticket         \* per incident: NoTicket or [state, issue, previous]

Tickets == [state : {"open", "resolved"}, issue : 1..MaxItem, previous : 0..MaxItem]

TypeOK == ticket \in [Incident -> Tickets \cup {NoTicket}]

Init == ticket = [i \in Incident |-> NoTicket]

IsOpen(i) == ticket[i] # NoTicket /\ ticket[i].state = "open"

\* The work item the incident's ticket names, 0 when there is none.
Named(i) == IF ticket[i] = NoTicket THEN 0 ELSE ticket[i].issue

\* A failure with no open ticket: a work item no record ever named for this
\* incident, linked to the one it follows.
File(i) ==
  /\ ~IsOpen(i)
  /\ \E n \in 1..MaxItem :
       /\ n > Named(i)
       /\ \A j \in Incident : n # Named(j)
       /\ ticket' = [ticket EXCEPT ![i] = [state |-> "open", issue |-> n, previous |-> Named(i)]]

\* A recovery.
Resolve(i) ==
  /\ IsOpen(i)
  /\ ticket' = [ticket EXCEPT ![i].state = "resolved"]

Next == \E i \in Incident : File(i) \/ Resolve(i)

Spec == Init /\ [][Next]_ticket
===============================================================================
