---------------------------- MODULE TicketDesk ----------------------------
(***************************************************************************)
(* What the ticket API promises its concurrent callers: tickets are opened *)
(* with the next number of their tenant, and every later command is one    *)
(* legal step of the aggregate on SOME version the ticket has had, which   *)
(* replaces the current one.  (With no overlap that version is the current *)
(* one: that is what OnlyStaleWritesBreakTheLifecycle of Tickets adds.)    *)
(***************************************************************************)
EXTENDS TicketLifecycle, FiniteSets

CONSTANTS Tenant, Ticket, Time

VARIABLES desk,      \* desk[t]: the row of ticket t, NULL before it is opened
          versions   \* versions[t]: every row it has had

TicketsOf(n) == {t \in Ticket : desk[t] # NULL /\ desk[t].tenant = n}

Init ==
  /\ desk = [t \in Ticket |-> NULL]
  /\ versions = [t \in Ticket |-> {}]

Put(t, row) ==
  /\ desk' = [desk EXCEPT ![t] = row]
  /\ versions' = [versions EXCEPT ![t] = @ \cup {row}]

OpenTicket(t, n, now) ==
  /\ desk[t] = NULL
  /\ Put(t, OpenRow(n, Cardinality(TicketsOf(n)) + 1, now))

MoveTicket(t, seen, next, now) ==
  /\ CanTransition(seen.status, next)
  /\ Put(t, ChangeStatus(seen, next, now))

HandOver(t, seen, who, now) ==
  /\ ~IsTerminal(seen.status)
  /\ Put(t, AssignTo(seen, who, now))

Comment(t, seen, now) ==
  /\ ~IsTerminal(seen.status)
  /\ Put(t, Touch(seen, now))

Next ==
  \E t \in Ticket, now \in Time :
    \/ \E n \in Tenant : OpenTicket(t, n, now)
    \/ \E seen \in versions[t] :
         \/ \E next \in Status : MoveTicket(t, seen, next, now)
         \/ \E who \in User \cup {NULL} : HandOver(t, seen, who, now)
         \/ Comment(t, seen, now)

Spec == Init /\ [][Next]_<<desk, versions>>
=============================================================================
