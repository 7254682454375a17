------------------------- MODULE TicketLifecycle -------------------------
(***************************************************************************)
(* The ticket aggregate: its state machine and what each command does to a *)
(* row of the tickets table.  Pure operators, no state.                    *)
(*                                                                         *)
(* Subject, description, priority and requester are left out: no guard     *)
(* reads them and every command leaves them alone.                         *)
(***************************************************************************)
EXTENDS Integers

CONSTANTS User,   \* user ids
          NULL    \* the SQL null

Status == {"OPEN", "IN_PROGRESS", "RESOLVED", "CLOSED"}

AllowedTransitions ==
  [OPEN        |-> {"IN_PROGRESS", "RESOLVED"},
   IN_PROGRESS |-> {"RESOLVED", "OPEN"},
   RESOLVED    |-> {"CLOSED", "OPEN"},
   CLOSED      |-> {}]

\* A mutant: any other status.
AnyTransition(from, to) == to # from

CanTransition(from, to) == to \in AllowedTransitions[from]

IsTerminal(status) == AllowedTransitions[status] = {}

Row(Tenants) ==
  [tenant     : Tenants,
   number     : Nat \ {0},
   status     : Status,
   assignee   : User \cup {NULL},
   updatedAt  : Nat,
   resolvedAt : Nat \cup {NULL},
   closedAt   : Nat \cup {NULL}]

-----------------------------------------------------------------------------
(* The commands of the aggregate, on the in-memory copy of the row.        *)

\* Ticket.open
OpenRow(tenant, number, now) ==
  [tenant |-> tenant, number |-> number, status |-> "OPEN", assignee |-> NULL,
   updatedAt |-> now, resolvedAt |-> NULL, closedAt |-> NULL]

\* A mutant: reopening forgets to clear the dates of the previous closure.
KeepLifecycleTimestamps(row, next, now) ==
  CASE next = "RESOLVED" -> [row EXCEPT !.resolvedAt = now]
    [] next = "CLOSED"   -> [row EXCEPT !.closedAt = now]
    [] OTHER             -> row

\* Closing keeps resolvedAt; reopening clears both dates.
ApplyLifecycleTimestamps(row, next, now) ==
  CASE next = "RESOLVED" -> [row EXCEPT !.resolvedAt = now]
    [] next = "CLOSED"   -> [row EXCEPT !.closedAt = now]
    [] OTHER             -> [row EXCEPT !.resolvedAt = NULL, !.closedAt = NULL]

Touch(row, now) == [row EXCEPT !.updatedAt = now]

\* changeStatus, on the path where the transition is allowed.
ChangeStatus(row, next, now) ==
  Touch(ApplyLifecycleTimestamps([row EXCEPT !.status = next], next, now), now)

\* assignTo and unassign (who = NULL), on a ticket that is not terminal.
AssignTo(row, who, now) == Touch([row EXCEPT !.assignee = who], now)

-----------------------------------------------------------------------------
(* The dates of a row agree with its status: "es imposible que exista un   *)
(* ticket RESOLVED sin resolvedAt, o uno OPEN que conserve la fecha".      *)
LifecycleConsistent(row) ==
  /\ (row.resolvedAt # NULL) <=> (row.status \in {"RESOLVED", "CLOSED"})
  /\ (row.closedAt # NULL) <=> (row.status = "CLOSED")

\* What one serial command may turn the row into (ADR-0015).
LegalSuccessor(old, new) ==
  /\ ~IsTerminal(old.status)
  /\ <<new.tenant, new.number>> = <<old.tenant, old.number>>
  /\ \/ new.status = old.status
     \/ CanTransition(old.status, new.status) /\ new.assignee = old.assignee
=============================================================================
