------------------------------ MODULE Tickets ------------------------------
(***************************************************************************)
(* The five ticket use cases, run by concurrent workers (HTTP requests and *)
(* queue jobs), each in one interactive READ COMMITTED transaction.        *)
(*                                                                         *)
(* A transaction reads the committed row with a plain SELECT, changes its  *)
(* copy in memory and writes every mutable column back, with no version    *)
(* and no condition.  Its row, its audit entry and its outbox message      *)
(* become visible together at the commit; until then it holds the locks of *)
(* the rows it wrote.  `now` is read from the clock BEFORE the transaction *)
(* opens.                                                                  *)
(***************************************************************************)
EXTENDS TicketLifecycle, Sequences, FiniteSets

CONSTANTS
  Worker,     \* concurrent request contexts
  Tenant,     \* organizations
  Ticket,     \* ticket ids (uuids)
  Ops,        \* the use cases a run exercises, a subset of UseCase
  MembersOf,  \* the members of each tenant
  AgentsOf,   \* its agents (AGENT and ADMIN), ordered by user id
  MaxTime     \* bound: clock reading of the last request that may begin

UseCase == {"create", "status", "assign", "unassign", "comment", "autoassign"}

ASSUME NullAssumption ==
  /\ NULL \notin Nat
  /\ NULL \notin User
  /\ NULL \notin Row(Tenant)

ASSUME TicketsAssumption ==
  /\ Ops \subseteq UseCase
  /\ MaxTime \in Nat
  /\ MembersOf \in [Tenant -> SUBSET User]
  /\ AgentsOf \in [Tenant -> Seq(User)]

VARIABLES
  rows,       \* the tickets table: committed row of each id, NULL when absent
  counter,    \* ticket_counters: last number given out, per tenant
  processed,  \* processed_messages of consumer ticketing.auto-assign, by ticket
  audit,      \* committed audit entries
  outbox,     \* committed outbox messages
  tx,         \* the transaction each worker has open
  clock

vars == <<rows, counter, processed, audit, outbox, tx, clock>>

\* A request or job.  `arg` is the status or the user asked for, and whether
\* the text of a new ticket or comment passes validation.
Request ==
  [op : {"create", "comment"}, tenant : Tenant, ticket : Ticket, arg : {"valid", "invalid"}]
    \cup [op : {"status"}, tenant : Tenant, ticket : Ticket, arg : Status]
    \cup [op : {"assign"}, tenant : Tenant, ticket : Ticket, arg : User]
    \cup [op : {"unassign", "autoassign"}, tenant : Tenant, ticket : Ticket, arg : {NULL}]

\* An audit entry and the domain event recorded with it.  Their data (status,
\* assignee, instant) are abstracted to the row the command left.
Entry ==
  [name : {"ticket.created", "ticket.status_changed", "ticket.assigned",
           "ticket.unassigned", "comment.added"},
   actor : {"person", "system"}, tenant : Tenant, ticket : Ticket, row : Row(Tenant)]

EntryOf(name, actor, ticket, row) ==
  [name |-> name, actor |-> actor, tenant |-> row.tenant, ticket |-> ticket, row |-> row]

\* No transaction open.
Idle ==
  [pc |-> "idle", req |-> NULL, now |-> 0, number |-> 0, snap |-> NULL,
   row |-> NULL, audit |-> {}, outbox |-> {}]

Open(w) == tx[w].pc # "idle"

TypeOK ==
  /\ rows \in [Ticket -> Row(Tenant) \cup {NULL}]
  /\ counter \in [Tenant -> Nat]
  /\ processed \subseteq Ticket
  /\ audit \subseteq Entry
  /\ outbox \subseteq Entry
  /\ clock \in 0..MaxTime
  /\ tx \in [Worker ->
       [pc     : {"idle", "begun", "reserved", "claimed", "loaded", "saved"},
        req    : Request \cup {NULL},
        now    : 0..MaxTime,
        number : Nat,
        snap   : Row(Tenant) \cup {NULL},
        row    : Row(Tenant) \cup {NULL},
        audit  : SUBSET Entry,
        outbox : SUBSET Entry]]

Init ==
  /\ rows = [t \in Ticket |-> NULL]
  /\ counter = [n \in Tenant |-> 0]
  /\ processed = {}
  /\ audit = {}
  /\ outbox = {}
  /\ tx = [w \in Worker |-> Idle]
  /\ clock = 0

-----------------------------------------------------------------------------
(* Locks follow from where each transaction stands.                        *)

HasOp(w, op) == Open(w) /\ tx[w].req.op = op

\* The upsert of the counter row is held to the end of the transaction.
HoldsCounter(w, n) ==
  HasOp(w, "create") /\ tx[w].req.tenant = n /\ tx[w].pc \in {"reserved", "saved"}

\* The inserted (consumer, event) key makes a second insert wait.
HoldsClaim(w, t) ==
  HasOp(w, "autoassign") /\ tx[w].req.ticket = t
                         /\ tx[w].pc \in {"claimed", "loaded", "saved"}

\* The updated row makes a second update wait.
HoldsRow(w, t) == Open(w) /\ tx[w].pc = "saved" /\ tx[w].req.ticket = t

-----------------------------------------------------------------------------
(* Steps every use case shares.                                            *)

\* clock.now(), then the transaction opens.  A new ticket gets a fresh uuid;
\* an auto-assign job is a delivery, first or repeated, of the committed
\* ticket.created event.
Begin(w) ==
  /\ ~Open(w)
  /\ clock < MaxTime
  /\ \E r \in Request :
       /\ r.op \in Ops
       /\ r.op = "create" =>
            /\ rows[r.ticket] = NULL
            /\ \A v \in Worker : ~(HasOp(v, "create") /\ tx[v].req.ticket = r.ticket)
       /\ r.op = "autoassign" =>
            \E e \in outbox : e.name = "ticket.created" /\ e.ticket = r.ticket
                                                        /\ e.tenant = r.tenant
       /\ tx' = [tx EXCEPT ![w] = [Idle EXCEPT !.pc = "begun", !.req = r,
                                               !.now = clock + 1]]
  /\ clock' = clock + 1
  /\ UNCHANGED <<rows, counter, processed, audit, outbox>>

\* A mutant: the lookup is by id alone and row level security is off.
LoadAcrossTenants(w) ==
  /\ \/ tx[w].pc = "begun" /\ tx[w].req.op \in {"status", "assign", "unassign", "comment"}
     \/ tx[w].pc = "claimed"
  /\ tx' = [tx EXCEPT ![w].pc = "loaded", ![w].snap = rows[tx[w].req.ticket]]
  /\ UNCHANGED <<rows, counter, processed, audit, outbox, clock>>

\* findById: the committed row, without a lock; nothing of another tenant.
Load(w) ==
  LET t == tx[w].req.ticket
      visible == rows[t] # NULL /\ rows[t].tenant = tx[w].req.tenant
  IN  /\ \/ tx[w].pc = "begun" /\ tx[w].req.op \in {"status", "assign", "unassign", "comment"}
         \/ tx[w].pc = "claimed"
      /\ tx' = [tx EXCEPT ![w].pc = "loaded",
                          ![w].snap = IF visible THEN rows[t] ELSE NULL]
      /\ UNCHANGED <<rows, counter, processed, audit, outbox, clock>>

\* Err, an exception, a lost connection or a crash: nothing is left behind.
Rollback(w) ==
  /\ tx' = [tx EXCEPT ![w] = Idle]
  /\ UNCHANGED <<rows, counter, processed, audit, outbox, clock>>

\* save + audit.record + events.record, in the transaction.
Save(w, row, name, actor) ==
  LET t == tx[w].req.ticket
      e == EntryOf(name, actor, t, row)
  IN  /\ \A v \in Worker \ {w} : ~HoldsRow(v, t)
      /\ tx' = [tx EXCEPT ![w].pc = "saved", ![w].row = row,
                          ![w].audit = {e}, ![w].outbox = {e}]
      /\ UNCHANGED <<rows, counter, processed, audit, outbox, clock>>

-----------------------------------------------------------------------------
(* The use cases.                                                          *)

\* A mutant: the counter is read and written back, not locked.
ReserveNumberUnlocked(w) ==
  /\ tx[w].pc = "begun"
  /\ tx[w].req.op = "create"
  /\ tx' = [tx EXCEPT ![w].pc = "reserved", ![w].number = counter[tx[w].req.tenant] + 1]
  /\ UNCHANGED <<rows, counter, processed, audit, outbox, clock>>

\* CreateTicket: numbers.next, which waits for the counter row.
ReserveNumber(w) ==
  /\ tx[w].pc = "begun"
  /\ tx[w].req.op = "create"
  /\ \A v \in Worker : ~HoldsCounter(v, tx[w].req.tenant)
  /\ tx' = [tx EXCEPT ![w].pc = "reserved", ![w].number = counter[tx[w].req.tenant] + 1]
  /\ UNCHANGED <<rows, counter, processed, audit, outbox, clock>>

\* CreateTicket: Ticket.open, whose error gives the number back.
CreateTicket(w) ==
  /\ tx[w].pc = "reserved"
  /\ IF tx[w].req.arg = "invalid"
       THEN Rollback(w)
       ELSE Save(w, OpenRow(tx[w].req.tenant, tx[w].number, tx[w].now),
                 "ticket.created", "person")

\* ChangeTicketStatus: asking for the current status commits nothing, which
\* leaves what a rollback leaves.
ChangeTicketStatus(w) ==
  LET s == tx[w].snap  next == tx[w].req.arg
  IN  /\ tx[w].pc = "loaded"
      /\ tx[w].req.op = "status"
      /\ IF s = NULL \/ s.status = next \/ ~CanTransition(s.status, next)
           THEN Rollback(w)
           ELSE Save(w, ChangeStatus(s, next, tx[w].now), "ticket.status_changed", "person")

\* AssignTicket: the assignee, when there is one, must be a member.
AssignTicket(w) ==
  LET s == tx[w].snap  who == tx[w].req.arg
      refused == s = NULL \/ IsTerminal(s.status)
                          \/ (who # NULL /\ who \notin MembersOf[tx[w].req.tenant])
  IN  /\ tx[w].pc = "loaded"
      /\ tx[w].req.op \in {"assign", "unassign"}
      /\ IF refused
           THEN Rollback(w)
           ELSE Save(w, AssignTo(s, who, tx[w].now),
                     IF who = NULL THEN "ticket.unassigned" ELSE "ticket.assigned", "person")

\* AddComment: the whole ticket is saved again for its updatedAt.
AddComment(w) ==
  LET s == tx[w].snap
      refused == s = NULL \/ IsTerminal(s.status) \/ tx[w].req.arg = "invalid"
  IN  /\ tx[w].pc = "loaded"
      /\ tx[w].req.op = "comment"
      /\ IF refused
           THEN Rollback(w)
           ELSE Save(w, Touch(s, tx[w].now), "comment.added", "person")

\* A mutant: the mark is looked up, not inserted, so a duplicate does not wait.
ClaimUnlocked(w) ==
  LET t == tx[w].req.ticket
  IN  /\ tx[w].pc = "begun"
      /\ tx[w].req.op = "autoassign"
      /\ tx' = [tx EXCEPT ![w] = IF t \in processed THEN Idle ELSE [@ EXCEPT !.pc = "claimed"]]
      /\ UNCHANGED <<rows, counter, processed, audit, outbox, clock>>

\* A mutant: a duplicate waits for the mark to go away.
ClaimWaits(w) ==
  LET t == tx[w].req.ticket
  IN  /\ tx[w].pc = "begun"
      /\ tx[w].req.op = "autoassign"
      /\ t \notin processed
      /\ \A v \in Worker : ~HoldsClaim(v, t)
      /\ tx' = [tx EXCEPT ![w].pc = "claimed"]
      /\ UNCHANGED <<rows, counter, processed, audit, outbox, clock>>

\* AutoAssignTicket: processed.claim; a duplicate is skipped.
Claim(w) ==
  LET t == tx[w].req.ticket
  IN  /\ tx[w].pc = "begun"
      /\ tx[w].req.op = "autoassign"
      /\ \A v \in Worker : ~HoldsClaim(v, t)
      /\ tx' = [tx EXCEPT ![w] = IF t \in processed THEN Idle ELSE [@ EXCEPT !.pc = "claimed"]]
      /\ UNCHANGED <<rows, counter, processed, audit, outbox, clock>>

\* agentes[(number - 1) % agentes.length], from one.
RoundRobin(tenant, number) ==
  AgentsOf[tenant][((number - 1) % Len(AgentsOf[tenant])) + 1]

\* A mutant: an assignee already there is replaced.
AutoAssignAnyway(w) ==
  LET s == tx[w].snap  n == tx[w].req.tenant
      skipped == s = NULL \/ AgentsOf[n] = <<>> \/ IsTerminal(s.status)
  IN  /\ tx[w].pc = "loaded"
      /\ tx[w].req.op = "autoassign"
      /\ IF skipped
           THEN /\ processed' = processed \cup {tx[w].req.ticket}
                /\ tx' = [tx EXCEPT ![w] = Idle]
                /\ UNCHANGED <<rows, counter, audit, outbox, clock>>
           ELSE Save(w, AssignTo(s, RoundRobin(n, s.number), tx[w].now),
                     "ticket.assigned", "system")

\* AutoAssignTicket: a final situation commits the claim and nothing else.
AutoAssignTicket(w) ==
  LET s == tx[w].snap  n == tx[w].req.tenant
      skipped == s = NULL \/ s.assignee # NULL \/ AgentsOf[n] = <<>> \/ IsTerminal(s.status)
  IN  /\ tx[w].pc = "loaded"
      /\ tx[w].req.op = "autoassign"
      /\ IF skipped
           THEN /\ processed' = processed \cup {tx[w].req.ticket}
                /\ tx' = [tx EXCEPT ![w] = Idle]
                /\ UNCHANGED <<rows, counter, audit, outbox, clock>>
           ELSE Save(w, AssignTo(s, RoundRobin(n, s.number), tx[w].now),
                     "ticket.assigned", "system")

-----------------------------------------------------------------------------
\* A mutant: updated_at is missing from the updated columns.
UpsertWithoutUpdatedAt(old, new) ==
  IF old = NULL THEN new
  ELSE [new EXCEPT !.tenant = old.tenant, !.number = old.number, !.updatedAt = old.updatedAt]

\* Columns the upsert updates; the identity of the row stays.
Upsert(old, new) ==
  IF old = NULL THEN new ELSE [new EXCEPT !.tenant = old.tenant, !.number = old.number]

\* Everything the transaction wrote becomes visible at once.
Commit(w) ==
  LET t == tx[w].req.ticket  n == tx[w].req.tenant
  IN  /\ tx[w].pc = "saved"
      /\ rows' = [rows EXCEPT ![t] = Upsert(@, tx[w].row)]
      /\ counter' = IF HasOp(w, "create") THEN [counter EXCEPT ![n] = tx[w].number] ELSE counter
      /\ processed' = IF HasOp(w, "autoassign") THEN processed \cup {t} ELSE processed
      /\ audit' = audit \cup tx[w].audit
      /\ outbox' = outbox \cup tx[w].outbox
      /\ tx' = [tx EXCEPT ![w] = Idle]
      /\ UNCHANGED clock

\* The process dies, the connection drops or the transaction times out.
Abort(w) == Open(w) /\ Rollback(w)

Step(w) ==
  \/ ReserveNumber(w) \/ CreateTicket(w)
  \/ Claim(w) \/ Load(w)
  \/ ChangeTicketStatus(w) \/ AssignTicket(w) \/ AddComment(w) \/ AutoAssignTicket(w)
  \/ Commit(w)

Next == \E w \in Worker : Begin(w) \/ Step(w) \/ Abort(w)

Spec == Init /\ [][Next]_vars

\* A running transaction goes on: the server schedules it and Postgres grants
\* a lock once its holder ends.
FairSpec == Spec /\ \A w \in Worker : WF_vars(Step(w))

-----------------------------------------------------------------------------
(* Safety.                                                                 *)

\* The dates of every stored ticket agree with its status, whichever of two
\* overlapping requests wrote last: a save writes all columns from one copy,
\* so a lost update never mixes the columns of two writers.
RowsLifecycleConsistent ==
  \A t \in Ticket : rows[t] # NULL => LifecycleConsistent(rows[t])

\* Ticket numbers of a tenant are 1..n without repetition or gap, although
\* requests race for the counter and fail after taking a number (ADR-0017).
NumbersGapless ==
  \A n \in Tenant :
    LET mine == {t \in Ticket : rows[t] # NULL /\ rows[t].tenant = n}
    IN  /\ {rows[t].number : t \in mine} = 1..counter[n]
        /\ \A t, u \in mine : rows[t].number = rows[u].number => t = u

\* Every committed change is both audited and announced, and nothing is
\* audited or announced that was rolled back (ADR-0007, ADR-0018).
AuditMatchesOutbox == audit = outbox

\* The stored row is, column by column, the one some audited command left:
\* overlapping saves never blend into a row that nobody wrote.
RowsExplained ==
  \A t \in Ticket : rows[t] # NULL => \E e \in audit : e.ticket = t /\ e.row = rows[t]

\* No request acts on a ticket of another tenant, whatever id it carries:
\* each entry names the tenant that owns the ticket.
TenantIsolation ==
  /\ \A e \in audit : rows[e.ticket] # NULL /\ rows[e.ticket].tenant = e.tenant
  /\ \A w \in Worker : tx[w].snap # NULL => tx[w].snap.tenant = tx[w].req.tenant

\* The job of a ticket is delivered more than once, to workers that race, and
\* crashes halfway; the automatic assignment is recorded at most once.
AutoAssignedOnce ==
  \A d, e \in audit : d.actor = "system" /\ e.actor = "system" /\ d.ticket = e.ticket => d = e

-----------------------------------------------------------------------------
(* Action properties.                                                      *)

\* The worker whose copy of t is older than the stored row.
Stale(w, t) == tx[w].pc = "saved" /\ tx[w].req.ticket = t /\ tx[w].snap # rows[t]

\* A stored ticket moves only as the state machine allows, unless the writer
\* read it before another request committed.  In particular a CLOSED ticket
\* changes only under a request that saw it open.
OnlyStaleWritesBreakTheLifecycle ==
  [][\A t \in Ticket : rows[t] # NULL /\ rows'[t] # rows[t] =>
       \/ LegalSuccessor(rows[t], rows'[t])
       \/ \E w \in Worker : Stale(w, t)]_vars

\* "manda la persona": the system replaces an assignee already stored only when
\* a person was assigned after the job had read the ticket.
PersonWinsUnlessStale ==
  [][\A e \in audit' \ audit : e.actor = "system" =>
       \/ rows[e.ticket].assignee = NULL
       \/ \E w \in Worker : HasOp(w, "autoassign") /\ Stale(w, e.ticket)]_vars

\* History is append only, numbers are never taken back, and a ticket keeps
\* its tenant and number for ever.
HistoryAppendOnly ==
  [][/\ audit \subseteq audit' /\ outbox \subseteq outbox' /\ processed \subseteq processed'
     /\ \A n \in Tenant : counter'[n] >= counter[n]
     /\ \A t \in Ticket : rows[t] # NULL =>
          /\ rows'[t] # NULL
          /\ <<rows'[t].tenant, rows'[t].number>> = <<rows[t].tenant, rows[t].number>>]_vars

\* "CLOSED es TERMINAL": what the state machine says of every stored ticket.
ClosedIsTerminal ==
  [][\A t \in Ticket : rows[t] # NULL /\ rows[t].status = "CLOSED"
       => rows'[t].status = "CLOSED"]_vars

-----------------------------------------------------------------------------
(* Refinement.                                                             *)

Desk == INSTANCE TicketDesk WITH
  Time     <- 0..MaxTime,
  desk     <- rows,
  versions <- [t \in Ticket |-> {e.row : e \in {f \in audit : f.ticket = t}}]

\* However requests overlap, crash and are refused, every stored change is one
\* legal command of the aggregate on a version the ticket has had.
ImplementsDesk == Desk!Spec

-----------------------------------------------------------------------------
(* Liveness.                                                               *)

\* Every request ends: no lock order of the use cases makes them wait for
\* each other for ever.
RequestsEnd == \A w \in Worker : Open(w) ~> ~Open(w)
=============================================================================
