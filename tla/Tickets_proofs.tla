-------------------------- MODULE Tickets_proofs --------------------------
(***************************************************************************)
(* What Tickets guarantees for any number of workers, tenants, tickets,    *)
(* users and requests.                                                     *)
(***************************************************************************)
EXTENDS Tickets, FiniteSetTheorems, TLAPS

-----------------------------------------------------------------------------
(* The aggregate.                                                          *)

LEMMA ModBound ==
  ASSUME NEW a \in Nat, NEW b \in Nat \ {0}
  PROVE  (a % b) + 1 \in 1..b
OBVIOUS

\* The round robin picks an agent of the tenant.
LEMMA RoundRobinType ==
  ASSUME NEW n \in Tenant, NEW number \in Nat \ {0}, AgentsOf[n] # <<>>
  PROVE  RoundRobin(n, number) \in User
<1>1. AgentsOf[n] \in Seq(User)
  BY TicketsAssumption
<1>2. Len(AgentsOf[n]) \in Nat \ {0}
  BY <1>1
<1>3. number - 1 \in Nat
  OBVIOUS
<1>4. ((number - 1) % Len(AgentsOf[n])) + 1 \in 1..Len(AgentsOf[n])
  BY ONLY <1>2, <1>3, ModBound
<1> QED
  BY <1>1, <1>4 DEF RoundRobin

\* Every command of the aggregate turns a row into a row.
LEMMA CommandsType ==
  ASSUME NEW row \in Row(Tenant), NEW now \in Nat,
         NEW next \in Status, NEW who \in User \cup {NULL}
  PROVE  /\ ChangeStatus(row, next, now) \in Row(Tenant)
         /\ AssignTo(row, who, now) \in Row(Tenant)
         /\ Touch(row, now) \in Row(Tenant)
BY DEF ChangeStatus, AssignTo, Touch, ApplyLifecycleTimestamps, Row, Status

\* Every command of the aggregate keeps the dates in agreement with the status.
LEMMA CommandsConsistent ==
  ASSUME NEW row \in Row(Tenant), LifecycleConsistent(row),
         NEW now \in Nat, NEW next \in Status, NEW who \in User \cup {NULL}
  PROVE  /\ CanTransition(row.status, next) =>
              LifecycleConsistent(ChangeStatus(row, next, now))
         /\ LifecycleConsistent(AssignTo(row, who, now))
         /\ LifecycleConsistent(Touch(row, now))
<1>1. now # NULL
  BY NullAssumption
<1>2. ASSUME CanTransition(row.status, next)
      PROVE  LifecycleConsistent(ChangeStatus(row, next, now))
  BY <1>1, <1>2 DEF LifecycleConsistent, ChangeStatus, Touch, ApplyLifecycleTimestamps,
                    CanTransition, AllowedTransitions, Row, Status
<1>3. LifecycleConsistent(AssignTo(row, who, now)) /\ LifecycleConsistent(Touch(row, now))
  BY DEF LifecycleConsistent, AssignTo, Touch, Row
<1> QED
  BY <1>2, <1>3

-----------------------------------------------------------------------------
(* Type correctness.  An open transaction knows its request, a reserved    *)
(* number is positive, and there is something to save.                     *)

TxState ==
  [pc     : {"idle", "begun", "reserved", "claimed", "loaded", "saved"},
   req    : Request \cup {NULL},
   now    : 0..MaxTime,
   number : Nat,
   snap   : Row(Tenant) \cup {NULL},
   row    : Row(Tenant) \cup {NULL},
   audit  : SUBSET Entry,
   outbox : SUBSET Entry]

TxWellFormed(x) ==
  /\ x.pc # "idle" => x.req \in Request
  /\ x.pc = "reserved" => x.number # 0 /\ x.req.op = "create"
  /\ x.pc = "claimed" => x.req.op = "autoassign"
  /\ x.pc = "saved" => x.row \in Row(Tenant)

TypeInv == TypeOK /\ \A w \in Worker : TxWellFormed(tx[w])

\* What the fields of a request are.
LEMMA RequestFields ==
  ASSUME NEW r \in Request
  PROVE  /\ r.op \in UseCase /\ r.tenant \in Tenant /\ r.ticket \in Ticket
         /\ r.op = "status" => r.arg \in Status
         /\ r.op \in {"assign", "unassign"} => r.arg \in User \cup {NULL}
BY DEF Request, UseCase

LEMMA IdleType == Idle \in TxState /\ TxWellFormed(Idle)
BY TicketsAssumption DEF Idle, TxState, TxWellFormed

\* A step that changes one transaction keeps the others.
LEMMA OneTx ==
  ASSUME TypeInv, NEW w \in Worker, NEW x \in TxState, TxWellFormed(x),
         tx' = [tx EXCEPT ![w] = x]
  PROVE  /\ tx' \in [Worker -> TxState]
         /\ \A v \in Worker : TxWellFormed(tx'[v])
BY DEF TypeInv, TypeOK, TxState

\* save keeps the types.
LEMMA SaveType ==
  ASSUME TypeInv, NEW w \in Worker, Open(w), NEW row \in Row(Tenant),
         NEW name \in {"ticket.created", "ticket.status_changed", "ticket.assigned",
                       "ticket.unassigned", "comment.added"},
         NEW actor \in {"person", "system"}, Save(w, row, name, actor)
  PROVE  TypeInv'
<1> DEFINE e == EntryOf(name, actor, tx[w].req.ticket, row)
<1>0. tx[w] \in TxState /\ tx[w].req \in Request
  BY DEF TypeInv, TypeOK, TxState, TxWellFormed, Open
<1>1. e \in Entry
  BY <1>0, RequestFields DEF EntryOf, Entry, Row
<1> DEFINE x == [tx[w] EXCEPT !.pc = "saved", !.row = row, !.audit = {e}, !.outbox = {e}]
<1>2. x \in TxState /\ TxWellFormed(x)
  BY <1>0, <1>1 DEF TxState, TxWellFormed
<1>3. tx' = [tx EXCEPT ![w] = x]
  BY <1>0 DEF Save, TypeInv, TypeOK
<1>4. tx' \in [Worker -> TxState] /\ \A v \in Worker : TxWellFormed(tx'[v])
  BY <1>2, <1>3, OneTx
<1> QED
  BY <1>4 DEF TypeInv, TypeOK, TxState, Save

\* Leaving a transaction keeps the types.
LEMMA RollbackType ==
  ASSUME TypeInv, NEW w \in Worker, Rollback(w)
  PROVE  TypeInv'
<1>1. tx' \in [Worker -> TxState] /\ \A v \in Worker : TxWellFormed(tx'[v])
  BY IdleType, OneTx DEF Rollback
<1> QED
  BY <1>1 DEF TypeInv, TypeOK, TxState, Rollback

\* Commit keeps the types.
LEMMA CommitType ==
  ASSUME TypeInv, NEW w \in Worker, Commit(w)
  PROVE  TypeInv'
<1> DEFINE t == tx[w].req.ticket
           n == tx[w].req.tenant
<1>1. /\ tx[w] \in TxState /\ tx[w].row \in Row(Tenant)
      /\ t \in Ticket /\ n \in Tenant
  BY RequestFields DEF TypeInv, TypeOK, TxState, TxWellFormed, Commit
<1>2. Upsert(rows[t], tx[w].row) \in Row(Tenant)
  BY <1>1 DEF Upsert, Row, TypeInv, TypeOK
<1>3. tx' \in [Worker -> TxState] /\ \A v \in Worker : TxWellFormed(tx'[v])
  BY IdleType, OneTx DEF Commit
<1>4. rows' \in [Ticket -> Row(Tenant) \cup {NULL}]
  BY <1>1, <1>2 DEF TypeInv, TypeOK, Commit
<1>5. counter' \in [Tenant -> Nat] /\ processed' \subseteq Ticket
  BY <1>1 DEF TypeInv, TypeOK, TxState, Commit
<1>6. audit' \subseteq Entry /\ outbox' \subseteq Entry /\ clock' \in 0..MaxTime
  BY <1>1 DEF TypeInv, TypeOK, TxState, Commit
<1> QED
  BY <1>3, <1>4, <1>5, <1>6 DEF TypeInv, TypeOK, TxState

LEMMA TypeInvInit == Init => TypeInv
BY IdleType, TicketsAssumption DEF Init, TypeInv, TypeOK, TxState

\* Every step keeps the types.
LEMMA TypeInvStep == TypeInv /\ [Next]_vars => TypeInv'
<1> SUFFICES ASSUME TypeInv, [Next]_vars
             PROVE  TypeInv'
  OBVIOUS
<1>s. ASSUME NEW w \in Worker
      PROVE  tx[w] \in TxState /\ TxWellFormed(tx[w]) /\ (Open(w) => tx[w].req \in Request)
  BY DEF TypeInv, TypeOK, TxState, TxWellFormed, Open
<1>1. CASE UNCHANGED vars
  BY <1>1 DEF vars, TypeInv, TypeOK
<1>2. ASSUME NEW w \in Worker, Begin(w)
      PROVE  TypeInv'
  <2>1. PICK r \in Request :
          tx' = [tx EXCEPT ![w] = [Idle EXCEPT !.pc = "begun", !.req = r, !.now = clock + 1]]
    BY <1>2 DEF Begin
  <2> DEFINE x == [Idle EXCEPT !.pc = "begun", !.req = r, !.now = clock + 1]
  <2>2. clock + 1 \in 0..MaxTime
    BY <1>2, TicketsAssumption DEF Begin, TypeInv, TypeOK
  <2>3. x \in TxState /\ TxWellFormed(x)
    BY <2>2, TicketsAssumption DEF Idle, TxState, TxWellFormed
  <2>4. tx' \in [Worker -> TxState] /\ \A v \in Worker : TxWellFormed(tx'[v])
    BY <2>1, <2>3, OneTx
  <2> QED
    BY <1>2, <2>2, <2>4 DEF Begin, TypeInv, TypeOK, TxState
<1>3. ASSUME NEW w \in Worker, ReserveNumber(w)
      PROVE  TypeInv'
  <2> DEFINE next == counter[tx[w].req.tenant] + 1
             x == [tx[w] EXCEPT !.pc = "reserved", !.number = next]
  <2>0. Open(w) /\ tx[w].req.op = "create"
    BY <1>3 DEF ReserveNumber, Open
  <2>1. counter[tx[w].req.tenant] \in Nat
    BY <1>s, <2>0, RequestFields DEF TypeInv, TypeOK
  <2>2. x \in TxState /\ TxWellFormed(x)
    <3>1. next \in Nat /\ next # 0
      BY <2>1
    <3> HIDE DEF next
    <3> QED
      BY <1>s, <2>0, <3>1 DEF TxState, TxWellFormed
  <2>3. tx' = [tx EXCEPT ![w] = x]
    BY <1>3 DEF ReserveNumber, TypeInv, TypeOK
  <2>4. tx' \in [Worker -> TxState] /\ \A v \in Worker : TxWellFormed(tx'[v])
    BY <2>2, <2>3, OneTx
  <2> QED
    BY <1>3, <2>4 DEF ReserveNumber, TypeInv, TypeOK, TxState
<1>4. ASSUME NEW w \in Worker, CreateTicket(w)
      PROVE  TypeInv'
  <2> DEFINE row == OpenRow(tx[w].req.tenant, tx[w].number, tx[w].now)
  <2>0. Open(w) /\ tx[w].pc = "reserved"
    BY <1>4 DEF CreateTicket, Open
  <2>1. row \in Row(Tenant)
    BY <1>s, <2>0, RequestFields, TicketsAssumption
       DEF OpenRow, Row, Status, TxState, TxWellFormed
  <2>2. CASE Rollback(w)
    BY <2>2, RollbackType
  <2>3. CASE Save(w, row, "ticket.created", "person")
    BY <2>0, <2>1, <2>3, SaveType
  <2> QED
    BY <1>4, <2>2, <2>3 DEF CreateTicket
<1>5. ASSUME NEW w \in Worker, Claim(w)
      PROVE  TypeInv'
  <2> DEFINE x == IF tx[w].req.ticket \in processed THEN Idle ELSE [tx[w] EXCEPT !.pc = "claimed"]
  <2>0. Open(w) /\ tx[w].req.op = "autoassign"
    BY <1>5 DEF Claim, Open
  <2>1. x \in TxState /\ TxWellFormed(x)
    BY <1>s, <2>0, IdleType DEF TxState, TxWellFormed
  <2>2. tx' = [tx EXCEPT ![w] = x]
    BY <1>5 DEF Claim, TypeInv, TypeOK
  <2>3. tx' \in [Worker -> TxState] /\ \A v \in Worker : TxWellFormed(tx'[v])
    BY <2>1, <2>2, OneTx
  <2> QED
    BY <1>5, <2>3 DEF Claim, TypeInv, TypeOK, TxState
<1>6. ASSUME NEW w \in Worker, Load(w)
      PROVE  TypeInv'
  <2> DEFINE t == tx[w].req.ticket
             s == IF rows[t] # NULL /\ rows[t].tenant = tx[w].req.tenant THEN rows[t] ELSE NULL
             x == [tx[w] EXCEPT !.pc = "loaded", !.snap = s]
  <2>0. Open(w)
    BY <1>6 DEF Load, Open
  <2>1. s \in Row(Tenant) \cup {NULL}
    BY <1>s, <2>0, RequestFields DEF TypeInv, TypeOK
  <2>2. x \in TxState /\ TxWellFormed(x)
    BY <1>s, <2>0, <2>1 DEF TxState, TxWellFormed
  <2>3. tx' = [tx EXCEPT ![w] = x]
    BY <1>6 DEF Load, TypeInv, TypeOK
  <2>4. tx' \in [Worker -> TxState] /\ \A v \in Worker : TxWellFormed(tx'[v])
    BY <2>2, <2>3, OneTx
  <2> QED
    BY <1>6, <2>4 DEF Load, TypeInv, TypeOK, TxState
<1>7. ASSUME NEW w \in Worker, ChangeTicketStatus(w)
      PROVE  TypeInv'
  <2>0. Open(w) /\ tx[w].req \in Request /\ tx[w].req.arg \in Status /\ tx[w].now \in Nat
    BY <1>7, <1>s, RequestFields DEF ChangeTicketStatus, Open, TxState
  <2>1. CASE Rollback(w)
    BY <2>1, RollbackType
  <2>2. CASE /\ tx[w].snap # NULL
             /\ Save(w, ChangeStatus(tx[w].snap, tx[w].req.arg, tx[w].now),
                     "ticket.status_changed", "person")
    <3>1. ChangeStatus(tx[w].snap, tx[w].req.arg, tx[w].now) \in Row(Tenant)
      BY <1>s, <2>0, <2>2, CommandsType DEF TxState
    <3> QED
      BY <2>0, <2>2, <3>1, SaveType
  <2> QED
    BY <1>7, <2>1, <2>2 DEF ChangeTicketStatus
<1>8. ASSUME NEW w \in Worker, AssignTicket(w)
      PROVE  TypeInv'
  <2> DEFINE who == tx[w].req.arg
             name == IF who = NULL THEN "ticket.unassigned" ELSE "ticket.assigned"
  <2>0. Open(w) /\ tx[w].req \in Request /\ who \in User \cup {NULL} /\ tx[w].now \in Nat
    BY <1>8, <1>s, RequestFields DEF AssignTicket, Open, TxState
  <2>1. CASE Rollback(w)
    BY <2>1, RollbackType
  <2>2. CASE tx[w].snap # NULL /\ Save(w, AssignTo(tx[w].snap, who, tx[w].now), name, "person")
    <3>1. "OPEN" \in Status
      BY DEF Status
    <3>2. AssignTo(tx[w].snap, who, tx[w].now) \in Row(Tenant)
      BY <1>s, <2>0, <2>2, <3>1, CommandsType DEF TxState
    <3>3. name \in {"ticket.created", "ticket.status_changed", "ticket.assigned",
                    "ticket.unassigned", "comment.added"}
      OBVIOUS
    <3> QED
      BY <2>0, <2>2, <3>2, <3>3, SaveType
  <2> QED
    BY <1>8, <2>1, <2>2 DEF AssignTicket
<1>9. ASSUME NEW w \in Worker, AddComment(w)
      PROVE  TypeInv'
  <2>0. Open(w) /\ tx[w].now \in Nat
    BY <1>9, <1>s DEF AddComment, Open, TxState
  <2>1. CASE Rollback(w)
    BY <2>1, RollbackType
  <2>2. CASE tx[w].snap # NULL /\ Save(w, Touch(tx[w].snap, tx[w].now), "comment.added", "person")
    <3>1. Touch(tx[w].snap, tx[w].now) \in Row(Tenant)
      BY <1>s, <2>0, <2>2 DEF TxState, Touch, Row
    <3> QED
      BY <2>0, <2>2, <3>1, SaveType
  <2> QED
    BY <1>9, <2>1, <2>2 DEF AddComment
<1>10. ASSUME NEW w \in Worker, AutoAssignTicket(w)
       PROVE  TypeInv'
  <2> DEFINE n == tx[w].req.tenant
             s == tx[w].snap
             agent == RoundRobin(n, s.number)
  <2>0. Open(w) /\ tx[w].req \in Request /\ n \in Tenant /\ tx[w].req.ticket \in Ticket
                /\ tx[w].now \in Nat
    BY <1>10, <1>s, RequestFields DEF AutoAssignTicket, Open, TxState
  <2>1. CASE /\ processed' = processed \cup {tx[w].req.ticket}
             /\ tx' = [tx EXCEPT ![w] = Idle]
             /\ UNCHANGED <<rows, counter, audit, outbox, clock>>
    <3>1. tx' \in [Worker -> TxState] /\ \A v \in Worker : TxWellFormed(tx'[v])
      BY <2>1, IdleType, OneTx
    <3> QED
      BY <2>0, <2>1, <3>1 DEF TypeInv, TypeOK, TxState
  <2>2. CASE /\ s # NULL /\ AgentsOf[n] # <<>>
             /\ Save(w, AssignTo(s, agent, tx[w].now), "ticket.assigned", "system")
    <3>1. s \in Row(Tenant) /\ s.number \in Nat \ {0} /\ "OPEN" \in Status
      BY <1>s, <2>2 DEF TxState, Row, Status
    <3>2. agent \in User
      BY <2>0, <2>2, <3>1, RoundRobinType
    <3>3. AssignTo(s, agent, tx[w].now) \in Row(Tenant)
      BY <2>0, <3>1, <3>2, CommandsType
    <3> QED
      BY <2>0, <2>2, <3>3, SaveType
  <2> QED
    BY <1>10, <2>1, <2>2 DEF AutoAssignTicket
<1>11. ASSUME NEW w \in Worker, Commit(w)
       PROVE  TypeInv'
  BY <1>11, CommitType
<1>12. ASSUME NEW w \in Worker, Abort(w)
       PROVE  TypeInv'
  BY <1>12, RollbackType DEF Abort
<1> QED
  BY <1>1, <1>2, <1>3, <1>4, <1>5, <1>6, <1>7, <1>8, <1>9, <1>10, <1>11, <1>12
     DEF Next, Step

\* The types hold for every number of workers, tenants and tickets: no command
\* of any use case leaves a row, a number or an entry malformed.
THEOREM TypeCorrect == Spec => []TypeOK
<1>1. TypeInv => TypeOK
  BY DEF TypeInv
<1> QED
  BY <1>1, TypeInvInit, TypeInvStep, PTL DEF Spec

-----------------------------------------------------------------------------
(* What a step can be, as far as the invariants below tell steps apart.    *)

EventName == {"ticket.created", "ticket.status_changed", "ticket.assigned",
              "ticket.unassigned", "comment.added"}

\* What one command of the aggregate may make of the row s.
Commands(s, row, now) ==
  \/ \E next \in Status : CanTransition(s.status, next) /\ row = ChangeStatus(s, next, now)
  \/ ~IsTerminal(s.status) /\ \E who \in User \cup {NULL} : row = AssignTo(s, who, now)
  \/ ~IsTerminal(s.status) /\ row = Touch(s, now)

\* The row is what w was asked to make: a new one, or of the copy it read.
CommandOf(w, row) ==
  \/ tx[w].req.op = "create" /\ row = OpenRow(tx[w].req.tenant, tx[w].number, tx[w].now)
  \/ /\ tx[w].req.op # "create" /\ tx[w].snap # NULL
     /\ Commands(tx[w].snap, row, tx[w].now)

\* A use case writes: it creates a ticket, or changes the copy it read.
Writes(w, row, name, actor) ==
  /\ Save(w, row, name, actor)
  /\ Open(w) /\ row \in Row(Tenant) /\ name \in EventName /\ actor \in {"person", "system"}
  /\ (actor = "system") <=> (tx[w].req.op = "autoassign")
  /\ CommandOf(w, row)
  /\ \/ /\ tx[w].pc = "reserved" /\ tx[w].req.op = "create"
        /\ row.tenant = tx[w].req.tenant /\ row.number = tx[w].number
        /\ LifecycleConsistent(row)
     \/ /\ tx[w].pc = "loaded" /\ tx[w].req.op # "create" /\ tx[w].snap # NULL
        /\ row.tenant = tx[w].snap.tenant /\ row.number = tx[w].snap.number
        /\ LifecycleConsistent(tx[w].snap) => LifecycleConsistent(row)
        /\ LegalSuccessor(tx[w].snap, row)
        /\ actor = "system" => tx[w].snap.assignee = NULL

\* The automatic assignment finds nothing to do.
Skips(w) ==
  /\ tx[w].pc = "loaded" /\ tx[w].req.op = "autoassign"
  /\ processed' = processed \cup {tx[w].req.ticket}
  /\ tx' = [tx EXCEPT ![w] = Idle]
  /\ UNCHANGED <<rows, counter, audit, outbox, clock>>

LEMMA StepKinds ==
  ASSUME TypeInv, Next
  PROVE  \E w \in Worker :
           \/ Begin(w) \/ ReserveNumber(w) \/ Claim(w) \/ Load(w) \/ Commit(w)
           \/ Rollback(w) \/ Skips(w)
           \/ \E row \in Row(Tenant), name \in EventName, actor \in {"person", "system"} :
                Writes(w, row, name, actor)
<1> DEFINE Kinds(w) ==
      \/ Begin(w) \/ ReserveNumber(w) \/ Claim(w) \/ Load(w) \/ Commit(w)
      \/ Rollback(w) \/ Skips(w)
      \/ \E row \in Row(Tenant), name \in EventName, actor \in {"person", "system"} :
           Writes(w, row, name, actor)
<1> SUFFICES ASSUME NEW w \in Worker, Begin(w) \/ Step(w) \/ Abort(w)
             PROVE  Kinds(w)
  BY DEF Next
<1> DEFINE s == tx[w].snap
           r == tx[w].req
           now == tx[w].now
<1>s. /\ tx[w] \in TxState /\ TxWellFormed(tx[w]) /\ (Open(w) => r \in Request)
      /\ now \in Nat /\ s \in Row(Tenant) \cup {NULL} /\ "OPEN" \in Status
  BY TicketsAssumption DEF TypeInv, TypeOK, TxState, TxWellFormed, Open, Status
<1>1. ASSUME CreateTicket(w)
      PROVE  Kinds(w)
  <2> DEFINE row == OpenRow(r.tenant, tx[w].number, now)
  <2>1. Open(w) /\ tx[w].pc = "reserved" /\ r.op = "create" /\ tx[w].number \in Nat \ {0}
    BY <1>1, <1>s DEF CreateTicket, Open, TxState, TxWellFormed
  <2>2. row \in Row(Tenant) /\ LifecycleConsistent(row)
    BY <1>s, <2>1, RequestFields DEF OpenRow, Row, Status, LifecycleConsistent
  <2>3. row.tenant = r.tenant /\ row.number = tx[w].number
    BY DEF OpenRow
  <2>4. CASE Save(w, row, "ticket.created", "person")
    <3>c. CommandOf(w, row)
      BY <2>1 DEF CommandOf
    <3>1. Writes(w, row, "ticket.created", "person")
      BY <2>1, <2>2, <2>3, <2>4, <3>c DEF Writes, EventName
    <3> QED
      BY <2>2, <3>1 DEF EventName
  <2> QED
    BY <1>1, <2>4 DEF CreateTicket
<1>2. ASSUME ChangeTicketStatus(w)
      PROVE  Kinds(w)
  <2> DEFINE row == ChangeStatus(s, r.arg, now)
  <2>1. Open(w) /\ tx[w].pc = "loaded" /\ r.op = "status" /\ r.arg \in Status
    BY <1>2, <1>s, RequestFields DEF ChangeTicketStatus, Open
  <2>2. CASE /\ s # NULL /\ CanTransition(s.status, r.arg)
             /\ Save(w, row, "ticket.status_changed", "person")
    <3>1. row \in Row(Tenant) /\ (LifecycleConsistent(s) => LifecycleConsistent(row))
      <4>1. NULL \in User \cup {NULL}
        OBVIOUS
      <4> QED
        BY <1>s, <2>1, <2>2, <4>1, CommandsType, CommandsConsistent
    <3>2. /\ row.tenant = s.tenant /\ row.number = s.number
          /\ row.status = r.arg /\ row.assignee = s.assignee
      BY <1>s, <2>2 DEF ChangeStatus, ApplyLifecycleTimestamps, Touch, Row
    <3>l. LegalSuccessor(s, row)
      BY <2>2, <3>2 DEF LegalSuccessor, IsTerminal, CanTransition
    <3>c. CommandOf(w, row)
      BY <2>1, <2>2 DEF CommandOf, Commands
    <3>3. Writes(w, row, "ticket.status_changed", "person")
      BY <2>1, <2>2, <3>1, <3>2, <3>c, <3>l DEF Writes, EventName
    <3> QED
      BY <3>1, <3>3 DEF EventName
  <2> QED
    BY <1>2, <2>2 DEF ChangeTicketStatus
<1>3. ASSUME AssignTicket(w)
      PROVE  Kinds(w)
  <2> DEFINE row == AssignTo(s, r.arg, now)
             name == IF r.arg = NULL THEN "ticket.unassigned" ELSE "ticket.assigned"
  <2>1. /\ Open(w) /\ tx[w].pc = "loaded" /\ r.op \in {"assign", "unassign"}
        /\ r.arg \in User \cup {NULL} /\ name \in EventName
    BY <1>3, <1>s, RequestFields DEF AssignTicket, Open, EventName
  <2>2. CASE s # NULL /\ ~IsTerminal(s.status) /\ Save(w, row, name, "person")
    <3>1. row \in Row(Tenant) /\ (LifecycleConsistent(s) => LifecycleConsistent(row))
      BY <1>s, <2>1, <2>2, CommandsType, CommandsConsistent
    <3>2. row.tenant = s.tenant /\ row.number = s.number /\ row.status = s.status
      BY <1>s, <2>2 DEF AssignTo, Touch, Row
    <3>c. CommandOf(w, row)
      BY <2>1, <2>2 DEF CommandOf, Commands
    <3>3. Writes(w, row, name, "person")
      BY <2>1, <2>2, <3>1, <3>2, <3>c DEF Writes, LegalSuccessor
    <3> QED
      BY <2>1, <3>1, <3>3
  <2> QED
    BY <1>3, <2>2 DEF AssignTicket
<1>4. ASSUME AddComment(w)
      PROVE  Kinds(w)
  <2> DEFINE row == Touch(s, now)
  <2>1. Open(w) /\ tx[w].pc = "loaded" /\ r.op = "comment"
    BY <1>4, <1>s DEF AddComment, Open
  <2>2. CASE s # NULL /\ ~IsTerminal(s.status) /\ Save(w, row, "comment.added", "person")
    <3>1. row \in Row(Tenant) /\ (LifecycleConsistent(s) => LifecycleConsistent(row))
      <4>1. NULL \in User \cup {NULL}
        OBVIOUS
      <4> QED
        BY <1>s, <2>2, <4>1, CommandsType, CommandsConsistent
    <3>2. row.tenant = s.tenant /\ row.number = s.number /\ row.status = s.status
      BY <1>s, <2>2 DEF Touch, Row
    <3>c. CommandOf(w, row)
      BY <2>1, <2>2 DEF CommandOf, Commands
    <3>3. Writes(w, row, "comment.added", "person")
      BY <2>1, <2>2, <3>1, <3>2, <3>c DEF Writes, EventName, LegalSuccessor
    <3> QED
      BY <3>1, <3>3 DEF EventName
  <2> QED
    BY <1>4, <2>2 DEF AddComment
<1>5. ASSUME AutoAssignTicket(w)
      PROVE  Kinds(w)
  <2> DEFINE agent == RoundRobin(r.tenant, s.number)
             row == AssignTo(s, agent, now)
  <2>1. Open(w) /\ tx[w].pc = "loaded" /\ r.op = "autoassign" /\ r.tenant \in Tenant
    BY <1>5, <1>s, RequestFields DEF AutoAssignTicket, Open
  <2>2. CASE /\ s # NULL /\ AgentsOf[r.tenant] # <<>> /\ ~IsTerminal(s.status)
             /\ s.assignee = NULL
             /\ Save(w, row, "ticket.assigned", "system")
    <3>0. s \in Row(Tenant) /\ s.number \in Nat \ {0}
      BY <1>s, <2>2 DEF Row
    <3>a. agent \in User \cup {NULL}
      BY <2>1, <2>2, <3>0, RoundRobinType
    <3>1. row \in Row(Tenant) /\ (LifecycleConsistent(s) => LifecycleConsistent(row))
      BY <1>s, <3>0, <3>a, CommandsType, CommandsConsistent
    <3>2. row.tenant = s.tenant /\ row.number = s.number /\ row.status = s.status
      BY <3>0 DEF AssignTo, Touch, Row
    <3>c. CommandOf(w, row)
      BY <2>1, <2>2, <3>a DEF CommandOf, Commands
    <3>3. Writes(w, row, "ticket.assigned", "system")
      BY <2>1, <2>2, <3>1, <3>2, <3>c DEF Writes, EventName, LegalSuccessor
    <3> QED
      BY <3>1, <3>3 DEF EventName
  <2>3. CASE /\ processed' = processed \cup {r.ticket}
             /\ tx' = [tx EXCEPT ![w] = Idle]
             /\ UNCHANGED <<rows, counter, audit, outbox, clock>>
    BY <2>1, <2>3 DEF Skips
  <2> QED
    BY <1>5, <2>2, <2>3 DEF AutoAssignTicket
<1> QED
  BY <1>1, <1>2, <1>3, <1>4, <1>5 DEF Step, Abort

-----------------------------------------------------------------------------
(* The dates agree with the status.                                        *)

\* What is stored, what was read and what is about to be stored.
ConsistentInv ==
  /\ RowsLifecycleConsistent
  /\ \A w \in Worker : /\ tx[w].snap # NULL => LifecycleConsistent(tx[w].snap)
                       /\ tx[w].pc = "saved" => LifecycleConsistent(tx[w].row)

LEMMA ConsistentStep == TypeInv /\ ConsistentInv /\ [Next]_vars => ConsistentInv'
<1> SUFFICES ASSUME TypeInv, ConsistentInv, [Next]_vars
             PROVE  ConsistentInv'
  OBVIOUS
<1>i. Idle.pc = "idle" /\ Idle.snap = NULL
  BY DEF Idle
<1>1. CASE UNCHANGED vars
  BY <1>1 DEF vars, ConsistentInv, RowsLifecycleConsistent
<1>2. CASE Next
  <2>1. PICK w \in Worker :
           \/ Begin(w) \/ ReserveNumber(w) \/ Claim(w) \/ Load(w) \/ Commit(w)
           \/ Rollback(w) \/ Skips(w)
           \/ \E row \in Row(Tenant), name \in EventName, actor \in {"person", "system"} :
                Writes(w, row, name, actor)
    BY <1>2, StepKinds
  <2>t. tx \in [Worker -> TxState] /\ tx[w] \in TxState
    BY DEF TypeInv, TypeOK, TxState
  <2>2. CASE Begin(w)
    BY <1>i, <2>2, <2>t DEF Begin, ConsistentInv, RowsLifecycleConsistent, Idle
  <2>3. CASE ReserveNumber(w)
    BY <2>3, <2>t DEF ReserveNumber, ConsistentInv, RowsLifecycleConsistent, TxState
  <2>4. CASE Claim(w)
    BY <1>i, <2>4, <2>t DEF Claim, ConsistentInv, RowsLifecycleConsistent, TxState
  <2>5. CASE Load(w)
    <3>1. tx[w].req.ticket \in Ticket
      BY <2>5, RequestFields DEF Load, TypeInv, TxWellFormed
    <3>2. /\ tx'[w].pc = "loaded"
          /\ tx'[w].snap # NULL => LifecycleConsistent(tx'[w].snap)
      BY <2>5, <2>t, <3>1 DEF Load, ConsistentInv, RowsLifecycleConsistent, TxState
    <3>3. \A v \in Worker \ {w} : tx'[v] = tx[v]
      BY <2>5, <2>t DEF Load
    <3> QED
      BY <2>5, <3>2, <3>3 DEF Load, ConsistentInv, RowsLifecycleConsistent
  <2>6. CASE Commit(w)
    <3>1. /\ tx[w].req.ticket \in Ticket /\ tx[w].row \in Row(Tenant)
          /\ LifecycleConsistent(tx[w].row)
      BY <2>6, RequestFields DEF Commit, TypeInv, TxWellFormed, ConsistentInv
    <3>2. LifecycleConsistent(Upsert(rows[tx[w].req.ticket], tx[w].row))
      BY <3>1 DEF Upsert, LifecycleConsistent, Row
    <3>3. RowsLifecycleConsistent'
      BY <2>6, <3>1, <3>2 DEF Commit, ConsistentInv, RowsLifecycleConsistent, TypeInv, TypeOK
    <3> QED
      BY <1>i, <2>6, <2>t, <3>3 DEF Commit, ConsistentInv
  <2>7. CASE Rollback(w)
    BY <1>i, <2>7, <2>t DEF Rollback, ConsistentInv, RowsLifecycleConsistent
  <2>8. CASE Skips(w)
    BY <1>i, <2>8, <2>t DEF Skips, ConsistentInv, RowsLifecycleConsistent
  <2>9. ASSUME NEW row \in Row(Tenant), NEW name \in EventName,
               NEW actor \in {"person", "system"}, Writes(w, row, name, actor)
        PROVE  ConsistentInv'
    <3>1. LifecycleConsistent(row)
      BY <2>9 DEF Writes, ConsistentInv
    <3>2. tx'[w].row = row /\ tx'[w].snap = tx[w].snap /\ UNCHANGED rows
      BY <2>9, <2>t DEF Writes, Save, TxState
    <3>3. \A v \in Worker \ {w} : tx'[v] = tx[v]
      BY <2>9, <2>t DEF Writes, Save
    <3> QED
      BY <3>1, <3>2, <3>3 DEF ConsistentInv, RowsLifecycleConsistent
  <2> QED
    BY <2>1, <2>2, <2>3, <2>4, <2>5, <2>6, <2>7, <2>8, <2>9
<1> QED
  BY <1>1, <1>2 DEF vars

\* However requests overlap and overwrite each other, no stored ticket has
\* dates that contradict its status.
THEOREM LifecycleSafe == Spec => []RowsLifecycleConsistent
<1>1. Init => ConsistentInv
  BY DEF Init, ConsistentInv, RowsLifecycleConsistent, Idle
<1>2. ConsistentInv => RowsLifecycleConsistent
  BY DEF ConsistentInv
<1> QED
  BY <1>1, <1>2, TypeInvInit, TypeInvStep, ConsistentStep, PTL DEF Spec

-----------------------------------------------------------------------------
(* Every change is audited and announced.                                  *)

AuditInv == AuditMatchesOutbox /\ \A w \in Worker : tx[w].audit = tx[w].outbox

LEMMA AuditStep == TypeInv /\ AuditInv /\ [Next]_vars => AuditInv'
<1> SUFFICES ASSUME TypeInv, AuditInv, [Next]_vars
             PROVE  AuditInv'
  OBVIOUS
<1>i. Idle.audit = Idle.outbox
  BY DEF Idle
<1>1. CASE UNCHANGED vars
  BY <1>1 DEF vars, AuditInv, AuditMatchesOutbox
<1>2. CASE Next
  <2>1. PICK w \in Worker :
           \/ Begin(w) \/ ReserveNumber(w) \/ Claim(w) \/ Load(w) \/ Commit(w)
           \/ Rollback(w) \/ Skips(w)
           \/ \E row \in Row(Tenant), name \in EventName, actor \in {"person", "system"} :
                Writes(w, row, name, actor)
    BY <1>2, StepKinds
  <2>t. tx \in [Worker -> TxState] /\ tx[w] \in TxState
    BY DEF TypeInv, TypeOK, TxState
  <2>2. CASE Begin(w)
    BY <1>i, <2>2, <2>t DEF Begin, AuditInv, AuditMatchesOutbox, Idle
  <2>3. CASE ReserveNumber(w)
    BY <2>3, <2>t DEF ReserveNumber, AuditInv, AuditMatchesOutbox, TxState
  <2>4. CASE Claim(w)
    BY <1>i, <2>4, <2>t DEF Claim, AuditInv, AuditMatchesOutbox, TxState
  <2>5. CASE Load(w)
    BY <2>5, <2>t DEF Load, AuditInv, AuditMatchesOutbox, TxState
  <2>6. CASE Commit(w)
    BY <1>i, <2>6, <2>t DEF Commit, AuditInv, AuditMatchesOutbox
  <2>7. CASE Rollback(w)
    BY <1>i, <2>7, <2>t DEF Rollback, AuditInv, AuditMatchesOutbox
  <2>8. CASE Skips(w)
    BY <1>i, <2>8, <2>t DEF Skips, AuditInv, AuditMatchesOutbox
  <2>9. ASSUME NEW row \in Row(Tenant), NEW name \in EventName,
               NEW actor \in {"person", "system"}, Writes(w, row, name, actor)
        PROVE  AuditInv'
    BY <2>9, <2>t DEF Writes, Save, AuditInv, AuditMatchesOutbox, TxState
  <2> QED
    BY <2>1, <2>2, <2>3, <2>4, <2>5, <2>6, <2>7, <2>8, <2>9
<1> QED
  BY <1>1, <1>2 DEF vars

\* Audit log and outbox never disagree, whatever crashes and overlaps.
THEOREM AuditAndOutboxAgree == Spec => []AuditMatchesOutbox
<1>1. Init => AuditInv
  <2>1. Idle.audit = Idle.outbox
    BY DEF Idle
  <2> QED
    BY <2>1 DEF Init, AuditInv, AuditMatchesOutbox
<1>2. AuditInv => AuditMatchesOutbox
  BY DEF AuditInv
<1> QED
  BY <1>1, <1>2, TypeInvInit, TypeInvStep, AuditStep, PTL DEF Spec

-----------------------------------------------------------------------------
(* Identity: who owns a ticket and which number it has.                    *)

\* A copy has the identity of the row it was read from, in the caller's tenant.
SnapOK(w) ==
  LET t == tx[w].req.ticket  s == tx[w].snap
  IN  s # NULL => /\ Open(w) /\ rows[t] # NULL
                  /\ s.tenant = rows[t].tenant /\ s.number = rows[t].number
                  /\ s.tenant = tx[w].req.tenant

\* So has what a use case is about to store.
PendingOK(w) ==
  LET t == tx[w].req.ticket  row == tx[w].row
  IN  tx[w].pc = "saved" =>
        /\ row.tenant = tx[w].req.tenant
        /\ tx[w].req.op = "create" => row.number = tx[w].number
        /\ tx[w].req.op # "create" => /\ rows[t] # NULL
                                      /\ row.tenant = rows[t].tenant
                                      /\ row.number = rows[t].number

\* A ticket being created is not there yet and nobody else creates it.
FreshIds ==
  /\ \A w \in Worker : HasOp(w, "create") => rows[tx[w].req.ticket] = NULL
  /\ \A v, w \in Worker : /\ HasOp(v, "create") /\ HasOp(w, "create")
                          /\ tx[v].req.ticket = tx[w].req.ticket
                          => v = w

\* One transaction at a time has the next number of a tenant.
CounterLocked ==
  /\ \A w \in Worker, n \in Tenant : HoldsCounter(w, n) => tx[w].number = counter[n] + 1
  /\ \A v, w \in Worker, n \in Tenant : HoldsCounter(v, n) /\ HoldsCounter(w, n) => v = w

\* Entries, stored and pending, name the owner of their ticket.
EntriesOK ==
  /\ \A e \in audit : rows[e.ticket] # NULL /\ rows[e.ticket].tenant = e.tenant
  /\ \A w \in Worker : \A e \in tx[w].audit :
       tx[w].pc = "saved" /\ e.ticket = tx[w].req.ticket /\ e.tenant = tx[w].row.tenant

IdentityInv ==
  /\ \A w \in Worker : SnapOK(w) /\ PendingOK(w)
  /\ FreshIds
  /\ EntriesOK

\* A commit touches one row, and not the identity of a row that exists.
LEMMA CommitRows ==
  ASSUME TypeInv, NEW w \in Worker, Commit(w)
  PROVE  LET t == tx[w].req.ticket
         IN  /\ t \in Ticket /\ tx[w].row \in Row(Tenant)
             /\ \A u \in Ticket \ {t} : rows'[u] = rows[u]
             /\ rows'[t] # NULL
             /\ rows[t] = NULL => rows'[t] = tx[w].row
             /\ rows[t] # NULL => /\ rows'[t].tenant = rows[t].tenant
                                  /\ rows'[t].number = rows[t].number
<1> DEFINE t == tx[w].req.ticket
<1>1. t \in Ticket /\ tx[w].row \in Row(Tenant)
  BY RequestFields DEF Commit, TypeInv, TxWellFormed
<1>2. rows' = [rows EXCEPT ![t] = Upsert(rows[t], tx[w].row)] /\ rows \in [Ticket -> Row(Tenant) \cup {NULL}]
  BY DEF Commit, TypeInv, TypeOK
<1>3. Upsert(rows[t], tx[w].row) \in Row(Tenant)
  BY <1>1, <1>2 DEF Upsert, Row
<1>4. rows[t] # NULL => /\ Upsert(rows[t], tx[w].row).tenant = rows[t].tenant
                        /\ Upsert(rows[t], tx[w].row).number = rows[t].number
  BY <1>1 DEF Upsert, Row
<1>5. rows[t] = NULL => Upsert(rows[t], tx[w].row) = tx[w].row
  BY DEF Upsert
<1> QED
  BY <1>1, <1>2, <1>3, <1>4, <1>5, NullAssumption

\* What the other transactions see of a step of w.
Others(w) == \A v \in Worker \ {w} : tx'[v] = tx[v]

LEMMA IdentityStep == TypeInv /\ IdentityInv /\ [Next]_vars => IdentityInv'
<1> SUFFICES ASSUME TypeInv, IdentityInv, [Next]_vars
             PROVE  IdentityInv'
  OBVIOUS
<1> USE DEF IdentityInv
<1>i. Idle.pc = "idle" /\ Idle.snap = NULL /\ Idle.audit = {}
  BY DEF Idle
<1>1. CASE UNCHANGED vars
  BY <1>1 DEF vars, SnapOK, PendingOK, FreshIds, EntriesOK, HasOp, Open
<1>2. CASE Next
  <2>1. PICK w \in Worker :
           \/ Begin(w) \/ ReserveNumber(w) \/ Claim(w) \/ Load(w) \/ Commit(w)
           \/ Rollback(w) \/ Skips(w)
           \/ \E row \in Row(Tenant), name \in EventName, actor \in {"person", "system"} :
                Writes(w, row, name, actor)
    BY <1>2, StepKinds
  <2>t. tx \in [Worker -> TxState] /\ tx[w] \in TxState
    BY DEF TypeInv, TypeOK, TxState
  <2>a. ASSUME tx' = [tx EXCEPT ![w] = Idle], UNCHANGED <<rows, audit>>
        PROVE  IdentityInv'
    BY <1>i, <2>a, <2>t DEF SnapOK, PendingOK, FreshIds, EntriesOK, HasOp, Open
  <2>b. ASSUME UNCHANGED <<rows, audit>>, Others(w), Open(w),
               tx'[w].req = tx[w].req, tx'[w].pc \notin {"idle", "saved"},
               tx[w].pc # "saved", tx'[w].audit = tx[w].audit,
               SnapOK(w)'
        PROVE  IdentityInv'
    BY <2>b, <2>t DEF SnapOK, PendingOK, FreshIds, EntriesOK, HasOp, Open, Others
  <2>2. CASE Begin(w)
    <3>1. PICK r \in Request :
            /\ tx' = [tx EXCEPT ![w] = [Idle EXCEPT !.pc = "begun", !.req = r, !.now = clock + 1]]
            /\ r.op = "create" =>
                 /\ rows[r.ticket] = NULL
                 /\ \A v \in Worker : ~(HasOp(v, "create") /\ tx[v].req.ticket = r.ticket)
            /\ UNCHANGED <<rows, audit>>
      BY <2>2 DEF Begin
    <3>2. /\ tx'[w].pc = "begun" /\ tx'[w].req = r /\ tx'[w].snap = NULL /\ tx'[w].audit = {}
          /\ Others(w)
      BY <3>1, <2>t DEF Idle, Others
    <3> QED
      BY <3>1, <3>2, <2>t DEF SnapOK, PendingOK, FreshIds, EntriesOK, HasOp, Open, Others
  <2>3. CASE ReserveNumber(w)
    <3>1. /\ Others(w) /\ Open(w) /\ tx'[w].req = tx[w].req /\ tx'[w].pc = "reserved"
          /\ tx[w].pc = "begun" /\ tx'[w].audit = tx[w].audit /\ tx'[w].snap = tx[w].snap
      BY <2>3, <2>t DEF ReserveNumber, TxState, Others, Open
    <3>2. UNCHANGED <<rows, audit>>
      BY <2>3 DEF ReserveNumber
    <3>3. SnapOK(w)'
      BY <3>1, <3>2 DEF SnapOK, Open
    <3> QED
      BY <2>b, <3>1, <3>2, <3>3
  <2>4. CASE Claim(w)
    <3>1. CASE tx[w].req.ticket \in processed
      BY <2>4, <2>a, <3>1 DEF Claim
    <3>2. CASE tx[w].req.ticket \notin processed
      <4>1. /\ Others(w) /\ Open(w) /\ tx'[w].req = tx[w].req /\ tx'[w].pc = "claimed"
            /\ tx[w].pc = "begun" /\ tx'[w].audit = tx[w].audit /\ tx'[w].snap = tx[w].snap
        BY <2>4, <2>t, <3>2 DEF Claim, TxState, Others, Open
      <4>2. UNCHANGED <<rows, audit>>
        BY <2>4 DEF Claim
      <4>3. SnapOK(w)'
        BY <4>1, <4>2 DEF SnapOK, Open
      <4> QED
        BY <2>b, <4>1, <4>2, <4>3
    <3> QED
      BY <3>1, <3>2
  <2>5. CASE Load(w)
    <3>1. /\ Others(w) /\ Open(w) /\ tx'[w].req = tx[w].req /\ tx'[w].pc = "loaded"
          /\ tx[w].pc # "saved" /\ tx'[w].audit = tx[w].audit
      BY <2>5, <2>t DEF Load, TxState, Others, Open
    <3>2. UNCHANGED <<rows, audit>>
      BY <2>5 DEF Load
    <3>3. tx'[w].snap # NULL => /\ tx'[w].snap = rows[tx[w].req.ticket]
                                /\ rows[tx[w].req.ticket].tenant = tx[w].req.tenant
      BY <2>5, <2>t DEF Load, TxState
    <3>4. SnapOK(w)'
      BY <3>1, <3>2, <3>3 DEF SnapOK, Open
    <3> QED
      BY <2>b, <3>1, <3>2, <3>4
  <2>6. CASE Commit(w)
    <3> DEFINE t == tx[w].req.ticket
    <3>1. /\ t \in Ticket /\ tx[w].row \in Row(Tenant)
          /\ \A u \in Ticket \ {t} : rows'[u] = rows[u]
          /\ rows'[t] # NULL
          /\ rows[t] = NULL => rows'[t] = tx[w].row
          /\ rows[t] # NULL => /\ rows'[t].tenant = rows[t].tenant
                               /\ rows'[t].number = rows[t].number
      BY <2>6, CommitRows
    <3>2. /\ tx[w].pc = "saved" /\ tx'[w] = Idle /\ Others(w) /\ audit' = audit \cup tx[w].audit
      BY <2>6, <2>t DEF Commit, Others
    <3>3. \A v \in Worker : Open(v) => tx[v].req.ticket \in Ticket
      BY RequestFields DEF TypeInv, TxWellFormed, Open
    <3>4. rows[t] = NULL => HasOp(w, "create")
      BY <3>2 DEF PendingOK, HasOp, Open
    <3>5. rows'[t].tenant = tx[w].row.tenant
      <4>1. rows[t] # NULL => tx[w].req.op # "create"
        BY <3>2 DEF FreshIds, HasOp, Open
      <4>2. rows[t] # NULL => tx[w].row.tenant = rows[t].tenant
        BY <3>2, <4>1 DEF PendingOK
      <4> QED
        BY <3>1, <4>2
    <3>6. \A v \in Worker : (SnapOK(v) /\ PendingOK(v))'
      <4> SUFFICES ASSUME NEW v \in Worker
                   PROVE  (SnapOK(v) /\ PendingOK(v))'
        OBVIOUS
      <4>1. CASE v = w
        BY <1>i, <3>2, <4>1 DEF SnapOK, PendingOK
      <4>2. CASE v # w
        <5>1. tx'[v] = tx[v]
          BY <3>2, <4>2 DEF Others
        <5>2. SnapOK(v)'
          BY <3>1, <3>3, <5>1 DEF SnapOK, Open
        <5>3. PendingOK(v)'
          BY <3>1, <3>3, <5>1 DEF PendingOK, Open
        <5> QED
          BY <5>2, <5>3
      <4> QED
        BY <4>1, <4>2
    <3>7. FreshIds'
      <4>1. ASSUME NEW v \in Worker, HasOp(v, "create")'
            PROVE  v # w /\ HasOp(v, "create") /\ tx'[v] = tx[v] /\ rows'[tx[v].req.ticket] = NULL
        <5>1. v # w
          BY <1>i, <3>2, <4>1 DEF HasOp, Open
        <5>2. tx'[v] = tx[v] /\ HasOp(v, "create") /\ Open(v)
          BY <3>2, <4>1, <5>1 DEF Others, HasOp, Open
        <5>3. rows[tx[v].req.ticket] = NULL /\ tx[v].req.ticket \in Ticket
          BY <3>3, <5>2 DEF FreshIds
        <5>4. tx[v].req.ticket # t
          BY <3>4, <5>1, <5>2, <5>3 DEF FreshIds
        <5> QED
          BY <3>1, <5>1, <5>2, <5>3, <5>4
      <4> QED
        BY <4>1 DEF FreshIds
    <3>8. EntriesOK'
      <4>1. ASSUME NEW e \in audit'
            PROVE  rows'[e.ticket] # NULL /\ rows'[e.ticket].tenant = e.tenant
        <5>1. CASE e \in audit
          <6>1. e.ticket \in Ticket
            BY <5>1 DEF TypeInv, TypeOK, Entry
          <6> QED
            BY <3>1, <5>1, <6>1 DEF EntriesOK
        <5>2. CASE e \in tx[w].audit
          BY <3>1, <3>5, <5>2 DEF EntriesOK
        <5> QED
          BY <3>2, <4>1, <5>1, <5>2
      <4> QED
        BY <1>i, <3>2, <4>1 DEF EntriesOK, Others
    <3> QED
      BY <3>6, <3>7, <3>8
  <2>7. CASE Rollback(w)
    BY <2>7, <2>a DEF Rollback
  <2>8. CASE Skips(w)
    BY <2>8, <2>a DEF Skips
  <2>9. ASSUME NEW row \in Row(Tenant), NEW name \in EventName,
               NEW actor \in {"person", "system"}, Writes(w, row, name, actor)
        PROVE  IdentityInv'
    <3> DEFINE t == tx[w].req.ticket
               e == EntryOf(name, actor, t, row)
    <3>1. /\ Others(w) /\ Open(w) /\ tx[w].pc # "saved" /\ tx'[w].pc = "saved"
          /\ tx'[w].req = tx[w].req /\ tx'[w].snap = tx[w].snap /\ tx'[w].number = tx[w].number
          /\ tx'[w].row = row /\ tx'[w].audit = {e} /\ UNCHANGED <<rows, audit>>
      BY <2>9, <2>t DEF Writes, Save, TxState, Others
    <3>2. e.ticket = t /\ e.tenant = row.tenant
      BY DEF EntryOf
    <3>3. PendingOK(w)'
      BY <2>9, <3>1 DEF Writes, SnapOK, PendingOK
    <3>4. SnapOK(w)'
      BY <3>1 DEF SnapOK, Open
    <3>5. EntriesOK'
      BY <3>1, <3>2 DEF EntriesOK, Others
    <3>6. FreshIds'
      BY <3>1 DEF FreshIds, HasOp, Open, Others
    <3> QED
      BY <3>1, <3>3, <3>4, <3>5, <3>6 DEF SnapOK, PendingOK, Open, Others
  <2> QED
    BY <2>1, <2>2, <2>3, <2>4, <2>5, <2>6, <2>7, <2>8, <2>9
<1> QED
  BY <1>1, <1>2

\* No tenant's request ever reads or writes another tenant's ticket.
THEOREM TenantsIsolated == Spec => []TenantIsolation
<1>1. Init => IdentityInv
  BY DEF Init, IdentityInv, SnapOK, PendingOK, FreshIds, EntriesOK, HasOp, Open, Idle
<1>2. IdentityInv => TenantIsolation
  BY DEF IdentityInv, TenantIsolation, SnapOK, EntriesOK
<1> QED
  BY <1>1, <1>2, TypeInvInit, TypeInvStep, IdentityStep, PTL DEF Spec

-----------------------------------------------------------------------------
(* Numbers without repetition or gap.                                      *)

NumberInv == CounterLocked /\ NumbersGapless

Mine(n) == {t \in Ticket : rows[t] # NULL /\ rows[t].tenant = n}

LEMMA GaplessMine ==
  NumbersGapless <=>
    \A n \in Tenant : /\ {rows[t].number : t \in Mine(n)} = 1..counter[n]
                      /\ \A t, u \in Mine(n) : rows[t].number = rows[u].number => t = u
BY DEF NumbersGapless, Mine

\* A transaction that creates a ticket adds the next number of its tenant.
LEMMA GaplessCreate ==
  ASSUME TypeInv, IdentityInv, NumberInv, NEW w \in Worker, Commit(w), HasOp(w, "create")
  PROVE  NumbersGapless'
<1> DEFINE t == tx[w].req.ticket
           m == tx[w].req.tenant
           row == tx[w].row
<1>1. /\ t \in Ticket /\ row \in Row(Tenant) /\ rows'[t] = row /\ rows[t] = NULL
      /\ \A u \in Ticket \ {t} : rows'[u] = rows[u]
      /\ rows'[t] # NULL
  BY CommitRows DEF IdentityInv, FreshIds
<1>2. m \in Tenant /\ tx[w].pc = "saved"
  BY RequestFields DEF TypeInv, TxWellFormed, Commit
<1>3. /\ counter[m] \in Nat /\ tx[w].number = counter[m] + 1
      /\ row.number = counter[m] + 1 /\ row.tenant = m
  BY <1>2 DEF TypeInv, TypeOK, NumberInv, CounterLocked, HoldsCounter, IdentityInv, PendingOK, HasOp
<1>4. counter' = [counter EXCEPT ![m] = counter[m] + 1]
  BY <1>3 DEF Commit
<1> SUFFICES ASSUME NEW n \in Tenant
             PROVE  /\ {rows'[u].number : u \in Mine(n)'} = 1..counter'[n]
                    /\ \A u, v \in Mine(n)' : rows'[u].number = rows'[v].number => u = v
  BY DEF NumbersGapless, Mine
<1>5. /\ {rows[u].number : u \in Mine(n)} = 1..counter[n]
      /\ \A u, v \in Mine(n) : rows[u].number = rows[v].number => u = v
      /\ counter[n] \in Nat
  BY GaplessMine DEF NumberInv, TypeInv, TypeOK
<1>6. CASE n # m
  <2>1. Mine(n)' = Mine(n) /\ (\A u \in Mine(n) : rows'[u] = rows[u])
    BY <1>1, <1>3, <1>6 DEF Mine
  <2>2. counter'[n] = counter[n]
    BY <1>4, <1>6 DEF TypeInv, TypeOK
  <2> QED
    BY <1>5, <2>1, <2>2
<1>7. CASE n = m
  <2>1. Mine(n)' = Mine(n) \cup {t} /\ t \notin Mine(n)
    BY <1>1, <1>3, <1>7 DEF Mine
  <2>2. /\ \A u \in Mine(n) : rows'[u].number = rows[u].number
        /\ rows'[t].number = counter[n] + 1
    BY <1>1, <1>3, <1>7, <2>1 DEF Mine
  <2>3. counter'[n] = counter[n] + 1
    BY <1>4, <1>7 DEF TypeInv, TypeOK
  <2>4. \A u \in Mine(n) : rows[u].number \in 1..counter[n]
    BY <1>5
  <2>5. {rows'[u].number : u \in Mine(n)'} = {rows[u].number : u \in Mine(n)} \cup {counter[n] + 1}
    BY <2>1, <2>2
  <2>6. {rows'[u].number : u \in Mine(n)'} = 1..counter'[n]
    <3>1. (1..counter[n]) \cup {counter[n] + 1} = 1..(counter[n] + 1)
      BY <1>5
    <3>2. {rows[u].number : u \in Mine(n)} = 1..counter[n]
      BY <1>5
    <3> QED
      BY <2>3, <2>5, <3>1, <3>2
  <2>7. \A u, v \in Mine(n)' : rows'[u].number = rows'[v].number => u = v
    BY <1>5, <2>1, <2>2, <2>4
  <2> QED
    BY <2>6, <2>7
<1> QED
  BY <1>6, <1>7

\* Any other commit keeps the numbers.
LEMMA GaplessUpdate ==
  ASSUME TypeInv, IdentityInv, NumberInv, NEW w \in Worker, Commit(w), ~HasOp(w, "create")
  PROVE  NumbersGapless'
<1> DEFINE t == tx[w].req.ticket
<1>1. rows[t] # NULL
  BY DEF Commit, HasOp, Open, IdentityInv, PendingOK
<1>2. /\ t \in Ticket /\ rows'[t] # NULL
      /\ rows'[t].tenant = rows[t].tenant /\ rows'[t].number = rows[t].number
      /\ \A u \in Ticket \ {t} : rows'[u] = rows[u]
  BY <1>1, CommitRows
<1>3. UNCHANGED counter
  BY DEF Commit
<1>4. ASSUME NEW n \in Tenant
      PROVE  Mine(n)' = Mine(n)
  BY <1>1, <1>2 DEF Mine
<1>5. \A u \in Ticket : rows[u] # NULL => rows'[u].number = rows[u].number
  BY <1>2
<1>6. ASSUME NEW n \in Tenant
      PROVE  /\ {rows'[u].number : u \in Mine(n)'} = 1..counter'[n]
             /\ \A u, v \in Mine(n)' : rows'[u].number = rows'[v].number => u = v
  <2>1. \A u \in Mine(n) : rows'[u].number = rows[u].number
    BY <1>5 DEF Mine
  <2>2. /\ {rows[u].number : u \in Mine(n)} = 1..counter[n]
        /\ \A u, v \in Mine(n) : rows[u].number = rows[v].number => u = v
    BY GaplessMine DEF NumberInv
  <2> QED
    BY <1>3, <1>4, <2>1, <2>2
<1> QED
  BY <1>6 DEF NumbersGapless, Mine

LEMMA NumberStep == TypeInv /\ IdentityInv /\ NumberInv /\ [Next]_vars => NumberInv'
<1> SUFFICES ASSUME TypeInv, IdentityInv, NumberInv, [Next]_vars
             PROVE  NumberInv'
  OBVIOUS
<1>i. Idle.pc = "idle"
  BY DEF Idle
<1>1. CASE UNCHANGED vars
  BY <1>1 DEF vars, NumberInv, CounterLocked, HoldsCounter, HasOp, Open, NumbersGapless
<1>2. CASE Next
  <2>1. PICK w \in Worker :
           \/ Begin(w) \/ ReserveNumber(w) \/ Claim(w) \/ Load(w) \/ Commit(w)
           \/ Rollback(w) \/ Skips(w)
           \/ \E row \in Row(Tenant), name \in EventName, actor \in {"person", "system"} :
                Writes(w, row, name, actor)
    BY <1>2, StepKinds
  <2>t. tx \in [Worker -> TxState] /\ tx[w] \in TxState
    BY DEF TypeInv, TypeOK, TxState
  <2>a. ASSUME UNCHANGED <<rows, counter>>, Others(w),
               \A n \in Tenant : HoldsCounter(w, n)' =>
                                   HoldsCounter(w, n) /\ tx'[w].number = tx[w].number
        PROVE  NumberInv'
    <3>1. \A v \in Worker, n \in Tenant : HoldsCounter(v, n)' =>
            HoldsCounter(v, n) /\ tx'[v].number = tx[v].number
      BY <2>a DEF Others, HoldsCounter, HasOp, Open
    <3>2. CounterLocked'
      BY <2>a, <3>1 DEF NumberInv, CounterLocked
    <3>3. NumbersGapless'
      BY <2>a DEF NumberInv, NumbersGapless
    <3> QED
      BY <3>2, <3>3 DEF NumberInv
  <2>b. ASSUME UNCHANGED <<rows, counter>>, tx' = [tx EXCEPT ![w] = Idle]
        PROVE  NumberInv'
    BY <1>i, <2>a, <2>b, <2>t DEF Others, HoldsCounter, HasOp, Open
  <2>2. CASE Begin(w)
    <3>1. tx'[w].pc = "begun" /\ Others(w) /\ UNCHANGED <<rows, counter>>
      BY <2>2, <2>t DEF Begin, Idle, Others
    <3> QED
      BY <2>a, <3>1 DEF HoldsCounter
  <2>3. CASE ReserveNumber(w)
    <3> DEFINE m == tx[w].req.tenant
    <3>1. /\ tx'[w].number = counter[m] + 1 /\ tx'[w].req = tx[w].req /\ Others(w)
          /\ \A v \in Worker : ~HoldsCounter(v, m)
          /\ UNCHANGED <<rows, counter>>
      BY <2>3, <2>t DEF ReserveNumber, TxState, Others
    <3>2. \A v \in Worker, n \in Tenant : HoldsCounter(v, n)' =>
            (v = w /\ n = m) \/ (v # w /\ n # m /\ HoldsCounter(v, n) /\ tx'[v].number = tx[v].number)
      BY <3>1 DEF Others, HoldsCounter, HasOp, Open
    <3>3. CounterLocked'
      BY <3>1, <3>2 DEF NumberInv, CounterLocked
    <3>4. NumbersGapless'
      BY <3>1 DEF NumberInv, NumbersGapless
    <3> QED
      BY <3>3, <3>4 DEF NumberInv
  <2>4. CASE Claim(w)
    <3>1. CASE tx[w].req.ticket \in processed
      BY <2>4, <2>b, <3>1 DEF Claim
    <3>2. CASE tx[w].req.ticket \notin processed
      <4>1. tx'[w].pc = "claimed" /\ Others(w) /\ UNCHANGED <<rows, counter>>
        BY <2>4, <2>t, <3>2 DEF Claim, TxState, Others
      <4> QED
        BY <2>a, <4>1 DEF HoldsCounter
    <3> QED
      BY <3>1, <3>2
  <2>5. CASE Load(w)
    <3>1. tx'[w].pc = "loaded" /\ Others(w) /\ UNCHANGED <<rows, counter>>
      BY <2>5, <2>t DEF Load, TxState, Others
    <3> QED
      BY <2>a, <3>1 DEF HoldsCounter
  <2>6. CASE Commit(w)
    <3> DEFINE m == tx[w].req.tenant
    <3>1. NumbersGapless'
      BY <2>6, GaplessCreate, GaplessUpdate
    <3>2. tx[w].pc = "saved" /\ tx'[w].pc = "idle" /\ Others(w)
      BY <1>i, <2>6, <2>t DEF Commit, Others
    <3>3. \A v \in Worker, n \in Tenant : HoldsCounter(v, n)' =>
            v # w /\ HoldsCounter(v, n) /\ tx'[v].number = tx[v].number
      BY <3>2 DEF Others, HoldsCounter, HasOp, Open
    <3>4. ASSUME NEW v \in Worker, NEW n \in Tenant, HoldsCounter(v, n)'
          PROVE  counter'[n] = counter[n]
      <4>1. CASE HasOp(w, "create")
        <5>1. HoldsCounter(w, m)
          BY <3>2, <4>1 DEF HoldsCounter
        <5>2. m # n
          BY <3>3, <3>4, <5>1 DEF NumberInv, CounterLocked
        <5> QED
          BY <2>6, <5>2 DEF Commit, TypeInv, TypeOK
      <4>2. CASE ~HasOp(w, "create")
        BY <2>6, <4>2 DEF Commit
      <4> QED
        BY <4>1, <4>2
    <3>5. CounterLocked'
      BY <3>3, <3>4 DEF NumberInv, CounterLocked
    <3> QED
      BY <3>1, <3>5 DEF NumberInv
  <2>7. CASE Rollback(w)
    BY <2>7, <2>b DEF Rollback
  <2>8. CASE Skips(w)
    BY <2>8, <2>b DEF Skips
  <2>9. ASSUME NEW row \in Row(Tenant), NEW name \in EventName,
               NEW actor \in {"person", "system"}, Writes(w, row, name, actor)
        PROVE  NumberInv'
    <3>1. /\ tx'[w].pc = "saved" /\ tx'[w].req = tx[w].req /\ tx'[w].number = tx[w].number
          /\ Others(w) /\ UNCHANGED <<rows, counter>>
      BY <2>9, <2>t DEF Writes, Save, TxState, Others
    <3>2. HasOp(w, "create")' => HasOp(w, "create") /\ tx[w].pc = "reserved"
      BY <2>9, <3>1 DEF Writes, HasOp, Open
    <3> QED
      BY <2>a, <3>1, <3>2 DEF HoldsCounter
  <2> QED
    BY <2>1, <2>2, <2>3, <2>4, <2>5, <2>6, <2>7, <2>8, <2>9
<1> QED
  BY <1>1, <1>2

\* Ticket numbers of each tenant are 1..n, for any number of racing and
\* failing creations.
THEOREM NumbersSafe == Spec => []NumbersGapless
<1>1. Init => IdentityInv
  BY DEF Init, IdentityInv, SnapOK, PendingOK, FreshIds, EntriesOK, HasOp, Open, Idle
<1>2. Init => NumberInv
  BY DEF Init, NumberInv, CounterLocked, HoldsCounter, HasOp, Open, Idle, NumbersGapless
<1>3. NumberInv => NumbersGapless
  BY DEF NumberInv
<1> QED
  BY <1>1, <1>2, <1>3, TypeInvInit, TypeInvStep, IdentityStep, NumberStep, PTL DEF Spec

-----------------------------------------------------------------------------
(* The automatic assignment happens once.                                  *)

\* A worker that holds the claim of a ticket is alone and its claim is not
\* committed; a committed system entry has its claim committed.
ClaimsExclusive ==
  /\ \A w \in Worker, t \in Ticket : HoldsClaim(w, t) => t \notin processed
  /\ \A v, w \in Worker, t \in Ticket : HoldsClaim(v, t) /\ HoldsClaim(w, t) => v = w

EntriesClaimed ==
  /\ \A e \in audit : e.actor = "system" => e.ticket \in processed
  /\ \A w \in Worker : \A d, e \in tx[w].audit :
       /\ d = e /\ tx[w].pc = "saved" /\ e.ticket = tx[w].req.ticket
       /\ e.actor = "system" => tx[w].req.op = "autoassign"

ClaimInv == ClaimsExclusive /\ EntriesClaimed /\ AutoAssignedOnce

LEMMA ClaimStep == TypeInv /\ ClaimInv /\ [Next]_vars => ClaimInv'
<1> SUFFICES ASSUME TypeInv, ClaimInv, [Next]_vars
             PROVE  ClaimInv'
  OBVIOUS
<1>i. Idle.pc = "idle" /\ Idle.audit = {}
  BY DEF Idle
<1>1. CASE UNCHANGED vars
  BY <1>1 DEF vars, ClaimInv, ClaimsExclusive, EntriesClaimed, AutoAssignedOnce,
              HoldsClaim, HasOp, Open
<1>2. CASE Next
  <2>1. PICK w \in Worker :
           \/ Begin(w) \/ ReserveNumber(w) \/ Claim(w) \/ Load(w) \/ Commit(w)
           \/ Rollback(w) \/ Skips(w)
           \/ \E row \in Row(Tenant), name \in EventName, actor \in {"person", "system"} :
                Writes(w, row, name, actor)
    BY <1>2, StepKinds
  <2>t. tx \in [Worker -> TxState] /\ tx[w] \in TxState
    BY DEF TypeInv, TypeOK, TxState
  <2>a. ASSUME UNCHANGED <<processed, audit>>, Others(w),
               \A t \in Ticket : HoldsClaim(w, t)' => HoldsClaim(w, t),
               tx'[w].audit = {}
        PROVE  ClaimInv'
    <3>1. \A v \in Worker, t \in Ticket : HoldsClaim(v, t)' => HoldsClaim(v, t)
      BY <2>a DEF Others, HoldsClaim, HasOp, Open
    <3>2. ClaimsExclusive'
      BY <2>a, <3>1 DEF ClaimInv, ClaimsExclusive
    <3>3. EntriesClaimed'
      BY <2>a DEF ClaimInv, EntriesClaimed, Others
    <3>4. AutoAssignedOnce'
      BY <2>a DEF ClaimInv, AutoAssignedOnce
    <3> QED
      BY <3>2, <3>3, <3>4 DEF ClaimInv
  <2>b. ASSUME UNCHANGED <<processed, audit>>, tx' = [tx EXCEPT ![w] = Idle]
        PROVE  ClaimInv'
    BY <1>i, <2>a, <2>b, <2>t DEF Others, HoldsClaim, HasOp, Open
  <2>c. tx[w].pc # "saved" => tx[w].audit = {}
    BY DEF ClaimInv, EntriesClaimed
  <2>2. CASE Begin(w)
    <3>1. /\ tx'[w].pc = "begun" /\ tx'[w].audit = {} /\ Others(w)
          /\ UNCHANGED <<processed, audit>>
      BY <2>2, <2>t DEF Begin, Idle, Others
    <3> QED
      BY <2>a, <3>1 DEF HoldsClaim
  <2>3. CASE ReserveNumber(w)
    <3>1. /\ tx'[w].pc = "reserved" /\ tx'[w].audit = {} /\ Others(w)
          /\ UNCHANGED <<processed, audit>>
      BY <2>3, <2>c, <2>t DEF ReserveNumber, TxState, Others
    <3> QED
      BY <2>a, <3>1 DEF HoldsClaim
  <2>4. CASE Claim(w)
    <3> DEFINE u == tx[w].req.ticket
    <3>1. CASE u \in processed
      BY <2>4, <2>b, <3>1 DEF Claim
    <3>2. CASE u \notin processed
      <4>1. /\ tx'[w].req = tx[w].req /\ tx'[w].audit = {} /\ Others(w)
            /\ \A v \in Worker : ~HoldsClaim(v, u)
            /\ UNCHANGED <<processed, audit>>
        BY <2>4, <2>c, <2>t, <3>2 DEF Claim, TxState, Others
      <4>2. \A v \in Worker, t \in Ticket : HoldsClaim(v, t)' =>
              (v = w /\ t = u) \/ (v # w /\ t # u /\ HoldsClaim(v, t))
        BY <4>1 DEF Others, HoldsClaim, HasOp, Open
      <4>3. ClaimsExclusive'
        BY <3>2, <4>1, <4>2 DEF ClaimInv, ClaimsExclusive
      <4>4. EntriesClaimed' /\ AutoAssignedOnce'
        BY <4>1 DEF ClaimInv, EntriesClaimed, AutoAssignedOnce, Others
      <4> QED
        BY <4>3, <4>4 DEF ClaimInv
    <3> QED
      BY <3>1, <3>2
  <2>5. CASE Load(w)
    <3>1. /\ tx'[w].pc = "loaded" /\ tx'[w].req = tx[w].req /\ tx'[w].audit = {} /\ Others(w)
          /\ UNCHANGED <<processed, audit>>
      BY <2>5, <2>c, <2>t DEF Load, TxState, Others
    <3>2. tx[w].req.op = "autoassign" => tx[w].pc = "claimed"
      BY <2>5 DEF Load
    <3> QED
      BY <2>a, <3>1, <3>2 DEF HoldsClaim, HasOp, Open
  <2>6. CASE Commit(w)
    <3> DEFINE u == tx[w].req.ticket
    <3>1. /\ tx[w].pc = "saved" /\ tx'[w] = Idle /\ Others(w) /\ u \in Ticket
          /\ audit' = audit \cup tx[w].audit
          /\ processed' = IF HasOp(w, "autoassign") THEN processed \cup {u} ELSE processed
      BY <2>6, <2>t, RequestFields DEF Commit, Others, TypeInv, TxWellFormed
    <3>2. HasOp(w, "autoassign") => HoldsClaim(w, u)
      BY <3>1 DEF HoldsClaim
    <3>3. \A v \in Worker, t \in Ticket : HoldsClaim(v, t)' => v # w /\ HoldsClaim(v, t)
      BY <1>i, <3>1 DEF Others, HoldsClaim, HasOp, Open
    <3>4. ClaimsExclusive'
      BY <3>1, <3>2, <3>3 DEF ClaimInv, ClaimsExclusive
    <3>5. \A e \in tx[w].audit : e.actor = "system" => HasOp(w, "autoassign") /\ e.ticket = u
      BY <3>1 DEF ClaimInv, EntriesClaimed, HasOp, Open
    <3>6. EntriesClaimed'
      BY <1>i, <3>1, <3>5 DEF ClaimInv, EntriesClaimed, Others
    <3>7. AutoAssignedOnce'
      <4> SUFFICES ASSUME NEW d \in audit', NEW e \in audit',
                          d.actor = "system", e.actor = "system", d.ticket = e.ticket
                   PROVE  d = e
        BY DEF AutoAssignedOnce
      <4>1. CASE d \in audit /\ e \in audit
        BY <4>1 DEF ClaimInv, AutoAssignedOnce
      <4>2. CASE d \in tx[w].audit /\ e \in tx[w].audit
        BY <4>2 DEF ClaimInv, EntriesClaimed
      <4>3. ASSUME NEW x \in audit, NEW y \in tx[w].audit,
                   x.actor = "system", y.actor = "system", x.ticket = y.ticket
            PROVE  FALSE
        <5>1. x.ticket \in processed
          BY <4>3 DEF ClaimInv, EntriesClaimed
        <5>2. y.ticket = u /\ HoldsClaim(w, u)
          BY <3>2, <3>5, <4>3
        <5>3. u \notin processed
          BY <3>1, <5>2 DEF ClaimInv, ClaimsExclusive
        <5> QED
          BY <4>3, <5>1, <5>2, <5>3
      <4> QED
        BY <3>1, <4>1, <4>2, <4>3
    <3> QED
      BY <3>4, <3>6, <3>7 DEF ClaimInv
  <2>7. CASE Rollback(w)
    BY <2>7, <2>b DEF Rollback
  <2>8. CASE Skips(w)
    <3> DEFINE u == tx[w].req.ticket
    <3>1. /\ tx[w].pc = "loaded" /\ tx'[w] = Idle /\ Others(w) /\ u \in Ticket /\ Open(w)
          /\ processed' = processed \cup {u} /\ UNCHANGED audit
      BY <2>8, <2>t, RequestFields DEF Skips, Others, TypeInv, TxWellFormed, Open
    <3>2. HoldsClaim(w, u)
      BY <2>8, <3>1 DEF Skips, HoldsClaim, HasOp
    <3>3. \A v \in Worker, t \in Ticket : HoldsClaim(v, t)' => v # w /\ HoldsClaim(v, t)
      BY <1>i, <3>1 DEF Others, HoldsClaim, HasOp, Open
    <3>4. ClaimsExclusive'
      BY <3>1, <3>2, <3>3 DEF ClaimInv, ClaimsExclusive
    <3>5. EntriesClaimed' /\ AutoAssignedOnce'
      BY <1>i, <3>1 DEF ClaimInv, EntriesClaimed, AutoAssignedOnce, Others
    <3> QED
      BY <3>4, <3>5 DEF ClaimInv
  <2>9. ASSUME NEW row \in Row(Tenant), NEW name \in EventName,
               NEW actor \in {"person", "system"}, Writes(w, row, name, actor)
        PROVE  ClaimInv'
    <3> DEFINE e == EntryOf(name, actor, tx[w].req.ticket, row)
    <3>1. /\ tx'[w].pc = "saved" /\ tx'[w].req = tx[w].req /\ tx'[w].audit = {e}
          /\ Others(w) /\ UNCHANGED <<processed, audit>>
      BY <2>9, <2>t DEF Writes, Save, TxState, Others
    <3>2. e.ticket = tx[w].req.ticket /\ (e.actor = "system" => tx[w].req.op = "autoassign")
      BY <2>9 DEF Writes, EntryOf
    <3>3. \A t \in Ticket : HoldsClaim(w, t)' => HoldsClaim(w, t)
      BY <2>9, <3>1 DEF Writes, HoldsClaim, HasOp, Open
    <3>4. \A v \in Worker, t \in Ticket : HoldsClaim(v, t)' => HoldsClaim(v, t)
      BY <3>1, <3>3 DEF Others, HoldsClaim, HasOp, Open
    <3>5. ClaimsExclusive'
      BY <3>1, <3>4 DEF ClaimInv, ClaimsExclusive
    <3>6. EntriesClaimed' /\ AutoAssignedOnce'
      BY <3>1, <3>2 DEF ClaimInv, EntriesClaimed, AutoAssignedOnce, Others
    <3> QED
      BY <3>5, <3>6 DEF ClaimInv
  <2> QED
    BY <2>1, <2>2, <2>3, <2>4, <2>5, <2>6, <2>7, <2>8, <2>9
<1> QED
  BY <1>1, <1>2

\* However often the job of a ticket is delivered, to however many workers,
\* the system assigns it at most once.
THEOREM AutoAssignedOnceSafe == Spec => []AutoAssignedOnce
<1>1. Init => ClaimInv
  BY DEF Init, ClaimInv, ClaimsExclusive, EntriesClaimed, AutoAssignedOnce,
         HoldsClaim, HasOp, Open, Idle
<1>2. ClaimInv => AutoAssignedOnce
  BY DEF ClaimInv
<1> QED
  BY <1>1, <1>2, TypeInvInit, TypeInvStep, ClaimStep, PTL DEF Spec

-----------------------------------------------------------------------------
(* What a step may never do.                                               *)

\* What is about to be stored is one legal step from the copy that was read.
LegalInv ==
  \A w \in Worker : tx[w].pc = "saved" /\ tx[w].req.op # "create" =>
    tx[w].snap # NULL /\ LegalSuccessor(tx[w].snap, tx[w].row)

LEMMA LegalStep == TypeInv /\ LegalInv /\ [Next]_vars => LegalInv'
<1> SUFFICES ASSUME TypeInv, LegalInv, [Next]_vars
             PROVE  LegalInv'
  OBVIOUS
<1>i. Idle.pc = "idle"
  BY DEF Idle
<1>1. CASE UNCHANGED vars
  BY <1>1 DEF vars, LegalInv
<1>2. CASE Next
  <2>1. PICK w \in Worker :
           \/ Begin(w) \/ ReserveNumber(w) \/ Claim(w) \/ Load(w) \/ Commit(w)
           \/ Rollback(w) \/ Skips(w)
           \/ \E row \in Row(Tenant), name \in EventName, actor \in {"person", "system"} :
                Writes(w, row, name, actor)
    BY <1>2, StepKinds
  <2>t. tx \in [Worker -> TxState] /\ tx[w] \in TxState
    BY DEF TypeInv, TypeOK, TxState
  <2>2. CASE Begin(w)
    BY <2>2, <2>t DEF Begin, LegalInv, Idle
  <2>3. CASE ReserveNumber(w)
    BY <2>3, <2>t DEF ReserveNumber, LegalInv, TxState
  <2>4. CASE Claim(w)
    BY <1>i, <2>4, <2>t DEF Claim, LegalInv, TxState
  <2>5. CASE Load(w)
    BY <2>5, <2>t DEF Load, LegalInv, TxState
  <2>6. CASE tx' = [tx EXCEPT ![w] = Idle]
    BY <1>i, <2>6, <2>t DEF LegalInv
  <2>7. ASSUME NEW row \in Row(Tenant), NEW name \in EventName,
               NEW actor \in {"person", "system"}, Writes(w, row, name, actor)
        PROVE  LegalInv'
    BY <2>7, <2>t DEF Writes, Save, LegalInv, TxState
  <2> QED
    BY <2>1, <2>2, <2>3, <2>4, <2>5, <2>6, <2>7 DEF Commit, Rollback, Skips
<1> QED
  BY <1>1, <1>2

\* Only a commit changes the tables of tickets, entries and numbers.
LEMMA OnlyCommitsWrite ==
  ASSUME TypeInv, [Next]_vars
  PROVE  \/ \E w \in Worker : Commit(w)
         \/ UNCHANGED <<rows, counter, audit, outbox>> /\ processed \subseteq processed'
<1>1. CASE UNCHANGED vars
  BY <1>1 DEF vars
<1>2. CASE Next
  <2> DEFINE Quiet == UNCHANGED <<rows, counter, audit, outbox>> /\ processed \subseteq processed'
  <2>1. ASSUME NEW w \in Worker
        PROVE  /\ Begin(w) \/ ReserveNumber(w) \/ Claim(w) \/ Load(w) => Quiet
               /\ Rollback(w) \/ Skips(w) => Quiet
    BY DEF Begin, ReserveNumber, Claim, Load, Rollback, Skips
  <2>2. ASSUME NEW w \in Worker, NEW row, NEW name, NEW actor, Writes(w, row, name, actor)
        PROVE  Quiet
    BY <2>2 DEF Writes, Save
  <2> HIDE DEF Quiet
  <2>3. (\E w \in Worker : Commit(w)) \/ Quiet
    BY <1>2, <2>1, <2>2, StepKinds
  <2> QED
    BY <2>3 DEF Quiet
<1> QED
  BY <1>1, <1>2

\* A stored ticket takes an illegal step only when its writer read a copy
\* that another request has replaced since.
THEOREM OnlyStaleWrites == Spec => OnlyStaleWritesBreakTheLifecycle
<1> DEFINE A == \A t \in Ticket : rows[t] # NULL /\ rows'[t] # rows[t] =>
                  \/ LegalSuccessor(rows[t], rows'[t])
                  \/ \E w \in Worker : Stale(w, t)
<1>1. TypeInv /\ IdentityInv /\ LegalInv /\ [Next]_vars => A
  <2> SUFFICES ASSUME TypeInv, IdentityInv, LegalInv, [Next]_vars,
                      NEW t \in Ticket, rows[t] # NULL, rows'[t] # rows[t]
               PROVE  \/ LegalSuccessor(rows[t], rows'[t])
                      \/ \E w \in Worker : Stale(w, t)
    OBVIOUS
  <2>1. PICK w \in Worker : Commit(w)
    BY OnlyCommitsWrite
  <2>2. t = tx[w].req.ticket /\ tx[w].row \in Row(Tenant)
    BY <2>1, CommitRows
  <2>3. tx[w].pc = "saved" /\ tx[w].req.op # "create"
    BY <2>1, <2>2 DEF Commit, IdentityInv, FreshIds, HasOp, Open
  <2>4. CASE tx[w].snap # rows[t]
    BY <2>2, <2>3, <2>4 DEF Stale
  <2>5. CASE tx[w].snap = rows[t]
    <3>1. LegalSuccessor(rows[t], tx[w].row)
      BY <2>3, <2>5 DEF LegalInv
    <3>2. rows'[t] = Upsert(rows[t], tx[w].row)
      BY <2>1, <2>2 DEF Commit, TypeInv, TypeOK
    <3>3. LegalSuccessor(rows[t], Upsert(rows[t], tx[w].row))
      BY <2>2, <3>1 DEF LegalSuccessor, Upsert, Row
    <3> QED
      BY <3>2, <3>3
  <2> QED
    BY <2>4, <2>5
<1>2. Init => IdentityInv /\ LegalInv
  BY DEF Init, IdentityInv, SnapOK, PendingOK, FreshIds, EntriesOK, LegalInv, HasOp, Open, Idle
<1> QED
  BY <1>1, <1>2, TypeInvInit, TypeInvStep, IdentityStep, LegalStep, PTL
     DEF Spec, OnlyStaleWritesBreakTheLifecycle

\* The requests of one ticket come one after the other.
OneRequestPerTicket ==
  \A v, w \in Worker : Open(v) /\ Open(w) /\ tx[v].req.ticket = tx[w].req.ticket => v = w

\* Then no copy is ever older than its row.
FreshInv ==
  \A w \in Worker : tx[w].snap # NULL => Open(w) /\ tx[w].snap = rows[tx[w].req.ticket]

LEMMA FreshStep ==
  TypeInv /\ FreshInv /\ OneRequestPerTicket /\ [Next]_vars => FreshInv'
<1> SUFFICES ASSUME TypeInv, FreshInv, OneRequestPerTicket, [Next]_vars
             PROVE  FreshInv'
  OBVIOUS
<1>i. Idle.pc = "idle" /\ Idle.snap = NULL
  BY DEF Idle
<1>1. CASE UNCHANGED vars
  BY <1>1 DEF vars, FreshInv, Open
<1>2. CASE Next
  <2>1. PICK w \in Worker :
           \/ Begin(w) \/ ReserveNumber(w) \/ Claim(w) \/ Load(w) \/ Commit(w)
           \/ Rollback(w) \/ Skips(w)
           \/ \E row \in Row(Tenant), name \in EventName, actor \in {"person", "system"} :
                Writes(w, row, name, actor)
    BY <1>2, StepKinds
  <2>t. tx \in [Worker -> TxState] /\ tx[w] \in TxState
    BY DEF TypeInv, TypeOK, TxState
  <2>2. CASE Begin(w)
    BY <2>2, <2>t DEF Begin, FreshInv, Idle, Open
  <2>3. CASE ReserveNumber(w)
    BY <2>3, <2>t DEF ReserveNumber, FreshInv, TxState, Open
  <2>4. CASE Claim(w)
    BY <1>i, <2>4, <2>t DEF Claim, FreshInv, TxState, Open
  <2>5. CASE Load(w)
    BY <2>5, <2>t DEF Load, FreshInv, TxState, Open
  <2>6. CASE tx' = [tx EXCEPT ![w] = Idle] /\ rows' = rows
    BY <1>i, <2>6, <2>t DEF FreshInv, Open
  <2>7. CASE Commit(w)
    <3>1. /\ Open(w) /\ tx' = [tx EXCEPT ![w] = Idle]
          /\ \A t \in Ticket : t # tx[w].req.ticket => rows'[t] = rows[t]
      BY <2>7, CommitRows DEF Commit, Open, TypeInv, TypeOK
    <3>2. ASSUME NEW v \in Worker, tx'[v].snap # NULL
          PROVE  Open(v)' /\ tx'[v].snap = rows'[tx'[v].req.ticket]
      <4>1. v # w /\ tx'[v] = tx[v]
        BY <1>i, <2>t, <3>1, <3>2
      <4>2. Open(v) /\ tx[v].snap = rows[tx[v].req.ticket]
        BY <3>2, <4>1 DEF FreshInv
      <4>3. tx[v].req.ticket # tx[w].req.ticket /\ tx[v].req.ticket \in Ticket
        BY <3>1, <4>1, <4>2, RequestFields DEF OneRequestPerTicket, TypeInv, Open, TxWellFormed
      <4> QED
        BY <3>1, <4>1, <4>2, <4>3 DEF Open
    <3> QED
      BY <3>2 DEF FreshInv
  <2>8. ASSUME NEW row \in Row(Tenant), NEW name \in EventName,
               NEW actor \in {"person", "system"}, Writes(w, row, name, actor)
        PROVE  FreshInv'
    BY <2>8, <2>t DEF Writes, Save, FreshInv, TxState, Open
  <2> QED
    BY <2>1, <2>2, <2>3, <2>4, <2>5, <2>6, <2>7, <2>8 DEF Rollback, Skips
<1> QED
  BY <1>1, <1>2

\* What overlapping requests cost is all that the lifecycle lacks: while those of
\* one ticket come one after the other, "CLOSED es TERMINAL" of every stored row.
THEOREM SerialRequestsKeepClosed == Spec /\ []OneRequestPerTicket => ClosedIsTerminal
<1> DEFINE A == \A t \in Ticket : rows[t] # NULL /\ rows'[t] # rows[t] =>
                  \/ LegalSuccessor(rows[t], rows'[t])
                  \/ \E w \in Worker : Stale(w, t)
           C == \A t \in Ticket : rows[t] # NULL /\ rows[t].status = "CLOSED"
                                    => rows'[t].status = "CLOSED"
           S == \A w \in Worker : tx[w].pc = "saved" /\ tx[w].req.op # "create" => tx[w].snap # NULL
<1>1. Init => FreshInv
  BY DEF Init, FreshInv, Idle
<1>2. TypeInv /\ IdentityInv /\ LegalInv /\ FreshInv /\ [Next]_vars /\ [A]_vars => [C]_vars
  <2> SUFFICES ASSUME TypeInv, IdentityInv, LegalInv, FreshInv, [Next]_vars, [A]_vars,
                      NEW t \in Ticket, rows[t] # NULL, rows[t].status = "CLOSED",
                      rows'[t] # rows[t]
               PROVE  FALSE
    BY DEF vars
  <2>1. A
    BY DEF vars
  <2>2. IsTerminal(rows[t].status)
    BY DEF IsTerminal, AllowedTransitions
  <2>3. PICK w \in Worker : Stale(w, t)
    BY <2>1, <2>2 DEF LegalSuccessor
  <2>4. tx[w].req.op # "create"
    BY <2>3 DEF Stale, IdentityInv, FreshIds, HasOp, Open
  <2>5. tx[w].snap # NULL
    BY <2>3, <2>4 DEF Stale, LegalInv
  <2> QED
    BY <2>3, <2>5 DEF Stale, FreshInv
<1>3. Init => IdentityInv /\ LegalInv
  BY DEF Init, IdentityInv, SnapOK, PendingOK, FreshIds, EntriesOK, LegalInv, HasOp, Open, Idle
<1>4. Spec => [][A]_vars
  BY OnlyStaleWrites DEF OnlyStaleWritesBreakTheLifecycle
<1>5. Spec => [](TypeInv /\ IdentityInv /\ LegalInv) /\ [][Next]_vars
  BY <1>3, TypeInvInit, TypeInvStep, IdentityStep, LegalStep, PTL DEF Spec
<1>6. Spec /\ []OneRequestPerTicket => []FreshInv
  BY <1>1, <1>5, FreshStep, PTL DEF Spec
<1>7. ([][C]_vars) => ClosedIsTerminal
  BY DEF ClosedIsTerminal
<1> QED
  BY <1>2, <1>4, <1>5, <1>6, <1>7, PTL

\* The automatic assignment saves only a copy it has read without assignee.
UnassignedInv ==
  \A w \in Worker : tx[w].pc = "saved" /\ tx[w].req.op = "autoassign" =>
    tx[w].snap # NULL /\ tx[w].snap.assignee = NULL

LEMMA UnassignedStep == TypeInv /\ UnassignedInv /\ [Next]_vars => UnassignedInv'
<1> SUFFICES ASSUME TypeInv, UnassignedInv, [Next]_vars
             PROVE  UnassignedInv'
  OBVIOUS
<1>i. Idle.pc = "idle"
  BY DEF Idle
<1>1. CASE UNCHANGED vars
  BY <1>1 DEF vars, UnassignedInv
<1>2. CASE Next
  <2>1. PICK w \in Worker :
           \/ Begin(w) \/ ReserveNumber(w) \/ Claim(w) \/ Load(w) \/ Commit(w)
           \/ Rollback(w) \/ Skips(w)
           \/ \E row \in Row(Tenant), name \in EventName, actor \in {"person", "system"} :
                Writes(w, row, name, actor)
    BY <1>2, StepKinds
  <2>t. tx \in [Worker -> TxState] /\ tx[w] \in TxState
    BY DEF TypeInv, TypeOK, TxState
  <2>2. CASE Begin(w)
    BY <2>2, <2>t DEF Begin, UnassignedInv, Idle
  <2>3. CASE ReserveNumber(w)
    BY <2>3, <2>t DEF ReserveNumber, UnassignedInv, TxState
  <2>4. CASE Claim(w)
    BY <1>i, <2>4, <2>t DEF Claim, UnassignedInv, TxState
  <2>5. CASE Load(w)
    BY <2>5, <2>t DEF Load, UnassignedInv, TxState
  <2>6. CASE tx' = [tx EXCEPT ![w] = Idle]
    BY <1>i, <2>6, <2>t DEF UnassignedInv
  <2>7. ASSUME NEW row \in Row(Tenant), NEW name \in EventName,
               NEW actor \in {"person", "system"}, Writes(w, row, name, actor)
        PROVE  UnassignedInv'
    BY <2>7, <2>t DEF Writes, Save, UnassignedInv, TxState
  <2> QED
    BY <2>1, <2>2, <2>3, <2>4, <2>5, <2>6, <2>7 DEF Commit, Rollback, Skips
<1> QED
  BY <1>1, <1>2

\* The system replaces a stored assignee only when its job read the ticket
\* before that person was assigned.
THEOREM PersonWinsSafe == Spec => PersonWinsUnlessStale
<1> DEFINE A == \A e \in audit' \ audit : e.actor = "system" =>
                  \/ rows[e.ticket].assignee = NULL
                  \/ \E w \in Worker : HasOp(w, "autoassign") /\ Stale(w, e.ticket)
<1>1. TypeInv /\ ClaimInv /\ UnassignedInv /\ [Next]_vars => A
  <2> SUFFICES ASSUME TypeInv, ClaimInv, UnassignedInv, [Next]_vars,
                      NEW e \in audit' \ audit, e.actor = "system"
               PROVE  \/ rows[e.ticket].assignee = NULL
                      \/ \E w \in Worker : HasOp(w, "autoassign") /\ Stale(w, e.ticket)
    OBVIOUS
  <2>1. PICK w \in Worker : Commit(w)
    BY OnlyCommitsWrite
  <2>2. e \in tx[w].audit /\ tx[w].pc = "saved"
    BY <2>1 DEF Commit
  <2>3. e.ticket = tx[w].req.ticket /\ tx[w].req.op = "autoassign"
    BY <2>2 DEF ClaimInv, EntriesClaimed
  <2>4. tx[w].snap.assignee = NULL
    BY <2>2, <2>3 DEF UnassignedInv
  <2>5. HasOp(w, "autoassign")
    BY <2>2, <2>3 DEF HasOp, Open
  <2> QED
    BY <2>2, <2>3, <2>4, <2>5 DEF Stale
<1>2. Init => ClaimInv /\ UnassignedInv
  BY DEF Init, ClaimInv, ClaimsExclusive, EntriesClaimed, AutoAssignedOnce,
         UnassignedInv, HoldsClaim, HasOp, Open, Idle
<1> QED
  BY <1>1, <1>2, TypeInvInit, TypeInvStep, ClaimStep, UnassignedStep, PTL
     DEF Spec, PersonWinsUnlessStale

\* No step forgets an entry, an event or a claim, takes a number back, or gives
\* a ticket to another tenant or under another number.
THEOREM HistoryKept == Spec => HistoryAppendOnly
<1> DEFINE A ==
      /\ audit \subseteq audit' /\ outbox \subseteq outbox' /\ processed \subseteq processed'
      /\ \A n \in Tenant : counter'[n] >= counter[n]
      /\ \A t \in Ticket : rows[t] # NULL =>
           /\ rows'[t] # NULL
           /\ <<rows'[t].tenant, rows'[t].number>> = <<rows[t].tenant, rows[t].number>>
<1>1. TypeInv /\ IdentityInv /\ NumberInv /\ [Next]_vars => A
  <2> SUFFICES ASSUME TypeInv, IdentityInv, NumberInv, [Next]_vars
               PROVE  A
    OBVIOUS
  <2>c. counter \in [Tenant -> Nat]
    BY DEF TypeInv, TypeOK
  <2>1. CASE UNCHANGED <<rows, counter, audit, outbox>> /\ processed \subseteq processed'
    BY <2>1, <2>c
  <2>2. ASSUME NEW w \in Worker, Commit(w)
        PROVE  A
    <3> DEFINE m == tx[w].req.tenant
    <3>1. audit \subseteq audit' /\ outbox \subseteq outbox' /\ processed \subseteq processed'
      BY <2>2 DEF Commit
    <3>2. \A n \in Tenant : counter'[n] >= counter[n]
      <4>1. CASE HasOp(w, "create")
        <5>1. m \in Tenant /\ HoldsCounter(w, m)
          BY <2>2, <4>1, RequestFields DEF Commit, HoldsCounter, TypeInv, TxWellFormed
        <5>2. tx[w].number = counter[m] + 1
          BY <5>1 DEF NumberInv, CounterLocked
        <5>3. counter' = [counter EXCEPT ![m] = counter[m] + 1]
          BY <2>2, <4>1, <5>2 DEF Commit
        <5> QED
          BY <2>c, <5>1, <5>3
      <4>2. CASE ~HasOp(w, "create")
        BY <2>2, <2>c, <4>2 DEF Commit
      <4> QED
        BY <4>1, <4>2
    <3>3. ASSUME NEW t \in Ticket, rows[t] # NULL
          PROVE  /\ rows'[t] # NULL
                 /\ <<rows'[t].tenant, rows'[t].number>> = <<rows[t].tenant, rows[t].number>>
      BY <2>2, <3>3, CommitRows
    <3> QED
      BY <3>1, <3>2, <3>3
  <2> QED
    BY <2>1, <2>2, OnlyCommitsWrite
<1>2. Init => IdentityInv
  BY DEF Init, IdentityInv, SnapOK, PendingOK, FreshIds, EntriesOK, HasOp, Open, Idle
<1>3. Init => NumberInv
  BY DEF Init, NumberInv, CounterLocked, HoldsCounter, HasOp, Open, Idle, NumbersGapless
<1> QED
  BY <1>1, <1>2, <1>3, TypeInvInit, TypeInvStep, IdentityStep, NumberStep, PTL
     DEF Spec, HistoryAppendOnly

-----------------------------------------------------------------------------
(* Tickets implements TicketDesk.                                          *)

\* The rows that commands have left of a ticket, by their audit entries.
Versions(entries, t) == {e.row : e \in {f \in entries : f.ticket = t}}

\* What has been read is a version; what is about to be stored is what the
\* command made of it, and the pending entry says so.
CommandInv ==
  /\ \A t \in Ticket : rows[t] # NULL => rows[t] \in Versions(audit, t)
  /\ \A w \in Worker : tx[w].snap # NULL => tx[w].snap \in Versions(audit, tx[w].req.ticket)
  /\ \A w \in Worker : tx[w].pc = "saved" =>
       /\ CommandOf(w, tx[w].row)
       /\ \E name \in EventName, actor \in {"person", "system"} :
            tx[w].audit = {EntryOf(name, actor, tx[w].req.ticket, tx[w].row)}

\* A commit stores exactly the row that was saved.
LEMMA CommitStores ==
  ASSUME TypeInv, IdentityInv, NEW w \in Worker, Commit(w)
  PROVE  /\ tx[w].req.ticket \in Ticket
         /\ rows' = [rows EXCEPT ![tx[w].req.ticket] = tx[w].row]
<1> DEFINE t == tx[w].req.ticket
<1>1. t \in Ticket /\ tx[w].row \in Row(Tenant) /\ tx[w].pc = "saved"
  BY CommitRows DEF Commit
<1>2. rows[t] # NULL => /\ tx[w].row.tenant = rows[t].tenant
                        /\ tx[w].row.number = rows[t].number
  <2>1. rows[t] # NULL => tx[w].req.op # "create"
    BY <1>1 DEF IdentityInv, FreshIds, HasOp, Open
  <2> QED
    BY <1>1, <2>1 DEF IdentityInv, PendingOK
<1>3. Upsert(rows[t], tx[w].row) = tx[w].row
  BY <1>1, <1>2 DEF Upsert, Row
<1> QED
  BY <1>1, <1>3 DEF Commit

LEMMA OneMoreVersion ==
  ASSUME NEW entries, NEW e
  PROVE  /\ Versions(entries \cup {e}, e.ticket) = Versions(entries, e.ticket) \cup {e.row}
         /\ \A u : u # e.ticket => Versions(entries \cup {e}, u) = Versions(entries, u)
BY DEF Versions

\* A commit adds one version, that row, to its ticket.
LEMMA CommitVersions ==
  ASSUME CommandInv, NEW w \in Worker, Commit(w)
  PROVE  /\ Versions(audit', tx[w].req.ticket) = Versions(audit, tx[w].req.ticket) \cup {tx[w].row}
         /\ \A u \in Ticket \ {tx[w].req.ticket} : Versions(audit', u) = Versions(audit, u)
<1> DEFINE t == tx[w].req.ticket
<1>1. PICK name, actor : tx[w].audit = {EntryOf(name, actor, t, tx[w].row)}
  BY DEF CommandInv, Commit
<1>2. PICK e : tx[w].audit = {e} /\ e.ticket = t /\ e.row = tx[w].row
  BY <1>1 DEF EntryOf
<1>3. audit' = audit \cup {e}
  BY <1>2 DEF Commit
<1>4. /\ Versions(audit \cup {e}, e.ticket) = Versions(audit, e.ticket) \cup {e.row}
      /\ \A u : u # e.ticket => Versions(audit \cup {e}, u) = Versions(audit, u)
  BY OneMoreVersion
<1> QED
  BY <1>2, <1>3, <1>4

LEMMA CommandStep ==
  TypeInv /\ IdentityInv /\ CommandInv /\ [Next]_vars => CommandInv'
<1> SUFFICES ASSUME TypeInv, IdentityInv, CommandInv, [Next]_vars
             PROVE  CommandInv'
  OBVIOUS
<1>i. Idle.pc = "idle" /\ Idle.snap = NULL
  BY DEF Idle
<1>1. CASE UNCHANGED vars
  BY <1>1 DEF vars, CommandInv, CommandOf
<1>2. CASE Next
  <2>1. PICK w \in Worker :
           \/ Begin(w) \/ ReserveNumber(w) \/ Claim(w) \/ Load(w) \/ Commit(w)
           \/ Rollback(w) \/ Skips(w)
           \/ \E row \in Row(Tenant), name \in EventName, actor \in {"person", "system"} :
                Writes(w, row, name, actor)
    BY <1>2, StepKinds
  <2>t. tx \in [Worker -> TxState] /\ tx[w] \in TxState
    BY DEF TypeInv, TypeOK, TxState
  <2>a. ASSUME UNCHANGED <<rows, audit>>, Others(w), tx'[w].pc # "saved",
               tx'[w].snap # NULL => tx'[w].snap \in Versions(audit, tx'[w].req.ticket)
        PROVE  CommandInv'
    BY <2>a DEF CommandInv, CommandOf, Others
  <2>2. CASE Begin(w)
    <3>1. /\ UNCHANGED <<rows, audit>> /\ Others(w)
          /\ tx'[w].pc = "begun" /\ tx'[w].snap = NULL
      BY <2>2, <2>t DEF Begin, Idle, Others
    <3> QED
      BY <2>a, <3>1
  <2>3. CASE ReserveNumber(w)
    <3>1. /\ UNCHANGED <<rows, audit>> /\ Others(w) /\ tx'[w].pc = "reserved"
          /\ tx'[w].snap = tx[w].snap /\ tx'[w].req = tx[w].req
      BY <2>3, <2>t DEF ReserveNumber, TxState, Others
    <3> QED
      BY <2>a, <3>1 DEF CommandInv
  <2>4. CASE Claim(w)
    <3>1. /\ UNCHANGED <<rows, audit>> /\ Others(w) /\ tx'[w].pc # "saved"
          /\ tx'[w].snap # NULL => tx'[w].snap = tx[w].snap /\ tx'[w].req = tx[w].req
      BY <1>i, <2>4, <2>t DEF Claim, TxState, Others
    <3> QED
      BY <2>a, <3>1 DEF CommandInv
  <2>5. CASE Load(w)
    <3>1. /\ UNCHANGED <<rows, audit>> /\ Others(w) /\ tx'[w].pc = "loaded"
          /\ tx'[w].req = tx[w].req
          /\ tx'[w].snap # NULL => tx'[w].snap = rows[tx[w].req.ticket]
      BY <2>5, <2>t DEF Load, TxState, Others
    <3>2. tx[w].req.ticket \in Ticket
      BY <2>5, RequestFields DEF Load, TypeInv, TxWellFormed
    <3> QED
      BY <2>a, <3>1, <3>2 DEF CommandInv
  <2>6. CASE Commit(w)
    <3> DEFINE t == tx[w].req.ticket
    <3>1. /\ t \in Ticket /\ Others(w) /\ tx'[w] = Idle
          /\ rows'[t] = tx[w].row /\ \A u \in Ticket \ {t} : rows'[u] = rows[u]
      BY <2>6, <2>t, CommitStores DEF Commit, Others, TypeInv, TypeOK
    <3>2. /\ Versions(audit', t) = Versions(audit, t) \cup {tx[w].row}
          /\ \A u \in Ticket \ {t} : Versions(audit', u) = Versions(audit, u)
      BY <2>6, CommitVersions
    <3>3. ASSUME NEW u \in Ticket, rows'[u] # NULL
          PROVE  rows'[u] \in Versions(audit', u)
      BY <3>1, <3>2, <3>3 DEF CommandInv
    <3>4. ASSUME NEW v \in Worker, tx'[v].snap # NULL
          PROVE  tx'[v].snap \in Versions(audit', tx'[v].req.ticket)
      <4>1. v # w /\ tx'[v] = tx[v]
        BY <1>i, <3>1, <3>4 DEF Others
      <4>2. Open(v) /\ tx[v].req.ticket \in Ticket
        BY <3>4, <4>1, RequestFields DEF IdentityInv, SnapOK, Open, TypeInv, TxWellFormed
      <4>3. tx[v].snap \in Versions(audit, tx[v].req.ticket)
        BY <3>4, <4>1 DEF CommandInv
      <4> QED
        BY <3>2, <4>1, <4>2, <4>3
    <3>5. ASSUME NEW v \in Worker, tx'[v].pc = "saved"
          PROVE  v # w /\ tx'[v] = tx[v]
      BY <1>i, <3>1, <3>5 DEF Others
    <3> QED
      BY <3>3, <3>4, <3>5 DEF CommandInv, CommandOf
  <2>7. CASE Rollback(w) \/ Skips(w)
    <3>1. UNCHANGED <<rows, audit>> /\ Others(w) /\ tx'[w] = Idle
      BY <2>7, <2>t DEF Rollback, Skips, Others
    <3> QED
      BY <1>i, <2>a, <3>1
  <2>8. ASSUME NEW row \in Row(Tenant), NEW name \in EventName,
               NEW actor \in {"person", "system"}, Writes(w, row, name, actor)
        PROVE  CommandInv'
    <3>1. /\ UNCHANGED <<rows, audit>> /\ Others(w)
          /\ tx'[w].req = tx[w].req /\ tx'[w].snap = tx[w].snap /\ tx'[w].now = tx[w].now
          /\ tx'[w].number = tx[w].number /\ tx'[w].row = row
          /\ tx'[w].audit = {EntryOf(name, actor, tx[w].req.ticket, row)}
      BY <2>8, <2>t DEF Writes, Save, TxState, Others
    <3>2. CommandOf(w, row) /\ (CommandOf(w, row))'
      BY <2>8, <3>1 DEF Writes, CommandOf
    <3>3. \A v \in Worker \ {w} : CommandOf(v, tx[v].row) => CommandOf(v, tx[v].row)'
      BY <3>1 DEF CommandOf, Others
    <3>4. \A v \in Worker : tx'[v].snap # NULL => tx'[v].snap \in Versions(audit', tx'[v].req.ticket)
      BY <3>1 DEF CommandInv, Others
    <3>5. \A t \in Ticket : rows'[t] # NULL => rows'[t] \in Versions(audit', t)
      BY <3>1 DEF CommandInv
    <3>6. ASSUME NEW v \in Worker, tx'[v].pc = "saved"
          PROVE  /\ CommandOf(v, tx[v].row)'
                 /\ \E nm \in EventName, ac \in {"person", "system"} :
                      tx'[v].audit = {EntryOf(nm, ac, tx'[v].req.ticket, tx'[v].row)}
      <4>1. CASE v = w
        BY <3>1, <3>2, <4>1 DEF CommandOf
      <4>2. CASE v # w
        <5>1. tx'[v] = tx[v]
          BY <3>1, <4>2 DEF Others
        <5> QED
          BY <3>3, <3>6, <4>2, <5>1 DEF CommandInv
      <4> QED
        BY <4>1, <4>2
    <3> QED
      BY <3>4, <3>5, <3>6 DEF CommandInv
  <2> QED
    BY <2>1, <2>2, <2>3, <2>4, <2>5, <2>6, <2>7, <2>8
<1> QED
  BY <1>1, <1>2

LEMMA CommandInit == Init => CommandInv
BY DEF Init, CommandInv, Idle

\* Overlapping saves never blend: each stored row is one that an audited
\* command left.
THEOREM RowsAreExplained == Spec => []RowsExplained
<1>1. CommandInv => RowsExplained
  BY DEF CommandInv, RowsExplained, Versions
<1>2. Init => IdentityInv
  BY DEF Init, IdentityInv, SnapOK, PendingOK, FreshIds, EntriesOK, HasOp, Open, Idle
<1> QED
  BY <1>1, <1>2, TypeInvInit, TypeInvStep, IdentityStep, CommandInit, CommandStep, PTL DEF Spec

\* The counter of a tenant is the number of its tickets.
LEMMA CounterCounts ==
  ASSUME TypeInv, NumberInv, NEW n \in Tenant
  PROVE  Cardinality(Mine(n)) = counter[n]
<1>1. /\ counter[n] \in Nat
      /\ {rows[t].number : t \in Mine(n)} = 1..counter[n]
      /\ \A t, u \in Mine(n) : rows[t].number = rows[u].number => t = u
  BY GaplessMine DEF TypeInv, TypeOK, NumberInv
<1> DEFINE numbered == [k \in 1..counter[n] |-> CHOOSE t \in Mine(n) : rows[t].number = k]
<1>2. \A k \in 1..counter[n] : numbered[k] \in Mine(n) /\ rows[numbered[k]].number = k
  BY <1>1
<1>3. \A t \in Mine(n) : rows[t].number \in 1..counter[n] /\ numbered[rows[t].number] = t
  BY <1>1, <1>2
<1>4. numbered \in Bijection(1..counter[n], Mine(n))
  <2>1. numbered \in [1..counter[n] -> Mine(n)]
    BY <1>2
  <2>2. \A j, k \in 1..counter[n] : numbered[j] = numbered[k] => j = k
    BY <1>2
  <2>3. \A t \in Mine(n) : \E k \in 1..counter[n] : numbered[k] = t
    BY <1>3
  <2> HIDE DEF numbered
  <2> QED
    BY <2>1, <2>2, <2>3 DEF Bijection, Injection, Surjection, IsInjective
<1>5. ExistsBijection(1..counter[n], Mine(n))
  BY <1>4 DEF ExistsBijection
<1> QED
  BY <1>1, <1>5, FS_CountingElements

\* The desk's commands are those of the aggregate.
LEMMA SameCommands ==
  ASSUME NEW s, NEW next, NEW who, NEW now
  PROVE  /\ Desk!CanTransition(s.status, next) <=> CanTransition(s.status, next)
         /\ Desk!IsTerminal(s.status) <=> IsTerminal(s.status)
         /\ Desk!ChangeStatus(s, next, now) = ChangeStatus(s, next, now)
         /\ Desk!AssignTo(s, who, now) = AssignTo(s, who, now)
         /\ Desk!Touch(s, now) = Touch(s, now)
<1>1. Desk!AllowedTransitions = AllowedTransitions
  BY DEF Desk!AllowedTransitions, AllowedTransitions
<1>2. \A r : Desk!Touch(r, now) = Touch(r, now)
  BY DEF Desk!Touch, Touch
<1>3. \A r : Desk!ApplyLifecycleTimestamps(r, next, now) = ApplyLifecycleTimestamps(r, next, now)
  BY DEF Desk!ApplyLifecycleTimestamps, ApplyLifecycleTimestamps
<1>4. Desk!ChangeStatus(s, next, now) = ChangeStatus(s, next, now)
  BY <1>2, <1>3 DEF Desk!ChangeStatus, ChangeStatus
<1>5. Desk!AssignTo(s, who, now) = AssignTo(s, who, now)
  BY <1>2 DEF Desk!AssignTo, AssignTo
<1> QED
  BY <1>1, <1>2, <1>4, <1>5 DEF Desk!CanTransition, CanTransition, Desk!IsTerminal, IsTerminal

\* A commit is one command of the desk.
LEMMA CommitIsCommand ==
  ASSUME TypeInv, IdentityInv, NumberInv, CommandInv, NEW w \in Worker, Commit(w)
  PROVE  Desk!Next
<1>0. PICK t, n, row, now, seen :
        /\ t = tx[w].req.ticket /\ n = tx[w].req.tenant
        /\ row = tx[w].row /\ now = tx[w].now /\ seen = tx[w].snap
  OBVIOUS
<1>1. /\ t \in Ticket /\ n \in Tenant /\ now \in 0..MaxTime /\ tx[w].pc = "saved"
      /\ CommandOf(w, tx[w].row)
  BY <1>0, RequestFields DEF TypeInv, TypeOK, TxState, TxWellFormed, Commit, CommandInv
<1>2. /\ rows' = [rows EXCEPT ![t] = row]
      /\ [u \in Ticket |-> Versions(audit', u)]
           = [[u \in Ticket |-> Versions(audit, u)] EXCEPT ![t] = @ \cup {row}]
  <2>1. rows' = [rows EXCEPT ![t] = row]
    BY <1>0, CommitStores
  <2>2. /\ Versions(audit', t) = Versions(audit, t) \cup {row}
        /\ \A u \in Ticket \ {t} : Versions(audit', u) = Versions(audit, u)
    BY <1>0, CommitVersions
  <2>3. [u \in Ticket |-> Versions(audit', u)]
          = [[u \in Ticket |-> Versions(audit, u)] EXCEPT ![t] = @ \cup {row}]
    BY <1>1, <2>2
  <2> QED
    BY <2>1, <2>3
<1>3. CASE tx[w].req.op = "create"
  <2>1. rows[t] = NULL /\ HoldsCounter(w, n)
    BY <1>0, <1>1, <1>3 DEF IdentityInv, FreshIds, HasOp, Open, HoldsCounter
  <2>2. tx[w].number = counter[n] + 1 /\ row = OpenRow(n, tx[w].number, now)
    BY <1>0, <1>1, <1>3, <2>1 DEF NumberInv, CounterLocked, CommandOf
  <2>3. Desk!TicketsOf(n) = Mine(n)
    BY DEF Desk!TicketsOf, Mine
  <2>4. row = OpenRow(n, Desk!Cardinality(Desk!TicketsOf(n)) + 1, now)
    <3>1. Desk!Cardinality(Mine(n)) = Cardinality(Mine(n))
      BY DEF Desk!Cardinality, Cardinality
    <3> QED
      BY <1>1, <2>2, <2>3, <3>1, CounterCounts
  <2>5. Desk!OpenTicket(t, n, now)
    BY <1>2, <2>1, <2>4 DEF Desk!OpenTicket, Desk!Put, Desk!OpenRow, OpenRow, Versions
  <2> QED
    BY <1>1, <2>5 DEF Desk!Next
<1>4. CASE tx[w].req.op # "create"
  <2>1. seen \in Versions(audit, t) /\ Commands(seen, row, now)
    BY <1>0, <1>1, <1>4 DEF CommandOf, CommandInv
  <2>2. ASSUME NEW next \in Status, CanTransition(seen.status, next), row = ChangeStatus(seen, next, now)
        PROVE  Desk!MoveTicket(t, seen, next, now)
    <3>1. Desk!CanTransition(seen.status, next) /\ row = Desk!ChangeStatus(seen, next, now)
      BY <2>2, SameCommands
    <3> QED
      BY <1>2, <3>1 DEF Desk!MoveTicket, Desk!Put, Versions
  <2>3. ASSUME NEW who \in User \cup {NULL}, ~IsTerminal(seen.status), row = AssignTo(seen, who, now)
        PROVE  Desk!HandOver(t, seen, who, now)
    <3>1. ~Desk!IsTerminal(seen.status) /\ row = Desk!AssignTo(seen, who, now)
      BY <2>3, SameCommands
    <3> QED
      BY <1>2, <3>1 DEF Desk!HandOver, Desk!Put, Versions
  <2>4. ASSUME ~IsTerminal(seen.status), row = Touch(seen, now)
        PROVE  Desk!Comment(t, seen, now)
    <3>1. ~Desk!IsTerminal(seen.status) /\ row = Desk!Touch(seen, now)
      BY <2>4, SameCommands
    <3> QED
      BY <1>2, <3>1 DEF Desk!Comment, Desk!Put, Versions
  <2>5. \/ \E next \in Status : Desk!MoveTicket(t, seen, next, now)
        \/ \E who \in User \cup {NULL} : Desk!HandOver(t, seen, who, now)
        \/ Desk!Comment(t, seen, now)
    BY <2>1, <2>2, <2>3, <2>4 DEF Commands
  <2>6. seen \in [u \in Ticket |-> Versions(audit, u)][t]
    BY <1>1, <2>1
  <2> QED
    BY <1>1, <2>5, <2>6 DEF Desk!Next, Desk!Status, Status, Versions
<1> QED
  BY <1>3, <1>4

\* Whatever overlaps, fails and goes stale, every stored change is one legal
\* command on a version its ticket has had, under the next number of its tenant.
THEOREM RequestsAreCommands == Spec => ImplementsDesk
<1> DEFINE versions == [t \in Ticket |-> Versions(audit, t)]
<1>1. Init => Desk!Init
  BY DEF Init, Desk!Init
<1>2. TypeInv /\ IdentityInv /\ NumberInv /\ CommandInv /\ [Next]_vars
        => [Desk!Next]_<<rows, versions>>
  <2> SUFFICES ASSUME TypeInv, IdentityInv, NumberInv, CommandInv, [Next]_vars
               PROVE  Desk!Next \/ UNCHANGED <<rows, versions>>
    OBVIOUS
  <2>1. CASE UNCHANGED <<rows, audit>>
    BY <2>1 DEF Versions
  <2> QED
    BY <2>1, OnlyCommitsWrite, CommitIsCommand
<1>3. Init => IdentityInv
  BY DEF Init, IdentityInv, SnapOK, PendingOK, FreshIds, EntriesOK, HasOp, Open, Idle
<1>4. Init => NumberInv
  BY DEF Init, NumberInv, CounterLocked, HoldsCounter, HasOp, Open, Idle, NumbersGapless
<1> QED
  BY <1>1, <1>2, <1>3, <1>4, TypeInvInit, TypeInvStep, IdentityStep, NumberStep, CommandInit,
     CommandStep, PTL DEF Spec, ImplementsDesk, Desk!Spec, Versions
=============================================================================
