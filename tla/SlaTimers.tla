----------------------------- MODULE SlaTimers -----------------------------
(***************************************************************************)
(* The SLA timers: started and stopped by queue jobs, breached by sweepers.*)
(*                                                                         *)
(* Jobs of the `sla` queue arrive at least once and in any order (retries  *)
(* with backoff, several publishers and workers); processed_messages drops *)
(* duplicates.  A sweeper reads the due timers without a lock and settles  *)
(* each in a transaction of its own.  Jobs and sweepers read the timer with*)
(* a plain SELECT (READ COMMITTED) and write stopped_at and breached_at of *)
(* their copy back, unconditionally.                                       *)
(*                                                                         *)
(* Tenants are left out: each transaction touches one ticket's timers.     *)
(***************************************************************************)
EXTENDS Integers, FiniteSets

CONSTANTS
  Ticket,
  NULL,
  Worker,      \* job slots of the `sla` queue, over all instances
  Sweeper,     \* instances running the sweeper loop
  Targets,     \* the policies a start job may resolve, minutes by kind
  SweepBatch,  \* SLA_SWEEP_BATCH_SIZE
  MaxTime,     \* bound: last clock reading
  MaxFacts,    \* bound: comments and status changes of a behaviour
  MaxFaults    \* bound: crashes and failed transactions of a behaviour

Kind == {"RESPONSE", "RESOLUTION"}

ASSUME SlaAssumption ==
  /\ Targets \subseteq [Kind -> Nat \ {0}]
  /\ SweepBatch \in Nat \ {0}
  /\ IsFiniteSet(Sweeper)
  /\ MaxTime \in Nat /\ MaxFacts \in Nat /\ MaxFaults \in Nat

Timer == [startedAt : Nat, dueAt : Nat, stoppedAt : Nat \cup {NULL},
          breachedAt : Nat \cup {NULL}]

ASSUME NullAssumption == NULL \notin Nat /\ NULL \notin Timer

VARIABLES
  facts,      \* committed domain events the jobs are about
  timers,     \* sla_timers, by its unique key (ticket_id, kind); NULL: no row
  processed,  \* processed_messages of the three SLA consumers
  breaches,   \* sla.breached audit entries (and events) of each timer
  job,        \* the transaction of each worker
  sweep,      \* the sweep of each sweeper and its open transaction
  clock,
  faults

vars == <<facts, timers, processed, breaches, job, sweep, clock, faults>>

\* Agents' and requesters' comments are told apart by authorRole; "moved" is
\* a status change to anything but RESOLVED.
Fact == [name : {"created", "agent_comment", "requester_comment", "resolved", "moved"},
         ticket : Ticket, at : 0..MaxTime]

NoCopy == [k \in Kind |-> NULL]
NoJob == [pc |-> "idle", fact |-> NULL, copy |-> NoCopy]
NoSweep == [pc |-> "idle", todo |-> {}, now |-> 0, id |-> NULL, copy |-> NULL]

TypeOK ==
  /\ facts \subseteq Fact
  /\ timers \in [Ticket -> [Kind -> Timer \cup {NULL}]]
  /\ processed \subseteq facts
  /\ breaches \in [Ticket -> [Kind -> Nat]]
  /\ job \in [Worker -> [pc : {"idle", "claimed", "loaded", "saved"},
                         fact : Fact \cup {NULL},
                         copy : [Kind -> Timer \cup {NULL}]]]
  /\ sweep \in [Sweeper -> [pc : {"idle", "swept", "begun", "loaded", "saved"},
                            todo : SUBSET (Ticket \X Kind), now : 0..MaxTime,
                            id : (Ticket \X Kind) \cup {NULL}, copy : Timer \cup {NULL}]]
  /\ clock \in 0..MaxTime
  /\ faults \in 0..MaxFaults

Init ==
  /\ facts = {}
  /\ timers = [t \in Ticket |-> [k \in Kind |-> NULL]]
  /\ processed = {}
  /\ breaches = [t \in Ticket |-> [k \in Kind |-> 0]]
  /\ job = [w \in Worker |-> NoJob]
  /\ sweep = [s \in Sweeper |-> NoSweep]
  /\ clock = 0
  /\ faults = 0

Fault == faults < MaxFaults /\ faults' = faults + 1

-----------------------------------------------------------------------------
(* The SlaTimer entity.                                                    *)

IsRunning(timer) == timer.stoppedAt = NULL /\ timer.breachedAt = NULL

\* A mutant: a minute early.
IsOverdueEarly(timer, now) == IsRunning(timer) /\ now + 1 >= timer.dueAt

IsOverdue(timer, now) == IsRunning(timer) /\ now >= timer.dueAt

Start(now, minutes) ==
  [startedAt |-> now, dueAt |-> now + minutes, stoppedAt |-> NULL, breachedAt |-> NULL]

Stop(timer, now) == IF IsRunning(timer) THEN [timer EXCEPT !.stoppedAt = now] ELSE timer

MarkBreached(timer, now) ==
  IF IsRunning(timer) THEN [timer EXCEPT !.breachedAt = now] ELSE timer

\* What the ticket's detail shows: the margin of a settled timer is measured
\* against the instant it was settled at, and that of a running one against now.
DescribeSlaTimer(timer, now) ==
  CASE timer.breachedAt # NULL -> [status |-> "breached", remaining |-> timer.dueAt - timer.breachedAt]
    [] timer.breachedAt = NULL /\ timer.stoppedAt # NULL ->
         [status |-> "met", remaining |-> timer.dueAt - timer.stoppedAt]
    [] OTHER -> [status |-> "running", remaining |-> timer.dueAt - now]

\* A mutant: only the columns that are set are written.
UpsertSetColumns(old, new) ==
  IF old = NULL THEN new
  ELSE [old EXCEPT !.stoppedAt = IF new.stoppedAt = NULL THEN @ ELSE new.stoppedAt,
                   !.breachedAt = IF new.breachedAt = NULL THEN @ ELSE new.breachedAt]

\* The upsert of save: started_at and due_at are not updated.
Upsert(old, new) ==
  IF old = NULL THEN new
  ELSE [old EXCEPT !.stoppedAt = new.stoppedAt, !.breachedAt = new.breachedAt]

-----------------------------------------------------------------------------
(* The ticket side: a fact is committed at its occurredAt.                 *)

Happen(t, name) ==
  LET born == \E f \in facts : f.name = "created" /\ f.ticket = t
  IN  /\ (name = "created") <=> ~born
      /\ name # "created" =>
           Cardinality({f \in facts : f.name # "created"}) < MaxFacts
      /\ facts' = facts \cup {[name |-> name, ticket |-> t, at |-> clock]}
      /\ UNCHANGED <<timers, processed, breaches, job, sweep, clock, faults>>

Tick ==
  /\ clock < MaxTime
  /\ clock' = clock + 1
  /\ UNCHANGED <<facts, timers, processed, breaches, job, sweep, faults>>

-----------------------------------------------------------------------------
(* Locks follow from where each transaction stands.                        *)

HoldsRow(p, t, k) ==
  \/ p \in Worker /\ job[p].pc = "saved" /\ job[p].fact.ticket = t /\ job[p].copy[k] # NULL
  \/ p \in Sweeper /\ sweep[p].pc = "saved" /\ sweep[p].id = <<t, k>>

RowFree(t, k) == \A p \in Worker \cup Sweeper : ~HoldsRow(p, t, k)

-----------------------------------------------------------------------------
(* The jobs.                                                               *)

\* A mutant: every comment answers the requester.
AnyCommentStops(name) ==
  CASE name \in {"agent_comment", "requester_comment"} -> {"RESPONSE"}
    [] name = "resolved" -> {"RESOLUTION"}
    [] OTHER -> {}

\* despachar: the timer a fact stops, if any.
StoppedBy(name) ==
  CASE name = "agent_comment" -> {"RESPONSE"}
    [] name = "resolved"      -> {"RESOLUTION"}
    [] OTHER                  -> {}

\* A mutant: a delivery that was processed before is processed again.
ClaimFactAgain(w) ==
  /\ job[w].pc = "idle"
  /\ \E f \in facts :
       /\ f.name = "created" \/ StoppedBy(f.name) # {}
       /\ \A v \in Worker : job[v].fact # f
       /\ job' = [job EXCEPT ![w] = [NoJob EXCEPT !.pc = "claimed", !.fact = f]]
  /\ UNCHANGED <<facts, timers, processed, breaches, sweep, clock, faults>>

\* A mutant: the claim is committed before the work.
ClaimFactFirst(w) ==
  /\ job[w].pc = "idle"
  /\ \E f \in facts \ processed :
       /\ f.name = "created" \/ StoppedBy(f.name) # {}
       /\ processed' = processed \cup {f}
       /\ job' = [job EXCEPT ![w] = [NoJob EXCEPT !.pc = "claimed", !.fact = f]]
  /\ UNCHANGED <<facts, timers, breaches, sweep, clock, faults>>

\* The job's transaction opens with processed.claim.  A duplicate of what was
\* processed, and a fact that stops nothing, change nothing.
ClaimFact(w) ==
  /\ job[w].pc = "idle"
  /\ \E f \in facts \ processed :
       /\ f.name = "created" \/ StoppedBy(f.name) # {}
       /\ \A v \in Worker : job[v].fact # f
       /\ job' = [job EXCEPT ![w] = [NoJob EXCEPT !.pc = "claimed", !.fact = f]]
  /\ UNCHANGED <<facts, timers, processed, breaches, sweep, clock, faults>>

\* StartSlaTimers: both timers, from occurredAt, with the policy of the moment.
\* Their rows are new: the claim lets a ticket's only created event pass once.
StartTimers(w) ==
  /\ job[w].pc = "claimed"
  /\ job[w].fact.name = "created"
  /\ \E target \in Targets :
       job' = [job EXCEPT ![w].pc = "saved",
                          ![w].copy = [k \in Kind |-> Start(job[w].fact.at, target[k])]]
  /\ UNCHANGED <<facts, timers, processed, breaches, sweep, clock, faults>>

\* StopSlaTimer: findRunning; with no running timer only the claim commits.
FindRunning(w) ==
  LET f == job[w].fact
      found == {k \in StoppedBy(f.name) :
                  timers[f.ticket][k] # NULL /\ IsRunning(timers[f.ticket][k])}
  IN  /\ job[w].pc = "claimed"
      /\ f.name # "created"
      /\ IF found = {}
           THEN /\ processed' = processed \cup {f}
                /\ job' = [job EXCEPT ![w] = NoJob]
           ELSE /\ job' = [job EXCEPT ![w].pc = "loaded",
                                      ![w].copy = [k \in Kind |-> IF k \in found THEN timers[f.ticket][k] ELSE NULL]]
                /\ UNCHANGED processed
      /\ UNCHANGED <<facts, timers, breaches, sweep, clock, faults>>

\* StopSlaTimer: stop and save, which waits for the row.
StopTimer(w) ==
  LET f == job[w].fact
  IN  /\ job[w].pc = "loaded"
      /\ \A k \in StoppedBy(f.name) : RowFree(f.ticket, k)
      /\ job' = [job EXCEPT ![w].pc = "saved",
                            ![w].copy = [k \in Kind |-> IF @[k] = NULL THEN NULL ELSE Stop(@[k], f.at)]]
      /\ UNCHANGED <<facts, timers, processed, breaches, sweep, clock, faults>>

CommitJob(w) ==
  LET t == job[w].fact.ticket
  IN  /\ job[w].pc = "saved"
      /\ timers' = [timers EXCEPT ![t] = [k \in Kind |->
                      IF job[w].copy[k] = NULL THEN @[k] ELSE Upsert(@[k], job[w].copy[k])]]
      /\ processed' = processed \cup {job[w].fact}
      /\ job' = [job EXCEPT ![w] = NoJob]
      /\ UNCHANGED <<facts, breaches, sweep, clock, faults>>

\* The transaction fails or the worker dies; BullMQ delivers the job again.
AbortJob(w) ==
  /\ job[w].pc # "idle"
  /\ Fault
  /\ job' = [job EXCEPT ![w] = NoJob]
  /\ UNCHANGED <<facts, timers, processed, breaches, sweep, clock>>

-----------------------------------------------------------------------------
(* The sweepers.                                                           *)

\* A mutant: due at this instant.
DueTimersNow(now) ==
  {id \in Ticket \X Kind : LET row == timers[id[1]][id[2]]
                           IN  row # NULL /\ IsRunning(row) /\ row.dueAt = now}

DueTimers(now) ==
  {id \in Ticket \X Kind : timers[id[1]][id[2]] # NULL /\ IsOverdue(timers[id[1]][id[2]], now)}

DueAt(id) == timers[id[1]][id[2]].dueAt

\* sla_due_timers: the first SweepBatch by due_at, without a lock.
Sweep(s) ==
  LET due == DueTimers(clock)
  IN  /\ sweep[s].pc = "idle"
      /\ due # {}
      /\ \E todo \in SUBSET due :
           /\ todo # {} /\ Cardinality(todo) <= SweepBatch
           /\ todo = due \/ Cardinality(todo) = SweepBatch
           /\ \A id \in todo, other \in due \ todo : DueAt(id) <= DueAt(other)
           /\ sweep' = [sweep EXCEPT ![s] = [NoSweep EXCEPT !.pc = "swept", !.todo = todo]]
      /\ UNCHANGED <<facts, timers, processed, breaches, job, clock, faults>>

\* The state of a sweep once one of its timers is dealt with.
Rest(s) == IF sweep[s].todo = {} THEN NoSweep
           ELSE [NoSweep EXCEPT !.pc = "swept", !.todo = sweep[s].todo]

\* MarkSlaBreached: clock.now(), before the transaction, for the next timer.
BeginMark(s) ==
  /\ sweep[s].pc = "swept"
  /\ \E id \in sweep[s].todo :
       /\ \A other \in sweep[s].todo : DueAt(id) <= DueAt(other)
       /\ sweep' = [sweep EXCEPT ![s] = [@ EXCEPT !.pc = "begun", !.id = id, !.now = clock,
                                                  !.todo = sweep[s].todo \ {id}]]
  /\ UNCHANGED <<facts, timers, processed, breaches, job, clock, faults>>

\* findById and the second check: skipped when it no longer runs or is not due.
CheckAgain(s) ==
  LET row == timers[sweep[s].id[1]][sweep[s].id[2]]
  IN  /\ sweep[s].pc = "begun"
      /\ sweep' = [sweep EXCEPT ![s] = IF IsOverdue(row, @.now)
                                         THEN [@ EXCEPT !.pc = "loaded", !.copy = row]
                                         ELSE Rest(s)]
      /\ UNCHANGED <<facts, timers, processed, breaches, job, clock, faults>>

\* markBreached, save, audit and event; the save waits for the row.
BreachTimer(s) ==
  /\ sweep[s].pc = "loaded"
  /\ RowFree(sweep[s].id[1], sweep[s].id[2])
  /\ sweep' = [sweep EXCEPT ![s].pc = "saved", ![s].copy = MarkBreached(@, sweep[s].now)]
  /\ UNCHANGED <<facts, timers, processed, breaches, job, clock, faults>>

CommitBreach(s) ==
  LET t == sweep[s].id[1]  k == sweep[s].id[2]
  IN  /\ sweep[s].pc = "saved"
      /\ timers' = [timers EXCEPT ![t][k] = Upsert(@, sweep[s].copy)]
      /\ breaches' = [breaches EXCEPT ![t][k] = @ + 1]
      /\ sweep' = [sweep EXCEPT ![s] = Rest(s)]
      /\ UNCHANGED <<facts, processed, job, clock, faults>>

\* The transaction of one timer fails: the sweep goes on with the others.
FailMark(s) ==
  /\ sweep[s].pc \in {"begun", "loaded", "saved"}
  /\ Fault
  /\ sweep' = [sweep EXCEPT ![s] = Rest(s)]
  /\ UNCHANGED <<facts, timers, processed, breaches, job, clock>>

\* The instance dies; its loop starts over after the restart.
CrashSweep(s) ==
  /\ sweep[s].pc # "idle"
  /\ Fault
  /\ sweep' = [sweep EXCEPT ![s] = NoSweep]
  /\ UNCHANGED <<facts, timers, processed, breaches, job, clock>>

-----------------------------------------------------------------------------
JobStep(w) == ClaimFact(w) \/ StartTimers(w) \/ FindRunning(w) \/ StopTimer(w) \/ CommitJob(w)
SweepStep(s) == Sweep(s) \/ BeginMark(s) \/ CheckAgain(s) \/ BreachTimer(s) \/ CommitBreach(s)

Next ==
  \/ Tick
  \/ \E t \in Ticket, name \in {"created", "agent_comment", "requester_comment",
                                "resolved", "moved"} : Happen(t, name)
  \/ \E w \in Worker : JobStep(w) \/ AbortJob(w)
  \/ \E s \in Sweeper : SweepStep(s) \/ FailMark(s) \/ CrashSweep(s)

Spec == Init /\ [][Next]_vars

\* Workers keep running, and the sweeper loop always schedules its next turn.
FairSpec ==
  /\ Spec
  /\ \A w \in Worker : WF_vars(JobStep(w))
  /\ \A s \in Sweeper : WF_vars(SweepStep(s))

-----------------------------------------------------------------------------
(* Safety.                                                                 *)

Row(t, k) == timers[t][k]

\* "Los tres estados posibles son excluyentes": whichever of a job and the
\* sweepers wrote last, no timer is both met and breached.
NeverMetAndBreached ==
  \A t \in Ticket, k \in Kind : Row(t, k) # NULL =>
    Row(t, k).stoppedAt = NULL \/ Row(t, k).breachedAt = NULL

\* However late their jobs run, and whoever saves a timer afterwards, it counts
\* from the creation of its ticket with a target of some policy, and it is
\* stopped at the instant of the agent's answer or the resolution it waited for:
\* never by the requester, never at the time of a job.
TimersFollowTheFacts ==
  \A t \in Ticket, k \in Kind : Row(t, k) # NULL =>
    /\ [name |-> "created", ticket |-> t, at |-> Row(t, k).startedAt] \in facts
    /\ \E target \in Targets : Row(t, k).dueAt = Row(t, k).startedAt + target[k]
    /\ Row(t, k).stoppedAt # NULL =>
         [name |-> IF k = "RESPONSE" THEN "agent_comment" ELSE "resolved",
          ticket |-> t, at |-> Row(t, k).stoppedAt] \in facts

\* A timer is shown as breached only with its time over, and every stored breach
\* was audited and announced.
BreachesAreEarned ==
  \A t \in Ticket, k \in Kind :
    Row(t, k) # NULL /\ DescribeSlaTimer(Row(t, k), clock).status = "breached" =>
      /\ DescribeSlaTimer(Row(t, k), clock).remaining <= 0
      /\ breaches[t][k] > 0

\* Besides, only transactions that overlap the first breach repeat it: each
\* instance at most once, and a single one never.
BreachesAreReal ==
  BreachesAreEarned /\ \A t \in Ticket, k \in Kind : breaches[t][k] <= Cardinality(Sweeper)

\* "solo uno afecta a una fila": a timer is breached, audited and announced
\* at most once, whatever sweeps overlap.
BreachedOnce == \A t \in Ticket, k \in Kind : breaches[t][k] <= 1

\* "si la cola va lenta, un SLA cumplido por los pelos podría registrarse como
\* incumplido", which counting from occurredAt is said to prevent.
AnsweredInTimeIsNotBreached ==
  \A t \in Ticket, k \in Kind : Row(t, k) # NULL /\ Row(t, k).breachedAt # NULL =>
    ~\E f \in facts : f.ticket = t /\ k \in StoppedBy(f.name) /\ f.at < Row(t, k).dueAt

-----------------------------------------------------------------------------
(* Action properties.                                                      *)

\* A settled timer never runs again and its objective never moves, whatever
\* jobs are repeated, late or running on an old copy.
SettledForGood ==
  [][\A t \in Ticket, k \in Kind : Row(t, k) # NULL =>
       /\ Row(t, k)' # NULL
       /\ <<Row(t, k)'.startedAt, Row(t, k)'.dueAt>> = <<Row(t, k).startedAt, Row(t, k).dueAt>>
       /\ ~IsRunning(Row(t, k)) => ~IsRunning(Row(t, k)')]_vars

-----------------------------------------------------------------------------
(* Liveness.                                                               *)

\* No SLA goes unwatched: a timer that passes its hour is settled, as met by
\* a late job or as breached, although sweeps crash and fail halfway.
OverdueIsSettled ==
  \A t \in Ticket, k \in Kind :
    Row(t, k) # NULL /\ Row(t, k).dueAt <= clock ~> Row(t, k) # NULL /\ ~IsRunning(Row(t, k))

\* Every created ticket gets its timers.
TimersStart ==
  \A t \in Ticket :
    (\E f \in facts : f.ticket = t) ~> \A k \in Kind : Row(t, k) # NULL
=============================================================================
