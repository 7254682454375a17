------------------------------- MODULE Outbox -------------------------------
(***************************************************************************)
(* From the outbox table to the consumers: several OutboxPublisher         *)
(* instances drain committed messages into the BullMQ queues, and workers  *)
(* run the jobs with processed_messages as the guard against duplicates.   *)
(*                                                                         *)
(* Events are 1..N in the order (occurred_at, id) the claim sorts by.      *)
(* Backoff delays, payloads and request ids are left out.                  *)
(***************************************************************************)
EXTENDS Integers, Sequences, FiniteSets

CONSTANTS
  Event,        \* outbox message ids, as their position in (occurred_at, id)
  Queue,        \* the event queues (the dead-letter queue is `dlq`)
  Guarded,      \* queues whose consumer claims processed_messages
  Unsupported,  \* <<queue, event>>: a name, version or payload its consumer refuses
  RouteOf,      \* EVENT_ROUTING: the queues of each event, in order
  Publisher,    \* instances running the publisher loop
  Worker,       \* job slots over all instances
  BatchSize,    \* OUTBOX_BATCH_SIZE
  MaxAttempts,  \* OUTBOX_MAX_ATTEMPTS
  JobAttempts,  \* QUEUE_JOB_ATTEMPTS
  MaxFaults     \* bound: failures, crashes and lost locks in a behaviour

ASSUME OutboxAssumption ==
  /\ Event \subseteq Nat
  /\ Guarded \subseteq Queue
  /\ Unsupported \subseteq Queue \X Event
  /\ RouteOf \in [Event -> Seq(Queue)]
  /\ BatchSize \in Nat \ {0}
  /\ MaxAttempts \in Nat \ {0}
  /\ JobAttempts \in Nat \ {0}
  /\ MaxFaults \in Nat

\* EVENT_ROUTING names no queue twice for an event, and a deployment has
\* finitely many job slots.
ASSUME RoutingAssumption ==
  /\ \A e \in Event : \A i, j \in 1..Len(RouteOf[e]) : RouteOf[e][i] = RouteOf[e][j] => i = j
  /\ IsFiniteSet(Worker)

VARIABLES
  message,    \* outbox_messages: "absent", "pending" or "published"
  attempts,   \* outbox_messages.attempts
  pub,        \* the batch transaction each publisher has open
  job,        \* the job of an event in each queue, by its jobId
  made,       \* attemptsMade of that job
  worker,     \* the job each worker runs
  processed,  \* processed_messages, by queue
  effects,    \* committed effects (or pushes) of an event, by queue
  dlq,        \* jobs in the dead-letter queue
  unburied,   \* exhausted jobs whose process died before it copied them there
  faults

vars == <<message, attempts, pub, job, made, worker, processed, effects, dlq, unburied, faults>>
tableVars == <<message, attempts>>
jobVars == <<job, made>>
consumerVars == <<worker, processed, effects, dlq, unburied>>

NoBatch == [open |-> FALSE, todo |-> <<>>, next |-> 1, done |-> {}, bad |-> {}]
NoJob == [pc |-> "idle", q |-> "none", e |-> 0, owns |-> FALSE]

QueuesOf(e) == {RouteOf[e][i] : i \in 1..Len(RouteOf[e])}

TypeOK ==
  /\ message \in [Event -> {"absent", "pending", "published"}]
  /\ attempts \in [Event -> 0..MaxAttempts]
  /\ pub \in [Publisher -> [open : BOOLEAN, todo : Seq(Event), next : Nat \ {0},
                            done : SUBSET Event, bad : SUBSET Event]]
  /\ job \in [Queue -> [Event -> {"absent", "waiting", "active", "completed", "failed"}]]
  /\ made \in [Queue -> [Event -> 0..JobAttempts]]
  /\ worker \in [Worker -> [pc : {"idle", "active", "claimed", "done", "failing", "burying"},
                            q : Queue \cup {"none"}, e : Event \cup {0}, owns : BOOLEAN]]
  /\ processed \in [Queue -> SUBSET Event]
  /\ effects \in [Queue -> [Event -> Nat]]
  /\ dlq \subseteq Queue \X Event
  /\ unburied \subseteq Queue \X Event
  /\ faults \in 0..MaxFaults

Init ==
  /\ message = [e \in Event |-> "absent"]
  /\ attempts = [e \in Event |-> 0]
  /\ pub = [p \in Publisher |-> NoBatch]
  /\ job = [q \in Queue |-> [e \in Event |-> "absent"]]
  /\ made = [q \in Queue |-> [e \in Event |-> 0]]
  /\ worker = [w \in Worker |-> NoJob]
  /\ processed = [q \in Queue |-> {}]
  /\ effects = [q \in Queue |-> [e \in Event |-> 0]]
  /\ dlq = {}
  /\ unburied = {}
  /\ faults = 0

Fault == faults < MaxFaults /\ faults' = faults + 1

-----------------------------------------------------------------------------
(* The table and the publishers.                                           *)

\* A use case commits the message with its change, in any order of occurred_at.
AppendMessage(e) ==
  /\ message[e] = "absent"
  /\ message' = [message EXCEPT ![e] = "pending"]
  /\ UNCHANGED <<attempts, pub, jobVars, consumerVars, faults>>

Locked(e) == \E p \in Publisher : pub[p].open /\ \/ e \in pub[p].done \cup pub[p].bad
                                                 \/ \E i \in 1..Len(pub[p].todo) : pub[p].todo[i] = e

\* Mutants: attempts are not limited; one failure is enough; no SKIP LOCKED.
ClaimableForEver == {e \in Event : message[e] = "pending" /\ ~Locked(e)}
ClaimableOnce == {e \in Event : message[e] = "pending" /\ attempts[e] = 0 /\ ~Locked(e)}
ClaimableUnlocked == {e \in Event : message[e] = "pending" /\ attempts[e] < MaxAttempts}

Claimable == {e \in Event : message[e] = "pending" /\ attempts[e] < MaxAttempts /\ ~Locked(e)}

\* ORDER BY occurred_at, id ... LIMIT: the first of the claimable messages.
IsBatch(s) ==
  LET picked == {s[i] : i \in 1..Len(s)}
  IN  /\ picked \subseteq Claimable
      /\ \A i, j \in 1..Len(s) : i < j => s[i] < s[j]
      /\ \A e \in Claimable \ picked : \A i \in 1..Len(s) : s[i] < e
      /\ Len(s) = BatchSize \/ (Len(s) < BatchSize /\ picked = Claimable)

Batches == UNION {[1..n -> Event] : n \in 1..BatchSize}

\* withClaimedBatch: FOR UPDATE SKIP LOCKED; an empty batch changes nothing.
ClaimBatch(p) ==
  /\ ~pub[p].open
  /\ \E s \in Batches : IsBatch(s) /\ pub' = [pub EXCEPT ![p] = [NoBatch EXCEPT !.open = TRUE, !.todo = s]]
  /\ UNCHANGED <<tableVars, jobVars, consumerVars, faults>>

\* Queue.add: a job id the queue still knows, in whatever state, is not added.
Add(q, e) ==
  IF job[q][e] = "absent"
    THEN /\ job' = [job EXCEPT ![q][e] = "waiting"]
         /\ made' = [made EXCEPT ![q][e] = 0]
    ELSE UNCHANGED jobVars

\* enqueue: one queue of the head message; a message with no queue left to
\* serve, perhaps because it never had one, goes to the published list.
Enqueue(p) ==
  LET e == Head(pub[p].todo)  b == pub[p]
  IN  /\ b.open /\ b.todo # <<>>
      /\ IF b.next > Len(RouteOf[e])
           THEN /\ pub' = [pub EXCEPT ![p] = [b EXCEPT !.todo = Tail(b.todo), !.next = 1,
                                                       !.done = @ \cup {e}]]
                /\ UNCHANGED jobVars
           ELSE /\ Add(RouteOf[e][b.next], e)
                /\ pub' = [pub EXCEPT ![p].next = @ + 1]
      /\ UNCHANGED <<tableVars, consumerVars, faults>>

\* Queue.add throws, whether or not Redis took the job: the message is marked
\* failed and the batch goes on.
EnqueueFails(p) ==
  LET e == Head(pub[p].todo)  b == pub[p]
  IN  /\ b.open /\ b.todo # <<>> /\ b.next <= Len(RouteOf[e])
      /\ Fault
      /\ Add(RouteOf[e][b.next], e) \/ UNCHANGED jobVars
      /\ pub' = [pub EXCEPT ![p] = [b EXCEPT !.todo = Tail(b.todo), !.next = 1,
                                             !.bad = @ \cup {e}]]
      /\ UNCHANGED <<tableVars, consumerVars>>

\* A mutant: every message of the batch is marked published, failed ones too.
CommitWholeBatch(p) ==
  /\ pub[p].open /\ pub[p].todo = <<>>
  /\ message' = [e \in Event |-> IF e \in pub[p].done \cup pub[p].bad THEN "published" ELSE message[e]]
  /\ pub' = [pub EXCEPT ![p] = NoBatch]
  /\ UNCHANGED <<attempts, jobVars, consumerVars, faults>>

\* markFailed and markPublished become visible with the commit of the batch.
CommitBatch(p) ==
  /\ pub[p].open /\ pub[p].todo = <<>>
  /\ message' = [e \in Event |-> IF e \in pub[p].done THEN "published" ELSE message[e]]
  /\ attempts' = [e \in Event |-> IF e \in pub[p].bad THEN attempts[e] + 1 ELSE attempts[e]]
  /\ pub' = [pub EXCEPT ![p] = NoBatch]
  /\ UNCHANGED <<jobVars, consumerVars, faults>>

\* The publisher dies or its transaction times out: locks and marks are gone,
\* the jobs it added stay.  The next tick starts over.
AbortBatch(p) ==
  /\ pub[p].open
  /\ Fault
  /\ pub' = [pub EXCEPT ![p] = NoBatch]
  /\ UNCHANGED <<tableVars, jobVars, consumerVars>>

-----------------------------------------------------------------------------
(* BullMQ and the processors.                                              *)

Runs(w, q, e) == worker[w].pc # "idle" /\ worker[w].q = q /\ worker[w].e = e

Take(w, q, e) ==
  /\ worker[w].pc = "idle"
  /\ job[q][e] = "waiting"
  /\ job' = [job EXCEPT ![q][e] = "active"]
  /\ worker' = [worker EXCEPT ![w] = [pc |-> "active", q |-> q, e |-> e, owns |-> TRUE]]
  /\ UNCHANGED <<tableVars, pub, made, processed, effects, dlq, unburied, faults>>

\* A mutant: the mark is looked up, not inserted, so a duplicate does not wait.
ClaimByLookup(w) ==
  LET q == worker[w].q  e == worker[w].e
  IN  /\ worker[w].pc = "active" /\ q \in Guarded /\ <<q, e>> \notin Unsupported
      /\ worker' = [worker EXCEPT ![w].pc = IF e \in processed[q] THEN "done" ELSE "claimed"]
      /\ UNCHANGED <<tableVars, pub, jobVars, processed, effects, dlq, unburied, faults>>

\* processed.claim opens the consumer's transaction: the unique key makes a
\* concurrent claim wait, and an event already processed is skipped.
ClaimEvent(w) ==
  LET q == worker[w].q  e == worker[w].e
  IN  /\ worker[w].pc = "active" /\ q \in Guarded /\ <<q, e>> \notin Unsupported
      /\ \A v \in Worker : ~(Runs(v, q, e) /\ worker[v].pc = "claimed")
      /\ worker' = [worker EXCEPT ![w].pc = IF e \in processed[q] THEN "done" ELSE "claimed"]
      /\ UNCHANGED <<tableVars, pub, jobVars, processed, effects, dlq, unburied, faults>>

\* A mutant: the mark is not in the transaction of the effect.
CommitEffectUnmarked(w) ==
  /\ worker[w].pc = "claimed"
  /\ effects' = [effects EXCEPT ![worker[w].q][worker[w].e] = @ + 1]
  /\ worker' = [worker EXCEPT ![w].pc = "done"]
  /\ UNCHANGED <<tableVars, pub, jobVars, processed, dlq, unburied, faults>>

\* The consumer's transaction commits its effect and its mark together.
CommitEffect(w) ==
  LET q == worker[w].q  e == worker[w].e
  IN  /\ worker[w].pc = "claimed"
      /\ processed' = [processed EXCEPT ![q] = @ \cup {e}]
      /\ effects' = [effects EXCEPT ![q][e] = @ + 1]
      /\ worker' = [worker EXCEPT ![w].pc = "done"]
      /\ UNCHANGED <<tableVars, pub, jobVars, dlq, unburied, faults>>

\* The realtime consumer keeps no mark: a duplicate is pushed again.
Push(w) ==
  LET q == worker[w].q  e == worker[w].e
  IN  /\ worker[w].pc = "active" /\ q \notin Guarded /\ <<q, e>> \notin Unsupported
      /\ effects' = [effects EXCEPT ![q][e] = @ + 1]
      /\ worker' = [worker EXCEPT ![w].pc = "done"]
      /\ UNCHANGED <<tableVars, pub, jobVars, processed, dlq, unburied, faults>>

\* discard: a permanent failure goes to the dead letters and the job resolves.
Discard(w) ==
  LET q == worker[w].q  e == worker[w].e
  IN  /\ worker[w].pc = "active" /\ <<q, e>> \in Unsupported
      /\ dlq' = dlq \cup {<<q, e>>}
      /\ worker' = [worker EXCEPT ![w].pc = "done"]
      /\ UNCHANGED <<tableVars, pub, jobVars, processed, effects, unburied, faults>>

\* The handler throws: its transaction, when one is open, rolls back; it may
\* also throw after the commit, when only the answer of the commit is lost.
Throw(w) ==
  /\ worker[w].pc \in {"active", "claimed", "done"}
  /\ Fault
  /\ worker' = [worker EXCEPT ![w].pc = "failing"]
  /\ UNCHANGED <<tableVars, pub, jobVars, processed, effects, dlq, unburied>>

\* A mutant: the job is acknowledged before its effect is committed.
AckEarly(w) ==
  LET q == worker[w].q  e == worker[w].e
  IN  /\ worker[w].pc \in {"claimed", "done"}
      /\ job' = IF worker[w].owns THEN [job EXCEPT ![q][e] = "completed"] ELSE job
      /\ worker' = [worker EXCEPT ![w] = NoJob]
      /\ UNCHANGED <<tableVars, pub, made, processed, effects, dlq, unburied, faults>>

\* A worker that lost the lock of its job cannot move it any more.
Ack(w) ==
  LET q == worker[w].q  e == worker[w].e
  IN  /\ worker[w].pc = "done"
      /\ job' = IF worker[w].owns THEN [job EXCEPT ![q][e] = "completed"] ELSE job
      /\ worker' = [worker EXCEPT ![w] = NoJob]
      /\ UNCHANGED <<tableVars, pub, made, processed, effects, dlq, unburied, faults>>

\* A mutant: the handler waits for one more attempt.
IsExhaustedLater(attemptsMade) == attemptsMade > JobAttempts

\* What onFailed makes of the attempts BullMQ has counted.
IsExhausted(attemptsMade) == attemptsMade >= JobAttempts

\* BullMQ counts the attempt and retries; onFailed buries the last one.
Fail(w) ==
  LET q == worker[w].q  e == worker[w].e  last == made[q][e] + 1 >= JobAttempts
  IN  /\ worker[w].pc = "failing"
      /\ IF worker[w].owns
           THEN /\ made' = [made EXCEPT ![q][e] = @ + 1]
                /\ job' = [job EXCEPT ![q][e] = IF last THEN "failed" ELSE "waiting"]
                /\ worker' = [worker EXCEPT ![w] = IF IsExhausted(made[q][e] + 1)
                                                   THEN [@ EXCEPT !.pc = "burying"] ELSE NoJob]
           ELSE worker' = [worker EXCEPT ![w] = NoJob] /\ UNCHANGED jobVars
      /\ UNCHANGED <<tableVars, pub, processed, effects, dlq, unburied, faults>>

Bury(w) ==
  /\ worker[w].pc = "burying"
  /\ dlq' = dlq \cup {<<worker[w].q, worker[w].e>>}
  /\ worker' = [worker EXCEPT ![w] = NoJob]
  /\ UNCHANGED <<tableVars, pub, jobVars, processed, effects, unburied, faults>>

\* The process dies: the transaction rolls back, the job is left active, or
\* failed and without its copy.
Crash(w) ==
  /\ worker[w].pc # "idle"
  /\ Fault
  /\ worker' = [worker EXCEPT ![w] = NoJob]
  /\ unburied' = IF worker[w].pc = "burying"
                   THEN unburied \cup {<<worker[w].q, worker[w].e>>} ELSE unburied
  /\ UNCHANGED <<tableVars, pub, jobVars, processed, effects, dlq>>

\* The stalled-job check hands an active job without owner to another worker.
Recover(q, e) ==
  /\ job[q][e] = "active"
  /\ \A w \in Worker : ~(Runs(w, q, e) /\ worker[w].owns)
  /\ job' = [job EXCEPT ![q][e] = "waiting"]
  /\ UNCHANGED <<tableVars, pub, made, consumerVars, faults>>

\* A live worker fails to renew its lock in time and goes on running.
LoseLock(w) ==
  /\ worker[w].pc # "idle" /\ worker[w].owns
  /\ worker[w].pc # "burying"
  /\ Fault
  /\ worker' = [worker EXCEPT ![w].owns = FALSE]
  /\ UNCHANGED <<tableVars, pub, jobVars, processed, effects, dlq, unburied>>

\* removeOnComplete: Redis forgets old completed jobs, and their ids.
Evict(q, e) ==
  /\ job[q][e] = "completed"
  /\ job' = [job EXCEPT ![q][e] = "absent"]
  /\ UNCHANGED <<tableVars, pub, made, consumerVars, faults>>

-----------------------------------------------------------------------------
PublisherStep(p) == ClaimBatch(p) \/ Enqueue(p) \/ CommitBatch(p)
WorkerStep(w) == ClaimEvent(w) \/ CommitEffect(w) \/ Push(w) \/ Discard(w)
                   \/ Ack(w) \/ Fail(w) \/ Bury(w)

Next ==
  \/ \E e \in Event : AppendMessage(e)
  \/ \E p \in Publisher : PublisherStep(p) \/ EnqueueFails(p) \/ AbortBatch(p)
  \/ \E w \in Worker : WorkerStep(w) \/ Throw(w) \/ Crash(w) \/ LoseLock(w)
  \/ \E q \in Queue, e \in Event : Evict(q, e) \/ Recover(q, e) \/ \E w \in Worker : Take(w, q, e)

Spec == Init /\ [][Next]_vars

\* The poll loop always reschedules itself, workers keep running and the
\* stalled-job check keeps ticking.
Fairness ==
  /\ \A p \in Publisher : WF_vars(PublisherStep(p))
  /\ \A w \in Worker : WF_vars(WorkerStep(w))
  /\ \A q \in Queue, e \in Event : WF_vars(Recover(q, e)) /\ WF_vars(\E w \in Worker : Take(w, q, e))

FairSpec == Spec /\ Fairness

-----------------------------------------------------------------------------
(* Safety.                                                                 *)

\* At-least-once delivery never becomes two effects: neither a batch that is
\* published twice, nor a retried job, nor one that two workers run at once
\* repeats the work of a consumer that claims processed_messages.
EffectAtMostOnce == \A q \in Guarded, e \in Event : effects[q][e] <= 1

\* A consumer without processed_messages repeats its work only as often as
\* something failed: every push of an event after the first has a failed or
\* aborted batch, a crash, a lost lock or an error of its own to answer for it,
\* whatever publishers, retries and evicted job ids do.
DuplicatesArePaidFor ==
  \A q \in Queue, e \in Event : effects[q][e] <= 1 + faults

\* published_at is never set on a promise: once a message counts as published,
\* each of its queues holds its job, or has done with it.
PublishedReachedEveryQueue ==
  \A e \in Event : message[e] = "published" =>
    \A q \in QueuesOf(e) :
      job[q][e] # "absent" \/ effects[q][e] > 0 \/ <<q, e>> \in dlq

\* "ni perderse un aviso" (realtime.processor.ts): in no state is a published
\* event lost to one of its queues.  Either its consumer has done with it, or its
\* job will still be run, or its copy is on the way to the dead letters; the one
\* way out is a process that died while it buried the job.
NothingIsLost ==
  \A e \in Event : message[e] = "published" =>
    \A q \in QueuesOf(e) :
      \/ effects[q][e] > 0 \/ <<q, e>> \in dlq \cup unburied
      \/ job[q][e] \in {"waiting", "active"}
      \/ \E w \in Worker : Runs(w, q, e) /\ worker[w].pc = "burying"

\* A job completes only when its effect is committed or it was discarded with
\* a copy in the dead-letter queue, however often workers die or lose its lock.
CompletedMeansDone ==
  \A q \in Queue, e \in Event : job[q][e] = "completed" => effects[q][e] > 0 \/ <<q, e>> \in dlq

\* The processed mark and the effect are one fact (same transaction).
MarkedIffDone ==
  \A q \in Guarded, e \in Event : e \in processed[q] <=> effects[q][e] > 0

-----------------------------------------------------------------------------
(* Refinement.                                                             *)

Delivery == INSTANCE EventDelivery WITH
  Consumer <- Guarded,
  Listens  <- LAMBDA q, e : q \in QueuesOf(e),
  emitted  <- {e \in Event : message[e] # "absent"},
  taken    <- [q \in Guarded |-> effects[q]]

\* The pipeline is an exactly-once delivery to its idempotent consumers.
ImplementsDelivery == Delivery!Spec

-----------------------------------------------------------------------------
(* Liveness.                                                               *)

\* "Ningún evento se pierde": a committed message is published eventually,
\* however publishers die, unless Queue.add refused it MaxAttempts times.
EventuallyPublished ==
  \A e \in Event : message[e] = "pending" ~> message[e] = "published" \/ attempts[e] = MaxAttempts

\* "Al agotarlos, el job se copia a una cola dead-letter": each of its consumers
\* settles it with its effect or a dead letter, and a job that used up its
\* attempts is left without one only where the process died on the way there.
EventuallySettled ==
  \A e \in Event, q \in Queue :
    message[e] = "published" /\ q \in QueuesOf(e)
      ~> effects[q][e] > 0 \/ <<q, e>> \in dlq \/ <<q, e>> \in unburied
=============================================================================
