--------------------------- MODULE Outbox_proofs ---------------------------
(***************************************************************************)
(* Theorems about Outbox, for any numbers of events, queues, publishers    *)
(* and workers, any routing, and any bounds.                               *)
(***************************************************************************)
EXTENDS Outbox, TLAPS, FiniteSetTheorems

-----------------------------------------------------------------------------
(* The invariant.                                                          *)

Has(b, e) ==
  b.open /\ \/ e \in b.done \cup b.bad
            \/ \E i \in 1..Len(b.todo) : b.todo[i] = e

Holds(p, e) == Has(pub[p], e)

\* A consumer has done with an event, or has at least a job for it.
Done(q, e) == effects[q][e] > 0 \/ <<q, e>> \in dlq
Reached(q, e) == job[q][e] # "absent" \/ Done(q, e)

\* A batch holds pending messages that may be tried again, which no other batch
\* holds, and no message is on its published list before its queues have it.
BatchesOK ==
  /\ \A p \in Publisher, e \in Event : Holds(p, e) => message[e] = "pending" /\ attempts[e] < MaxAttempts
  /\ \A p1, p2 \in Publisher, e \in Event : Holds(p1, e) /\ Holds(p2, e) => p1 = p2
  /\ \A p \in Publisher : pub[p].open =>
       /\ \A e \in pub[p].done : \A q \in QueuesOf(e) : Reached(q, e)
       /\ pub[p].todo # <<>> =>
            \A i \in 1..Len(RouteOf[Head(pub[p].todo)]) : i < pub[p].next =>
              Reached(RouteOf[Head(pub[p].todo)][i], Head(pub[p].todo))

\* Jobs come from messages, by the routing, and are not run once too often.
JobsOK ==
  \A q \in Queue, e \in Event :
    /\ job[q][e] # "absent" => message[e] # "absent" /\ q \in QueuesOf(e)
    /\ job[q][e] \in {"waiting", "active"} => made[q][e] < JobAttempts
    /\ job[q][e] = "completed" => Done(q, e)

Owner(w) == worker[w].pc \notin {"idle", "burying"} /\ worker[w].owns

SameJob(v, w) == worker[v].q = worker[w].q /\ worker[v].e = worker[w].e

WorkersOK ==
  /\ \A w \in Worker : worker[w].pc # "idle" =>
       /\ worker[w].q \in Queue /\ worker[w].e \in Event
       /\ message[worker[w].e] # "absent" /\ worker[w].q \in QueuesOf(worker[w].e)
  /\ \A w \in Worker : Owner(w) => job[worker[w].q][worker[w].e] = "active"
  /\ \A w \in Worker : worker[w].pc = "claimed" =>
       worker[w].q \in Guarded /\ worker[w].e \notin processed[worker[w].q]
  /\ \A w \in Worker : worker[w].pc = "done" => Done(worker[w].q, worker[w].e)
  /\ \A v, w \in Worker : Owner(v) /\ Owner(w) /\ SameJob(v, w) => v = w
  /\ \A v, w \in Worker :
       worker[v].pc = "claimed" /\ worker[w].pc = "claimed" /\ SameJob(v, w) => v = w

EffectsOK ==
  \A q \in Guarded, e \in Event : effects[q][e] = IF e \in processed[q] THEN 1 ELSE 0

OInv == TypeOK /\ BatchesOK /\ JobsOK /\ WorkersOK /\ EffectsOK /\ PublishedReachedEveryQueue

PubState == [open : BOOLEAN, todo : Seq(Event), next : Nat \ {0},
             done : SUBSET Event, bad : SUBSET Event]

WorkerState == [pc : {"idle", "active", "claimed", "done", "failing", "burying"},
                q : Queue \cup {"none"}, e : Event \cup {0}, owns : BOOLEAN]

LEMMA IdleTypes == NoBatch \in PubState /\ NoJob \in WorkerState
<1>1. <<>> \in Seq(Event)
  OBVIOUS
<1>. QED
  BY <1>1 DEF NoBatch, NoJob, PubState, WorkerState

LEMMA RouteType ==
  ASSUME NEW e \in Event
  PROVE  /\ RouteOf[e] \in Seq(Queue)
         /\ QueuesOf(e) \subseteq Queue
         /\ \A i \in 1..Len(RouteOf[e]) : RouteOf[e][i] \in QueuesOf(e)
<1>1. RouteOf[e] \in Seq(Queue)
  BY OutboxAssumption
<1>. QED
  BY <1>1 DEF QueuesOf

\* One entry of a table by queue and event.
LEMMA EntrySet ==
  ASSUME NEW S, NEW f \in [Queue -> [Event -> S]],
         NEW q \in Queue, NEW e \in Event, NEW v \in S
  PROVE  /\ [f EXCEPT ![q][e] = v] \in [Queue -> [Event -> S]]
         /\ \A q2 \in Queue, e2 \in Event :
              [f EXCEPT ![q][e] = v][q2][e2] = IF q2 = q /\ e2 = e THEN v ELSE f[q2][e2]
OBVIOUS

LEMMA OInit == Init => OInv
<1>. SUFFICES ASSUME Init PROVE OInv
  OBVIOUS
<1>1. TypeOK
  <2>1. pub \in [Publisher -> PubState] /\ worker \in [Worker -> WorkerState]
    BY IdleTypes DEF Init
  <2>2. faults \in 0..MaxFaults
    BY OutboxAssumption DEF Init
  <2>3. /\ attempts \in [Event -> 0..MaxAttempts]
        /\ made \in [Queue -> [Event -> 0..JobAttempts]]
    BY OutboxAssumption DEF Init
  <2>. QED  BY <2>1, <2>2, <2>3 DEF Init, TypeOK, PubState, WorkerState
<1>2. BatchesOK
  BY DEF Init, BatchesOK, Holds, Has, NoBatch
<1>3. JobsOK
  BY DEF Init, JobsOK
<1>4. WorkersOK
  BY DEF Init, WorkersOK, Owner, NoJob
<1>5. EffectsOK
  BY OutboxAssumption DEF Init, EffectsOK
<1>6. PublishedReachedEveryQueue
  BY DEF Init, PublishedReachedEveryQueue
<1>. QED
  BY <1>1, <1>2, <1>3, <1>4, <1>5, <1>6 DEF OInv

-----------------------------------------------------------------------------
(* Frames.                                                                 *)

\* What a consumer has done with or has a job for stays so.
Kept ==
  \A q \in Queue, e \in Event :
    (Done(q, e) => Done(q, e)') /\ (Reached(q, e) => Reached(q, e)')

LEMMA BatchesKept ==
  ASSUME OInv, UNCHANGED <<message, attempts, pub>>, Kept
  PROVE  BatchesOK' /\ PublishedReachedEveryQueue'
<1>1. \A p \in Publisher : /\ pub[p].done \subseteq Event
                          /\ pub[p].todo \in Seq(Event)
  BY DEF OInv, TypeOK
<1>2. BatchesOK'
  <2>1. \A p \in Publisher, e \in Event : Holds(p, e)' <=> Holds(p, e)
    BY DEF Holds, Has
  <2>2. ASSUME NEW p \in Publisher, pub[p].open, NEW e \in pub[p].done, NEW q \in QueuesOf(e)
        PROVE  Reached(q, e)'
    BY <1>1, <2>2, RouteType DEF OInv, BatchesOK, Kept
  <2>3. ASSUME NEW p \in Publisher, pub[p].open, pub[p].todo # <<>>,
               NEW i \in 1..Len(RouteOf[Head(pub[p].todo)]), i < pub[p].next
        PROVE  Reached(RouteOf[Head(pub[p].todo)][i], Head(pub[p].todo))'
    <3>1. Head(pub[p].todo) \in Event
      BY <1>1, <2>3
    <3>2. RouteOf[Head(pub[p].todo)][i] \in Queue
      BY <2>3, <3>1, RouteType
    <3>3. Reached(RouteOf[Head(pub[p].todo)][i], Head(pub[p].todo))
      BY <2>3 DEF OInv, BatchesOK
    <3>4. /\ Head(pub[p].todo)' = Head(pub[p].todo)
          /\ RouteOf[Head(pub[p].todo)][i]' = RouteOf[Head(pub[p].todo)][i]
      OBVIOUS
    <3>. QED  BY <3>1, <3>2, <3>3, <3>4 DEF Kept, Reached, Done
  <2>. QED  BY <2>1, <2>2, <2>3 DEF OInv, BatchesOK
<1>3. PublishedReachedEveryQueue'
  <2>1. PublishedReachedEveryQueue =>
          \A e \in Event : message[e] = "published" => \A q \in QueuesOf(e) : Reached(q, e)
    BY DEF PublishedReachedEveryQueue, Reached, Done
  <2>2. \A e \in Event : message[e] = "published" => \A q \in QueuesOf(e) : Reached(q, e)'
    BY <2>1, RouteType DEF OInv, Kept
  <2>. QED  BY <2>2 DEF PublishedReachedEveryQueue, Reached, Done
<1>. QED
  BY <1>2, <1>3

LEMMA NoChange == OInv /\ UNCHANGED vars => OInv'
<1>. SUFFICES ASSUME OInv, UNCHANGED vars PROVE OInv'
  OBVIOUS
<1>1. Kept
  BY DEF vars, Kept, Reached, Done
<1>2. TypeOK' /\ JobsOK' /\ EffectsOK' /\ WorkersOK'
  BY DEF OInv, vars, TypeOK, JobsOK, EffectsOK, WorkersOK, Owner, SameJob, Done
<1>. QED
  BY <1>1, <1>2, BatchesKept DEF vars, OInv

-----------------------------------------------------------------------------
(* The workers.                                                            *)

\* What the worker records say of each other after w moves to x.
LEMMA MovedWorker ==
  ASSUME OInv, NEW w \in Worker, NEW x \in WorkerState,
         worker' = [worker EXCEPT ![w] = x],
         message' = message,
         x.pc = "idle" \/ (worker[w].pc # "idle" /\ x.q = worker[w].q /\ x.e = worker[w].e),
         x.pc \notin {"idle", "burying"} /\ x.owns =>
           Owner(w) /\ job'[x.q][x.e] = job[x.q][x.e],
         x.pc = "claimed" => /\ x.q \in Guarded /\ x.e \notin processed'[x.q]
                             /\ \A v \in Worker \ {w} :
                                  ~(worker[v].pc = "claimed" /\ SameJob(v, w)),
         x.pc = "done" => Done(x.q, x.e)',
         Kept,
         \A v \in Worker \ {w} :
           /\ Owner(v) => job'[worker[v].q][worker[v].e] = job[worker[v].q][worker[v].e]
           /\ worker[v].pc = "claimed" => worker[v].e \notin processed'[worker[v].q]
  PROVE  worker' \in [Worker -> WorkerState] /\ WorkersOK'
<1>1. worker \in [Worker -> WorkerState] /\ WorkersOK
  BY DEF OInv, TypeOK, WorkerState
<1>2. worker' \in [Worker -> WorkerState]
  BY <1>1
<1>3. worker'[w] = x /\ \A v \in Worker \ {w} : worker'[v] = worker[v]
  BY <1>1
<1>4. \A v \in Worker : worker'[v].pc # "idle" =>
        /\ worker'[v].q \in Queue /\ worker'[v].e \in Event
        /\ message'[worker'[v].e] # "absent" /\ worker'[v].q \in QueuesOf(worker'[v].e)
  BY <1>1, <1>3 DEF WorkersOK
<1>5. \A v \in Worker : Owner(v)' => Owner(v) /\ SameJob(v, v)'
                                    /\ worker'[v].q = worker[v].q /\ worker'[v].e = worker[v].e
  BY <1>3 DEF Owner, SameJob
<1>6. \A v \in Worker : Owner(v)' => job'[worker'[v].q][worker'[v].e] = "active"
  BY <1>1, <1>3, <1>5 DEF WorkersOK, Owner
<1>7. \A v \in Worker : worker'[v].pc = "claimed" =>
        worker'[v].q \in Guarded /\ worker'[v].e \notin processed'[worker'[v].q]
  BY <1>1, <1>3 DEF WorkersOK
<1>8. \A v \in Worker : worker'[v].pc = "done" => Done(worker[v].q, worker[v].e)'
  <2>. SUFFICES ASSUME NEW v \in Worker, worker'[v].pc = "done"
                PROVE  Done(worker[v].q, worker[v].e)'
    OBVIOUS
  <2>1. CASE v = w
    BY <1>3, <2>1 DEF Done
  <2>2. CASE v # w
    BY <1>1, <1>3, <2>2 DEF WorkersOK, Kept, Done
  <2>. QED  BY <2>1, <2>2
<1>9. \A u, v \in Worker : Owner(u)' /\ Owner(v)' /\ SameJob(u, v)' => u = v
  BY <1>1, <1>5 DEF WorkersOK, SameJob
<1>10. \A u, v \in Worker :
         worker'[u].pc = "claimed" /\ worker'[v].pc = "claimed" /\ SameJob(u, v)' => u = v
  BY <1>1, <1>3 DEF WorkersOK, SameJob
<1>. QED
  BY <1>2, <1>4, <1>6, <1>7, <1>8, <1>9, <1>10 DEF WorkersOK

\* A step of a worker that leaves the jobs alone.
LEMMA WorkerOnly ==
  ASSUME OInv, NEW w \in Worker, NEW x \in WorkerState,
         worker' = [worker EXCEPT ![w] = x],
         UNCHANGED <<tableVars, pub, jobVars>>,
         x.pc = "idle" \/ (worker[w].pc # "idle" /\ x.q = worker[w].q /\ x.e = worker[w].e),
         x.pc \notin {"idle", "burying"} /\ x.owns => Owner(w),
         x.pc = "claimed" => /\ x.q \in Guarded /\ x.e \notin processed'[x.q]
                             /\ \A v \in Worker \ {w} :
                                  ~(worker[v].pc = "claimed" /\ SameJob(v, w)),
         x.pc = "done" => Done(x.q, x.e)',
         \A q \in Queue, e \in Event : Done(q, e) => Done(q, e)',
         \A v \in Worker \ {w} :
           worker[v].pc = "claimed" => worker[v].e \notin processed'[worker[v].q],
         processed' \in [Queue -> SUBSET Event],
         effects' \in [Queue -> [Event -> Nat]],
         dlq' \subseteq Queue \X Event,
         unburied' \subseteq Queue \X Event,
         faults' \in 0..MaxFaults,
         EffectsOK'
  PROVE  OInv'
<1>1. Kept
  BY DEF Kept, Reached, jobVars
<1>2. worker' \in [Worker -> WorkerState] /\ WorkersOK'
  BY <1>1, MovedWorker DEF jobVars, tableVars
<1>3. TypeOK'
  BY <1>2 DEF OInv, TypeOK, tableVars, jobVars, WorkerState
<1>4. JobsOK'
  BY DEF OInv, JobsOK, tableVars, jobVars
<1>5. BatchesOK' /\ PublishedReachedEveryQueue'
  BY <1>1, BatchesKept DEF tableVars
<1>. QED
  BY <1>2, <1>3, <1>4, <1>5 DEF OInv

LEMMA EffectsGrow ==
  ASSUME OInv, NEW q \in Queue, NEW e \in Event,
         effects' = [effects EXCEPT ![q][e] = @ + 1], dlq' = dlq
  PROVE  /\ effects' \in [Queue -> [Event -> Nat]]
         /\ \A q2 \in Queue, e2 \in Event :
              effects'[q2][e2] = IF q2 = q /\ e2 = e THEN effects[q][e] + 1 ELSE effects[q2][e2]
         /\ \A q2 \in Queue, e2 \in Event : Done(q2, e2) => Done(q2, e2)'
         /\ Done(q, e)'
<1>1. effects \in [Queue -> [Event -> Nat]] /\ effects[q][e] + 1 \in Nat
  BY DEF OInv, TypeOK
<1>2. effects' = [effects EXCEPT ![q][e] = effects[q][e] + 1]
  BY <1>1
<1>3. /\ effects' \in [Queue -> [Event -> Nat]]
      /\ \A q2 \in Queue, e2 \in Event :
           effects'[q2][e2] = IF q2 = q /\ e2 = e THEN effects[q][e] + 1 ELSE effects[q2][e2]
  BY <1>1, <1>2, EntrySet
<1>4. \A q2 \in Queue, e2 \in Event : effects[q2][e2] \in Nat
  BY <1>1
<1>. QED
  BY <1>3, <1>4 DEF Done

LEMMA WorkerFields ==
  ASSUME OInv, NEW w \in Worker, worker[w].pc # "idle"
  PROVE  worker[w] \in WorkerState /\ worker[w].q \in Queue /\ worker[w].e \in Event
BY DEF OInv, TypeOK, WorkersOK, WorkerState

\* The worker goes on to pc with its job.
LEMMA GoneTo ==
  ASSUME OInv, NEW w \in Worker, worker[w].pc # "idle",
         NEW pc \in {"claimed", "done", "failing"},
         worker' = [worker EXCEPT ![w].pc = pc]
  PROVE  \E x \in WorkerState :
           /\ x.pc = pc /\ x.q = worker[w].q /\ x.e = worker[w].e /\ x.owns = worker[w].owns
           /\ worker' = [worker EXCEPT ![w] = x]
<1>. DEFINE x == [worker[w] EXCEPT !.pc = pc]
<1>1. worker[w] \in WorkerState
  BY WorkerFields
<1>2. x \in WorkerState
      /\ x.pc = pc /\ x.q = worker[w].q /\ x.e = worker[w].e /\ x.owns = worker[w].owns
  BY <1>1 DEF WorkerState
<1>3. worker' = [worker EXCEPT ![w] = x]
  OBVIOUS
<1>. QED
  BY <1>2, <1>3

LEMMA ClaimStep ==
  ASSUME OInv, NEW w \in Worker, ClaimEvent(w)
  PROVE  OInv'
<1>1. worker[w].pc = "active" /\ worker[w].q \in Guarded
  BY DEF ClaimEvent
<1>2. PICK q \in Queue, e \in Event : q = worker[w].q /\ e = worker[w].e
  BY <1>1, WorkerFields
<1>3. PICK pc \in {"claimed", "done", "failing"} : pc = IF e \in processed[q] THEN "done" ELSE "claimed"
  OBVIOUS
<1>4. /\ \A v \in Worker : ~(Runs(v, q, e) /\ worker[v].pc = "claimed")
      /\ worker' = [worker EXCEPT ![w].pc = pc]
      /\ UNCHANGED <<tableVars, pub, jobVars, processed, effects, dlq, unburied, faults>>
  BY <1>2, <1>3 DEF ClaimEvent
<1>5. PICK x \in WorkerState :
        /\ x.pc = pc /\ x.q = q /\ x.e = e /\ x.owns = worker[w].owns
        /\ worker' = [worker EXCEPT ![w] = x]
  <2>1. worker[w].pc # "idle" /\ worker' = [worker EXCEPT ![w].pc = pc]
    BY <1>1, <1>4
  <2>2. \E x \in WorkerState :
          /\ x.pc = pc /\ x.q = worker[w].q /\ x.e = worker[w].e /\ x.owns = worker[w].owns
          /\ worker' = [worker EXCEPT ![w] = x]
    BY <2>1, GoneTo
  <2>. QED  BY <1>2, <2>2
<1>6. x.pc = "done" => Done(x.q, x.e)'
  BY <1>1, <1>2, <1>3, <1>4, <1>5 DEF OInv, EffectsOK, Done
<1>7. \A v \in Worker : ~(worker[v].pc = "claimed" /\ SameJob(v, w))
  BY <1>2, <1>4 DEF Runs, SameJob
<1>8. /\ processed' \in [Queue -> SUBSET Event]
      /\ effects' \in [Queue -> [Event -> Nat]]
      /\ dlq' \subseteq Queue \X Event /\ unburied' \subseteq Queue \X Event
      /\ faults' \in 0..MaxFaults
      /\ EffectsOK'
      /\ \A q2 \in Queue, e2 \in Event : Done(q2, e2) => Done(q2, e2)'
  BY <1>4 DEF OInv, TypeOK, EffectsOK, Done
<1>9. x.pc \notin {"idle", "burying"} /\ x.owns => Owner(w)
  BY <1>1, <1>5 DEF Owner
<1>10. x.pc = "claimed" => x.q \in Guarded /\ x.e \notin processed'[x.q]
  BY <1>1, <1>2, <1>3, <1>4, <1>5
<1>11. \A v \in Worker : worker[v].pc = "claimed" => worker[v].e \notin processed'[worker[v].q]
  BY <1>4 DEF OInv, WorkersOK
<1>12. worker[w].pc # "idle" /\ x.q = worker[w].q /\ x.e = worker[w].e
  BY <1>1, <1>2, <1>5
<1>. QED
  BY <1>4, <1>5, <1>6, <1>7, <1>8, <1>9, <1>10, <1>11, <1>12, WorkerOnly

LEMMA CommitEffectStep ==
  ASSUME OInv, NEW w \in Worker, CommitEffect(w)
  PROVE  OInv'
<1>1. worker[w].pc = "claimed"
  BY DEF CommitEffect
<1>2. PICK q \in Queue, e \in Event : q = worker[w].q /\ e = worker[w].e
  BY <1>1, WorkerFields
<1>3. q \in Guarded /\ e \notin processed[q]
  BY <1>1, <1>2 DEF OInv, WorkersOK
<1>4. /\ processed' = [processed EXCEPT ![q] = @ \cup {e}]
      /\ effects' = [effects EXCEPT ![q][e] = @ + 1]
      /\ worker' = [worker EXCEPT ![w].pc = "done"]
      /\ UNCHANGED <<tableVars, pub, jobVars, dlq, unburied, faults>>
  BY <1>2 DEF CommitEffect
<1>5. PICK x \in WorkerState :
        /\ x.pc = "done" /\ x.q = q /\ x.e = e /\ x.owns = worker[w].owns
        /\ worker' = [worker EXCEPT ![w] = x]
  BY <1>1, <1>2, <1>4, GoneTo
<1>6. /\ effects' \in [Queue -> [Event -> Nat]]
      /\ \A q2 \in Queue, e2 \in Event :
           effects'[q2][e2] = IF q2 = q /\ e2 = e THEN effects[q][e] + 1 ELSE effects[q2][e2]
      /\ \A q2 \in Queue, e2 \in Event : Done(q2, e2) => Done(q2, e2)'
      /\ Done(q, e)'
  BY <1>4, EffectsGrow
<1>7. /\ processed' \in [Queue -> SUBSET Event]
      /\ \A q2 \in Queue, e2 \in Event :
           e2 \in processed'[q2] <=> e2 \in processed[q2] \/ (q2 = q /\ e2 = e)
  BY <1>4 DEF OInv, TypeOK
<1>8. EffectsOK'
  BY <1>3, <1>6, <1>7, OutboxAssumption DEF OInv, EffectsOK
<1>9. \A v \in Worker \ {w} :
        worker[v].pc = "claimed" => worker[v].e \notin processed'[worker[v].q]
  <2>. SUFFICES ASSUME NEW v \in Worker \ {w}, worker[v].pc = "claimed"
                PROVE  worker[v].e \notin processed'[worker[v].q]
    OBVIOUS
  <2>1. worker[v].q \in Queue /\ worker[v].e \in Event /\ worker[v].e \notin processed[worker[v].q]
    BY WorkerFields DEF OInv, WorkersOK
  <2>2. ~SameJob(v, w)
    BY <1>1 DEF OInv, WorkersOK
  <2>. QED  BY <1>2, <1>7, <2>1, <2>2 DEF SameJob
<1>10. x.pc = "done" => Done(x.q, x.e)'
  BY <1>5, <1>6
<1>11. x.pc \notin {"idle", "burying"} /\ x.owns => Owner(w)
  BY <1>1, <1>5 DEF Owner
<1>12. dlq' \subseteq Queue \X Event /\ unburied' \subseteq Queue \X Event /\ faults' \in 0..MaxFaults
  BY <1>4 DEF OInv, TypeOK
<1>13. worker[w].pc # "idle" /\ x.q = worker[w].q /\ x.e = worker[w].e /\ x.pc # "claimed"
  BY <1>1, <1>2, <1>5
<1>14. /\ processed' \in [Queue -> SUBSET Event]
       /\ effects' \in [Queue -> [Event -> Nat]]
       /\ \A q2 \in Queue, e2 \in Event : Done(q2, e2) => Done(q2, e2)'
       /\ worker' = [worker EXCEPT ![w] = x]
       /\ UNCHANGED <<tableVars, pub, jobVars>>
  BY <1>4, <1>5, <1>6, <1>7
<1>. QED
  BY <1>8, <1>9, <1>10, <1>11, <1>12, <1>13, <1>14, WorkerOnly

LEMMA PushStep ==
  ASSUME OInv, NEW w \in Worker, Push(w)
  PROVE  OInv'
<1>1. worker[w].pc = "active"
  BY DEF Push
<1>2. PICK q \in Queue, e \in Event : q = worker[w].q /\ e = worker[w].e
  BY <1>1, WorkerFields
<1>3. /\ q \notin Guarded
      /\ effects' = [effects EXCEPT ![q][e] = @ + 1]
      /\ worker' = [worker EXCEPT ![w].pc = "done"]
      /\ UNCHANGED <<tableVars, pub, jobVars, processed, dlq, unburied, faults>>
  BY <1>2 DEF Push
<1>4. PICK x \in WorkerState :
        /\ x.pc = "done" /\ x.q = q /\ x.e = e /\ x.owns = worker[w].owns
        /\ worker' = [worker EXCEPT ![w] = x]
  BY <1>1, <1>2, <1>3, GoneTo
<1>5. /\ effects' \in [Queue -> [Event -> Nat]]
      /\ \A q2 \in Queue, e2 \in Event :
           effects'[q2][e2] = IF q2 = q /\ e2 = e THEN effects[q][e] + 1 ELSE effects[q2][e2]
      /\ \A q2 \in Queue, e2 \in Event : Done(q2, e2) => Done(q2, e2)'
      /\ Done(q, e)'
  BY <1>3, EffectsGrow
<1>6. EffectsOK'
  BY <1>3, <1>5, OutboxAssumption DEF OInv, EffectsOK
<1>7. x.pc = "done" => Done(x.q, x.e)'
  BY <1>4, <1>5
<1>8. x.pc \notin {"idle", "burying"} /\ x.owns => Owner(w)
  BY <1>1, <1>4 DEF Owner
<1>9. /\ processed' \in [Queue -> SUBSET Event]
      /\ dlq' \subseteq Queue \X Event /\ unburied' \subseteq Queue \X Event /\ faults' \in 0..MaxFaults
      /\ \A v \in Worker : worker[v].pc = "claimed" => worker[v].e \notin processed'[worker[v].q]
  BY <1>3 DEF OInv, TypeOK, WorkersOK
<1>10. worker[w].pc # "idle" /\ x.q = worker[w].q /\ x.e = worker[w].e
  BY <1>1, <1>2, <1>4
<1>. QED
  BY <1>3, <1>4, <1>5, <1>6, <1>7, <1>8, <1>9, <1>10, WorkerOnly

\* The steps that leave the effects and the marks alone.
LEMMA QuietWorker ==
  ASSUME OInv, NEW w \in Worker, NEW x \in WorkerState, worker[w].pc # "idle",
         worker' = [worker EXCEPT ![w] = x],
         UNCHANGED <<tableVars, pub, jobVars, processed, effects>>,
         x.pc \notin {"claimed", "burying"} \/ x.pc = worker[w].pc,
         x.pc = "idle" \/ (x.q = worker[w].q /\ x.e = worker[w].e),
         x.pc # "idle" /\ x.owns => Owner(w),
         x.pc = "done" => Done(x.q, x.e)',
         dlq \subseteq dlq',
         dlq' \subseteq Queue \X Event,
         unburied' \subseteq Queue \X Event,
         faults' \in 0..MaxFaults
  PROVE  OInv'
<1>1. WorkersOK /\ EffectsOK /\ TypeOK
  BY DEF OInv
<1>2. \A q \in Queue, e \in Event : Done(q, e) => Done(q, e)'
  BY DEF Done
<1>3. EffectsOK' /\ processed' \in [Queue -> SUBSET Event] /\ effects' \in [Queue -> [Event -> Nat]]
  BY <1>1 DEF EffectsOK, TypeOK
<1>4. \A v \in Worker : worker[v].pc = "claimed" => worker[v].e \notin processed'[worker[v].q]
  BY <1>1 DEF WorkersOK
<1>5. x.pc = "claimed" => /\ x.q \in Guarded /\ x.e \notin processed'[x.q]
                          /\ \A v \in Worker \ {w} :
                               ~(worker[v].pc = "claimed" /\ SameJob(v, w))
  BY <1>1, <1>4 DEF WorkersOK
<1>. QED
  BY <1>2, <1>3, <1>4, <1>5, WorkerOnly

LEMMA DiscardStep ==
  ASSUME OInv, NEW w \in Worker, Discard(w)
  PROVE  OInv'
<1>1. worker[w].pc = "active"
  BY DEF Discard
<1>2. PICK q \in Queue, e \in Event : q = worker[w].q /\ e = worker[w].e
  BY <1>1, WorkerFields
<1>3. /\ dlq' = dlq \cup {<<q, e>>}
      /\ worker' = [worker EXCEPT ![w].pc = "done"]
      /\ UNCHANGED <<tableVars, pub, jobVars, processed, effects, unburied, faults>>
  BY <1>2 DEF Discard
<1>4. PICK x \in WorkerState :
        /\ x.pc = "done" /\ x.q = q /\ x.e = e /\ x.owns = worker[w].owns
        /\ worker' = [worker EXCEPT ![w] = x]
  BY <1>1, <1>2, <1>3, GoneTo
<1>5. x.pc = "done" => Done(x.q, x.e)'
  BY <1>3, <1>4 DEF Done
<1>6. x.pc # "idle" /\ x.owns => Owner(w)
  BY <1>1, <1>4 DEF Owner
<1>7. /\ dlq \subseteq dlq' /\ dlq' \subseteq Queue \X Event
      /\ unburied' \subseteq Queue \X Event /\ faults' \in 0..MaxFaults
  BY <1>3 DEF OInv, TypeOK
<1>8. /\ worker[w].pc # "idle" /\ x.q = worker[w].q /\ x.e = worker[w].e
      /\ x.pc \notin {"claimed", "burying"}
  BY <1>1, <1>2, <1>4
<1>. QED
  BY <1>3, <1>4, <1>5, <1>6, <1>7, <1>8, QuietWorker

LEMMA FaultType ==
  ASSUME OInv, Fault
  PROVE  faults' \in 0..MaxFaults
BY OutboxAssumption DEF OInv, TypeOK, Fault

LEMMA ThrowStep ==
  ASSUME OInv, NEW w \in Worker, Throw(w)
  PROVE  OInv'
<1>1. /\ worker[w].pc \in {"active", "claimed", "done"}
      /\ worker' = [worker EXCEPT ![w].pc = "failing"]
      /\ UNCHANGED <<tableVars, pub, jobVars, processed, effects, dlq, unburied>>
  BY DEF Throw
<1>2. PICK x \in WorkerState :
        /\ x.pc = "failing" /\ x.q = worker[w].q /\ x.e = worker[w].e /\ x.owns = worker[w].owns
        /\ worker' = [worker EXCEPT ![w] = x]
  BY <1>1, GoneTo
<1>3. x.pc # "idle" /\ x.owns => Owner(w)
  BY <1>1, <1>2 DEF Owner
<1>4. /\ dlq \subseteq dlq' /\ dlq' \subseteq Queue \X Event
      /\ unburied' \subseteq Queue \X Event /\ faults' \in 0..MaxFaults
  BY <1>1, FaultType DEF OInv, TypeOK, Throw
<1>. QED
  BY <1>1, <1>2, <1>3, <1>4, QuietWorker

LEMMA BuryStep ==
  ASSUME OInv, NEW w \in Worker, Bury(w)
  PROVE  OInv'
<1>1. /\ worker[w].pc = "burying"
      /\ dlq' = dlq \cup {<<worker[w].q, worker[w].e>>}
      /\ worker' = [worker EXCEPT ![w] = NoJob]
      /\ UNCHANGED <<tableVars, pub, jobVars, processed, effects, unburied, faults>>
  BY DEF Bury
<1>2. /\ dlq \subseteq dlq' /\ dlq' \subseteq Queue \X Event
      /\ unburied' \subseteq Queue \X Event /\ faults' \in 0..MaxFaults
  <2>1. <<worker[w].q, worker[w].e>> \in Queue \X Event
    BY <1>1, WorkerFields
  <2>2. dlq \subseteq Queue \X Event /\ unburied \subseteq Queue \X Event /\ faults \in 0..MaxFaults
    BY DEF OInv, TypeOK
  <2>. QED  BY <1>1, <2>1, <2>2
<1>3. NoJob \in WorkerState /\ NoJob.pc = "idle"
  BY IdleTypes DEF NoJob
<1>. QED
  BY <1>1, <1>2, <1>3, QuietWorker

LEMMA CrashStep ==
  ASSUME OInv, NEW w \in Worker, Crash(w)
  PROVE  OInv'
<1>1. /\ worker[w].pc # "idle"
      /\ worker' = [worker EXCEPT ![w] = NoJob]
      /\ UNCHANGED <<tableVars, pub, jobVars, processed, effects, dlq>>
  BY DEF Crash
<1>2. /\ dlq \subseteq dlq' /\ dlq' \subseteq Queue \X Event
      /\ unburied' \subseteq Queue \X Event /\ faults' \in 0..MaxFaults
  <2>1. <<worker[w].q, worker[w].e>> \in Queue \X Event
    BY <1>1, WorkerFields
  <2>2. dlq \subseteq Queue \X Event /\ unburied \subseteq Queue \X Event
    BY DEF OInv, TypeOK
  <2>3. unburied' \subseteq unburied \cup {<<worker[w].q, worker[w].e>>}
    BY DEF Crash
  <2>4. faults' \in 0..MaxFaults
    BY FaultType DEF Crash
  <2>. QED  BY <1>1, <2>1, <2>2, <2>3, <2>4
<1>3. NoJob \in WorkerState /\ NoJob.pc = "idle"
  BY IdleTypes DEF NoJob
<1>. QED
  BY <1>1, <1>2, <1>3, QuietWorker

LEMMA LoseLockStep ==
  ASSUME OInv, NEW w \in Worker, LoseLock(w)
  PROVE  OInv'
<1>1. /\ worker[w].pc \notin {"idle", "burying"} /\ worker[w].owns
      /\ worker' = [worker EXCEPT ![w].owns = FALSE]
      /\ UNCHANGED <<tableVars, pub, jobVars, processed, effects, dlq, unburied>>
  BY DEF LoseLock
<1>2. worker[w] \in WorkerState
  BY <1>1, WorkerFields
<1>3. PICK x \in WorkerState :
        /\ x.pc = worker[w].pc /\ x.q = worker[w].q /\ x.e = worker[w].e /\ x.owns = FALSE
        /\ worker' = [worker EXCEPT ![w] = x]
  <2>. DEFINE y == [worker[w] EXCEPT !.owns = FALSE]
  <2>1. y \in WorkerState
        /\ y.pc = worker[w].pc /\ y.q = worker[w].q /\ y.e = worker[w].e /\ y.owns = FALSE
    BY <1>2 DEF WorkerState
  <2>2. worker' = [worker EXCEPT ![w] = y]
    BY <1>1
  <2>. QED  BY <2>1, <2>2
<1>4. x.pc = "done" => Done(x.q, x.e)'
  BY <1>1, <1>3 DEF OInv, WorkersOK, Done
<1>5. /\ dlq \subseteq dlq' /\ dlq' \subseteq Queue \X Event
      /\ unburied' \subseteq Queue \X Event /\ faults' \in 0..MaxFaults
  BY <1>1, FaultType DEF OInv, TypeOK, LoseLock
<1>. QED
  BY <1>1, <1>3, <1>4, <1>5, QuietWorker

-----------------------------------------------------------------------------
(* The jobs.                                                               *)

JobState == {"absent", "waiting", "active", "completed", "failed"}

\* The job of e in q goes to state st and its attempts to n.
LEMMA MovedJob ==
  ASSUME OInv, NEW q \in Queue, NEW e \in Event, NEW st \in JobState, NEW n \in 0..JobAttempts,
         job' = [job EXCEPT ![q][e] = st],
         made' = [made EXCEPT ![q][e] = n],
         UNCHANGED <<message, effects, dlq>>,
         st = "absent" \/ (message[e] # "absent" /\ q \in QueuesOf(e)),
         st = "absent" => job[q][e] = "completed",
         st \in {"waiting", "active"} => n < JobAttempts,
         st = "completed" => Done(q, e)
  PROVE  /\ job' \in [Queue -> [Event -> JobState]]
         /\ made' \in [Queue -> [Event -> 0..JobAttempts]]
         /\ \A q2 \in Queue, e2 \in Event : job'[q2][e2] = IF q2 = q /\ e2 = e THEN st ELSE job[q2][e2]
         /\ JobsOK'
         /\ Kept
<1>1. job \in [Queue -> [Event -> JobState]] /\ made \in [Queue -> [Event -> 0..JobAttempts]]
  BY DEF OInv, TypeOK, JobState
<1>2. /\ job' \in [Queue -> [Event -> JobState]]
      /\ \A q2 \in Queue, e2 \in Event : job'[q2][e2] = IF q2 = q /\ e2 = e THEN st ELSE job[q2][e2]
  BY <1>1, EntrySet
<1>3. /\ made' \in [Queue -> [Event -> 0..JobAttempts]]
      /\ \A q2 \in Queue, e2 \in Event : made'[q2][e2] = IF q2 = q /\ e2 = e THEN n ELSE made[q2][e2]
  BY <1>1, EntrySet
<1>4. \A q2 \in Queue, e2 \in Event : Done(q2, e2)' <=> Done(q2, e2)
  BY DEF Done
<1>5. JobsOK'
  BY <1>2, <1>3, <1>4 DEF OInv, JobsOK
<1>6. Kept
  BY <1>2, <1>4 DEF OInv, JobsOK, Kept, Reached
<1>. QED
  BY <1>2, <1>3, <1>5, <1>6

\* A step of the jobs, once the workers are known to be right.
LEMMA JobStep ==
  ASSUME OInv, UNCHANGED <<tableVars, pub, processed, effects, dlq, unburied, faults>>,
         job' \in [Queue -> [Event -> JobState]],
         made' \in [Queue -> [Event -> 0..JobAttempts]],
         worker' \in [Worker -> WorkerState],
         Kept, JobsOK', WorkersOK'
  PROVE  OInv'
<1>1. TypeOK'
  BY DEF OInv, TypeOK, tableVars, JobState, WorkerState
<1>2. BatchesOK' /\ PublishedReachedEveryQueue'
  BY BatchesKept DEF tableVars
<1>3. EffectsOK'
  BY DEF OInv, EffectsOK
<1>. QED
  BY <1>1, <1>2, <1>3 DEF OInv

LEMMA MadeSame ==
  ASSUME OInv, NEW q \in Queue, NEW e \in Event, made' = made
  PROVE  \E n \in 0..JobAttempts : n = made[q][e] /\ made' = [made EXCEPT ![q][e] = n]
BY DEF OInv, TypeOK

LEMMA IdleOwners ==
  ASSUME OInv, NEW q \in Queue, NEW e \in Event, job[q][e] # "active"
  PROVE  \A v \in Worker : Owner(v) => ~(worker[v].q = q /\ worker[v].e = e)
BY DEF OInv, WorkersOK

LEMMA TakeStep ==
  ASSUME OInv, NEW w \in Worker, NEW q \in Queue, NEW e \in Event, Take(w, q, e)
  PROVE  OInv'
<1>1. /\ worker[w].pc = "idle" /\ job[q][e] = "waiting"
      /\ job' = [job EXCEPT ![q][e] = "active"]
      /\ worker' = [worker EXCEPT ![w] = [pc |-> "active", q |-> q, e |-> e, owns |-> TRUE]]
      /\ UNCHANGED <<tableVars, pub, made, processed, effects, dlq, unburied, faults>>
  BY DEF Take
<1>2. message[e] # "absent" /\ q \in QueuesOf(e) /\ made[q][e] < JobAttempts
  BY <1>1 DEF OInv, JobsOK
<1>3. PICK n \in 0..JobAttempts : n = made[q][e] /\ made' = [made EXCEPT ![q][e] = n]
  BY <1>1, MadeSame
<1>4. /\ job' \in [Queue -> [Event -> JobState]]
      /\ made' \in [Queue -> [Event -> 0..JobAttempts]]
      /\ \A q2 \in Queue, e2 \in Event : job'[q2][e2] = IF q2 = q /\ e2 = e THEN "active" ELSE job[q2][e2]
      /\ JobsOK'
      /\ Kept
  BY <1>1, <1>2, <1>3, MovedJob DEF JobState, tableVars
<1>5. worker \in [Worker -> WorkerState]
  BY DEF OInv, TypeOK, WorkerState
<1>6. [pc |-> "active", q |-> q, e |-> e, owns |-> TRUE] \in WorkerState
  BY DEF WorkerState
<1>7. worker' \in [Worker -> WorkerState]
  BY <1>1, <1>5, <1>6
<1>8. /\ worker'[w].pc = "active" /\ worker'[w].q = q /\ worker'[w].e = e
      /\ \A v \in Worker \ {w} : worker'[v] = worker[v]
  BY <1>1, <1>5
<1>9. WorkersOK'
  <2>1. \A v \in Worker \ {w} : Owner(v)' => Owner(v) /\ ~(worker[v].q = q /\ worker[v].e = e)
    BY <1>1, <1>8, IdleOwners DEF Owner
  <2>2. \A v \in Worker : Owner(v)' => job'[worker'[v].q][worker'[v].e] = "active"
    <3>1. \A v \in Worker \ {w} : Owner(v) => worker[v].q \in Queue /\ worker[v].e \in Event
      BY WorkerFields DEF Owner
    <3>. QED  BY <1>4, <1>8, <2>1, <3>1 DEF OInv, WorkersOK
  <2>3. \A u, v \in Worker : Owner(u)' /\ Owner(v)' /\ SameJob(u, v)' => u = v
    BY <1>8, <2>1 DEF OInv, WorkersOK, SameJob
  <2>4. \A v \in Worker : worker'[v].pc # "idle" =>
          /\ worker'[v].q \in Queue /\ worker'[v].e \in Event
          /\ message'[worker'[v].e] # "absent" /\ worker'[v].q \in QueuesOf(worker'[v].e)
    BY <1>1, <1>2, <1>8 DEF OInv, WorkersOK, tableVars
  <2>5. \A v \in Worker : worker'[v].pc = "claimed" =>
          worker'[v].q \in Guarded /\ worker'[v].e \notin processed'[worker'[v].q]
    BY <1>1, <1>8 DEF OInv, WorkersOK
  <2>6. \A v \in Worker : worker'[v].pc = "done" =>
          effects'[worker'[v].q][worker'[v].e] > 0 \/ <<worker'[v].q, worker'[v].e>> \in dlq'
    <3>. SUFFICES ASSUME NEW v \in Worker, worker'[v].pc = "done"
                  PROVE  effects'[worker'[v].q][worker'[v].e] > 0
                           \/ <<worker'[v].q, worker'[v].e>> \in dlq'
      OBVIOUS
    <3>1. worker'[v] = worker[v]
      BY <1>8
    <3>2. Done(worker[v].q, worker[v].e)
      BY <3>1 DEF OInv, WorkersOK
    <3>. QED  BY <1>1, <3>1, <3>2 DEF Done
  <2>7. \A u, v \in Worker :
          worker'[u].pc = "claimed" /\ worker'[v].pc = "claimed" /\ SameJob(u, v)' => u = v
    BY <1>8 DEF OInv, WorkersOK, SameJob
  <2>. QED  BY <2>2, <2>3, <2>4, <2>5, <2>6, <2>7 DEF WorkersOK, Done
<1>. QED
  BY <1>1, <1>4, <1>7, <1>9, JobStep

\* The end of a worker's run moves its job, if it still owns it.
LEMMA AckStep ==
  ASSUME OInv, NEW w \in Worker, Ack(w)
  PROVE  OInv'
<1>1. worker[w].pc = "done"
  BY DEF Ack
<1>2. PICK q \in Queue, e \in Event : q = worker[w].q /\ e = worker[w].e
  BY <1>1, WorkerFields
<1>3. /\ job' = IF worker[w].owns THEN [job EXCEPT ![q][e] = "completed"] ELSE job
      /\ worker' = [worker EXCEPT ![w] = NoJob]
      /\ UNCHANGED <<tableVars, pub, made, processed, effects, dlq, unburied, faults>>
  BY <1>2 DEF Ack
<1>4. NoJob \in WorkerState /\ NoJob.pc = "idle"
  BY IdleTypes DEF NoJob
<1>5. CASE ~worker[w].owns
  <2>1. dlq' \subseteq Queue \X Event /\ unburied' \subseteq Queue \X Event /\ faults' \in 0..MaxFaults
    BY <1>3 DEF OInv, TypeOK
  <2>. QED  BY <1>1, <1>3, <1>4, <1>5, <2>1, QuietWorker DEF jobVars
<1>6. CASE worker[w].owns
  <2>1. /\ Done(q, e) /\ message[e] # "absent" /\ q \in QueuesOf(e)
    BY <1>1, <1>2 DEF OInv, WorkersOK
  <2>2. PICK n \in 0..JobAttempts : n = made[q][e] /\ made' = [made EXCEPT ![q][e] = n]
    BY <1>3, MadeSame
  <2>3. job' = [job EXCEPT ![q][e] = "completed"] /\ UNCHANGED <<message, effects, dlq>>
    BY <1>3, <1>6 DEF tableVars
  <2>4. /\ job' \in [Queue -> [Event -> JobState]]
        /\ made' \in [Queue -> [Event -> 0..JobAttempts]]
        /\ \A q2 \in Queue, e2 \in Event : job'[q2][e2] = IF q2 = q /\ e2 = e THEN "completed" ELSE job[q2][e2]
        /\ JobsOK'
        /\ Kept
    BY <2>1, <2>2, <2>3, MovedJob DEF JobState
  <2>5. \A v \in Worker \ {w} :
          /\ Owner(v) => job'[worker[v].q][worker[v].e] = job[worker[v].q][worker[v].e]
          /\ worker[v].pc = "claimed" => worker[v].e \notin processed'[worker[v].q]
    <3>. SUFFICES ASSUME NEW v \in Worker \ {w}
                  PROVE  /\ Owner(v) => job'[worker[v].q][worker[v].e] = job[worker[v].q][worker[v].e]
                         /\ worker[v].pc = "claimed" => worker[v].e \notin processed'[worker[v].q]
      OBVIOUS
    <3>1. Owner(w)
      BY <1>1, <1>6 DEF Owner
    <3>2. Owner(v) => /\ ~(worker[v].q = q /\ worker[v].e = e)
                      /\ worker[v].q \in Queue /\ worker[v].e \in Event
      BY <1>2, <3>1, WorkerFields DEF OInv, WorkersOK, SameJob, Owner
    <3>. QED  BY <1>3, <2>4, <3>2 DEF OInv, WorkersOK
  <2>6. worker' \in [Worker -> WorkerState] /\ WorkersOK'
    BY <1>3, <1>4, <2>3, <2>4, <2>5, MovedWorker
  <2>. QED  BY <1>3, <2>4, <2>6, JobStep
<1>. QED
  BY <1>5, <1>6

LEMMA FailStep ==
  ASSUME OInv, NEW w \in Worker, Fail(w)
  PROVE  OInv'
<1>1. worker[w].pc = "failing"
  BY DEF Fail
<1>2. PICK q \in Queue, e \in Event : q = worker[w].q /\ e = worker[w].e
  BY <1>1, WorkerFields
<1>3. NoJob \in WorkerState /\ NoJob.pc = "idle"
  BY IdleTypes DEF NoJob
<1>4. UNCHANGED <<tableVars, pub, processed, effects, dlq, unburied, faults>>
  BY DEF Fail
<1>5. CASE ~worker[w].owns
  <2>1. worker' = [worker EXCEPT ![w] = NoJob] /\ UNCHANGED jobVars
    BY <1>5 DEF Fail
  <2>2. dlq' \subseteq Queue \X Event /\ unburied' \subseteq Queue \X Event /\ faults' \in 0..MaxFaults
    BY <1>4 DEF OInv, TypeOK
  <2>. QED  BY <1>1, <1>3, <1>4, <2>1, <2>2, QuietWorker
<1>6. CASE worker[w].owns
  <2>1. Owner(w)
    BY <1>1, <1>6 DEF Owner
  <2>2. /\ job[q][e] = "active" /\ made[q][e] < JobAttempts
        /\ message[e] # "absent" /\ q \in QueuesOf(e)
    BY <1>1, <1>2, <2>1 DEF OInv, WorkersOK, JobsOK
  <2>3. PICK n \in 0..JobAttempts : n = made[q][e] + 1
    BY <2>2, OutboxAssumption DEF OInv, TypeOK
  <2>4. PICK st \in {"waiting", "failed"} : st = IF n >= JobAttempts THEN "failed" ELSE "waiting"
    OBVIOUS
  <2>5. made' = [made EXCEPT ![q][e] = n] /\ job' = [job EXCEPT ![q][e] = st]
    BY <1>2, <1>6, <2>3, <2>4 DEF Fail
  <2>6. /\ job' \in [Queue -> [Event -> JobState]]
        /\ made' \in [Queue -> [Event -> 0..JobAttempts]]
        /\ \A q2 \in Queue, e2 \in Event : job'[q2][e2] = IF q2 = q /\ e2 = e THEN st ELSE job[q2][e2]
        /\ JobsOK'
        /\ Kept
    <3>1. st \in JobState /\ st \notin {"absent", "completed"}
      BY DEF JobState
    <3>2. st \in {"waiting", "active"} => n < JobAttempts
      BY <2>4, OutboxAssumption
    <3>3. UNCHANGED <<message, effects, dlq>>
      BY <1>4 DEF tableVars
    <3>. QED  BY <2>2, <2>5, <3>1, <3>2, <3>3, MovedJob
  <2>7. \A v \in Worker \ {w} :
          /\ Owner(v) => job'[worker[v].q][worker[v].e] = job[worker[v].q][worker[v].e]
          /\ worker[v].pc = "claimed" => worker[v].e \notin processed'[worker[v].q]
    <3>. SUFFICES ASSUME NEW v \in Worker \ {w}
                  PROVE  /\ Owner(v) => job'[worker[v].q][worker[v].e] = job[worker[v].q][worker[v].e]
                         /\ worker[v].pc = "claimed" => worker[v].e \notin processed'[worker[v].q]
      OBVIOUS
    <3>1. Owner(v) => /\ ~(worker[v].q = q /\ worker[v].e = e)
                      /\ worker[v].q \in Queue /\ worker[v].e \in Event
      BY <1>2, <2>1, WorkerFields DEF OInv, WorkersOK, SameJob, Owner
    <3>. QED  BY <1>4, <2>6, <3>1 DEF OInv, WorkersOK
  <2>8. PICK x \in WorkerState :
          /\ x.pc = "idle" \/ (x.pc = "burying" /\ x.q = worker[w].q /\ x.e = worker[w].e)
          /\ worker' = [worker EXCEPT ![w] = x]
    <3>. DEFINE y == [worker[w] EXCEPT !.pc = "burying"]
    <3>1. y \in WorkerState /\ y.pc = "burying" /\ y.q = worker[w].q /\ y.e = worker[w].e
      BY <1>1, WorkerFields DEF WorkerState
    <3>2. worker' = [worker EXCEPT ![w] = y] \/ worker' = [worker EXCEPT ![w] = NoJob]
      BY <1>6 DEF Fail
    <3>. QED  BY <1>3, <3>1, <3>2
  <2>9. worker' \in [Worker -> WorkerState] /\ WorkersOK'
    <3>1. message' = message
      BY <1>4 DEF tableVars
    <3>. QED  BY <1>1, <2>6, <2>7, <2>8, <3>1, MovedWorker
  <2>. QED  BY <1>4, <2>6, <2>9, JobStep
<1>. QED
  BY <1>5, <1>6

\* The queue itself moves a job that no worker owns.
LEMMA QueueSteps ==
  ASSUME OInv, NEW q \in Queue, NEW e \in Event, Recover(q, e) \/ Evict(q, e)
  PROVE  OInv'
<1>1. PICK st \in {"waiting", "absent"} :
        /\ job' = [job EXCEPT ![q][e] = st]
        /\ st = "waiting" => job[q][e] = "active"
        /\ st = "absent" => job[q][e] = "completed"
        /\ \A v \in Worker : Owner(v) => ~(worker[v].q = q /\ worker[v].e = e)
  <2>1. CASE Recover(q, e)
    BY <2>1 DEF Recover, Runs, Owner
  <2>2. CASE Evict(q, e)
    BY <2>2, IdleOwners DEF Evict
  <2>. QED  BY <2>1, <2>2
<1>2. UNCHANGED <<tableVars, pub, made, worker, processed, effects, dlq, unburied, faults>>
  BY DEF Recover, Evict, consumerVars
<1>3. job[q][e] # "absent" /\ message[e] # "absent" /\ q \in QueuesOf(e)
  BY <1>1 DEF OInv, JobsOK
<1>4. st = "waiting" => made[q][e] < JobAttempts
  BY <1>1 DEF OInv, JobsOK
<1>5. PICK n \in 0..JobAttempts : n = made[q][e] /\ made' = [made EXCEPT ![q][e] = n]
  BY <1>2, MadeSame
<1>6. /\ job' \in [Queue -> [Event -> JobState]]
      /\ made' \in [Queue -> [Event -> 0..JobAttempts]]
      /\ \A q2 \in Queue, e2 \in Event : job'[q2][e2] = IF q2 = q /\ e2 = e THEN st ELSE job[q2][e2]
      /\ JobsOK'
      /\ Kept
  <2>1. st \in JobState
    BY DEF JobState
  <2>2. UNCHANGED <<message, effects, dlq>>
    BY <1>2 DEF tableVars
  <2>. QED  BY <1>1, <1>3, <1>4, <1>5, <2>1, <2>2, MovedJob
<1>7. worker' \in [Worker -> WorkerState]
  BY <1>2 DEF OInv, TypeOK, WorkerState
<1>8. WorkersOK'
  <2>1. \A v \in Worker : Owner(v) => worker[v].q \in Queue /\ worker[v].e \in Event
    BY WorkerFields DEF Owner
  <2>2. \A v \in Worker : Owner(v) => job'[worker[v].q][worker[v].e] = "active"
    BY <1>1, <1>6, <2>1 DEF OInv, WorkersOK
  <2>. QED  BY <1>2, <2>2 DEF OInv, WorkersOK, Owner, SameJob, Done, tableVars
<1>. QED
  BY <1>2, <1>6, <1>7, <1>8, JobStep

-----------------------------------------------------------------------------
(* The publishers.                                                         *)

LEMMA BatchFields ==
  ASSUME OInv, NEW p \in Publisher
  PROVE  pub[p] \in PubState
BY DEF OInv, TypeOK, PubState

\* A batch is replaced by another one that holds no more than it did, or what
\* may be claimed.
LEMMA MovedBatch ==
  ASSUME OInv, NEW p \in Publisher, NEW b \in PubState,
         pub' = [pub EXCEPT ![p] = b],
         UNCHANGED tableVars,
         Kept,
         \A e \in Event : Has(b, e) => Holds(p, e) \/ e \in Claimable,
         b.open => \A e \in b.done : \A q \in QueuesOf(e) : Reached(q, e)',
         b.open /\ b.todo # <<>> =>
           \A i \in 1..Len(RouteOf[Head(b.todo)]) : i < b.next =>
             Reached(RouteOf[Head(b.todo)][i], Head(b.todo))'
  PROVE  pub' \in [Publisher -> PubState] /\ BatchesOK' /\ PublishedReachedEveryQueue'
<1>1. pub \in [Publisher -> PubState]
  BY DEF OInv, TypeOK, PubState
<1>2. pub' \in [Publisher -> PubState] /\ pub'[p] = b /\ \A r \in Publisher \ {p} : pub'[r] = pub[r]
  BY <1>1
<1>3. \A r \in Publisher \ {p}, e \in Event : Holds(r, e)' <=> Holds(r, e)
  BY <1>2 DEF Holds, Has
<1>4. \A e \in Event : Holds(p, e)' => Holds(p, e) \/ e \in Claimable
  BY <1>2 DEF Holds, Has
<1>5. \A e \in Claimable : /\ message[e] = "pending" /\ attempts[e] < MaxAttempts
                          /\ \A r \in Publisher : ~Holds(r, e)
  BY DEF Claimable, Locked, Holds, Has
<1>6. \A r \in Publisher, e \in Event : Holds(r, e)' =>
        message'[e] = "pending" /\ attempts'[e] < MaxAttempts
  BY <1>3, <1>4, <1>5 DEF OInv, BatchesOK, tableVars
<1>7. \A r1, r2 \in Publisher, e \in Event : Holds(r1, e)' /\ Holds(r2, e)' => r1 = r2
  BY <1>3, <1>4, <1>5 DEF OInv, BatchesOK
<1>8. ASSUME NEW r \in Publisher, pub'[r].open
      PROVE  /\ \A e \in pub'[r].done : \A q \in QueuesOf(e) : Reached(q, e)'
             /\ pub'[r].todo # <<>> =>
                  \E e \in Event : /\ e = Head(pub'[r].todo)
                                  /\ \A i \in 1..Len(RouteOf[e]) :
                                       i < pub'[r].next => Reached(RouteOf[e][i], e)'
  <2>1. CASE r = p
    <3>1. b.todo # <<>> => Head(b.todo) \in Event
      BY DEF PubState
    <3>. QED  BY <1>2, <1>8, <2>1, <3>1
  <2>2. CASE r # p
    <3>1. pub'[r] = pub[r] /\ pub[r] \in PubState
      BY <1>1, <1>2, <2>2
    <3>2. pub[r].done \subseteq Event /\ (pub[r].todo # <<>> => Head(pub[r].todo) \in Event)
      BY <3>1 DEF PubState
    <3>3. \A e \in pub[r].done : \A q \in QueuesOf(e) : Reached(q, e)
      BY <1>8, <3>1 DEF OInv, BatchesOK
    <3>4. \A e \in pub[r].done : \A q \in QueuesOf(e) : Reached(q, e)'
      BY <3>2, <3>3, RouteType DEF Kept
    <3>5. ASSUME pub[r].todo # <<>>
          PROVE  \E e \in Event : /\ e = Head(pub[r].todo)
                                 /\ \A i \in 1..Len(RouteOf[e]) :
                                      i < pub[r].next => Reached(RouteOf[e][i], e)'
      <4>1. PICK e \in Event : e = Head(pub[r].todo)
        BY <3>2, <3>5
      <4>2. \A i \in 1..Len(RouteOf[e]) : i < pub[r].next => Reached(RouteOf[e][i], e)
        BY <1>8, <3>1, <3>5, <4>1 DEF OInv, BatchesOK
      <4>3. \A i \in 1..Len(RouteOf[e]) : RouteOf[e][i] \in Queue
        BY RouteType
      <4>4. \A i \in 1..Len(RouteOf[e]) : i < pub[r].next => Reached(RouteOf[e][i], e)'
        BY <4>2, <4>3 DEF Kept
      <4>. QED  BY <4>1, <4>4
    <3>. QED  BY <3>1, <3>4, <3>5
  <2>. QED  BY <2>1, <2>2
<1>9. BatchesOK'
  BY <1>6, <1>7, <1>8 DEF BatchesOK, Reached, Done
<1>10. PublishedReachedEveryQueue'
  <2>1. \A e \in Event : message[e] = "published" => \A q \in QueuesOf(e) : Reached(q, e)
    BY DEF OInv, PublishedReachedEveryQueue, Reached, Done
  <2>2. \A e \in Event : message[e] = "published" => \A q \in QueuesOf(e) : Reached(q, e)'
    BY <2>1, RouteType DEF Kept
  <2>. QED  BY <2>2 DEF PublishedReachedEveryQueue, Reached, Done, tableVars
<1>. QED
  BY <1>2, <1>9, <1>10

JobsFine ==
  /\ job' \in [Queue -> [Event -> JobState]]
  /\ made' \in [Queue -> [Event -> 0..JobAttempts]]
  /\ Kept
  /\ JobsOK' /\ WorkersOK' /\ EffectsOK'

LEMMA SameJobs ==
  ASSUME OInv, UNCHANGED <<tableVars, consumerVars, jobVars>>
  PROVE  JobsFine
<1>1. Kept
  BY DEF Kept, Reached, Done, jobVars, consumerVars
<1>2. job' \in [Queue -> [Event -> JobState]] /\ made' \in [Queue -> [Event -> 0..JobAttempts]]
  BY DEF OInv, TypeOK, JobState, jobVars
<1>3. JobsOK' /\ WorkersOK' /\ EffectsOK'
  BY DEF OInv, JobsOK, WorkersOK, EffectsOK, Owner, SameJob, Done, tableVars, jobVars, consumerVars
<1>. QED
  BY <1>1, <1>2, <1>3 DEF JobsFine

\* Queue.add of a job that its message and the routing call for.
LEMMA AddedJob ==
  ASSUME OInv, NEW q \in Queue, NEW e \in Event, message[e] # "absent", q \in QueuesOf(e),
         Add(q, e), UNCHANGED <<tableVars, consumerVars>>
  PROVE  JobsFine /\ Reached(q, e)'
<1>1. CASE job[q][e] # "absent"
  <2>1. UNCHANGED jobVars
    BY <1>1 DEF Add
  <2>. QED  BY <1>1, <2>1, SameJobs DEF Reached, jobVars
<1>2. CASE job[q][e] = "absent"
  <2>1. job' = [job EXCEPT ![q][e] = "waiting"] /\ made' = [made EXCEPT ![q][e] = 0]
    BY <1>2 DEF Add
  <2>2. /\ job' \in [Queue -> [Event -> JobState]]
        /\ made' \in [Queue -> [Event -> 0..JobAttempts]]
        /\ \A q2 \in Queue, e2 \in Event : job'[q2][e2] = IF q2 = q /\ e2 = e THEN "waiting" ELSE job[q2][e2]
        /\ JobsOK'
        /\ Kept
    <3>1. 0 \in 0..JobAttempts /\ 0 < JobAttempts
      BY OutboxAssumption
    <3>2. "waiting" \in JobState
      BY DEF JobState
    <3>3. UNCHANGED <<message, effects, dlq>>
      BY DEF tableVars, consumerVars
    <3>. QED  BY <2>1, <3>1, <3>2, <3>3, MovedJob
  <2>3. \A v \in Worker : Owner(v) =>
          /\ ~(worker[v].q = q /\ worker[v].e = e)
          /\ worker[v].q \in Queue /\ worker[v].e \in Event
    BY <1>2, IdleOwners, WorkerFields DEF Owner
  <2>4. \A v \in Worker : Owner(v) => job'[worker[v].q][worker[v].e] = "active"
    BY <2>2, <2>3 DEF OInv, WorkersOK
  <2>5. WorkersOK'
    BY <2>4 DEF OInv, WorkersOK, Owner, SameJob, Done, tableVars, consumerVars
  <2>6. EffectsOK'
    BY DEF OInv, EffectsOK, consumerVars
  <2>7. Reached(q, e)'
    BY <2>2 DEF Reached
  <2>. QED  BY <2>2, <2>5, <2>6, <2>7 DEF JobsFine
<1>. QED
  BY <1>1, <1>2

\* A step of a publisher inside its batch.
LEMMA BatchStep ==
  ASSUME OInv, JobsFine, UNCHANGED <<tableVars, consumerVars>>, faults' \in 0..MaxFaults,
         NEW p \in Publisher, NEW b \in PubState,
         pub' = [pub EXCEPT ![p] = b],
         \A e \in Event : Has(b, e) => Holds(p, e) \/ e \in Claimable,
         b.open => \A e \in b.done : \A q \in QueuesOf(e) : Reached(q, e)',
         b.open /\ b.todo # <<>> =>
           \A i \in 1..Len(RouteOf[Head(b.todo)]) : i < b.next =>
             Reached(RouteOf[Head(b.todo)][i], Head(b.todo))'
  PROVE  OInv'
<1>1. pub' \in [Publisher -> PubState] /\ BatchesOK' /\ PublishedReachedEveryQueue'
  BY MovedBatch DEF JobsFine
<1>2. TypeOK'
  BY <1>1 DEF OInv, TypeOK, JobsFine, JobState, PubState, tableVars, consumerVars
<1>. QED
  BY <1>1, <1>2 DEF OInv, JobsFine

\* The edits of a batch.
\* The batch after its head was served, and after its head failed.
Served(b, t, s) == [b EXCEPT !.todo = t, !.next = 1, !.done = s]

LEMMA ServedBatch ==
  ASSUME NEW b \in PubState, NEW t \in Seq(Event), NEW s \in SUBSET Event
  PROVE  LET c == Served(b, t, s)
         IN  /\ c \in PubState
             /\ c.open = b.open /\ c.todo = t /\ c.next = 1 /\ c.done = s /\ c.bad = b.bad
<1>. DEFINE T == Seq(Event)
            N == Nat \ {0}
            D == SUBSET Event
            State == [open : BOOLEAN, todo : T, next : N, done : D, bad : D]
            c == Served(b, t, s)
<1>1. PubState = State
  BY DEF PubState
<1>2. b \in State /\ 1 \in N /\ t \in T /\ s \in D
  BY <1>1
<1>. HIDE DEF T, N, D
<1>3. c \in State /\ c.open = b.open /\ c.todo = t /\ c.next = 1 /\ c.done = s /\ c.bad = b.bad
  BY <1>2 DEF Served
<1>. HIDE DEF State
<1>. QED
  BY <1>1, <1>3

Spoilt(b, t, s) == [b EXCEPT !.todo = t, !.next = 1, !.bad = s]

LEMMA SpoiltBatch ==
  ASSUME NEW b \in PubState, NEW t \in Seq(Event), NEW s \in SUBSET Event
  PROVE  LET c == Spoilt(b, t, s)
         IN  /\ c \in PubState
             /\ c.open = b.open /\ c.todo = t /\ c.next = 1 /\ c.done = b.done /\ c.bad = s
<1>. DEFINE T == Seq(Event)
            N == Nat \ {0}
            D == SUBSET Event
            State == [open : BOOLEAN, todo : T, next : N, done : D, bad : D]
            c == Spoilt(b, t, s)
<1>1. PubState = State
  BY DEF PubState
<1>2. b \in State /\ 1 \in N /\ t \in T /\ s \in D
  BY <1>1
<1>. HIDE DEF T, N, D
<1>3. c \in State /\ c.open = b.open /\ c.todo = t /\ c.next = 1 /\ c.done = b.done /\ c.bad = s
  BY <1>2 DEF Spoilt
<1>. HIDE DEF State
<1>. QED
  BY <1>1, <1>3

LEMMA OpenedBatch ==
  ASSUME NEW b \in PubState, NEW t \in Seq(Event)
  PROVE  \E c \in PubState : /\ c = [b EXCEPT !.open = TRUE, !.todo = t]
                            /\ c.open = TRUE /\ c.todo = t /\ c.next = b.next /\ c.done = b.done /\ c.bad = b.bad
<1>. DEFINE T == Seq(Event)
            N == Nat \ {0}
            D == SUBSET Event
            State == [open : BOOLEAN, todo : T, next : N, done : D, bad : D]
            c == [b EXCEPT !.open = TRUE, !.todo = t]
<1>1. PubState = State
  BY DEF PubState
<1>2. b \in State /\ t \in T
  BY <1>1
<1>. HIDE DEF T, N, D
<1>3. c \in State /\ c.open = TRUE /\ c.todo = t /\ c.next = b.next /\ c.done = b.done /\ c.bad = b.bad
  BY <1>2
<1>. HIDE DEF State, c
<1>. QED
  BY <1>1, <1>3 DEF c

LEMMA NoBatchHas == ~NoBatch.open /\ \A e : ~Has(NoBatch, e)
BY DEF NoBatch, Has

LEMMA ClaimBatchStep ==
  ASSUME OInv, NEW p \in Publisher, ClaimBatch(p)
  PROVE  OInv'
<1>1. PICK s \in Batches : /\ IsBatch(s)
                           /\ pub' = [pub EXCEPT ![p] = [NoBatch EXCEPT !.open = TRUE, !.todo = s]]
  BY DEF ClaimBatch
<1>2. UNCHANGED <<tableVars, jobVars, consumerVars, faults>>
  BY DEF ClaimBatch
<1>3. s \in Seq(Event)
  BY <1>1 DEF Batches
<1>4. PICK b \in PubState : /\ b.open /\ b.todo = s /\ b.next = 1 /\ b.done = {} /\ b.bad = {}
                           /\ pub' = [pub EXCEPT ![p] = b]
  <2>1. PICK c \in PubState :
          /\ c = [NoBatch EXCEPT !.open = TRUE, !.todo = s]
          /\ c.open = TRUE /\ c.todo = s
          /\ c.next = NoBatch.next /\ c.done = NoBatch.done /\ c.bad = NoBatch.bad
    BY <1>3, IdleTypes, OpenedBatch
  <2>2. NoBatch.next = 1 /\ NoBatch.done = {} /\ NoBatch.bad = {}
    BY DEF NoBatch
  <2>3. pub' = [pub EXCEPT ![p] = c]
    BY <1>1, <2>1
  <2>. QED  BY <2>1, <2>2, <2>3
<1>5. \A e \in Event : Has(b, e) => e \in Claimable
  BY <1>1, <1>4 DEF Has, IsBatch
<1>6. JobsFine
  BY <1>2, SameJobs
<1>7. \A i \in 1..Len(RouteOf[Head(b.todo)]) : ~(i < b.next)
  BY <1>4
<1>8. faults' \in 0..MaxFaults
  BY <1>2 DEF OInv, TypeOK
<1>. QED
  BY <1>2, <1>4, <1>5, <1>6, <1>7, <1>8, BatchStep

LEMMA AbortBatchStep ==
  ASSUME OInv, NEW p \in Publisher, AbortBatch(p)
  PROVE  OInv'
<1>1. pub' = [pub EXCEPT ![p] = NoBatch] /\ UNCHANGED <<tableVars, jobVars, consumerVars>>
  BY DEF AbortBatch
<1>2. JobsFine
  BY <1>1, SameJobs
<1>3. NoBatch \in PubState
  BY IdleTypes
<1>4. faults' \in 0..MaxFaults
  BY FaultType DEF AbortBatch
<1>. QED
  BY <1>1, <1>2, <1>3, <1>4, NoBatchHas, BatchStep

\* What the head of a batch is, and what is left without it.
LEMMA HeadOfBatch ==
  ASSUME OInv, NEW p \in Publisher, pub[p].open, pub[p].todo # <<>>
  PROVE  /\ Head(pub[p].todo) \in Event
         /\ Holds(p, Head(pub[p].todo))
         /\ message[Head(pub[p].todo)] = "pending"
         /\ Tail(pub[p].todo) \in Seq(Event)
         /\ \A i \in 1..Len(Tail(pub[p].todo)) : \E j \in 1..Len(pub[p].todo) :
              Tail(pub[p].todo)[i] = pub[p].todo[j]
<1>1. pub[p].todo \in Seq(Event)
  BY BatchFields DEF PubState
<1>2. /\ Head(pub[p].todo) \in Event /\ Head(pub[p].todo) = pub[p].todo[1]
      /\ 1 \in 1..Len(pub[p].todo) /\ Tail(pub[p].todo) \in Seq(Event)
  BY <1>1
<1>3. \A i \in 1..Len(Tail(pub[p].todo)) :
        i + 1 \in 1..Len(pub[p].todo) /\ Tail(pub[p].todo)[i] = pub[p].todo[i + 1]
  BY <1>1
<1>4. Holds(p, Head(pub[p].todo))
  BY <1>2 DEF Holds, Has
<1>. QED
  BY <1>2, <1>3, <1>4 DEF OInv, BatchesOK

LEMMA EnqueueStep ==
  ASSUME OInv, NEW p \in Publisher, Enqueue(p)
  PROVE  OInv'
<1>1. /\ pub[p].open /\ pub[p].todo # <<>>
      /\ UNCHANGED <<tableVars, consumerVars, faults>>
  BY DEF Enqueue
<1>2. PICK o \in PubState : o = pub[p]
  BY BatchFields
<1>3. PICK e \in Event : e = Head(o.todo)
  BY <1>1, <1>2, HeadOfBatch
<1>4. /\ Holds(p, e) /\ message[e] = "pending" /\ Tail(o.todo) \in Seq(Event)
      /\ \A i \in 1..Len(Tail(o.todo)) : \E j \in 1..Len(o.todo) : Tail(o.todo)[i] = o.todo[j]
  BY <1>1, <1>2, <1>3, HeadOfBatch
<1>5. faults' \in 0..MaxFaults
  BY <1>1 DEF OInv, TypeOK
<1>6. /\ \A d \in o.done : d \in Event /\ \A q \in QueuesOf(d) : Reached(q, d)
      /\ \A i \in 1..Len(RouteOf[e]) : i < o.next => Reached(RouteOf[e][i], e)
  BY <1>1, <1>2, <1>3 DEF OInv, BatchesOK, PubState
<1>7. o.next \in Nat \ {0} /\ RouteOf[e] \in Seq(Queue)
  BY RouteType DEF PubState
<1>8. CASE o.next > Len(RouteOf[e])
  <2>1. PICK b \in PubState : /\ b.open /\ b.todo = Tail(o.todo) /\ b.next = 1
                             /\ b.done = o.done \cup {e} /\ b.bad = o.bad
                             /\ pub' = [pub EXCEPT ![p] = b]
    <3>1. PICK t \in Seq(Event), d \in SUBSET Event : t = Tail(o.todo) /\ d = o.done \cup {e}
      BY <1>4 DEF PubState
    <3>2. PICK c \in PubState :
            /\ c = Served(o, t, d)
            /\ c.open = o.open /\ c.todo = t /\ c.next = 1 /\ c.done = d /\ c.bad = o.bad
      BY ServedBatch
    <3>3. pub' = [pub EXCEPT ![p] = c]
      BY <1>2, <1>3, <1>8, <3>1, <3>2 DEF Enqueue, Served
    <3>. QED  BY <1>1, <1>2, <3>1, <3>2, <3>3
  <2>2. JobsFine
    <3>1. UNCHANGED jobVars
      BY <1>2, <1>3, <1>8 DEF Enqueue
    <3>. QED  BY <1>1, <3>1, SameJobs
  <2>3. \A x \in Event : Has(b, x) => Holds(p, x)
    BY <1>1, <1>2, <1>4, <2>1 DEF Holds, Has
  <2>4. \A q \in QueuesOf(e) : Reached(q, e)
    BY <1>6, <1>7, <1>8 DEF QueuesOf
  <2>5. \A d \in b.done : \A q \in QueuesOf(d) : Reached(q, d)'
    <3>1. \A d \in b.done : d \in Event /\ \A q \in QueuesOf(d) : Reached(q, d)
      BY <1>6, <2>1, <2>4
    <3>. QED  BY <2>2, <3>1, RouteType DEF JobsFine, Kept
  <2>6. \A i \in 1..Len(RouteOf[Head(b.todo)]) : ~(i < b.next)
    BY <2>1
  <2>. QED  BY <1>1, <1>5, <2>1, <2>2, <2>3, <2>5, <2>6, BatchStep
<1>9. CASE ~(o.next > Len(RouteOf[e]))
  <2>1. o.next \in 1..Len(RouteOf[e])
    BY <1>7, <1>9
  <2>2. PICK q \in Queue : q = RouteOf[e][o.next]
    BY <2>1, RouteType
  <2>3. q \in QueuesOf(e) /\ Add(q, e)
    BY <1>2, <1>3, <1>9, <2>1, <2>2, RouteType DEF Enqueue
  <2>4. JobsFine /\ Reached(q, e)'
    BY <1>1, <1>4, <2>3, AddedJob
  <2>5. PICK b \in PubState : /\ b.open /\ b.todo = o.todo /\ b.next = o.next + 1
                             /\ b.done = o.done /\ b.bad = o.bad
                             /\ pub' = [pub EXCEPT ![p] = b]
    <3>. DEFINE c == [o EXCEPT !.next = @ + 1]
    <3>1. /\ c \in PubState /\ c.open /\ c.todo = o.todo /\ c.next = o.next + 1
          /\ c.done = o.done /\ c.bad = o.bad
      BY <1>1, <1>2 DEF PubState
    <3>2. pub' = [pub EXCEPT ![p] = c]
      BY <1>2, <1>3, <1>9 DEF Enqueue
    <3>. QED  BY <3>1, <3>2
  <2>6. \A x \in Event : Has(b, x) => Holds(p, x)
    BY <1>1, <1>2, <2>5 DEF Holds, Has
  <2>7. \A d \in b.done : \A r \in QueuesOf(d) : Reached(r, d)'
    BY <1>6, <2>4, <2>5, RouteType DEF JobsFine, Kept
  <2>8. \A i \in 1..Len(RouteOf[e]) : i < b.next => Reached(RouteOf[e][i], e)'
    <3>. SUFFICES ASSUME NEW i \in 1..Len(RouteOf[e]), i < b.next
                  PROVE  Reached(RouteOf[e][i], e)'
      OBVIOUS
    <3>1. CASE i = o.next
      BY <2>2, <2>4, <3>1
    <3>2. CASE i < o.next
      <4>1. Reached(RouteOf[e][i], e) /\ RouteOf[e][i] \in Queue
        BY <1>6, <3>2, RouteType
      <4>. QED  BY <2>4, <4>1 DEF JobsFine, Kept
    <3>. QED  BY <1>7, <2>5, <3>1, <3>2
  <2>9. e = Head(b.todo)
    BY <1>3, <2>5
  <2>. QED  BY <1>1, <1>5, <2>4, <2>5, <2>6, <2>7, <2>8, <2>9, BatchStep
<1>. QED
  BY <1>8, <1>9

LEMMA EnqueueFailsStep ==
  ASSUME OInv, NEW p \in Publisher, EnqueueFails(p)
  PROVE  OInv'
<1>1. /\ pub[p].open /\ pub[p].todo # <<>>
      /\ UNCHANGED <<tableVars, consumerVars>>
  BY DEF EnqueueFails
<1>2. PICK o \in PubState : o = pub[p]
  BY BatchFields
<1>3. PICK e \in Event : e = Head(o.todo)
  BY <1>1, <1>2, HeadOfBatch
<1>4. /\ Holds(p, e) /\ message[e] = "pending" /\ Tail(o.todo) \in Seq(Event)
      /\ \A i \in 1..Len(Tail(o.todo)) : \E j \in 1..Len(o.todo) : Tail(o.todo)[i] = o.todo[j]
  BY <1>1, <1>2, <1>3, HeadOfBatch
<1>5. faults' \in 0..MaxFaults
  BY FaultType DEF EnqueueFails
<1>6. PICK b \in PubState : /\ b.open /\ b.todo = Tail(o.todo) /\ b.next = 1
                           /\ b.done = o.done /\ b.bad = o.bad \cup {e}
                           /\ pub' = [pub EXCEPT ![p] = b]
  <2>1. PICK t \in Seq(Event), f \in SUBSET Event : t = Tail(o.todo) /\ f = o.bad \cup {e}
    BY <1>4 DEF PubState
  <2>2. PICK c \in PubState :
          /\ c = Spoilt(o, t, f)
          /\ c.open = o.open /\ c.todo = t /\ c.next = 1 /\ c.done = o.done /\ c.bad = f
    BY SpoiltBatch
  <2>3. pub' = [pub EXCEPT ![p] = c]
    BY <1>2, <1>3, <2>1, <2>2 DEF EnqueueFails, Spoilt
  <2>. QED  BY <1>1, <1>2, <2>1, <2>2, <2>3
<1>7. JobsFine
  <2>1. o.next \in 1..Len(RouteOf[e])
    <3>1. o.next \in Nat \ {0} /\ RouteOf[e] \in Seq(Queue)
      BY RouteType DEF PubState
    <3>2. o.next <= Len(RouteOf[e])
      BY <1>2, <1>3 DEF EnqueueFails
    <3>. QED  BY <3>1, <3>2
  <2>2. PICK q \in Queue : q = RouteOf[e][o.next] /\ q \in QueuesOf(e)
    BY <2>1, RouteType
  <2>3. Add(q, e) \/ UNCHANGED jobVars
    BY <1>2, <1>3, <2>2 DEF EnqueueFails
  <2>. QED  BY <1>1, <1>4, <2>2, <2>3, AddedJob, SameJobs
<1>8. \A x \in Event : Has(b, x) => Holds(p, x)
  BY <1>1, <1>2, <1>4, <1>6 DEF Holds, Has
<1>9. \A d \in b.done : \A q \in QueuesOf(d) : Reached(q, d)'
  <2>1. \A d \in o.done : d \in Event /\ \A q \in QueuesOf(d) : Reached(q, d)
    BY <1>1, <1>2 DEF OInv, BatchesOK, PubState
  <2>. QED  BY <1>6, <1>7, <2>1, RouteType DEF JobsFine, Kept
<1>10. \A i \in 1..Len(RouteOf[Head(b.todo)]) : ~(i < b.next)
  BY <1>6
<1>. QED
  BY <1>1, <1>5, <1>6, <1>7, <1>8, <1>9, <1>10, BatchStep

LEMMA CommitBatchStep ==
  ASSUME OInv, NEW p \in Publisher, CommitBatch(p)
  PROVE  OInv'
<1>1. /\ pub[p].open
      /\ message' = [e \in Event |-> IF e \in pub[p].done THEN "published" ELSE message[e]]
      /\ attempts' = [e \in Event |-> IF e \in pub[p].bad THEN attempts[e] + 1 ELSE attempts[e]]
      /\ pub' = [pub EXCEPT ![p] = NoBatch]
      /\ UNCHANGED <<jobVars, consumerVars, faults>>
  BY DEF CommitBatch
<1>2. \A e \in Event : e \in pub[p].done \cup pub[p].bad => Holds(p, e)
  BY <1>1 DEF Holds, Has
<1>3. \A e \in Event : Holds(p, e) => message[e] = "pending" /\ attempts[e] < MaxAttempts
  BY DEF OInv, BatchesOK
<1>4. TypeOK'
  <2>1. message' \in [Event -> {"absent", "pending", "published"}]
    BY <1>1 DEF OInv, TypeOK
  <2>2. \A e \in Event : attempts'[e] \in 0..MaxAttempts
    BY <1>1, <1>2, <1>3, OutboxAssumption DEF OInv, TypeOK
  <2>3. attempts' \in [Event -> 0..MaxAttempts]
    BY <1>1, <2>2
  <2>4. pub' \in [Publisher -> PubState]
    BY <1>1, IdleTypes DEF OInv, TypeOK, PubState
  <2>. QED  BY <1>1, <2>1, <2>3, <2>4 DEF OInv, TypeOK, PubState, jobVars, consumerVars
<1>5. pub \in [Publisher -> PubState]
  BY DEF OInv, TypeOK, PubState
<1>6. pub'[p] = NoBatch /\ \A r \in Publisher \ {p} : pub'[r] = pub[r]
  BY <1>1, <1>5
<1>7. \A e \in Event : message[e] # "absent" <=> message'[e] # "absent"
  BY <1>1, <1>2, <1>3
<1>8. JobsOK' /\ WorkersOK' /\ EffectsOK'
  <2>1. JobsOK' /\ EffectsOK'
    BY <1>1, <1>7 DEF OInv, JobsOK, EffectsOK, Done, jobVars, consumerVars
  <2>2. WorkersOK'
    BY <1>1, <1>7 DEF OInv, WorkersOK, Owner, SameJob, Done, jobVars, consumerVars
  <2>. QED  BY <2>1, <2>2
<1>9. \A r \in Publisher, e \in Event : Holds(r, e)' => Holds(r, e) /\ r # p
  BY <1>6, NoBatchHas DEF Holds, Has
<1>10. \A r \in Publisher, e \in Event : Holds(r, e)' =>
         message'[e] = "pending" /\ attempts'[e] < MaxAttempts
  <2>. SUFFICES ASSUME NEW r \in Publisher, NEW e \in Event, Holds(r, e)'
                PROVE  message'[e] = "pending" /\ attempts'[e] < MaxAttempts
    OBVIOUS
  <2>1. Holds(r, e) /\ ~Holds(p, e)
    BY <1>9 DEF OInv, BatchesOK
  <2>. QED  BY <1>1, <1>2, <2>1 DEF OInv, BatchesOK
<1>11. \A r \in Publisher \ {p} : pub[r].open =>
         /\ \A e \in pub[r].done : \A q \in QueuesOf(e) : Reached(q, e)
         /\ pub[r].todo # <<>> =>
              \A i \in 1..Len(RouteOf[Head(pub[r].todo)]) : i < pub[r].next =>
                Reached(RouteOf[Head(pub[r].todo)][i], Head(pub[r].todo))
  BY DEF OInv, BatchesOK
<1>12. \A q, e : Reached(q, e)' <=> Reached(q, e)
  BY <1>1 DEF Reached, Done, jobVars, consumerVars
<1>13. BatchesOK'
  <2>1. \A r1, r2 \in Publisher, e \in Event : Holds(r1, e)' /\ Holds(r2, e)' => r1 = r2
    BY <1>9 DEF OInv, BatchesOK
  <2>2. \A r \in Publisher : pub'[r].open => r # p
    BY <1>6, NoBatchHas
  <2>3. UNCHANGED <<job, effects, dlq>>
    BY <1>1 DEF jobVars, consumerVars
  <2>4. ASSUME NEW r \in Publisher, pub'[r].open
        PROVE  /\ r # p /\ pub'[r] = pub[r]
               /\ \A e \in pub'[r].done : \A q \in QueuesOf(e) : Reached(q, e)'
               /\ pub'[r].todo # <<>> =>
                    \A i \in 1..Len(RouteOf[Head(pub[r].todo)]) : i < pub[r].next =>
                      Reached(RouteOf[Head(pub[r].todo)][i], Head(pub[r].todo))
    BY <1>6, <1>11, <2>2, <2>3, <2>4 DEF Reached, Done
  <2>5. \A r \in Publisher : pub'[r].open /\ pub'[r].todo # <<>> =>
          \A i \in 1..Len(RouteOf[Head(pub'[r].todo)]) : i < pub'[r].next =>
            \/ job'[RouteOf[Head(pub'[r].todo)][i]][Head(pub'[r].todo)] # "absent"
            \/ effects'[RouteOf[Head(pub'[r].todo)][i]][Head(pub'[r].todo)] > 0
            \/ <<RouteOf[Head(pub'[r].todo)][i], Head(pub'[r].todo)>> \in dlq'
    BY <2>3, <2>4 DEF Reached, Done
  <2>6. \A r \in Publisher : pub'[r].open =>
          \A e \in pub'[r].done : \A q \in QueuesOf(e) : Reached(q, e)'
    BY <2>4
  <2>. QED  BY <1>10, <2>1, <2>5, <2>6 DEF BatchesOK, Reached, Done
<1>14. PublishedReachedEveryQueue'
  <2>1. \A e \in Event : message'[e] = "published" => message[e] = "published" \/ e \in pub[p].done
    BY <1>1
  <2>2. \A e \in Event : message'[e] = "published" => \A q \in QueuesOf(e) : Reached(q, e)
    BY <1>1, <2>1 DEF OInv, BatchesOK, PublishedReachedEveryQueue, Reached, Done
  <2>. QED  BY <1>1, <2>2 DEF PublishedReachedEveryQueue, Reached, Done, jobVars, consumerVars
<1>. QED
  BY <1>4, <1>8, <1>13, <1>14 DEF OInv

LEMMA AppendStep ==
  ASSUME OInv, NEW e \in Event, AppendMessage(e)
  PROVE  OInv'
<1>1. /\ message[e] = "absent"
      /\ message' = [message EXCEPT ![e] = "pending"]
      /\ UNCHANGED <<attempts, pub, jobVars, consumerVars, faults>>
  BY DEF AppendMessage
<1>2. message \in [Event -> {"absent", "pending", "published"}]
  BY DEF OInv, TypeOK
<1>3. /\ message' \in [Event -> {"absent", "pending", "published"}]
      /\ \A d \in Event : message[d] # "absent" => message'[d] = message[d]
      /\ \A d \in Event : message'[d] = "published" => message[d] = "published"
  BY <1>1, <1>2
<1>4. TypeOK'
  BY <1>1, <1>3 DEF OInv, TypeOK, jobVars, consumerVars
<1>5. JobsOK' /\ EffectsOK'
  BY <1>1, <1>3 DEF OInv, JobsOK, EffectsOK, Done, jobVars, consumerVars
<1>6. WorkersOK'
  BY <1>1, <1>3 DEF OInv, WorkersOK, Owner, SameJob, Done, jobVars, consumerVars
<1>7. BatchesOK'
  <2>1. \A p \in Publisher, d \in Event : Holds(p, d)' <=> Holds(p, d)
    BY <1>1 DEF Holds, Has
  <2>2. \A p \in Publisher, d \in Event : Holds(p, d) => message'[d] = "pending"
    BY <1>3 DEF OInv, BatchesOK
  <2>. QED  BY <1>1, <2>1, <2>2 DEF OInv, BatchesOK, Reached, Done, jobVars, consumerVars
<1>8. PublishedReachedEveryQueue'
  BY <1>1, <1>3 DEF OInv, PublishedReachedEveryQueue, jobVars, consumerVars
<1>. QED
  BY <1>4, <1>5, <1>6, <1>7, <1>8 DEF OInv

-----------------------------------------------------------------------------
(* The theorems.                                                           *)

LEMMA OStep == OInv /\ [Next]_vars => OInv'
<1>. SUFFICES ASSUME OInv, [Next]_vars PROVE OInv'
  OBVIOUS
<1>1. ASSUME NEW p \in Publisher, PublisherStep(p) \/ EnqueueFails(p) \/ AbortBatch(p)
      PROVE  OInv'
  BY <1>1, ClaimBatchStep, EnqueueStep, CommitBatchStep, EnqueueFailsStep, AbortBatchStep
     DEF PublisherStep
<1>2. ASSUME NEW w \in Worker, WorkerStep(w) PROVE OInv'
  BY <1>2, ClaimStep, CommitEffectStep, PushStep, DiscardStep, AckStep, FailStep, BuryStep
     DEF WorkerStep
<1>3. ASSUME NEW w \in Worker, Throw(w) \/ Crash(w) \/ LoseLock(w) PROVE OInv'
  BY <1>3, ThrowStep, CrashStep, LoseLockStep
<1>. QED
  BY <1>1, <1>2, <1>3, AppendStep, QueueSteps, TakeStep, NoChange DEF Next

LEMMA OutboxInvariant == Spec => []OInv
<1>. QED
  BY OInit, OStep, PTL DEF Spec

\* Attempts, jobs, marks and dead letters keep their types: in particular
\* neither attempts nor attemptsMade passes its limit.
THEOREM OutboxTypes == Spec => []TypeOK
<1>1. OInv => TypeOK
  BY DEF OInv
<1>. QED
  BY OutboxInvariant, <1>1, PTL

\* A consumer that claims processed_messages repeats no work, however many
\* publishers and workers there are and whatever they repeat.
THEOREM EffectOnce == Spec => []EffectAtMostOnce
<1>1. OInv => EffectAtMostOnce
  BY OutboxAssumption DEF OInv, EffectsOK, EffectAtMostOnce
<1>. QED
  BY OutboxInvariant, <1>1, PTL

\* The mark and the effect of a consumer's transaction are one fact.
THEOREM MarkAndEffect == Spec => []MarkedIffDone
<1>1. OInv => MarkedIffDone
  BY OutboxAssumption DEF OInv, EffectsOK, MarkedIffDone
<1>. QED
  BY OutboxInvariant, <1>1, PTL

\* published_at is set only when each queue of the routing has the job, or has
\* done with it.
THEOREM PublishedReached == Spec => []PublishedReachedEveryQueue
<1>1. OInv => PublishedReachedEveryQueue
  BY DEF OInv
<1>. QED
  BY OutboxInvariant, <1>1, PTL

\* A completed job has its effect committed, or its copy in the dead letters.
THEOREM CompletedDone == Spec => []CompletedMeansDone
<1>1. OInv => CompletedMeansDone
  BY DEF OInv, JobsOK, Done, CompletedMeansDone
<1>. QED
  BY OutboxInvariant, <1>1, PTL

-----------------------------------------------------------------------------
(* Nothing published is lost.                                              *)

\* A job that used up its attempts has its copy in the dead letters, or is on
\* the way there, or lost it to a crash.
FailedIsBuried ==
  \A q \in Queue, e \in Event : job[q][e] = "failed" =>
    \/ <<q, e>> \in dlq \cup unburied
    \/ \E w \in Worker : Runs(w, q, e) /\ worker[w].pc = "burying"

\* Every step of a worker or a queue that leaves a burying worker to its job, or
\* does what it was there for.
LEMMA BuriedKept ==
  ASSUME FailedIsBuried, dlq \subseteq dlq', unburied \subseteq unburied',
         \A q \in Queue, e \in Event : job'[q][e] = "failed" /\ job[q][e] # "failed" =>
           \E w \in Worker : Runs(w, q, e)' /\ worker'[w].pc = "burying",
         \A w \in Worker : worker[w].pc = "burying" =>
           worker'[w] = worker[w] \/ <<worker[w].q, worker[w].e>> \in dlq' \cup unburied'
  PROVE  FailedIsBuried'
<1>. SUFFICES ASSUME NEW q \in Queue, NEW e \in Event, job'[q][e] = "failed"
              PROVE  \/ <<q, e>> \in dlq' \cup unburied'
                     \/ \E w \in Worker : Runs(w, q, e)' /\ worker'[w].pc = "burying"
  BY DEF FailedIsBuried
<1>1. CASE job[q][e] # "failed"
  BY <1>1
<1>2. CASE <<q, e>> \in dlq \cup unburied
  BY <1>2
<1>3. ASSUME NEW w \in Worker, Runs(w, q, e), worker[w].pc = "burying"
      PROVE  <<q, e>> \in dlq' \cup unburied' \/ (Runs(w, q, e)' /\ worker'[w].pc = "burying")
  BY <1>3 DEF Runs
<1>. QED
  BY <1>1, <1>2, <1>3 DEF FailedIsBuried

LEMMA BuriedStep == OInv /\ FailedIsBuried /\ [Next]_vars => FailedIsBuried'
<1>. SUFFICES ASSUME OInv, FailedIsBuried, [Next]_vars PROVE FailedIsBuried'
  OBVIOUS
<1>1. /\ job \in [Queue -> [Event -> JobState]]
      /\ worker \in [Worker -> WorkerState]
  BY DEF OInv, TypeOK, JobState, WorkerState
<1>2. CASE UNCHANGED <<job, worker, dlq, unburied>>
  BY <1>2 DEF FailedIsBuried, Runs
<1>3. ASSUME NEW e \in Event, AppendMessage(e)
      PROVE  UNCHANGED <<job, worker, dlq, unburied>>
  BY <1>3 DEF AppendMessage, jobVars, consumerVars
<1>4. ASSUME NEW p \in Publisher, PublisherStep(p) \/ EnqueueFails(p) \/ AbortBatch(p)
      PROVE  FailedIsBuried'
  <2>1. UNCHANGED consumerVars
    BY <1>4 DEF PublisherStep, ClaimBatch, Enqueue, CommitBatch, EnqueueFails, AbortBatch
  <2>2. \A q \in Queue, e \in Event : job'[q][e] = "failed" => job[q][e] = "failed"
    <3>1. ASSUME NEW q, NEW e, Add(q, e) \/ UNCHANGED jobVars
          PROVE  \A q2 \in Queue, e2 \in Event : job'[q2][e2] = "failed" => job[q2][e2] = "failed"
      BY <1>1, <3>1 DEF Add, jobVars
    <3>2. UNCHANGED jobVars \/ \E q, e : Add(q, e)
      BY <1>4 DEF PublisherStep, ClaimBatch, Enqueue, CommitBatch, EnqueueFails, AbortBatch
    <3>. QED  BY <3>1, <3>2
  <2>. QED  BY <2>1, <2>2, BuriedKept DEF consumerVars
<1>5. ASSUME NEW w \in Worker, ClaimEvent(w) \/ CommitEffect(w) \/ Push(w) \/ Discard(w)
                               \/ Throw(w) \/ LoseLock(w)
      PROVE  FailedIsBuried'
  <2>1. worker[w].pc # "burying" /\ dlq \subseteq dlq' /\ UNCHANGED <<job, unburied>>
    BY <1>5 DEF ClaimEvent, CommitEffect, Push, Discard, Throw, LoseLock, jobVars
  <2>2. \A v \in Worker \ {w} : worker'[v] = worker[v]
    BY <1>1, <1>5 DEF ClaimEvent, CommitEffect, Push, Discard, Throw, LoseLock
  <2>. QED  BY <2>1, <2>2, BuriedKept
<1>6. ASSUME NEW w \in Worker, Ack(w)
      PROVE  FailedIsBuried'
  <2>1. /\ worker[w].pc = "done" /\ UNCHANGED <<dlq, unburied>>
        /\ worker' = [worker EXCEPT ![w] = NoJob]
        /\ job' = job \/ job' = [job EXCEPT ![worker[w].q][worker[w].e] = "completed"]
    BY <1>6 DEF Ack
  <2>2. \A q \in Queue, e \in Event : job'[q][e] = "failed" => job[q][e] = "failed"
    BY <1>1, <2>1
  <2>3. \A v \in Worker \ {w} : worker'[v] = worker[v]
    BY <1>1, <2>1
  <2>. QED  BY <2>1, <2>2, <2>3, BuriedKept
<1>7. ASSUME NEW w \in Worker, Fail(w)
      PROVE  FailedIsBuried'
  <2>1. worker[w].pc = "failing" /\ UNCHANGED <<dlq, unburied>>
    BY <1>7 DEF Fail
  <2>2. PICK q \in Queue, e \in Event : q = worker[w].q /\ e = worker[w].e
    BY <2>1, WorkerFields
  <2>3. \A v \in Worker \ {w} : worker'[v] = worker[v]
    BY <1>1, <1>7 DEF Fail
  <2>4. CASE job' = job
    BY <2>1, <2>3, <2>4, BuriedKept
  <2>5. CASE job' # job
    <3>1. /\ job' = [job EXCEPT ![q][e] = IF made[q][e] + 1 >= JobAttempts THEN "failed" ELSE "waiting"]
          /\ worker' = [worker EXCEPT ![w] = IF made[q][e] + 1 >= JobAttempts
                                             THEN [@ EXCEPT !.pc = "burying"] ELSE NoJob]
      BY <1>7, <2>2, <2>5 DEF Fail, jobVars, IsExhausted
    <3>2. \A q2 \in Queue, e2 \in Event :
            job'[q2][e2] = IF q2 = q /\ e2 = e
                             THEN IF made[q][e] + 1 >= JobAttempts THEN "failed" ELSE "waiting"
                             ELSE job[q2][e2]
      BY <1>1, <3>1
    <3>3. made[q][e] + 1 >= JobAttempts => worker'[w] = [worker[w] EXCEPT !.pc = "burying"]
      BY <1>1, <3>1
    <3>4. made[q][e] + 1 >= JobAttempts => Runs(w, q, e)' /\ worker'[w].pc = "burying"
      BY <1>1, <2>2, <3>3 DEF Runs, WorkerState
    <3>5. \A q2 \in Queue, e2 \in Event : job'[q2][e2] = "failed" /\ job[q2][e2] # "failed" =>
            Runs(w, q2, e2)' /\ worker'[w].pc = "burying"
      BY <3>2, <3>4
    <3>. QED  BY <2>1, <2>3, <3>5, BuriedKept
  <2>. QED  BY <2>4, <2>5
<1>8. ASSUME NEW w \in Worker, Bury(w) \/ Crash(w)
      PROVE  FailedIsBuried'
  <2>1. /\ worker' = [worker EXCEPT ![w] = NoJob] /\ job' = job
        /\ dlq \subseteq dlq' /\ unburied \subseteq unburied'
        /\ worker[w].pc = "burying" => <<worker[w].q, worker[w].e>> \in dlq' \cup unburied'
    BY <1>8 DEF Bury, Crash, jobVars
  <2>2. \A v \in Worker \ {w} : worker'[v] = worker[v]
    BY <1>1, <2>1
  <2>. QED  BY <2>1, <2>2, BuriedKept
<1>9. ASSUME NEW q \in Queue, NEW e \in Event, Evict(q, e) \/ Recover(q, e) \/ \E w \in Worker : Take(w, q, e)
      PROVE  FailedIsBuried'
  <2>1. /\ UNCHANGED <<dlq, unburied>>
        /\ \E st \in {"absent", "waiting", "active"} : job' = [job EXCEPT ![q][e] = st]
        /\ \A w \in Worker : worker[w].pc = "burying" => worker'[w] = worker[w]
    <3>1. CASE Evict(q, e) \/ Recover(q, e)
      BY <3>1 DEF Evict, Recover, consumerVars
    <3>2. ASSUME NEW w \in Worker, Take(w, q, e)
          PROVE  /\ UNCHANGED <<dlq, unburied>>
                 /\ job' = [job EXCEPT ![q][e] = "active"]
                 /\ worker[w].pc # "burying" /\ \A v \in Worker \ {w} : worker'[v] = worker[v]
      BY <1>1, <3>2 DEF Take
    <3>. QED  BY <1>9, <3>1, <3>2
  <2>2. \A q2 \in Queue, e2 \in Event : job'[q2][e2] = "failed" => job[q2][e2] = "failed"
    BY <1>1, <2>1
  <2>. QED  BY <2>1, <2>2, BuriedKept
<1>. QED
  BY <1>2, <1>3, <1>4, <1>5, <1>6, <1>7, <1>8, <1>9 DEF Next, WorkerStep, vars

\* A published event is never lost to one of its queues: it is done with, or its
\* job will be run, or its copy is on the way to the dead letters, unless a
\* process died on that way.
THEOREM PublishedIsNotLost == Spec => []NothingIsLost
<1>1. Init => FailedIsBuried
  BY DEF Init, FailedIsBuried
<1>2. OInv /\ FailedIsBuried => NothingIsLost
  <2>. SUFFICES ASSUME OInv, FailedIsBuried, NEW e \in Event, message[e] = "published", NEW q \in QueuesOf(e)
                PROVE  \/ effects[q][e] > 0 \/ <<q, e>> \in dlq \cup unburied
                       \/ job[q][e] \in {"waiting", "active"}
                       \/ \E w \in Worker : Runs(w, q, e) /\ worker[w].pc = "burying"
    BY DEF NothingIsLost
  <2>1. q \in Queue
    BY RouteType
  <2>2. job[q][e] \in JobState
    BY <2>1 DEF OInv, TypeOK, JobState
  <2>3. job[q][e] = "absent" => Done(q, e)
    BY DEF OInv, PublishedReachedEveryQueue, Done
  <2>4. job[q][e] = "completed" => Done(q, e)
    BY <2>1 DEF OInv, JobsOK
  <2>. QED  BY <2>1, <2>2, <2>3, <2>4 DEF JobState, Done, FailedIsBuried
<1>. QED
  BY <1>1, <1>2, OutboxInvariant, BuriedStep, PTL DEF Spec

-----------------------------------------------------------------------------
(* Every repetition is paid for by a failure.                              *)

\* A batch serves each of its messages once.
OnceEach(b) ==
  \A i \in 1..Len(b.todo) : /\ b.todo[i] \notin b.done
                            /\ \A j \in 1..Len(b.todo) : b.todo[i] = b.todo[j] => i = j

BatchesServeOnce == \A p \in Publisher : OnceEach(pub[p])

LEMMA HeadServed ==
  ASSUME NEW b \in PubState, OnceEach(b), b.todo # <<>>
  PROVE  /\ Head(b.todo) \in Event /\ Head(b.todo) \notin b.done
         /\ \A c \in PubState :
              c.todo = Tail(b.todo) /\ c.done \subseteq b.done \cup {Head(b.todo)} => OnceEach(c)
<1>. DEFINE s == b.todo
<1>1. s \in Seq(Event) /\ s # <<>>
  BY DEF PubState
<1>2. /\ Head(s) = s[1] /\ 1 \in 1..Len(s) /\ Head(s) \in Event
      /\ Len(Tail(s)) = Len(s) - 1
      /\ \A i \in 1..Len(Tail(s)) : i + 1 \in 1..Len(s) /\ Tail(s)[i] = s[i + 1] /\ i + 1 # 1
  BY <1>1
<1>3. \A i \in 1..Len(s) : /\ s[i] \notin b.done
                           /\ \A j \in 1..Len(s) : s[i] = s[j] => i = j
  BY DEF OnceEach
<1>. HIDE DEF s
<1>4. \A i \in 1..Len(Tail(s)) : Tail(s)[i] \notin b.done \cup {Head(s)}
  BY <1>2, <1>3
<1>5. \A i, j \in 1..Len(Tail(s)) : Tail(s)[i] = Tail(s)[j] => i + 1 = j + 1
  BY <1>2, <1>3
<1>6. \A i, j \in 1..Len(Tail(s)) : Tail(s)[i] = Tail(s)[j] => i = j
  BY <1>5
<1>7. ASSUME NEW c \in PubState, c.todo = Tail(s), c.done \subseteq b.done \cup {Head(s)}
      PROVE  OnceEach(c)
  <2>1. \A i \in 1..Len(c.todo) : c.todo[i] \notin c.done
    BY <1>4, <1>7
  <2>2. \A i, j \in 1..Len(c.todo) : c.todo[i] = c.todo[j] => i = j
    BY <1>6, <1>7
  <2>. QED  BY <2>1, <2>2 DEF OnceEach
<1>8. Head(s) \in Event /\ Head(s) \notin b.done
  BY <1>2, <1>3
<1>. QED
  BY <1>7, <1>8 DEF s

LEMMA OneBatchMoves ==
  ASSUME OInv, BatchesServeOnce, NEW p \in Publisher, NEW b, OnceEach(b),
         pub' = [pub EXCEPT ![p] = b]
  PROVE  BatchesServeOnce'
<1>1. pub \in [Publisher -> PubState]
  BY DEF OInv, TypeOK, PubState
<1>. QED
  BY <1>1 DEF BatchesServeOnce

LEMMA ServeOnceStep == OInv /\ BatchesServeOnce /\ [Next]_vars => BatchesServeOnce'
<1>. SUFFICES ASSUME OInv, BatchesServeOnce, [Next]_vars PROVE BatchesServeOnce'
  OBVIOUS
<1>1. CASE UNCHANGED pub
  BY <1>1 DEF BatchesServeOnce
<1>2. OnceEach(NoBatch)
  BY DEF OnceEach, NoBatch
<1>3. ASSUME NEW p \in Publisher, CommitBatch(p) \/ AbortBatch(p)
      PROVE  BatchesServeOnce'
  BY <1>2, <1>3, OneBatchMoves DEF CommitBatch, AbortBatch
<1>4. ASSUME NEW p \in Publisher, ClaimBatch(p)
      PROVE  BatchesServeOnce'
  <2>1. PICK s \in Batches : /\ IsBatch(s)
                             /\ pub' = [pub EXCEPT ![p] = [NoBatch EXCEPT !.open = TRUE, !.todo = s]]
    BY <1>4 DEF ClaimBatch
  <2>2. PICK b \in PubState : b.todo = s /\ b.done = {} /\ pub' = [pub EXCEPT ![p] = b]
    <3>1. s \in Seq(Event)
      BY <2>1 DEF Batches
    <3>2. PICK c \in PubState : /\ c = [NoBatch EXCEPT !.open = TRUE, !.todo = s]
                                /\ c.todo = s /\ c.done = NoBatch.done
      BY <3>1, IdleTypes, OpenedBatch
    <3>. QED  BY <2>1, <3>2 DEF NoBatch
  <2>3. \A i, j \in 1..Len(s) : s[i] = s[j] => i = j
    <3>1. s \in Seq(Event) /\ Len(s) \in Nat
      BY <2>1 DEF Batches
    <3>2. \A i \in 1..Len(s) : s[i] \in Nat
      BY <3>1, OutboxAssumption
    <3>3. \A i, j \in 1..Len(s) : i < j => s[i] < s[j]
      BY <2>1 DEF IsBatch
    <3>. QED  BY <3>1, <3>2, <3>3
  <2>. QED  BY <2>2, <2>3, OneBatchMoves DEF OnceEach
<1>5. ASSUME NEW p \in Publisher, Enqueue(p) \/ EnqueueFails(p)
      PROVE  BatchesServeOnce'
  <2>1. PICK b \in PubState : b = pub[p]
    BY BatchFields
  <2>2. b.todo # <<>> /\ OnceEach(b)
    BY <1>5, <2>1 DEF Enqueue, EnqueueFails, BatchesServeOnce
  <2>3. Tail(b.todo) \in Seq(Event) /\ Head(b.todo) \in Event
    BY <2>2 DEF PubState
  <2>4. CASE pub' = [pub EXCEPT ![p].next = @ + 1]
    <3>. DEFINE c == [b EXCEPT !.next = @ + 1]
    <3>1. c.todo = b.todo /\ c.done = b.done
      BY DEF PubState
    <3>2. pub' = [pub EXCEPT ![p] = c]
      BY <2>1, <2>4
    <3>. QED  BY <2>2, <3>1, <3>2, OneBatchMoves DEF OnceEach
  <2>5. ASSUME pub' = [pub EXCEPT ![p] = Served(b, Tail(b.todo), b.done \cup {Head(b.todo)})]
        PROVE  BatchesServeOnce'
    <3>1. PICK t \in Seq(Event), d \in SUBSET Event : t = Tail(b.todo) /\ d = b.done \cup {Head(b.todo)}
      BY <2>3 DEF PubState
    <3>2. PICK c \in PubState : c = Served(b, t, d) /\ c.todo = t /\ c.done = d
      BY ServedBatch
    <3>3. OnceEach(c)
      BY <2>2, <3>1, <3>2, HeadServed
    <3>. QED  BY <2>5, <3>1, <3>2, <3>3, OneBatchMoves
  <2>6. ASSUME pub' = [pub EXCEPT ![p] = Spoilt(b, Tail(b.todo), b.bad \cup {Head(b.todo)})]
        PROVE  BatchesServeOnce'
    <3>1. PICK t \in Seq(Event), d \in SUBSET Event : t = Tail(b.todo) /\ d = b.bad \cup {Head(b.todo)}
      BY <2>3 DEF PubState
    <3>2. PICK c \in PubState : c = Spoilt(b, t, d) /\ c.todo = t /\ c.done = b.done
      BY SpoiltBatch
    <3>3. OnceEach(c)
      BY <2>2, <3>1, <3>2, HeadServed
    <3>. QED  BY <2>6, <3>1, <3>2, <3>3, OneBatchMoves
  <2>. QED  BY <1>5, <2>1, <2>4, <2>5, <2>6 DEF Enqueue, EnqueueFails, Served, Spoilt
<1>6. CASE UNCHANGED vars
  BY <1>1, <1>6 DEF vars
<1>7. ASSUME NEW w \in Worker, WorkerStep(w) \/ Throw(w) \/ Crash(w) \/ LoseLock(w)
      PROVE  UNCHANGED pub
  BY <1>7 DEF WorkerStep, ClaimEvent, CommitEffect, Push, Discard, Ack, Fail, Bury, Throw, Crash, LoseLock
<1>8. ASSUME NEW q \in Queue, NEW e \in Event, Evict(q, e) \/ Recover(q, e) \/ \E w \in Worker : Take(w, q, e)
      PROVE  UNCHANGED pub
  BY <1>8 DEF Evict, Recover, Take
<1>9. ASSUME NEW e \in Event, AppendMessage(e)
      PROVE  UNCHANGED pub
  BY <1>9 DEF AppendMessage
<1>. QED
  BY <1>1, <1>3, <1>4, <1>5, <1>6, <1>7, <1>8, <1>9 DEF Next, PublisherStep

\* A worker that is yet to do its push, and one whose acknowledgement would
\* complete the job.
Pushes(r, q, e) == r.pc \in {"active", "claimed"} /\ r.q = q /\ r.e = e
Carries(r, q, e) == r.pc \in {"active", "claimed", "done"} /\ r.owns /\ r.q = q /\ r.e = e

PushersIn(wk, q, e) == {w \in Worker : Pushes(wk[w], q, e)}

\* The job will be taken by one more worker.
JobDue(jb, wk, q, e) ==
  \/ jb[q][e] = "waiting"
  \/ jb[q][e] = "active" /\ \A w \in Worker : ~Carries(wk[w], q, e)

\* An open batch has added the job, and the job will be added once more.
HasAdded(b, q, e) ==
  b.open /\ \/ e \in b.done
            \/ /\ b.todo # <<>> /\ Head(b.todo) = e
               /\ \E i \in 1..Len(RouteOf[e]) : i < b.next /\ RouteOf[e][i] = q

AddDue(msg, pb, q, e) ==
  msg[e] # "published" /\ \A p \in Publisher : ~HasAdded(pb[p], q, e)

\* The same as numbers.
PushNo(r, q, e) == IF Pushes(r, q, e) THEN 1 ELSE 0
DropNo(r, x, q, e) == IF Carries(r, q, e) /\ ~Carries(x, q, e) THEN 1 ELSE 0
JobNo(jb, wk, q, e) == IF JobDue(jb, wk, q, e) THEN 1 ELSE 0
AddNo(msg, pb, q, e) == IF AddDue(msg, pb, q, e) THEN 1 ELSE 0

\* The pushes done, under way and still to come are one more than the failures.
Paid ==
  \A q \in Queue, e \in Event :
    effects[q][e] + Cardinality(PushersIn(worker, q, e))
      + JobNo(job, worker, q, e) + AddNo(message, pub, q, e) <= 1 + faults

LEMMA TermTypes ==
  ASSUME NEW q \in Queue, NEW e \in Event, NEW wk, NEW jb, NEW msg, NEW pb
  PROVE  /\ JobNo(jb, wk, q, e) \in {0, 1}
         /\ JobDue(jb, wk, q, e) <=> JobNo(jb, wk, q, e) = 1
         /\ AddNo(msg, pb, q, e) \in {0, 1}
         /\ AddDue(msg, pb, q, e) <=> AddNo(msg, pb, q, e) = 1
         /\ IsFiniteSet(PushersIn(wk, q, e))
         /\ Cardinality(PushersIn(wk, q, e)) \in Nat
<1>1. /\ JobNo(jb, wk, q, e) \in {0, 1} /\ (JobDue(jb, wk, q, e) <=> JobNo(jb, wk, q, e) = 1)
      /\ AddNo(msg, pb, q, e) \in {0, 1} /\ (AddDue(msg, pb, q, e) <=> AddNo(msg, pb, q, e) = 1)
  BY DEF JobNo, AddNo
<1>2. PushersIn(wk, q, e) \in SUBSET Worker
  BY DEF PushersIn
<1>3. IsFiniteSet(PushersIn(wk, q, e))
  BY <1>2, FS_Subset, RoutingAssumption
<1>4. Cardinality(PushersIn(wk, q, e)) \in Nat
  BY <1>3, FS_CardinalityType
<1>. QED
  BY <1>1, <1>3, <1>4

LEMMA PushersMoved ==
  ASSUME NEW wk, NEW w \in Worker, NEW x, NEW wk2,
         wk2[w] = x, \A v \in Worker \ {w} : wk2[v] = wk[v], NEW q \in Queue, NEW e \in Event
  PROVE  Cardinality(PushersIn(wk2, q, e)) + PushNo(wk[w], q, e)
           = Cardinality(PushersIn(wk, q, e)) + PushNo(x, q, e)
<1>. DEFINE P == PushersIn(wk, q, e)
            P2 == PushersIn(wk2, q, e)
<1>1. IsFiniteSet(P) /\ Cardinality(P) \in Nat
  BY TermTypes
<1>2. w \in P <=> Pushes(wk[w], q, e)
  BY DEF PushersIn
<1>3. P2 = IF Pushes(x, q, e) THEN P \cup {w} ELSE P \ {w}
  BY DEF PushersIn
<1>4. Cardinality(P \cup {w}) = IF w \in P THEN Cardinality(P) ELSE Cardinality(P) + 1
  BY <1>1, FS_AddElement
<1>5. Cardinality(P \ {w}) = IF w \in P THEN Cardinality(P) - 1 ELSE Cardinality(P)
  BY <1>1, FS_RemoveElement
<1>6. PICK m \in Nat : m = Cardinality(P)
  BY <1>1
<1>. HIDE DEF P, P2
<1>7. Cardinality(P2) = IF Pushes(x, q, e) THEN IF Pushes(wk[w], q, e) THEN m ELSE m + 1
                                           ELSE IF Pushes(wk[w], q, e) THEN m - 1 ELSE m
  BY <1>2, <1>3, <1>4, <1>5, <1>6
<1>8. Cardinality(P2) + PushNo(wk[w], q, e) = m + PushNo(x, q, e)
  BY <1>7 DEF PushNo
<1>. QED
  BY <1>6, <1>8 DEF P, P2

LEMMA WorkerMoves ==
  ASSUME OInv, NEW w \in Worker, NEW x, worker' = [worker EXCEPT ![w] = x]
  PROVE  \A q \in Queue, e \in Event :
           Cardinality(PushersIn(worker', q, e)) + PushNo(worker[w], q, e)
             = Cardinality(PushersIn(worker, q, e)) + PushNo(x, q, e)
<1>1. worker \in [Worker -> WorkerState]
  BY DEF OInv, TypeOK, WorkerState
<1>2. worker'[w] = x /\ \A v \in Worker \ {w} : worker'[v] = worker[v]
  BY <1>1
<1>3. ASSUME NEW f, f = worker', NEW g, g = worker
      PROVE  \A q \in Queue, e \in Event :
               Cardinality(PushersIn(f, q, e)) + PushNo(g[w], q, e)
                 = Cardinality(PushersIn(g, q, e)) + PushNo(x, q, e)
  <2>1. f[w] = x /\ \A v \in Worker \ {w} : f[v] = g[v]
    BY <1>2, <1>3
  <2>. QED  BY <2>1, PushersMoved
<1>. QED
  BY <1>3

\* A worker moves, and the jobs, the table and the batches stay.
LEMMA WorkerPays ==
  ASSUME OInv, Paid, NEW w \in Worker, NEW x \in WorkerState,
         worker' = [worker EXCEPT ![w] = x], UNCHANGED <<job, message, pub>>,
         faults' \in Nat,
         \A q \in Queue, e \in Event :
           /\ effects'[q][e] \in Nat
           /\ effects'[q][e] + PushNo(x, q, e) + faults
                + DropNo(worker[w], x, q, e)
              <= effects[q][e] + PushNo(worker[w], q, e) + faults'
  PROVE  Paid'
<1>. SUFFICES ASSUME NEW q \in Queue, NEW e \in Event
              PROVE  effects'[q][e] + Cardinality(PushersIn(worker', q, e))
                       + JobNo(job', worker', q, e) + AddNo(message', pub', q, e) <= 1 + faults'
  BY DEF Paid
<1>1. worker \in [Worker -> WorkerState] /\ effects[q][e] \in Nat /\ faults \in Nat
  BY OutboxAssumption DEF OInv, TypeOK, WorkerState
<1>2. worker'[w] = x /\ \A v \in Worker \ {w} : worker'[v] = worker[v]
  BY <1>1
<1>3. Cardinality(PushersIn(worker', q, e)) + PushNo(worker[w], q, e)
        = Cardinality(PushersIn(worker, q, e)) + PushNo(x, q, e)
  BY WorkerMoves
<1>4. JobDue(job', worker', q, e) =>
        JobDue(job, worker, q, e) \/ (Carries(worker[w], q, e) /\ ~Carries(x, q, e))
  BY <1>2 DEF JobDue
<1>5. JobNo(job', worker', q, e) <=
        JobNo(job, worker, q, e) + DropNo(worker[w], x, q, e)
  BY <1>4 DEF JobNo, DropNo
<1>6. /\ PushNo(worker[w], q, e) \in {0, 1} /\ PushNo(x, q, e) \in {0, 1}
      /\ DropNo(worker[w], x, q, e) \in {0, 1}
  BY DEF PushNo, DropNo
<1>7. /\ JobNo(job, worker, q, e) \in {0, 1} /\ JobNo(job', worker', q, e) \in {0, 1}
      /\ AddNo(message, pub, q, e) \in {0, 1}
      /\ Cardinality(PushersIn(worker, q, e)) \in Nat /\ Cardinality(PushersIn(worker', q, e)) \in Nat
  BY TermTypes
<1>8. AddDue(message', pub', q, e) = AddDue(message, pub, q, e)
  OBVIOUS
<1>9. effects[q][e] + Cardinality(PushersIn(worker, q, e))
        + JobNo(job, worker, q, e) + AddNo(message, pub, q, e) <= 1 + faults
  BY DEF Paid
<1>10. /\ effects'[q][e] \in Nat /\ faults' \in Nat
      /\ effects'[q][e] + PushNo(x, q, e) + faults
           + DropNo(worker[w], x, q, e)
         <= effects[q][e] + PushNo(worker[w], q, e) + faults'
  OBVIOUS
<1>. QED
  BY <1>1, <1>3, <1>5, <1>6, <1>7, <1>8, <1>9, <1>10

\* A publisher moves, and the workers and their effects stay.
LEMMA PublisherPays ==
  ASSUME OInv, Paid, UNCHANGED <<worker, effects>>, faults' \in Nat,
         \A q \in Queue, e \in Event :
           JobNo(job', worker, q, e) + AddNo(message', pub', q, e) + faults
             <= JobNo(job, worker, q, e) + AddNo(message, pub, q, e) + faults'
  PROVE  Paid'
<1>. SUFFICES ASSUME NEW q \in Queue, NEW e \in Event
              PROVE  effects[q][e] + Cardinality(PushersIn(worker, q, e))
                       + JobNo(job', worker, q, e) + AddNo(message', pub', q, e) <= 1 + faults'
  BY DEF Paid
<1>1. effects[q][e] \in Nat /\ faults \in Nat /\ faults' \in Nat
  BY OutboxAssumption DEF OInv, TypeOK
<1>2. /\ JobNo(job, worker, q, e) \in {0, 1} /\ JobNo(job', worker, q, e) \in {0, 1}
      /\ AddNo(message, pub, q, e) \in {0, 1} /\ AddNo(message', pub', q, e) \in {0, 1}
      /\ Cardinality(PushersIn(worker, q, e)) \in Nat
  BY TermTypes
<1>3. effects[q][e] + Cardinality(PushersIn(worker, q, e))
        + JobNo(job, worker, q, e) + AddNo(message, pub, q, e) <= 1 + faults
  BY DEF Paid
<1>4. JobNo(job', worker, q, e) + AddNo(message', pub', q, e) + faults
        <= JobNo(job, worker, q, e) + AddNo(message, pub, q, e) + faults'
  OBVIOUS
<1>. QED
  BY <1>1, <1>2, <1>3, <1>4

\* A worker and the job of (q, e) move together.
LEMMA JobPays ==
  ASSUME OInv, Paid, UNCHANGED <<effects, message, pub, faults>>,
         worker' \in [Worker -> WorkerState],
         \A q \in Queue, e \in Event :
           Cardinality(PushersIn(worker', q, e)) + JobNo(job', worker', q, e)
             <= Cardinality(PushersIn(worker, q, e)) + JobNo(job, worker, q, e)
  PROVE  Paid'
<1>. SUFFICES ASSUME NEW q \in Queue, NEW e \in Event
              PROVE  effects[q][e] + Cardinality(PushersIn(worker', q, e))
                       + JobNo(job', worker', q, e) + AddNo(message, pub, q, e) <= 1 + faults
  BY DEF Paid
<1>1. effects[q][e] \in Nat /\ faults \in Nat
  BY OutboxAssumption DEF OInv, TypeOK
<1>2. /\ JobNo(job, worker, q, e) \in {0, 1} /\ JobNo(job', worker', q, e) \in {0, 1}
      /\ AddNo(message, pub, q, e) \in {0, 1}
      /\ Cardinality(PushersIn(worker, q, e)) \in Nat /\ Cardinality(PushersIn(worker', q, e)) \in Nat
  BY TermTypes
<1>3. effects[q][e] + Cardinality(PushersIn(worker, q, e))
        + JobNo(job, worker, q, e) + AddNo(message, pub, q, e) <= 1 + faults
  BY DEF Paid
<1>4. Cardinality(PushersIn(worker', q, e)) + JobNo(job', worker', q, e)
        <= Cardinality(PushersIn(worker, q, e)) + JobNo(job, worker, q, e)
  OBVIOUS
<1>. QED
  BY <1>1, <1>2, <1>3, <1>4

LEMMA PushEffects ==
  ASSUME OInv, NEW q \in Queue, NEW e \in Event,
         effects' = [effects EXCEPT ![q][e] = @ + 1] \/ effects' = effects
  PROVE  \A q2 \in Queue, e2 \in Event :
           /\ effects[q2][e2] \in Nat /\ effects'[q2][e2] \in Nat
           /\ effects'[q2][e2] <= effects[q2][e2] + IF q2 = q /\ e2 = e THEN 1 ELSE 0
<1>1. effects \in [Queue -> [Event -> Nat]]
  BY DEF OInv, TypeOK
<1>2. \A q2 \in Queue, e2 \in Event : effects[q2][e2] \in Nat
  BY <1>1
<1>3. CASE effects' = effects
  BY <1>2, <1>3
<1>4. CASE effects' = [effects EXCEPT ![q][e] = @ + 1]
  <2>1. effects[q][e] + 1 \in Nat /\ effects' = [effects EXCEPT ![q][e] = effects[q][e] + 1]
    BY <1>1, <1>4
  <2>2. \A q2 \in Queue, e2 \in Event :
          effects'[q2][e2] = IF q2 = q /\ e2 = e THEN effects[q][e] + 1 ELSE effects[q2][e2]
    BY <1>1, <2>1, EntrySet
  <2>. QED  BY <1>2, <2>1, <2>2
<1>. QED
  BY <1>3, <1>4

\* A step that only goes on with a job pays with the push it does.
LEMMA HandlerPays ==
  ASSUME OInv, Paid, NEW w \in Worker,
         ClaimEvent(w) \/ CommitEffect(w) \/ Push(w) \/ Discard(w)
  PROVE  Paid'
<1>1. /\ worker[w].pc \in {"active", "claimed"}
      /\ \E pc \in {"claimed", "done"} : /\ worker' = [worker EXCEPT ![w].pc = pc]
                                         /\ effects' # effects => pc = "done"
      /\ effects' = [effects EXCEPT ![worker[w].q][worker[w].e] = @ + 1] \/ effects' = effects
      /\ UNCHANGED <<job, message, pub, faults>>
  BY DEF ClaimEvent, CommitEffect, Push, Discard, tableVars, jobVars
<1>2. PICK q \in Queue, e \in Event : q = worker[w].q /\ e = worker[w].e
  BY <1>1, WorkerFields
<1>3. PICK pc \in {"claimed", "done", "failing"} :
        /\ pc # "failing" /\ worker' = [worker EXCEPT ![w].pc = pc]
        /\ effects' # effects => pc = "done"
  BY <1>1
<1>4. PICK x \in WorkerState :
        /\ x.pc = pc /\ x.q = q /\ x.e = e /\ x.owns = worker[w].owns
        /\ worker' = [worker EXCEPT ![w] = x]
  <2>1. \E x \in WorkerState :
          /\ x.pc = pc /\ x.q = worker[w].q /\ x.e = worker[w].e /\ x.owns = worker[w].owns
          /\ worker' = [worker EXCEPT ![w] = x]
    <3>1. worker[w].pc # "idle" /\ worker' = [worker EXCEPT ![w].pc = pc]
      BY <1>1, <1>3
    <3>. QED  BY <3>1, GoneTo
  <2>. QED  BY <1>2, <2>1
<1>5. /\ UNCHANGED <<job, message, pub>> /\ faults' = faults /\ faults \in Nat
  BY <1>1, OutboxAssumption DEF OInv, TypeOK
<1>6. \A q2 \in Queue, e2 \in Event :
        /\ effects[q2][e2] \in Nat /\ effects'[q2][e2] \in Nat
        /\ effects'[q2][e2] <= effects[q2][e2] + IF q2 = q /\ e2 = e THEN 1 ELSE 0
  BY <1>1, <1>2, PushEffects
<1>7. \A q2 \in Queue, e2 \in Event :
        /\ PushNo(worker[w], q2, e2) = IF q2 = q /\ e2 = e THEN 1 ELSE 0
        /\ PushNo(x, q2, e2) = IF q2 = q /\ e2 = e /\ pc = "claimed" THEN 1 ELSE 0
        /\ DropNo(worker[w], x, q2, e2) = 0
  <2>1. x.pc \in {"claimed", "done"}
    BY <1>3, <1>4
  <2>. QED  BY <1>1, <1>2, <1>4, <2>1 DEF PushNo, DropNo, Pushes, Carries
<1>8. \A q2 \in Queue, e2 \in Event :
        effects'[q2][e2] + PushNo(x, q2, e2) <= effects[q2][e2] + PushNo(worker[w], q2, e2)
  <2>1. CASE pc = "claimed"
    <3>1. effects' = effects
      BY <1>3, <2>1
    <3>. QED  BY <1>6, <1>7, <3>1
  <2>2. CASE pc = "done"
    BY <1>6, <1>7, <2>2
  <2>. QED  BY <1>3, <2>1, <2>2
<1>9. \A q2 \in Queue, e2 \in Event :
        /\ effects'[q2][e2] \in Nat
        /\ effects'[q2][e2] + PushNo(x, q2, e2) + faults + DropNo(worker[w], x, q2, e2)
             <= effects[q2][e2] + PushNo(worker[w], q2, e2) + faults'
  <2>1. \A q2 \in Queue, e2 \in Event : PushNo(x, q2, e2) \in {0, 1} /\ PushNo(worker[w], q2, e2) \in {0, 1}
    BY DEF PushNo
  <2>. QED  BY <1>5, <1>6, <1>7, <1>8, <2>1
<1>. QED
  BY <1>4, <1>5, <1>9, WorkerPays

\* A failure costs a fault, and the job it leaves behind is run once more at most.
LEMMA FailurePays ==
  ASSUME OInv, Paid, NEW w \in Worker, Throw(w) \/ Crash(w) \/ LoseLock(w)
  PROVE  Paid'
<1>1. /\ worker[w].pc # "idle" /\ faults' = faults + 1 /\ faults \in Nat /\ faults' \in Nat
      /\ UNCHANGED <<job, message, pub, effects>>
  BY OutboxAssumption DEF OInv, TypeOK, Throw, Crash, LoseLock, Fault, tableVars, jobVars
<1>2. PICK x \in WorkerState :
        /\ worker' = [worker EXCEPT ![w] = x]
        /\ x.pc \in {"idle", "failing"} \/ (x.pc = worker[w].pc /\ x.q = worker[w].q /\ x.e = worker[w].e)
  <2>1. CASE Throw(w)
    <3>1. worker' = [worker EXCEPT ![w].pc = "failing"]
      BY <2>1 DEF Throw
    <3>. QED  BY <1>1, <3>1, GoneTo
  <2>2. CASE Crash(w)
    BY <2>2, IdleTypes DEF Crash, NoJob
  <2>3. CASE LoseLock(w)
    <3>. DEFINE y == [worker[w] EXCEPT !.owns = FALSE]
    <3>1. worker[w] \in WorkerState
      BY <1>1, WorkerFields
    <3>2. y \in WorkerState /\ y.pc = worker[w].pc /\ y.q = worker[w].q /\ y.e = worker[w].e
      BY <3>1 DEF WorkerState
    <3>3. worker' = [worker EXCEPT ![w] = y]
      BY <2>3 DEF LoseLock
    <3>. QED  BY <3>2, <3>3
  <2>. QED  BY <2>1, <2>2, <2>3
<1>3. \A q \in Queue, e \in Event :
        /\ PushNo(x, q, e) \in {0, 1} /\ PushNo(worker[w], q, e) \in {0, 1}
        /\ DropNo(worker[w], x, q, e) \in {0, 1}
        /\ PushNo(x, q, e) <= PushNo(worker[w], q, e)
  BY <1>2 DEF PushNo, DropNo, Pushes
<1>4. \A q \in Queue, e \in Event : effects[q][e] \in Nat
  BY DEF OInv, TypeOK
<1>5. \A q \in Queue, e \in Event :
        /\ effects'[q][e] \in Nat
        /\ effects'[q][e] + PushNo(x, q, e) + faults + DropNo(worker[w], x, q, e)
             <= effects[q][e] + PushNo(worker[w], q, e) + faults'
  BY <1>1, <1>3, <1>4
<1>. QED
  BY <1>1, <1>2, <1>5, WorkerPays

LEMMA BuryPays ==
  ASSUME OInv, Paid, NEW w \in Worker, Bury(w)
  PROVE  Paid'
<1>1. /\ worker[w].pc = "burying" /\ faults' = faults /\ faults \in Nat
      /\ worker' = [worker EXCEPT ![w] = NoJob]
      /\ UNCHANGED <<job, message, pub, effects>>
  BY OutboxAssumption DEF OInv, TypeOK, Bury, tableVars, jobVars
<1>2. \A q \in Queue, e \in Event :
        /\ PushNo(NoJob, q, e) = 0 /\ PushNo(worker[w], q, e) = 0
        /\ DropNo(worker[w], NoJob, q, e) = 0
  BY <1>1 DEF PushNo, DropNo, Pushes, Carries, NoJob
<1>3. \A q \in Queue, e \in Event : effects[q][e] \in Nat
  BY DEF OInv, TypeOK
<1>4. \A q \in Queue, e \in Event :
        /\ effects'[q][e] \in Nat
        /\ effects'[q][e] + PushNo(NoJob, q, e) + faults + DropNo(worker[w], NoJob, q, e)
             <= effects[q][e] + PushNo(worker[w], q, e) + faults'
  BY <1>1, <1>2, <1>3
<1>. QED
  BY <1>1, <1>4, IdleTypes, WorkerPays

\* Taking a job turns one that is due into a push to come.
LEMMA TakePays ==
  ASSUME OInv, Paid, NEW w \in Worker, NEW q \in Queue, NEW e \in Event, Take(w, q, e)
  PROVE  Paid'
<1>. DEFINE x == [pc |-> "active", q |-> q, e |-> e, owns |-> TRUE]
<1>1. /\ worker[w].pc = "idle" /\ job[q][e] = "waiting"
      /\ job' = [job EXCEPT ![q][e] = "active"]
      /\ worker' = [worker EXCEPT ![w] = x]
      /\ UNCHANGED <<effects, message, pub, faults>>
  BY DEF Take, tableVars
<1>2. /\ worker \in [Worker -> WorkerState] /\ job \in [Queue -> [Event -> JobState]]
      /\ x \in WorkerState
  BY DEF OInv, TypeOK, WorkerState, JobState
<1>3. worker' \in [Worker -> WorkerState]
  BY <1>1, <1>2
<1>4. \A q2 \in Queue, e2 \in Event :
        job'[q2][e2] = IF q2 = q /\ e2 = e THEN "active" ELSE job[q2][e2]
  <2>1. "active" \in JobState
    BY DEF JobState
  <2>. QED  BY <1>1, <1>2, <2>1, EntrySet
<1>5. worker'[w] = x /\ \A v \in Worker \ {w} : worker'[v] = worker[v]
  BY <1>1, <1>2
<1>6. ASSUME NEW q2 \in Queue, NEW e2 \in Event
      PROVE  Cardinality(PushersIn(worker', q2, e2)) + JobNo(job', worker', q2, e2)
               <= Cardinality(PushersIn(worker, q2, e2)) + JobNo(job, worker, q2, e2)
  <2>1. Cardinality(PushersIn(worker', q2, e2)) + PushNo(worker[w], q2, e2)
          = Cardinality(PushersIn(worker, q2, e2)) + PushNo(x, q2, e2)
    BY <1>1, WorkerMoves
  <2>2. PushNo(worker[w], q2, e2) = 0
        /\ PushNo(x, q2, e2) = IF q2 = q /\ e2 = e THEN 1 ELSE 0
    BY <1>1 DEF PushNo, Pushes
  <2>3. JobDue(job', worker', q2, e2) =>
          JobDue(job, worker, q2, e2) /\ ~(q2 = q /\ e2 = e)
    <3>1. CASE q2 = q /\ e2 = e
      BY <1>4, <1>5, <3>1 DEF JobDue, Carries
    <3>2. CASE ~(q2 = q /\ e2 = e)
      <4>1. job'[q2][e2] = job[q2][e2] /\ ~Carries(worker[w], q2, e2)
        BY <1>1, <1>4, <3>2 DEF Carries
      <4>. QED  BY <1>5, <3>2, <4>1 DEF JobDue
    <3>. QED  BY <3>1, <3>2
  <2>4. q2 = q /\ e2 = e => JobDue(job, worker, q2, e2)
    BY <1>1 DEF JobDue
  <2>5. /\ Cardinality(PushersIn(worker', q2, e2)) \in Nat
        /\ Cardinality(PushersIn(worker, q2, e2)) \in Nat
    BY TermTypes
  <2>6. JobNo(job', worker', q2, e2) + PushNo(x, q2, e2) <= JobNo(job, worker, q2, e2)
    BY <2>2, <2>3, <2>4 DEF JobNo
  <2>7. /\ JobNo(job, worker, q2, e2) \in {0, 1} /\ JobNo(job', worker', q2, e2) \in {0, 1}
    BY TermTypes
  <2>8. PushNo(x, q2, e2) \in {0, 1}
    BY DEF PushNo
  <2>. HIDE DEF x
  <2>. QED  BY <2>1, <2>2, <2>5, <2>6, <2>7, <2>8
<1>. QED
  BY <1>1, <1>3, <1>6, JobPays

\* Ending a run without a push, and without a job that is not due already.
LEMMA EndPays ==
  ASSUME OInv, Paid, NEW w \in Worker, NEW x \in WorkerState,
         worker[w].pc \in {"done", "failing"}, x.pc \in {"idle", "burying"},
         worker' = [worker EXCEPT ![w] = x],
         UNCHANGED <<effects, message, pub, faults>>,
         \A q \in Queue, e \in Event : JobDue(job', worker', q, e) => JobDue(job, worker, q, e)
  PROVE  Paid'
<1>1. worker' \in [Worker -> WorkerState]
  BY DEF OInv, TypeOK, WorkerState
<1>2. ASSUME NEW q \in Queue, NEW e \in Event
      PROVE  Cardinality(PushersIn(worker', q, e)) + JobNo(job', worker', q, e)
               <= Cardinality(PushersIn(worker, q, e)) + JobNo(job, worker, q, e)
  <2>1. Cardinality(PushersIn(worker', q, e)) + PushNo(worker[w], q, e)
          = Cardinality(PushersIn(worker, q, e)) + PushNo(x, q, e)
    BY WorkerMoves
  <2>2. PushNo(worker[w], q, e) = 0 /\ PushNo(x, q, e) = 0
    BY DEF PushNo, Pushes
  <2>3. JobNo(job', worker', q, e) <= JobNo(job, worker, q, e)
    <3>1. JobDue(job', worker', q, e) => JobDue(job, worker, q, e)
      OBVIOUS
    <3>. QED  BY <3>1, TermTypes
  <2>4. /\ Cardinality(PushersIn(worker', q, e)) \in Nat
        /\ Cardinality(PushersIn(worker, q, e)) \in Nat
        /\ JobNo(job, worker, q, e) \in {0, 1} /\ JobNo(job', worker', q, e) \in {0, 1}
    BY TermTypes
  <2>. QED  BY <2>1, <2>2, <2>3, <2>4
<1>. QED
  BY <1>1, <1>2, JobPays

LEMMA AckPays ==
  ASSUME OInv, Paid, NEW w \in Worker, Ack(w)
  PROVE  Paid'
<1>1. /\ worker[w].pc = "done" /\ worker' = [worker EXCEPT ![w] = NoJob]
      /\ UNCHANGED <<effects, message, pub, faults>>
  BY DEF Ack, tableVars
<1>2. PICK q \in Queue, e \in Event : q = worker[w].q /\ e = worker[w].e
  BY <1>1, WorkerFields
<1>3. worker \in [Worker -> WorkerState] /\ job \in [Queue -> [Event -> JobState]]
  BY DEF OInv, TypeOK, WorkerState, JobState
<1>4. \A v \in Worker \ {w} : worker'[v] = worker[v]
  BY <1>1, <1>3
<1>5. ASSUME NEW q2 \in Queue, NEW e2 \in Event, JobDue(job', worker', q2, e2)
      PROVE  JobDue(job, worker, q2, e2)
  <2>1. CASE worker[w].owns
    <3>1. job' = [job EXCEPT ![q][e] = "completed"]
      BY <1>2, <2>1 DEF Ack
    <3>2. job'[q2][e2] = IF q2 = q /\ e2 = e THEN "completed" ELSE job[q2][e2]
      BY <1>3, <3>1
    <3>3. ~(q2 = q /\ e2 = e) /\ job'[q2][e2] = job[q2][e2]
      BY <1>5, <3>2 DEF JobDue
    <3>4. ~Carries(worker[w], q2, e2)
      BY <1>2, <3>3 DEF Carries
    <3>. QED  BY <1>4, <1>5, <3>3, <3>4 DEF JobDue
  <2>2. CASE ~worker[w].owns
    <3>1. job' = job /\ ~Carries(worker[w], q2, e2)
      BY <2>2 DEF Ack, Carries
    <3>. QED  BY <1>4, <1>5, <3>1 DEF JobDue
  <2>. QED  BY <2>1, <2>2
<1>6. NoJob \in WorkerState /\ NoJob.pc = "idle"
  BY IdleTypes DEF NoJob
<1>. QED
  BY <1>1, <1>5, <1>6, EndPays

\* The job a failing owner gives back was due already: nobody else carries it.
LEMMA FailPays ==
  ASSUME OInv, Paid, NEW w \in Worker, Fail(w)
  PROVE  Paid'
<1>1. worker[w].pc = "failing" /\ UNCHANGED <<effects, message, pub, faults>>
  BY DEF Fail, tableVars
<1>2. PICK q \in Queue, e \in Event : q = worker[w].q /\ e = worker[w].e
  BY <1>1, WorkerFields
<1>3. worker \in [Worker -> WorkerState] /\ job \in [Queue -> [Event -> JobState]]
  BY DEF OInv, TypeOK, WorkerState, JobState
<1>4. PICK x \in WorkerState : x.pc \in {"idle", "burying"} /\ worker' = [worker EXCEPT ![w] = x]
  <2>. DEFINE y == [worker[w] EXCEPT !.pc = "burying"]
  <2>1. y \in WorkerState /\ y.pc = "burying"
    BY <1>3 DEF WorkerState
  <2>2. NoJob \in WorkerState /\ NoJob.pc = "idle"
    BY IdleTypes DEF NoJob
  <2>3. worker' = [worker EXCEPT ![w] = y] \/ worker' = [worker EXCEPT ![w] = NoJob]
    BY DEF Fail
  <2>. QED  BY <2>1, <2>2, <2>3
<1>5. \A v \in Worker \ {w} : worker'[v] = worker[v]
  BY <1>3, <1>4
<1>6. \A q2, e2 : ~Carries(worker[w], q2, e2)
  BY <1>1 DEF Carries
<1>7. ASSUME NEW q2 \in Queue, NEW e2 \in Event, JobDue(job', worker', q2, e2)
      PROVE  JobDue(job, worker, q2, e2)
  <2>1. CASE job'[q2][e2] = job[q2][e2]
    BY <1>5, <1>6, <1>7, <2>1 DEF JobDue
  <2>2. CASE job'[q2][e2] # job[q2][e2]
    <3>1. /\ worker[w].owns
          /\ job' = [job EXCEPT ![q][e] = IF made[q][e] + 1 >= JobAttempts THEN "failed" ELSE "waiting"]
      BY <1>2, <2>2 DEF Fail, jobVars
    <3>2. q2 = q /\ e2 = e
      BY <1>3, <2>2, <3>1
    <3>3. Owner(w) /\ job[q][e] = "active"
      BY <1>1, <1>2, <3>1 DEF OInv, WorkersOK, Owner
    <3>4. \A v \in Worker : ~Carries(worker[v], q, e)
      BY <1>2, <1>6, <3>3 DEF OInv, WorkersOK, Owner, SameJob, Carries
    <3>. QED  BY <3>2, <3>3, <3>4 DEF JobDue
  <2>. QED  BY <2>1, <2>2
<1>. QED
  BY <1>1, <1>4, <1>7, EndPays

LEMMA QueuePays ==
  ASSUME OInv, Paid, NEW q \in Queue, NEW e \in Event, Recover(q, e) \/ Evict(q, e)
  PROVE  Paid'
<1>1. /\ UNCHANGED <<worker, effects, message, pub, faults>>
      /\ \E st \in {"absent", "waiting"} :
           /\ job' = [job EXCEPT ![q][e] = st]
           /\ st = "waiting" => JobDue(job, worker, q, e)
  <2>1. CASE Recover(q, e)
    BY <2>1 DEF Recover, tableVars, consumerVars, JobDue, Carries, Runs
  <2>2. CASE Evict(q, e)
    BY <2>2 DEF Evict, tableVars, consumerVars
  <2>. QED  BY <2>1, <2>2
<1>2. job \in [Queue -> [Event -> JobState]] /\ worker \in [Worker -> WorkerState]
  BY DEF OInv, TypeOK, WorkerState, JobState
<1>3. \A q2 \in Queue, e2 \in Event : JobDue(job', worker', q2, e2) => JobDue(job, worker, q2, e2)
  BY <1>1, <1>2 DEF JobDue
<1>4. \A q2 \in Queue, e2 \in Event : JobNo(job', worker', q2, e2) <= JobNo(job, worker, q2, e2)
  BY <1>3 DEF JobNo
<1>5. \A q2 \in Queue, e2 \in Event :
        Cardinality(PushersIn(worker', q2, e2)) + JobNo(job', worker', q2, e2)
          <= Cardinality(PushersIn(worker, q2, e2)) + JobNo(job, worker, q2, e2)
  <2>. SUFFICES ASSUME NEW q2 \in Queue, NEW e2 \in Event
                PROVE  Cardinality(PushersIn(worker', q2, e2)) + JobNo(job', worker', q2, e2)
                         <= Cardinality(PushersIn(worker, q2, e2)) + JobNo(job, worker, q2, e2)
    OBVIOUS
  <2>1. /\ Cardinality(PushersIn(worker, q2, e2)) \in Nat
        /\ JobNo(job, worker, q2, e2) \in {0, 1} /\ JobNo(job', worker', q2, e2) \in {0, 1}
    BY TermTypes
  <2>2. Cardinality(PushersIn(worker', q2, e2)) = Cardinality(PushersIn(worker, q2, e2))
    BY <1>1
  <2>. QED  BY <1>4, <2>1, <2>2
<1>. QED
  BY <1>1, <1>2, <1>5, JobPays

\* A batch is replaced by one that has added no less, and the jobs stay.
LEMMA BatchPays ==
  ASSUME OInv, Paid, NEW p \in Publisher, NEW b,
         pub' = [pub EXCEPT ![p] = b], UNCHANGED <<worker, effects, job, message, faults>>,
         \A q \in Queue, e \in Event : HasAdded(pub[p], q, e) => HasAdded(b, q, e)
  PROVE  Paid'
<1>1. pub \in [Publisher -> PubState] /\ faults \in Nat
  BY OutboxAssumption DEF OInv, TypeOK, PubState
<1>2. pub'[p] = b /\ \A r \in Publisher \ {p} : pub'[r] = pub[r]
  BY <1>1
<1>3. ASSUME NEW q \in Queue, NEW e \in Event
      PROVE  JobNo(job', worker, q, e) + AddNo(message', pub', q, e) + faults
               <= JobNo(job, worker, q, e) + AddNo(message, pub, q, e) + faults'
  <2>1. AddDue(message', pub', q, e) => AddDue(message, pub, q, e)
    BY <1>2 DEF AddDue
  <2>2. /\ JobNo(job', worker, q, e) = JobNo(job, worker, q, e)
        /\ faults' = faults
    OBVIOUS
  <2>3. /\ JobNo(job, worker, q, e) \in {0, 1}
        /\ AddNo(message', pub', q, e) <= AddNo(message, pub, q, e)
        /\ AddNo(message', pub', q, e) \in {0, 1} /\ AddNo(message, pub, q, e) \in {0, 1}
    BY <2>1, TermTypes
  <2>. QED  BY <1>1, <2>2, <2>3
<1>. QED
  BY <1>1, <1>3, PublisherPays

\* The head of a batch that has not been added to q is due there.
LEMMA HeadIsDue ==
  ASSUME OInv, BatchesServeOnce, NEW p \in Publisher, pub[p].open, pub[p].todo # <<>>,
         NEW q \in Queue, NEW e \in Event, e = Head(pub[p].todo),
         \A i \in 1..Len(RouteOf[e]) : i < pub[p].next => RouteOf[e][i] # q
  PROVE  AddDue(message, pub, q, e)
<1>1. pub[p] \in PubState
  BY BatchFields
<1>2. e \notin pub[p].done
  BY <1>1, HeadServed DEF BatchesServeOnce
<1>3. ~HasAdded(pub[p], q, e)
  BY <1>2 DEF HasAdded
<1>4. Holds(p, e) /\ message[e] = "pending"
  BY HeadOfBatch
<1>5. ASSUME NEW r \in Publisher, HasAdded(pub[r], q, e)
      PROVE  r = p
  <2>1. pub[r].todo # <<>> /\ pub[r].open => Holds(r, Head(pub[r].todo))
    BY HeadOfBatch
  <2>2. Holds(r, e)
    BY <1>5, <2>1 DEF HasAdded, Holds, Has
  <2>. QED  BY <1>4, <2>2 DEF OInv, BatchesOK
<1>. QED
  BY <1>3, <1>4, <1>5 DEF AddDue

\* What Queue.add does to one job.
LEMMA AddDoes ==
  ASSUME OInv, NEW q \in Queue, NEW e \in Event, Add(q, e) \/ UNCHANGED jobVars
  PROVE  \A q2 \in Queue, e2 \in Event :
           (q2 = q /\ e2 = e) \/ (JobDue(job', worker, q2, e2) => JobDue(job, worker, q2, e2))
<1>1. job \in [Queue -> [Event -> JobState]]
  BY DEF OInv, TypeOK, JobState
<1>2. job' = job \/ job' = [job EXCEPT ![q][e] = "waiting"]
  BY DEF Add, jobVars
<1>. QED
  BY <1>1, <1>2 DEF JobDue

LEMMA EnqueuePays ==
  ASSUME OInv, BatchesServeOnce, Paid, NEW p \in Publisher, Enqueue(p)
  PROVE  Paid'
<1>1. /\ pub[p].open /\ pub[p].todo # <<>>
      /\ UNCHANGED <<worker, effects, message, faults>> /\ faults \in Nat
  BY OutboxAssumption DEF OInv, TypeOK, Enqueue, tableVars, consumerVars
<1>2. PICK o \in PubState : o = pub[p]
  BY BatchFields
<1>3. PICK e \in Event : e = Head(o.todo)
  BY <1>1, <1>2, HeadOfBatch
<1>4. o.next \in Nat \ {0} /\ RouteOf[e] \in Seq(Queue) /\ pub \in [Publisher -> PubState]
  BY RouteType DEF PubState, OInv, TypeOK
<1>5. CASE o.next > Len(RouteOf[e])
  <2>1. PICK t \in Seq(Event), d \in SUBSET Event : t = Tail(o.todo) /\ d = o.done \cup {e}
    BY <1>1, <1>2, <1>3, HeadOfBatch DEF PubState
  <2>2. PICK c \in PubState : c = Served(o, t, d) /\ c.open = o.open /\ c.todo = t /\ c.done = d
    BY ServedBatch
  <2>3. pub' = [pub EXCEPT ![p] = c] /\ job' = job
    BY <1>2, <1>3, <1>5, <2>1, <2>2 DEF Enqueue, Served, jobVars
  <2>4. \A q \in Queue, e2 \in Event : HasAdded(pub[p], q, e2) => HasAdded(c, q, e2)
    BY <1>2, <1>3, <2>1, <2>2 DEF HasAdded
  <2>. QED  BY <1>1, <2>3, <2>4, BatchPays
<1>6. CASE ~(o.next > Len(RouteOf[e]))
  <2>1. o.next \in 1..Len(RouteOf[e])
    BY <1>4, <1>6
  <2>2. PICK q \in Queue : q = RouteOf[e][o.next]
    BY <2>1, RouteType
  <2>3. /\ Add(q, e)
        /\ pub' = [pub EXCEPT ![p].next = @ + 1]
    BY <1>2, <1>3, <1>6, <2>2 DEF Enqueue
  <2>4. PICK b : /\ b.open = o.open /\ b.todo = o.todo /\ b.next = o.next + 1 /\ b.done = o.done
                 /\ pub' = [pub EXCEPT ![p] = b]
    <3>. DEFINE c == [o EXCEPT !.next = @ + 1]
    <3>1. c.open = o.open /\ c.todo = o.todo /\ c.next = o.next + 1 /\ c.done = o.done
      BY DEF PubState
    <3>2. pub' = [pub EXCEPT ![p] = c]
      BY <1>2, <2>3
    <3>. QED  BY <3>1, <3>2
  <2>5. pub'[p] = b /\ \A r \in Publisher \ {p} : pub'[r] = pub[r]
    BY <1>4, <2>4
  <2>6. \A q2 \in Queue, e2 \in Event : HasAdded(pub[p], q2, e2) => HasAdded(b, q2, e2)
    BY <1>2, <1>4, <2>4 DEF HasAdded
  <2>7. \A q2 \in Queue, e2 \in Event : AddDue(message', pub', q2, e2) => AddDue(message, pub, q2, e2)
    BY <1>1, <2>5, <2>6 DEF AddDue
  <2>8. ~AddDue(message', pub', q, e)
    <3>1. HasAdded(b, q, e)
      BY <1>1, <1>2, <1>3, <1>4, <2>1, <2>2, <2>4 DEF HasAdded
    <3>. QED  BY <2>5, <3>1 DEF AddDue
  <2>9. AddDue(message, pub, q, e)
    <3>1. \A i \in 1..Len(RouteOf[e]) : i < pub[p].next => RouteOf[e][i] # q
      BY <1>2, <2>1, <2>2, RoutingAssumption
    <3>. QED  BY <1>1, <1>2, <1>3, <3>1, HeadIsDue
  <2>10. \A q2 \in Queue, e2 \in Event :
           (q2 = q /\ e2 = e) \/ (JobDue(job', worker, q2, e2) => JobDue(job, worker, q2, e2))
    BY <2>3, AddDoes
  <2>11. ASSUME NEW q2 \in Queue, NEW e2 \in Event
         PROVE  JobNo(job', worker, q2, e2) + AddNo(message', pub', q2, e2) + faults
                  <= JobNo(job, worker, q2, e2) + AddNo(message, pub, q2, e2) + faults'
    <3>1. /\ JobNo(job', worker, q2, e2) \in {0, 1} /\ JobNo(job, worker, q2, e2) \in {0, 1}
          /\ AddNo(message', pub', q2, e2) \in {0, 1} /\ AddNo(message, pub, q2, e2) \in {0, 1}
      BY TermTypes
    <3>2. CASE q2 = q /\ e2 = e
      <4>1. AddNo(message', pub', q2, e2) = 0 /\ AddNo(message, pub, q2, e2) = 1
        BY <2>8, <2>9, <3>2 DEF AddNo
      <4>. QED  BY <1>1, <3>1, <4>1
    <3>3. CASE ~(q2 = q /\ e2 = e)
      <4>1. /\ JobNo(job', worker, q2, e2) <= JobNo(job, worker, q2, e2)
            /\ AddNo(message', pub', q2, e2) <= AddNo(message, pub, q2, e2)
        BY <2>7, <2>10, <3>3 DEF JobNo, AddNo
      <4>. QED  BY <1>1, <3>1, <4>1
    <3>. QED  BY <3>2, <3>3
  <2>. QED  BY <1>1, <2>11, PublisherPays
<1>. QED
  BY <1>5, <1>6

\* A message that could not be added is due once more in each of its queues, and
\* perhaps its job as well: what was due before and the fault pay for both.
LEMMA EnqueueFailsPays ==
  ASSUME OInv, BatchesServeOnce, Paid, NEW p \in Publisher, EnqueueFails(p)
  PROVE  Paid'
<1>1. /\ pub[p].open /\ pub[p].todo # <<>>
      /\ UNCHANGED <<worker, effects, message>>
      /\ faults' = faults + 1 /\ faults \in Nat /\ faults' \in Nat
  <2>1. /\ pub[p].open /\ pub[p].todo # <<>> /\ Fault
        /\ UNCHANGED <<tableVars, consumerVars>>
    BY DEF EnqueueFails
  <2>. QED  BY <2>1, OutboxAssumption DEF OInv, TypeOK, Fault, tableVars, consumerVars
<1>2. PICK o \in PubState : o = pub[p]
  BY BatchFields
<1>3. PICK e \in Event : e = Head(o.todo)
  BY <1>1, <1>2, HeadOfBatch
<1>4. /\ o.next \in Nat \ {0} /\ RouteOf[e] \in Seq(Queue) /\ pub \in [Publisher -> PubState]
      /\ o.next <= Len(RouteOf[e])
  <2>1. o.next <= Len(RouteOf[e])
    BY <1>2, <1>3 DEF EnqueueFails
  <2>. QED  BY <2>1, RouteType DEF PubState, OInv, TypeOK
<1>5. o.next \in 1..Len(RouteOf[e])
  BY <1>4
<1>6. PICK q \in Queue : q = RouteOf[e][o.next]
  BY <1>5, RouteType
<1>7. Add(q, e) \/ UNCHANGED jobVars
  BY <1>2, <1>3, <1>6 DEF EnqueueFails
<1>8. PICK t \in Seq(Event), d \in SUBSET Event : t = Tail(o.todo) /\ d = o.bad \cup {e}
  BY <1>1, <1>2, <1>3, HeadOfBatch DEF PubState
<1>9. PICK c \in PubState : /\ c = Spoilt(o, t, d) /\ c.open = o.open /\ c.todo = t
                            /\ c.next = 1 /\ c.done = o.done
  BY SpoiltBatch
<1>10. pub' = [pub EXCEPT ![p] = c]
  BY <1>2, <1>3, <1>8, <1>9 DEF EnqueueFails, Spoilt
<1>11. pub'[p] = c /\ \A r \in Publisher \ {p} : pub'[r] = pub[r]
  BY <1>4, <1>10
<1>12. \A q2 \in Queue, e2 \in Event : e2 # e /\ HasAdded(pub[p], q2, e2) => HasAdded(c, q2, e2)
  BY <1>2, <1>3, <1>9 DEF HasAdded
<1>13. \A q2 \in Queue, e2 \in Event :
         e2 # e /\ AddDue(message', pub', q2, e2) => AddDue(message, pub, q2, e2)
  BY <1>1, <1>11, <1>12 DEF AddDue
<1>14. AddDue(message, pub, q, e)
  <2>1. \A i \in 1..Len(RouteOf[e]) : i < pub[p].next => RouteOf[e][i] # q
    BY <1>2, <1>5, <1>6, RoutingAssumption
  <2>. QED  BY <1>1, <1>2, <1>3, <2>1, HeadIsDue
<1>15. \A q2 \in Queue, e2 \in Event :
         (q2 = q /\ e2 = e) \/ (JobDue(job', worker, q2, e2) => JobDue(job, worker, q2, e2))
  BY <1>7, AddDoes
<1>16. ASSUME NEW q2 \in Queue, NEW e2 \in Event
       PROVE  JobNo(job', worker, q2, e2) + AddNo(message', pub', q2, e2) + faults
                <= JobNo(job, worker, q2, e2) + AddNo(message, pub, q2, e2) + faults'
  <2>1. /\ JobNo(job', worker, q2, e2) \in {0, 1} /\ JobNo(job, worker, q2, e2) \in {0, 1}
        /\ AddNo(message', pub', q2, e2) \in {0, 1} /\ AddNo(message, pub, q2, e2) \in {0, 1}
    BY TermTypes
  <2>2. CASE q2 = q /\ e2 = e
    <3>1. AddNo(message, pub, q2, e2) = 1
      BY <1>14, <2>2 DEF AddNo
    <3>. QED  BY <1>1, <2>1, <3>1
  <2>3. CASE ~(q2 = q /\ e2 = e)
    <3>1. JobNo(job', worker, q2, e2) <= JobNo(job, worker, q2, e2)
      BY <1>15, <2>3 DEF JobNo
    <3>. QED  BY <1>1, <2>1, <3>1
  <2>. QED  BY <2>2, <2>3
<1>. QED
  BY <1>1, <1>16, PublisherPays

\* The marks of a batch and the end of it; a batch that is aborted, and its
\* messages due again, costs a fault.
LEMMA BatchEndPays ==
  ASSUME OInv, BatchesServeOnce, Paid, NEW p \in Publisher,
         CommitBatch(p) \/ AbortBatch(p) \/ ClaimBatch(p)
  PROVE  Paid'
<1>1. UNCHANGED <<worker, effects, job>> /\ faults \in Nat /\ pub \in [Publisher -> PubState]
  <2>1. UNCHANGED <<jobVars, consumerVars>>
    BY DEF CommitBatch, AbortBatch, ClaimBatch
  <2>. QED  BY <2>1, OutboxAssumption DEF OInv, TypeOK, jobVars, consumerVars, PubState
<1>2. CASE CommitBatch(p)
  <2>1. /\ pub[p].todo = <<>> /\ pub' = [pub EXCEPT ![p] = NoBatch] /\ faults' = faults
        /\ message' = [e \in Event |-> IF e \in pub[p].done THEN "published" ELSE message[e]]
    BY <1>2 DEF CommitBatch
  <2>2. \A r \in Publisher \ {p} : pub'[r] = pub[r]
    BY <1>1, <2>1
  <2>3. \A q \in Queue, e \in Event : AddDue(message', pub', q, e) => AddDue(message, pub, q, e)
    BY <2>1, <2>2 DEF AddDue, HasAdded
  <2>4. ASSUME NEW q \in Queue, NEW e \in Event
        PROVE  JobNo(job', worker, q, e) + AddNo(message', pub', q, e) + faults
                 <= JobNo(job, worker, q, e) + AddNo(message, pub, q, e) + faults'
    <3>1. JobNo(job, worker, q, e) \in {0, 1} /\ JobNo(job', worker, q, e) = JobNo(job, worker, q, e)
      BY <1>1, TermTypes
    <3>2. /\ AddNo(message', pub', q, e) <= AddNo(message, pub, q, e)
          /\ AddNo(message', pub', q, e) \in {0, 1} /\ AddNo(message, pub, q, e) \in {0, 1}
      BY <2>3, TermTypes
    <3>. QED  BY <1>1, <2>1, <3>1, <3>2
  <2>. QED  BY <1>1, <2>1, <2>4, PublisherPays
<1>3. CASE AbortBatch(p)
  <2>1. faults' = faults + 1 /\ faults' \in Nat
    BY <1>1, <1>3 DEF AbortBatch, Fault
  <2>2. ASSUME NEW q \in Queue, NEW e \in Event
        PROVE  JobNo(job', worker, q, e) + AddNo(message', pub', q, e) + faults
                 <= JobNo(job, worker, q, e) + AddNo(message, pub, q, e) + faults'
    <3>1. JobNo(job, worker, q, e) \in {0, 1} /\ JobNo(job', worker, q, e) = JobNo(job, worker, q, e)
      BY <1>1, TermTypes
    <3>2. AddNo(message', pub', q, e) \in {0, 1} /\ AddNo(message, pub, q, e) \in {0, 1}
      BY TermTypes
    <3>. QED  BY <1>1, <2>1, <3>1, <3>2
  <2>. QED  BY <1>1, <2>1, <2>2, PublisherPays
<1>4. CASE ClaimBatch(p)
  <2>1. ~pub[p].open /\ UNCHANGED <<worker, effects, job, message, faults>>
        /\ \E b : pub' = [pub EXCEPT ![p] = b]
    BY <1>1, <1>4 DEF ClaimBatch, tableVars
  <2>2. \A q \in Queue, e \in Event : ~HasAdded(pub[p], q, e)
    BY <2>1 DEF HasAdded
  <2>. QED  BY <2>1, <2>2, BatchPays
<1>. QED
  BY <1>2, <1>3, <1>4

LEMMA PaidStep == OInv /\ BatchesServeOnce /\ Paid /\ [Next]_vars => Paid'
<1>. SUFFICES ASSUME OInv, BatchesServeOnce, Paid, [Next]_vars PROVE Paid'
  OBVIOUS
<1>1. ASSUME NEW p \in Publisher, PublisherStep(p) \/ EnqueueFails(p) \/ AbortBatch(p)
      PROVE  Paid'
  BY <1>1, EnqueuePays, EnqueueFailsPays, BatchEndPays DEF PublisherStep
<1>2. ASSUME NEW w \in Worker, WorkerStep(w) \/ Throw(w) \/ Crash(w) \/ LoseLock(w)
      PROVE  Paid'
  BY <1>2, HandlerPays, FailurePays, BuryPays, AckPays, FailPays DEF WorkerStep
<1>3. ASSUME NEW q \in Queue, NEW e \in Event, Evict(q, e) \/ Recover(q, e) \/ \E w \in Worker : Take(w, q, e)
      PROVE  Paid'
  BY <1>3, QueuePays, TakePays
<1>4. CASE UNCHANGED vars
  BY <1>4 DEF vars, Paid
<1>5. ASSUME NEW d \in Event, AppendMessage(d)
      PROVE  Paid'
  <2>1. /\ message[d] = "absent" /\ message' = [message EXCEPT ![d] = "pending"]
        /\ UNCHANGED <<worker, effects, job, pub, faults>> /\ faults \in Nat
    BY <1>5, OutboxAssumption DEF AppendMessage, OInv, TypeOK, jobVars, consumerVars
  <2>2. \A q \in Queue, e \in Event : AddDue(message', pub', q, e) => AddDue(message, pub, q, e)
    BY <2>1 DEF AddDue, OInv, TypeOK
  <2>3. ASSUME NEW q \in Queue, NEW e \in Event
        PROVE  JobNo(job', worker, q, e) + AddNo(message', pub', q, e) + faults
                 <= JobNo(job, worker, q, e) + AddNo(message, pub, q, e) + faults'
    <3>1. JobNo(job, worker, q, e) \in {0, 1} /\ JobNo(job', worker, q, e) = JobNo(job, worker, q, e)
      BY <2>1, TermTypes
    <3>2. /\ AddNo(message', pub', q, e) <= AddNo(message, pub, q, e)
          /\ AddNo(message', pub', q, e) \in {0, 1} /\ AddNo(message, pub, q, e) \in {0, 1}
      BY <2>2, TermTypes
    <3>. QED  BY <2>1, <3>1, <3>2
  <2>. QED  BY <2>1, <2>3, PublisherPays
<1>. QED
  BY <1>1, <1>2, <1>3, <1>4, <1>5 DEF Next

\* Whatever a consumer repeats, with or without processed_messages, it repeats
\* because something failed: n failures make at most n + 1 effects of an event.
THEOREM DuplicatesPaid == Spec => []DuplicatesArePaidFor
<1>1. Init => BatchesServeOnce /\ Paid
  <2>. SUFFICES ASSUME Init PROVE BatchesServeOnce /\ Paid
    OBVIOUS
  <2>1. BatchesServeOnce
    BY DEF Init, BatchesServeOnce, OnceEach, NoBatch
  <2>2. ASSUME NEW q \in Queue, NEW e \in Event
        PROVE  effects[q][e] + Cardinality(PushersIn(worker, q, e))
                 + JobNo(job, worker, q, e) + AddNo(message, pub, q, e) <= 1 + faults
    <3>1. effects[q][e] = 0 /\ faults = 0 /\ ~JobDue(job, worker, q, e)
      BY DEF Init, JobDue
    <3>2. PushersIn(worker, q, e) = {}
      BY DEF Init, PushersIn, Pushes, NoJob
    <3>3. Cardinality(PushersIn(worker, q, e)) = 0 /\ JobNo(job, worker, q, e) = 0
      BY <3>1, <3>2, FS_EmptySet DEF JobNo
    <3>4. AddNo(message, pub, q, e) \in {0, 1}
      BY TermTypes
    <3>. QED  BY <3>1, <3>3, <3>4
  <2>. QED  BY <2>1, <2>2 DEF Paid
<1>2. OInv /\ Paid => DuplicatesArePaidFor
  <2>. SUFFICES ASSUME OInv, Paid, NEW q \in Queue, NEW e \in Event
                PROVE  effects[q][e] <= 1 + faults
    BY DEF DuplicatesArePaidFor
  <2>1. /\ effects[q][e] \in Nat /\ faults \in Nat
    BY OutboxAssumption DEF OInv, TypeOK
  <2>2. /\ Cardinality(PushersIn(worker, q, e)) \in Nat
        /\ JobNo(job, worker, q, e) \in {0, 1} /\ AddNo(message, pub, q, e) \in {0, 1}
    BY TermTypes
  <2>3. effects[q][e] + Cardinality(PushersIn(worker, q, e))
          + JobNo(job, worker, q, e) + AddNo(message, pub, q, e) <= 1 + faults
    BY DEF Paid
  <2>. QED  BY <2>1, <2>2, <2>3
<1>. QED
  BY <1>1, <1>2, OutboxInvariant, ServeOnceStep, PaidStep, PTL DEF Spec

-----------------------------------------------------------------------------
(* The pipeline implements EventDelivery.                                  *)

Emitted == {e \in Event : message[e] # "absent"}
Taken == [q \in Guarded |-> effects[q]]

\* Whatever leaves the table and the effects alone is a stutter.
LEMMA QuietForDelivery ==
  ASSUME UNCHANGED <<message, effects>>
  PROVE  UNCHANGED <<Emitted, Taken>>
BY DEF Emitted, Taken

LEMMA AppendDelivers ==
  ASSUME OInv, NEW e \in Event, AppendMessage(e)
  PROVE  Delivery!Emit(e)
<1>1. message' = [message EXCEPT ![e] = "pending"] /\ message[e] = "absent"
      /\ UNCHANGED effects
  BY DEF AppendMessage, consumerVars
<1>2. message \in [Event -> {"absent", "pending", "published"}]
  BY DEF OInv, TypeOK
<1>3. Emitted' = Emitted \cup {e} /\ e \notin Emitted
  BY <1>1, <1>2 DEF Emitted
<1>4. Taken' = Taken
  BY <1>1 DEF Taken
<1>. QED
  BY <1>3, <1>4 DEF Delivery!Emit, Emitted, Taken

LEMMA CommitDelivers ==
  ASSUME OInv, NEW w \in Worker, CommitEffect(w)
  PROVE  \E q \in Guarded, e \in Event : Delivery!Deliver(q, e)
<1>1. worker[w].pc = "claimed"
  BY DEF CommitEffect
<1>2. PICK q \in Queue, e \in Event : q = worker[w].q /\ e = worker[w].e
  BY <1>1, WorkerFields
<1>3. /\ q \in Guarded /\ e \notin processed[q]
      /\ message[e] # "absent" /\ q \in QueuesOf(e)
  BY <1>1, <1>2 DEF OInv, WorkersOK
<1>4. effects' = [effects EXCEPT ![q][e] = @ + 1] /\ UNCHANGED message
  BY <1>2 DEF CommitEffect, tableVars
<1>5. effects[q][e] = 0
  BY <1>3 DEF OInv, EffectsOK
<1>6. effects \in [Queue -> [Event -> Nat]]
  BY DEF OInv, TypeOK
<1>7. effects' = [effects EXCEPT ![q] = [effects[q] EXCEPT ![e] = 1]]
  BY <1>4, <1>5, <1>6
<1>8. Taken' = [Taken EXCEPT ![q] = [Taken[q] EXCEPT ![e] = 1]]
  BY <1>3, <1>6, <1>7, OutboxAssumption DEF Taken
<1>9. e \in Emitted /\ Taken[q][e] = 0 /\ Emitted' = Emitted
  BY <1>3, <1>4, <1>5 DEF Emitted, Taken
<1>10. Delivery!Deliver(q, e)
  BY <1>3, <1>8, <1>9 DEF Delivery!Deliver, Emitted, Taken
<1>. QED
  BY <1>3, <1>10

LEMMA PushDelivers ==
  ASSUME OInv, NEW w \in Worker, Push(w)
  PROVE  UNCHANGED <<Emitted, Taken>>
<1>1. worker[w].pc = "active"
  BY DEF Push
<1>2. PICK q \in Queue, e \in Event : q = worker[w].q /\ e = worker[w].e
  BY <1>1, WorkerFields
<1>3. /\ q \notin Guarded /\ UNCHANGED message
      /\ effects' = [effects EXCEPT ![q][e] = @ + 1]
  BY <1>2 DEF Push, tableVars
<1>4. effects \in [Queue -> [Event -> Nat]]
  BY DEF OInv, TypeOK
<1>5. \A r \in Guarded : effects'[r] = effects[r]
  BY <1>3, <1>4, OutboxAssumption
<1>. QED
  BY <1>3, <1>5 DEF Emitted, Taken

LEMMA PublishDelivers ==
  ASSUME OInv, NEW p \in Publisher, CommitBatch(p)
  PROVE  UNCHANGED <<Emitted, Taken>>
<1>1. /\ pub[p].open /\ UNCHANGED effects
      /\ message' = [e \in Event |-> IF e \in pub[p].done THEN "published" ELSE message[e]]
  BY DEF CommitBatch, consumerVars
<1>2. \A e \in Event : e \in pub[p].done => message[e] = "pending"
  BY <1>1 DEF OInv, BatchesOK, Holds, Has
<1>. QED
  BY <1>1, <1>2 DEF Emitted, Taken

LEMMA StepDelivers ==
  ASSUME OInv, [Next]_vars
  PROVE  Delivery!Next \/ UNCHANGED <<Emitted, Taken>>
<1>1. ASSUME NEW e \in Event, AppendMessage(e)
      PROVE  Delivery!Next
  BY <1>1, AppendDelivers DEF Delivery!Next
<1>2. ASSUME NEW p \in Publisher, PublisherStep(p) \/ EnqueueFails(p) \/ AbortBatch(p)
      PROVE  Delivery!Next \/ UNCHANGED <<Emitted, Taken>>
  <2>1. CASE CommitBatch(p)
    <3>. QED  BY <2>1, PublishDelivers
  <2>2. ASSUME ClaimBatch(p) \/ Enqueue(p) \/ EnqueueFails(p) \/ AbortBatch(p)
        PROVE  UNCHANGED <<Emitted, Taken>>
    <3>1. UNCHANGED <<tableVars, consumerVars>>
      BY <2>2 DEF ClaimBatch, Enqueue, EnqueueFails, AbortBatch
    <3>. QED  BY <3>1, QuietForDelivery DEF tableVars, consumerVars
  <2>. QED  BY <1>2, <2>1, <2>2 DEF PublisherStep
<1>3. ASSUME NEW w \in Worker, CommitEffect(w)
      PROVE  Delivery!Next
  BY <1>3, CommitDelivers, OutboxAssumption DEF Delivery!Next
<1>4. ASSUME NEW w \in Worker, Push(w)
      PROVE  UNCHANGED <<Emitted, Taken>>
  BY <1>4, PushDelivers
<1>5. ASSUME NEW w \in Worker, ClaimEvent(w) \/ Discard(w) \/ Ack(w) \/ Fail(w) \/ Bury(w)
                               \/ Throw(w) \/ Crash(w) \/ LoseLock(w)
      PROVE  UNCHANGED <<Emitted, Taken>>
  <2>1. UNCHANGED <<message, effects>>
    BY <1>5 DEF ClaimEvent, Discard, Ack, Fail, Bury, Throw, Crash, LoseLock, tableVars
  <2>. QED  BY <2>1, QuietForDelivery
<1>6. ASSUME NEW q \in Queue, NEW e \in Event, Evict(q, e) \/ Recover(q, e) \/ \E w \in Worker : Take(w, q, e)
      PROVE  UNCHANGED <<Emitted, Taken>>
  <2>1. UNCHANGED <<message, effects>>
    BY <1>6 DEF Evict, Recover, Take, tableVars, consumerVars
  <2>. QED  BY <2>1, QuietForDelivery
<1>7. ASSUME UNCHANGED vars
      PROVE  UNCHANGED <<Emitted, Taken>>
  BY <1>7, QuietForDelivery DEF vars
<1>. QED
  BY <1>1, <1>2, <1>3, <1>4, <1>5, <1>6, <1>7 DEF Next, WorkerStep

\* Every step of publishers, queues and workers is one step of the exactly-once
\* delivery to the consumers with processed_messages, or is invisible there.
THEOREM PipelineDelivers == Spec => ImplementsDelivery
<1>1. Init => Delivery!Init
  <2>. SUFFICES ASSUME Init PROVE Delivery!Init
    OBVIOUS
  <2>1. Emitted = {}
    BY DEF Init, Emitted
  <2>2. Taken = [q \in Guarded |-> [e \in Event |-> 0]]
    BY OutboxAssumption DEF Init, Taken
  <2>. QED  BY <2>1, <2>2 DEF Delivery!Init, Emitted, Taken
<1>2. OInv /\ [Next]_vars => [Delivery!Next]_<<Emitted, Taken>>
  BY StepDelivers
<1>. QED
  BY <1>1, <1>2, OutboxInvariant, PTL DEF Spec, ImplementsDelivery, Delivery!Spec, Emitted, Taken
=============================================================================
