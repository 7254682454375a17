-------------------------- MODULE SlaTimers_proofs --------------------------
(***************************************************************************)
(* Theorems about SlaTimers, for any number of tickets, workers and        *)
(* sweepers, any policies, any size of a sweep and any bounds.             *)
(***************************************************************************)
EXTENDS SlaTimers, FiniteSetTheorems, TLAPS

-----------------------------------------------------------------------------
(* The invariant.                                                          *)

\* The fact that stops a timer of a kind.
StopName(k) == IF k = "RESPONSE" THEN "agent_comment" ELSE "resolved"

\* A timer, stored or copied, that follows from the facts.
TimerFine(t, k, r) ==
  /\ r \in Timer
  /\ [name |-> "created", ticket |-> t, at |-> r.startedAt] \in facts
  /\ \E target \in Targets : r.dueAt = r.startedAt + target[k]
  /\ r.stoppedAt # NULL => [name |-> StopName(k), ticket |-> t, at |-> r.stoppedAt] \in facts
  /\ r.stoppedAt = NULL \/ r.breachedAt = NULL
  /\ r.breachedAt # NULL => r.dueAt <= r.breachedAt

JobState == [pc : {"idle", "claimed", "loaded", "saved"}, fact : Fact \cup {NULL},
             copy : [Kind -> Timer \cup {NULL}]]

SweepState == [pc : {"idle", "swept", "begun", "loaded", "saved"},
               todo : SUBSET (Ticket \X Kind), now : 0..MaxTime,
               id : (Ticket \X Kind) \cup {NULL}, copy : Timer \cup {NULL}]

\* The job of the ticket's creation has committed.
Started(t) == \E f \in processed : f.name = "created" /\ f.ticket = t

\* A job that holds a copy holds a running one until it stops it, and only a
\* start job writes a running timer.
JobFine(j) ==
  /\ j \in JobState
  /\ j.pc # "idle" => j.fact \in facts \ processed
  /\ j.pc \in {"loaded", "saved"} => \A k \in Kind : j.copy[k] # NULL =>
       /\ TimerFine(j.fact.ticket, k, j.copy[k]) /\ j.copy[k].breachedAt = NULL
       /\ j.fact.name = "created" \/ Started(j.fact.ticket)
  /\ j.pc = "loaded" => \A k \in Kind : j.copy[k] # NULL =>
       k \in StoppedBy(j.fact.name) /\ IsRunning(j.copy[k])
  /\ j.pc = "saved" => \/ j.fact.name = "created"
                       \/ \A k \in Kind : j.copy[k] # NULL => ~IsRunning(j.copy[k])

Holding == {"begun", "loaded", "saved"}

\* The timers of a sweep exist, and the copy it holds is of their row: running
\* and due until it breaches it.
SweepFine(x) ==
  /\ x \in SweepState
  /\ \A id \in x.todo : timers[id[1]][id[2]] # NULL
  /\ x.pc \in Holding => x.id \in Ticket \X Kind /\ timers[x.id[1]][x.id[2]] # NULL
  /\ x.pc \in {"loaded", "saved"} =>
       /\ TimerFine(x.id[1], x.id[2], x.copy)
       /\ x.copy.dueAt = timers[x.id[1]][x.id[2]].dueAt
  /\ x.pc = "loaded" => IsOverdue(x.copy, x.now)
  /\ x.pc = "saved" => x.copy.breachedAt # NULL

\* A ticket is created once, and its rows come from the job of that fact.
FactsOK ==
  \A f, g \in facts : f.name = "created" /\ g.name = "created" /\ f.ticket = g.ticket => f = g

RowsOK ==
  \A t \in Ticket, k \in Kind : timers[t][k] # NULL =>
    /\ TimerFine(t, k, timers[t][k]) /\ Started(t)
    /\ timers[t][k].breachedAt # NULL => breaches[t][k] > 0

JobsOK ==
  /\ \A w \in Worker : JobFine(job[w])
  /\ \A v, w \in Worker : job[v].pc # "idle" /\ job[w].pc # "idle" /\ job[v].fact = job[w].fact => v = w

SweepsOK == \A s \in Sweeper : SweepFine(sweep[s])

SInv == TypeOK /\ FactsOK /\ RowsOK /\ JobsOK /\ SweepsOK

-----------------------------------------------------------------------------
(* Records.                                                                *)

LEMMA TimerFields ==
  ASSUME NEW r \in Timer
  PROVE  /\ r.startedAt \in Nat /\ r.dueAt \in Nat /\ r # NULL
         /\ r.stoppedAt \in Nat \cup {NULL} /\ r.breachedAt \in Nat \cup {NULL}
BY NullAssumption DEF Timer

LEMMA IdleFine == JobFine(NoJob) /\ SweepFine(NoSweep)
<1>1. NoCopy \in [Kind -> Timer \cup {NULL}]
  BY DEF NoCopy
<1>2. NoJob \in JobState
  BY <1>1 DEF NoJob, JobState
<1>3. 0 \in 0..MaxTime
  BY SlaAssumption
<1>4. NoSweep \in SweepState
  BY <1>3 DEF NoSweep, SweepState
<1>. QED
  BY <1>2, <1>4 DEF JobFine, SweepFine, NoJob, NoSweep, Holding

LEMMA SInit == Init => SInv
<1>. SUFFICES ASSUME Init PROVE SInv
  OBVIOUS
<1>1. NoJob \in JobState /\ NoSweep \in SweepState
  BY IdleFine DEF JobFine, SweepFine
<1>2. job \in [Worker -> JobState] /\ sweep \in [Sweeper -> SweepState]
  BY <1>1 DEF Init
<1>3. clock \in 0..MaxTime /\ faults \in 0..MaxFaults
  BY SlaAssumption DEF Init
<1>4. TypeOK
  BY <1>2, <1>3 DEF Init, TypeOK, JobState, SweepState
<1>5. FactsOK /\ RowsOK
  BY DEF Init, FactsOK, RowsOK
<1>6. JobsOK
  BY IdleFine DEF Init, JobsOK, NoJob
<1>7. SweepsOK
  BY IdleFine DEF Init, SweepsOK
<1>. QED
  BY <1>4, <1>5, <1>6, <1>7 DEF SInv

LEMMA Types ==
  ASSUME SInv
  PROVE  /\ facts \subseteq Fact /\ processed \subseteq facts
         /\ timers \in [Ticket -> [Kind -> Timer \cup {NULL}]]
         /\ breaches \in [Ticket -> [Kind -> Nat]]
         /\ job \in [Worker -> JobState] /\ sweep \in [Sweeper -> SweepState]
         /\ clock \in 0..MaxTime /\ faults \in 0..MaxFaults
BY DEF SInv, TypeOK, JobState, SweepState

-----------------------------------------------------------------------------
(* Frames.                                                                 *)

\* Facts and rows stay, and a row keeps its instants.
Kept ==
  /\ facts \subseteq facts'
  /\ \A t \in Ticket, k \in Kind : timers[t][k] # NULL =>
       /\ timers'[t][k] # NULL
       /\ timers'[t][k].startedAt = timers[t][k].startedAt
       /\ timers'[t][k].dueAt = timers[t][k].dueAt

LEMMA TimerKept ==
  ASSUME NEW t, NEW k, NEW r, TimerFine(t, k, r), facts \subseteq facts'
  PROVE  TimerFine(t, k, r)'
BY DEF TimerFine

LEMMA JobKept ==
  ASSUME NEW j, JobFine(j), facts \subseteq facts', processed \subseteq processed', j.pc # "idle" => j.fact \notin processed'
  PROVE  JobFine(j)'
<1>2. Started(j.fact.ticket) => Started(j.fact.ticket)'
  BY DEF Started
<1>1. \A k \in Kind : TimerFine(j.fact.ticket, k, j.copy[k]) => TimerFine(j.fact.ticket, k, j.copy[k])'
  BY TimerKept
<1>. QED
  BY <1>1, <1>2 DEF JobFine

LEMMA SweepKept ==
  ASSUME NEW x, SweepFine(x), Kept
  PROVE  SweepFine(x)'
<1>1. TimerFine(x.id[1], x.id[2], x.copy) => TimerFine(x.id[1], x.id[2], x.copy)'
  BY TimerKept DEF Kept
<1>2. x \in SweepState
  BY DEF SweepFine
<1>3. \A id \in x.todo : id[1] \in Ticket /\ id[2] \in Kind
  BY <1>2 DEF SweepState
<1>4. x.pc \in Holding => x.id[1] \in Ticket /\ x.id[2] \in Kind
  BY DEF SweepFine
<1>5. x.pc \in {"loaded", "saved"} => x.pc \in Holding
  BY DEF Holding
<1>6. \A id \in x.todo : timers'[id[1]][id[2]] # NULL
  BY <1>3 DEF SweepFine, Kept
<1>7. x.pc \in Holding => x.id \in Ticket \X Kind /\ timers'[x.id[1]][x.id[2]] # NULL
  BY <1>4 DEF SweepFine, Kept
<1>8. x.pc \in {"loaded", "saved"} =>
        /\ TimerFine(x.id[1], x.id[2], x.copy)'
        /\ x.copy.dueAt = timers'[x.id[1]][x.id[2]].dueAt
  BY <1>1, <1>4, <1>5 DEF SweepFine, Kept
<1>. QED
  BY <1>2, <1>6, <1>7, <1>8 DEF SweepFine

\* Rows, jobs and sweeps that nothing touches.
LEMMA RowsSame ==
  ASSUME SInv, UNCHANGED <<facts, timers, breaches>>, processed \subseteq processed'
  PROVE  RowsOK'
<1>. SUFFICES ASSUME NEW t \in Ticket, NEW k \in Kind, NEW r, r = timers[t][k], r # NULL
              PROVE  TimerFine(t, k, r)' /\ Started(t)' /\ (r.breachedAt # NULL => breaches[t][k] > 0)
  BY DEF RowsOK
<1>1. TimerFine(t, k, r) /\ Started(t) /\ (r.breachedAt # NULL => breaches[t][k] > 0)
  BY DEF SInv, RowsOK
<1>2. TimerFine(t, k, r)'
  BY <1>1, TimerKept
<1>3. Started(t)'
  BY <1>1 DEF Started
<1>. QED
  BY <1>1, <1>2, <1>3

LEMMA JobSame ==
  ASSUME NEW j, JobFine(j), UNCHANGED <<facts, processed>>
  PROVE  JobFine(j)'
<1>1. j.pc # "idle" => j.fact \notin processed'
  BY DEF JobFine
<1>. QED
  BY <1>1, JobKept

LEMMA JobsSame ==
  ASSUME SInv, UNCHANGED <<facts, processed, job>>
  PROVE  JobsOK'
<1>1. ASSUME NEW w \in Worker PROVE JobFine(job[w])'
  <2>1. PICK j : j = job[w] /\ JobFine(j)
    BY DEF SInv, JobsOK
  <2>2. JobFine(j)'
    BY <2>1, JobSame
  <2>. QED  BY <2>1, <2>2
<1>. QED
  BY <1>1 DEF SInv, JobsOK

LEMMA SweepsSame ==
  ASSUME SInv, Kept, UNCHANGED sweep
  PROVE  SweepsOK'
<1>1. ASSUME NEW s \in Sweeper PROVE SweepFine(sweep[s])'
  <2>1. PICK x : x = sweep[s] /\ SweepFine(x)
    BY DEF SInv, SweepsOK
  <2>2. SweepFine(x)'
    BY <2>1, SweepKept
  <2>. QED  BY <2>1, <2>2
<1>. QED
  BY <1>1 DEF SweepsOK

LEMMA StillKept ==
  ASSUME UNCHANGED <<facts, timers>>
  PROVE  Kept
BY DEF Kept

\* A step of one worker that neither commits nor touches the tables.
LEMMA JobChange ==
  ASSUME SInv, NEW w \in Worker, NEW x, JobFine(x),
         x.pc # "idle" => \A v \in Worker \ {w} : job[v].pc # "idle" => job[v].fact # x.fact,
         job' = [job EXCEPT ![w] = x],
         UNCHANGED <<facts, timers, processed, breaches, sweep, clock>>, faults' \in 0..MaxFaults
  PROVE  SInv'
<1>1. job \in [Worker -> JobState] /\ x \in JobState
  BY Types DEF JobFine
<1>2. job' \in [Worker -> JobState] /\ \A v \in Worker : job'[v] = IF v = w THEN x ELSE job[v]
  BY <1>1
<1>3. TypeOK'
  BY <1>2, Types DEF TypeOK, JobState, SweepState
<1>4. FactsOK'
  BY DEF SInv, FactsOK
<1>5. RowsOK'
  BY RowsSame
<1>6. ASSUME NEW v \in Worker PROVE JobFine(job[v])'
  <2>1. PICK j : j = job'[v] /\ JobFine(j)
    BY <1>2 DEF SInv, JobsOK
  <2>2. JobFine(j)'
    BY <2>1, JobSame
  <2>. QED  BY <2>1, <2>2
<1>7. JobsOK'
  <2>1. \A v, u \in Worker : job[v].pc # "idle" /\ job[u].pc # "idle" /\ job[v].fact = job[u].fact => v = u
    BY DEF SInv, JobsOK
  <2>2. \A v, u \in Worker :
          job'[v].pc # "idle" /\ job'[u].pc # "idle" /\ job'[v].fact = job'[u].fact => v = u
    BY <1>2, <2>1
  <2>. QED  BY <1>6, <2>2 DEF JobsOK
<1>8. SweepsOK'
  BY SweepsSame, StillKept
<1>. QED
  BY <1>3, <1>4, <1>5, <1>7, <1>8 DEF SInv

\* A step of one sweeper that neither commits nor touches the tables.
LEMMA SweepChange ==
  ASSUME SInv, NEW s \in Sweeper, NEW x, SweepFine(x),
         sweep' = [sweep EXCEPT ![s] = x],
         UNCHANGED <<facts, timers, processed, breaches, job, clock>>, faults' \in 0..MaxFaults
  PROVE  SInv'
<1>1. sweep \in [Sweeper -> SweepState] /\ x \in SweepState
  BY Types DEF SweepFine
<1>2. sweep' \in [Sweeper -> SweepState] /\ \A v \in Sweeper : sweep'[v] = IF v = s THEN x ELSE sweep[v]
  BY <1>1
<1>3. TypeOK'
  BY <1>2, Types DEF TypeOK, JobState, SweepState
<1>4. FactsOK'
  BY DEF SInv, FactsOK
<1>5. RowsOK'
  BY RowsSame
<1>6. JobsOK'
  BY JobsSame
<1>7. ASSUME NEW v \in Sweeper PROVE SweepFine(sweep[v])'
  <2>1. PICK y : y = sweep'[v] /\ SweepFine(y)
    BY <1>2 DEF SInv, SweepsOK
  <2>2. SweepFine(y)'
    BY <2>1, SweepKept, StillKept
  <2>. QED  BY <2>1, <2>2
<1>8. SweepsOK'
  BY <1>7 DEF SweepsOK
<1>. QED
  BY <1>3, <1>4, <1>5, <1>6, <1>8 DEF SInv

\* A job's transaction commits its claim, and whatever it did to the rows.
LEMMA JobDone ==
  ASSUME SInv, NEW w \in Worker, job[w].pc # "idle",
         job' = [job EXCEPT ![w] = NoJob], processed' = processed \cup {job[w].fact},
         timers' \in [Ticket -> [Kind -> Timer \cup {NULL}]], Kept, RowsOK',
         UNCHANGED <<facts, breaches, sweep, clock, faults>>
  PROVE  SInv'
<1>1. job \in [Worker -> JobState] /\ NoJob \in JobState
  BY Types, IdleFine DEF JobFine
<1>2. job' \in [Worker -> JobState] /\ \A v \in Worker : job'[v] = IF v = w THEN NoJob ELSE job[v]
  BY <1>1
<1>3. job[w].fact \in facts
  BY DEF SInv, JobsOK, JobFine
<1>4. TypeOK'
  BY <1>2, <1>3, Types DEF TypeOK, JobState, SweepState
<1>5. FactsOK'
  BY DEF SInv, FactsOK
<1>6. ASSUME NEW v \in Worker \ {w} PROVE JobFine(job[v])'
  <2>1. job[v].pc # "idle" => job[v].fact \notin processed'
    BY DEF SInv, JobsOK, JobFine
  <2>2. JobFine(job[v])
    BY DEF SInv, JobsOK
  <2>. QED  BY <1>2, <2>1, <2>2, JobKept
<1>7. JobFine(NoJob)'
  BY IdleFine DEF JobFine, NoJob
<1>8. JobsOK'
  <2>1. NoJob.pc = "idle"
    BY DEF NoJob
  <2>2. \A v \in Worker : JobFine(job[v])'
    BY <1>2, <1>6, <1>7
  <2>. QED  BY <1>2, <2>1, <2>2 DEF SInv, JobsOK
<1>9. SweepsOK'
  BY SweepKept DEF SInv, SweepsOK
<1>. QED
  BY <1>4, <1>5, <1>8, <1>9 DEF SInv

LEMMA NothingHappens == SInv /\ UNCHANGED vars => SInv'
<1>. SUFFICES ASSUME SInv, UNCHANGED vars PROVE SInv'
  OBVIOUS
<1>. USE DEF vars
<1>1. TypeOK' /\ FactsOK'
  BY DEF SInv, TypeOK, FactsOK
<1>2. RowsOK'
  BY RowsSame
<1>3. JobsOK'
  BY JobsSame
<1>4. SweepsOK'
  BY SweepsSame, StillKept
<1>. QED
  BY <1>1, <1>2, <1>3, <1>4 DEF SInv

-----------------------------------------------------------------------------
(* The ticket side.                                                        *)

LEMMA TickStep ==
  ASSUME SInv, Tick
  PROVE  SInv'
<1>1. clock' \in 0..MaxTime /\ UNCHANGED <<facts, timers, processed, breaches, job, sweep, faults>>
  BY Types, SlaAssumption DEF Tick
<1>2. TypeOK' /\ FactsOK'
  BY <1>1 DEF SInv, TypeOK, FactsOK
<1>3. RowsOK'
  BY <1>1, RowsSame
<1>4. JobsOK'
  BY <1>1, JobsSame
<1>5. SweepsOK'
  BY <1>1, SweepsSame, StillKept
<1>. QED
  BY <1>2, <1>3, <1>4, <1>5 DEF SInv

LEMMA HappenStep ==
  ASSUME SInv, NEW t \in Ticket,
         NEW name \in {"created", "agent_comment", "requester_comment", "resolved", "moved"},
         Happen(t, name)
  PROVE  SInv'
<1>1. PICK f \in Fact : /\ f.name = name /\ f.ticket = t
                       /\ facts' = facts \cup {f}
  <2>. DEFINE g == [name |-> name, ticket |-> t, at |-> clock]
  <2>1. g \in Fact
    BY Types DEF Fact
  <2>. QED  BY <2>1 DEF Happen
<1>2. UNCHANGED <<timers, processed, breaches, job, sweep, clock, faults>>
  BY DEF Happen
<1>3. f.name = "created" => \A g \in facts : ~(g.name = "created" /\ g.ticket = t)
  BY <1>1 DEF Happen
<1>4. TypeOK'
  BY <1>1, <1>2 DEF SInv, TypeOK
<1>5. FactsOK'
  BY <1>1, <1>3 DEF SInv, FactsOK
<1>6. Kept
  BY <1>1, <1>2 DEF Kept
<1>7. RowsOK'
  <2>. SUFFICES ASSUME NEW u \in Ticket, NEW k \in Kind, timers[u][k] # NULL
                PROVE  /\ TimerFine(u, k, timers[u][k])'
                       /\ Started(u)
                       /\ timers[u][k].breachedAt # NULL => breaches[u][k] > 0
    BY <1>2 DEF RowsOK, Started
  <2>1. TimerFine(u, k, timers[u][k])
    BY DEF SInv, RowsOK
  <2>2. PICK r : r = timers[u][k]
    OBVIOUS
  <2>3. TimerFine(u, k, r)'
    BY <1>1, <2>1, <2>2, TimerKept
  <2>. QED  BY <1>2, <2>2, <2>3 DEF SInv, RowsOK
<1>8. JobsOK'
  <2>1. ASSUME NEW w \in Worker PROVE JobFine(job[w])'
    <3>1. PICK j : j = job[w] /\ JobFine(j)
      BY DEF SInv, JobsOK
    <3>2. JobFine(j)'
      BY <1>1, <1>2, <3>1, JobKept DEF JobFine
    <3>. QED  BY <1>2, <3>1, <3>2
  <2>. QED  BY <1>2, <2>1 DEF SInv, JobsOK
<1>9. SweepsOK'
  BY <1>2, <1>6, SweepsSame
<1>. QED
  BY <1>4, <1>5, <1>7, <1>8, <1>9 DEF SInv

-----------------------------------------------------------------------------
(* The jobs.                                                               *)

LEMMA FaultType ==
  ASSUME SInv, Fault
  PROVE  faults' \in 0..MaxFaults
BY Types, SlaAssumption DEF Fault

LEMMA ClaimFactStep ==
  ASSUME SInv, NEW w \in Worker, ClaimFact(w)
  PROVE  SInv'
<1>1. PICK f \in facts \ processed :
        /\ \A v \in Worker : job[v].fact # f
        /\ job' = [job EXCEPT ![w] = [NoJob EXCEPT !.pc = "claimed", !.fact = f]]
  BY DEF ClaimFact
<1>2. PICK x : x = [NoJob EXCEPT !.pc = "claimed", !.fact = f]
  OBVIOUS
<1>3. f \in Fact
  BY Types
<1>4. x \in JobState /\ x.pc = "claimed" /\ x.fact = f
  BY <1>2, <1>3, IdleFine DEF JobFine, JobState
<1>5. JobFine(x)
  BY <1>4 DEF JobFine
<1>6. faults' \in 0..MaxFaults /\ UNCHANGED <<facts, timers, processed, breaches, sweep, clock>>
  BY Types DEF ClaimFact
<1>. QED
  BY <1>1, <1>2, <1>4, <1>5, <1>6, JobChange

LEMMA StartedFine ==
  ASSUME SInv, NEW f \in facts, f.name = "created", NEW target \in Targets, NEW k \in Kind
  PROVE  TimerFine(f.ticket, k, Start(f.at, target[k])) /\ Start(f.at, target[k]).breachedAt = NULL
<1>1. PICK m \in Nat : m = target[k]
  BY SlaAssumption
<1>2. f \in Fact /\ f.at \in Nat
  BY Types DEF Fact
<1>3. PICK n \in Nat : n = f.at
  BY <1>2
<1>4. PICK r : r = Start(n, m)
  OBVIOUS
<1>5. /\ r \in Timer /\ r.startedAt = n /\ r.dueAt = n + m
      /\ r.stoppedAt = NULL /\ r.breachedAt = NULL
  BY <1>4 DEF Start, Timer
<1>6. f = [name |-> "created", ticket |-> f.ticket, at |-> n]
  BY <1>2, <1>3 DEF Fact
<1>7. TimerFine(f.ticket, k, r)
  BY <1>1, <1>5, <1>6 DEF TimerFine
<1>. QED
  BY <1>1, <1>3, <1>4, <1>5, <1>7

\* A job moved to the next step of its transaction, with the copies it now holds.
Moved(j, p, c) == [j EXCEPT !.pc = p, !.copy = c]

LEMMA MovedFields ==
  ASSUME NEW j \in JobState, NEW p \in {"idle", "claimed", "loaded", "saved"},
         NEW c \in [Kind -> Timer \cup {NULL}]
  PROVE  /\ Moved(j, p, c) \in JobState
         /\ Moved(j, p, c).pc = p /\ Moved(j, p, c).copy = c /\ Moved(j, p, c).fact = j.fact
<1>. DEFINE C == [Kind -> Timer \cup {NULL}]
            F == Fact \cup {NULL}
            P == {"idle", "claimed", "loaded", "saved"}
<1>1. JobState = [pc : P, fact : F, copy : C]
  BY DEF JobState
<1>2. c \in C /\ p \in P
  OBVIOUS
<1>. HIDE DEF C, F, P
<1>. QED
  BY <1>1, <1>2 DEF Moved

LEMMA StartTimersStep ==
  ASSUME SInv, NEW w \in Worker, StartTimers(w)
  PROVE  SInv'
<1>1. PICK target \in Targets :
        job' = [job EXCEPT ![w].pc = "saved",
                           ![w].copy = [k \in Kind |-> Start(job[w].fact.at, target[k])]]
  BY DEF StartTimers
<1>2. job[w].pc = "claimed" /\ job[w].fact.name = "created"
  BY DEF StartTimers
<1>3. PICK f \in facts \ processed : f = job[w].fact
  BY <1>2 DEF SInv, JobsOK, JobFine
<1>4. PICK c : c = [k \in Kind |-> Start(f.at, target[k])]
  OBVIOUS
<1>5. \A k \in Kind : TimerFine(f.ticket, k, c[k]) /\ c[k].breachedAt = NULL
  BY <1>2, <1>3, <1>4, StartedFine
<1>6. c \in [Kind -> Timer \cup {NULL}]
  BY <1>4, <1>5 DEF TimerFine
<1>7. PICK x \in JobState : /\ x.pc = "saved" /\ x.copy = c /\ x.fact = f
                           /\ x = Moved(job[w], "saved", c)
  BY <1>3, <1>6, Types, MovedFields
<1>8. JobFine(x)
  BY <1>2, <1>3, <1>5, <1>7 DEF JobFine
<1>9. \A v \in Worker \ {w} : job[v].pc # "idle" => job[v].fact # f
  BY <1>2, <1>3 DEF SInv, JobsOK
<1>10. faults' \in 0..MaxFaults /\ UNCHANGED <<facts, timers, processed, breaches, sweep, clock>>
  BY Types DEF StartTimers
<1>11. job' = [job EXCEPT ![w] = x]
  BY <1>1, <1>3, <1>4, <1>7, Types DEF Moved
<1>. QED
  BY <1>7, <1>8, <1>9, <1>10, <1>11, JobChange

\* What a job knows of its fact.
LEMMA FactOfJob ==
  ASSUME SInv, NEW w \in Worker, job[w].pc # "idle"
  PROVE  /\ job[w] \in JobState /\ job[w].fact \in facts \ processed
         /\ job[w].fact.name \in {"created", "agent_comment", "requester_comment", "resolved", "moved"}
         /\ job[w].fact.ticket \in Ticket /\ job[w].fact.at \in Nat
         /\ job[w].fact = [name |-> job[w].fact.name, ticket |-> job[w].fact.ticket, at |-> job[w].fact.at]
         /\ \A v \in Worker \ {w} : job[v].pc # "idle" => job[v].fact # job[w].fact
<1>1. job[w].fact \in facts \ processed /\ job[w] \in JobState
  BY DEF SInv, JobsOK, JobFine
<1>2. job[w].fact \in Fact
  BY <1>1, Types
<1>3. \A v \in Worker \ {w} : job[v].pc # "idle" => job[v].fact # job[w].fact
  BY DEF SInv, JobsOK
<1>. QED
  BY <1>1, <1>2, <1>3 DEF Fact

LEMMA FindRunningStep ==
  ASSUME SInv, NEW w \in Worker, FindRunning(w)
  PROVE  SInv'
<1>1. job[w].pc = "claimed" /\ job[w].fact.name # "created"
  BY DEF FindRunning
<1>2. PICK f : f = job[w].fact
  OBVIOUS
<1>3. /\ f \in facts \ processed /\ f.ticket \in Ticket
      /\ \A v \in Worker \ {w} : job[v].pc # "idle" => job[v].fact # f
  BY <1>1, <1>2, FactOfJob
<1>4. PICK found : found = {k \in StoppedBy(f.name) :
                              timers[f.ticket][k] # NULL /\ IsRunning(timers[f.ticket][k])}
  OBVIOUS
<1>5. UNCHANGED <<facts, timers, breaches, sweep, clock, faults>>
  BY DEF FindRunning
<1>6. CASE found = {}
  <2>1. processed' = processed \cup {f} /\ job' = [job EXCEPT ![w] = NoJob]
    BY <1>2, <1>4, <1>6 DEF FindRunning
  <2>2. RowsOK'
    BY <1>5, <2>1, RowsSame
  <2>3. Kept /\ timers' \in [Ticket -> [Kind -> Timer \cup {NULL}]]
    BY <1>5, Types DEF Kept
  <2>. QED  BY <1>1, <1>2, <1>5, <2>1, <2>2, <2>3, JobDone
<1>7. CASE found # {}
  <2>1. PICK c : c = [k \in Kind |-> IF k \in found THEN timers[f.ticket][k] ELSE NULL]
    OBVIOUS
  <2>2. /\ job' = [job EXCEPT ![w].pc = "loaded", ![w].copy = c]
        /\ UNCHANGED processed
    BY <1>2, <1>4, <1>7, <2>1 DEF FindRunning
  <2>3. c \in [Kind -> Timer \cup {NULL}]
    BY <1>3, <2>1, Types
  <2>4. PICK x \in JobState : /\ x.pc = "loaded" /\ x.copy = c /\ x.fact = f
                             /\ x = Moved(job[w], "loaded", c)
    BY <1>2, <2>3, Types, MovedFields
  <2>5. job' = [job EXCEPT ![w] = x]
    BY <2>2, <2>4, Types DEF Moved
  <2>6. ASSUME NEW k \in Kind, c[k] # NULL
        PROVE  /\ TimerFine(f.ticket, k, c[k]) /\ c[k].breachedAt = NULL /\ Started(f.ticket)
               /\ k \in StoppedBy(f.name) /\ IsRunning(c[k])
    <3>1. k \in found /\ c[k] = timers[f.ticket][k]
      BY <2>1, <2>6
    <3>2. k \in StoppedBy(f.name) /\ timers[f.ticket][k] # NULL /\ IsRunning(timers[f.ticket][k])
      BY <1>4, <3>1
    <3>3. TimerFine(f.ticket, k, timers[f.ticket][k]) /\ Started(f.ticket)
      BY <1>3, <3>2 DEF SInv, RowsOK
    <3>. QED  BY <3>1, <3>2, <3>3 DEF IsRunning
  <2>7. JobFine(x)
    BY <1>3, <2>4, <2>6 DEF JobFine
  <2>. QED  BY <1>3, <1>5, <2>2, <2>4, <2>5, <2>7, Types, JobChange
<1>. QED
  BY <1>6, <1>7

LEMMA StoppedFine ==
  ASSUME SInv, NEW f \in facts, NEW k \in StoppedBy(f.name),
         NEW r, TimerFine(f.ticket, k, r), IsRunning(r)
  PROVE  /\ TimerFine(f.ticket, k, Stop(r, f.at))
         /\ Stop(r, f.at).breachedAt = NULL /\ ~IsRunning(Stop(r, f.at))
<1>1. f \in Fact /\ f.at \in Nat /\ r \in Timer /\ r.breachedAt = NULL
  BY Types DEF Fact, TimerFine, IsRunning
<1>2. PICK n \in Nat : n = f.at
  BY <1>1
<1>3. PICK x : x = Stop(r, n)
  OBVIOUS
<1>4. /\ x \in Timer /\ x.startedAt = r.startedAt /\ x.dueAt = r.dueAt
      /\ x.stoppedAt = n /\ x.breachedAt = NULL
  BY <1>1, <1>3 DEF Stop, Timer
<1>5. StopName(k) = f.name
  BY DEF StoppedBy, StopName
<1>6. f = [name |-> StopName(k), ticket |-> f.ticket, at |-> x.stoppedAt]
  BY <1>1, <1>2, <1>4, <1>5 DEF Fact
<1>7. TimerFine(f.ticket, k, x)
  BY <1>4, <1>6 DEF TimerFine
<1>8. ~IsRunning(x)
  BY <1>4, NullAssumption DEF IsRunning
<1>. QED
  BY <1>2, <1>3, <1>4, <1>7, <1>8

LEMMA StopTimerStep ==
  ASSUME SInv, NEW w \in Worker, StopTimer(w)
  PROVE  SInv'
<1>1. job[w].pc = "loaded"
  BY DEF StopTimer
<1>2. PICK f, o : f = job[w].fact /\ o = job[w].copy
  OBVIOUS
<1>3. /\ f \in facts /\ f \notin processed
      /\ \A v \in Worker \ {w} : job[v].pc # "idle" => job[v].fact # f
  BY <1>1, <1>2, FactOfJob
<1>4. PICK c : c = [k \in Kind |-> IF o[k] = NULL THEN NULL ELSE Stop(o[k], f.at)]
  OBVIOUS
<1>5. /\ job' = [job EXCEPT ![w].pc = "saved", ![w].copy = c]
      /\ UNCHANGED <<facts, timers, processed, breaches, sweep, clock, faults>>
  <2>1. o \in [Kind -> Timer \cup {NULL}]
    BY <1>2, Types DEF JobState
  <2>. QED  BY <1>2, <1>4, <2>1 DEF StopTimer
<1>6. JobFine(job[w])
  BY DEF SInv, JobsOK
<1>7. ASSUME NEW k \in Kind, o[k] # NULL
      PROVE  /\ TimerFine(f.ticket, k, o[k]) /\ IsRunning(o[k]) /\ k \in StoppedBy(f.name)
             /\ f.name = "created" \/ Started(f.ticket)
  BY <1>1, <1>2, <1>6, <1>7 DEF JobFine
<1>8. ASSUME NEW k \in Kind, c[k] # NULL
      PROVE  /\ TimerFine(f.ticket, k, c[k]) /\ c[k].breachedAt = NULL /\ ~IsRunning(c[k])
             /\ f.name = "created" \/ Started(f.ticket)
  <2>1. o[k] # NULL /\ c[k] = Stop(o[k], f.at)
    BY <1>4, <1>8
  <2>. QED  BY <1>3, <1>7, <2>1, StoppedFine
<1>9. c \in [Kind -> Timer \cup {NULL}]
  BY <1>4, <1>8 DEF TimerFine
<1>10. PICK x \in JobState : /\ x.pc = "saved" /\ x.copy = c /\ x.fact = f
                            /\ x = Moved(job[w], "saved", c)
  BY <1>2, <1>9, Types, MovedFields
<1>11. job' = [job EXCEPT ![w] = x]
  BY <1>5, <1>10, Types DEF Moved
<1>12. JobFine(x)
  BY <1>3, <1>8, <1>10 DEF JobFine
<1>. QED
  BY <1>3, <1>5, <1>10, <1>11, <1>12, Types, JobChange

LEMMA AbortJobStep ==
  ASSUME SInv, NEW w \in Worker, AbortJob(w)
  PROVE  SInv'
<1>1. /\ job' = [job EXCEPT ![w] = NoJob]
      /\ UNCHANGED <<facts, timers, processed, breaches, sweep, clock>>
      /\ faults' \in 0..MaxFaults
  BY FaultType DEF AbortJob
<1>2. NoJob.pc = "idle"
  BY DEF NoJob
<1>. QED
  BY <1>1, <1>2, IdleFine, JobChange

\* What is written is fine, and a row that was there keeps its instants.
LEMMA UpsertFine ==
  ASSUME SInv, NEW t \in Ticket, NEW k \in Kind, NEW new, TimerFine(t, k, new),
         timers[t][k] # NULL /\ new.breachedAt # NULL => new.dueAt = timers[t][k].dueAt
  PROVE  LET row == Upsert(timers[t][k], new)
         IN  /\ TimerFine(t, k, row)
             /\ row.stoppedAt = new.stoppedAt /\ row.breachedAt = new.breachedAt
             /\ timers[t][k] # NULL => /\ row.startedAt = timers[t][k].startedAt
                                       /\ row.dueAt = timers[t][k].dueAt
<1>1. CASE timers[t][k] = NULL
  BY <1>1 DEF Upsert
<1>2. CASE timers[t][k] # NULL
  <2>1. PICK old : old = timers[t][k] /\ TimerFine(t, k, old)
    BY <1>2 DEF SInv, RowsOK
  <2>2. PICK x : x = Upsert(old, new)
    OBVIOUS
  <2>3. old \in Timer /\ new \in Timer
    BY <2>1 DEF TimerFine
  <2>4. /\ x \in Timer /\ x.startedAt = old.startedAt /\ x.dueAt = old.dueAt
        /\ x.stoppedAt = new.stoppedAt /\ x.breachedAt = new.breachedAt
    BY <1>2, <2>1, <2>2, <2>3 DEF Upsert, Timer
  <2>5. TimerFine(t, k, x)
    BY <1>2, <2>1, <2>4 DEF TimerFine
  <2>. QED  BY <2>1, <2>2, <2>4, <2>5
<1>. QED
  BY <1>1, <1>2

\* A row that a job's copy is written to.
Written(t, k, c) ==
  LET row == Upsert(timers[t][k], c)
  IN  /\ TimerFine(t, k, row)
      /\ row.stoppedAt = c.stoppedAt /\ row.breachedAt = NULL
      /\ timers[t][k] # NULL => /\ row.startedAt = timers[t][k].startedAt
                                /\ row.dueAt = timers[t][k].dueAt

\* The rows a job's commit leaves.
LEMMA JobRows ==
  ASSUME SInv, NEW w \in Worker, CommitJob(w)
  PROVE  /\ timers' \in [Ticket -> [Kind -> Timer \cup {NULL}]]
         /\ \A u \in Ticket, k \in Kind :
              timers'[u][k] = IF u = job[w].fact.ticket /\ job[w].copy[k] # NULL
                                THEN Upsert(timers[u][k], job[w].copy[k]) ELSE timers[u][k]
         /\ \A u \in Ticket, k \in Kind : u = job[w].fact.ticket /\ job[w].copy[k] # NULL =>
              Written(u, k, job[w].copy[k])
<1>1. job[w].pc = "saved"
  BY DEF CommitJob
<1>2. PICK t, c : t = job[w].fact.ticket /\ c = job[w].copy
  OBVIOUS
<1>3. t \in Ticket
  BY <1>1, <1>2, FactOfJob
<1>4. timers \in [Ticket -> [Kind -> Timer \cup {NULL}]]
  BY Types
<1>5. timers' = [timers EXCEPT ![t] = [k \in Kind |->
                   IF c[k] = NULL THEN @[k] ELSE Upsert(@[k], c[k])]]
  BY <1>2 DEF CommitJob
<1>6. PICK g : g = [k \in Kind |-> IF c[k] = NULL THEN timers[t][k] ELSE Upsert(timers[t][k], c[k])]
  OBVIOUS
<1>7. timers' = [timers EXCEPT ![t] = g]
  BY <1>3, <1>4, <1>5, <1>6
<1>8. ASSUME NEW k \in Kind, c[k] # NULL
      PROVE  Written(t, k, c[k])
  <2>1. TimerFine(t, k, c[k]) /\ c[k].breachedAt = NULL
    BY <1>1, <1>2, <1>8 DEF SInv, JobsOK, JobFine
  <2>. QED  BY <1>3, <2>1, UpsertFine DEF Written
<1>9. \A k \in Kind : g[k] \in Timer \cup {NULL}
  BY <1>3, <1>4, <1>6, <1>8 DEF TimerFine, Written
<1>10. g \in [Kind -> Timer \cup {NULL}]
  BY <1>6, <1>9
<1>11. /\ timers' \in [Ticket -> [Kind -> Timer \cup {NULL}]]
       /\ \A u \in Ticket : timers'[u] = IF u = t THEN g ELSE timers[u]
  BY <1>3, <1>4, <1>7, <1>10
<1>12. \A u \in Ticket, k \in Kind :
         timers'[u][k] = IF u = t /\ c[k] # NULL THEN Upsert(timers[u][k], c[k]) ELSE timers[u][k]
  BY <1>6, <1>11
<1>13. timers' \in [Ticket -> [Kind -> Timer \cup {NULL}]]
  BY <1>11
<1>. QED
  BY <1>2, <1>8, <1>12, <1>13

LEMMA CommitJobStep ==
  ASSUME SInv, NEW w \in Worker, CommitJob(w)
  PROVE  SInv'
<1>1. /\ job[w].pc = "saved" /\ processed' = processed \cup {job[w].fact}
      /\ job' = [job EXCEPT ![w] = NoJob]
      /\ UNCHANGED <<facts, breaches, sweep, clock, faults>>
  BY DEF CommitJob
<1>2. Kept
  <2>. SUFFICES ASSUME NEW u \in Ticket, NEW k \in Kind, timers[u][k] # NULL
                PROVE  /\ timers'[u][k] # NULL
                       /\ timers'[u][k].startedAt = timers[u][k].startedAt
                       /\ timers'[u][k].dueAt = timers[u][k].dueAt
    BY <1>1 DEF Kept
  <2>1. CASE u = job[w].fact.ticket /\ job[w].copy[k] # NULL
    <3>1. PICK row : row = Upsert(timers[u][k], job[w].copy[k])
      OBVIOUS
    <3>2. row \in Timer /\ row.startedAt = timers[u][k].startedAt /\ row.dueAt = timers[u][k].dueAt
      BY <2>1, <3>1, JobRows DEF TimerFine, Written
    <3>3. timers'[u][k] = row
      BY <2>1, <3>1, JobRows
    <3>. QED  BY <3>2, <3>3, NullAssumption
  <2>2. CASE ~(u = job[w].fact.ticket /\ job[w].copy[k] # NULL)
    <3>1. timers'[u][k] = timers[u][k]
      BY <2>2, JobRows
    <3>. QED  BY <3>1
  <2>. QED  BY <2>1, <2>2
<1>3. RowsOK'
  <2>. SUFFICES ASSUME NEW u \in Ticket, NEW k \in Kind, NEW r, r = timers'[u][k], r # NULL
                PROVE  /\ TimerFine(u, k, r)' /\ Started(u)'
                       /\ r.breachedAt # NULL => breaches[u][k] > 0
    BY <1>1 DEF RowsOK
  <2>1. Started(u) => Started(u)'
    BY <1>1 DEF Started
  <2>2. CASE u = job[w].fact.ticket /\ job[w].copy[k] # NULL
    <3>1. TimerFine(u, k, r) /\ r.breachedAt = NULL
      BY <2>2, JobRows DEF Written
    <3>2. TimerFine(u, k, r)'
      BY <1>1, <3>1, TimerKept
    <3>3. job[w].fact.name = "created" \/ Started(u)
      BY <1>1, <2>2 DEF SInv, JobsOK, JobFine
    <3>4. Started(u)'
      BY <1>1, <2>1, <2>2, <3>3 DEF Started
    <3>. QED  BY <3>1, <3>2, <3>4
  <2>3. CASE ~(u = job[w].fact.ticket /\ job[w].copy[k] # NULL)
    <3>1. timers'[u][k] = timers[u][k]
      BY <2>3, JobRows
    <3>2. TimerFine(u, k, r) /\ Started(u) /\ (r.breachedAt # NULL => breaches[u][k] > 0)
      BY <3>1 DEF SInv, RowsOK
    <3>. QED  BY <1>1, <2>1, <3>2, TimerKept
  <2>. QED  BY <2>2, <2>3
<1>4. timers' \in [Ticket -> [Kind -> Timer \cup {NULL}]]
  BY JobRows
<1>. QED
  BY <1>1, <1>2, <1>3, <1>4, JobDone

-----------------------------------------------------------------------------
(* The sweepers.                                                           *)

SweepPc == {"idle", "swept", "begun", "loaded", "saved"}

\* A sweep that begins with one of its timers, and one that goes on with it.
Begun(x, id, n) == [x EXCEPT !.pc = "begun", !.id = id, !.now = n, !.todo = @ \ {id}]
Gone(x, p, c) == [x EXCEPT !.pc = p, !.copy = c]

LEMMA BegunFields ==
  ASSUME NEW x \in SweepState, NEW id \in Ticket \X Kind, NEW n \in 0..MaxTime
  PROVE  /\ Begun(x, id, n) \in SweepState /\ Begun(x, id, n).pc = "begun"
         /\ Begun(x, id, n).id = id /\ Begun(x, id, n).todo = x.todo \ {id}
         /\ Begun(x, id, n).now = n
<1>. DEFINE I == Ticket \X Kind
            C == Timer \cup {NULL}
            N == 0..MaxTime
            T == SUBSET I
            J == I \cup {NULL}
<1>1. SweepState = [pc : SweepPc, todo : T, now : N, id : J, copy : C]
  BY DEF SweepState, SweepPc
<1>2. x.todo \ {id} \in T
  BY <1>1
<1>3. id \in J /\ n \in N /\ "begun" \in SweepPc
  BY DEF SweepPc
<1>. HIDE DEF I, C, N, T, J
<1>4. PICK d \in T : d = x.todo \ {id}
  BY <1>2
<1>5. Begun(x, id, n) = [x EXCEPT !.pc = "begun", !.id = id, !.now = n, !.todo = d]
  BY <1>1, <1>4 DEF Begun
<1>. QED
  BY <1>1, <1>3, <1>4, <1>5

LEMMA GoneFields ==
  ASSUME NEW x \in SweepState, NEW p \in SweepPc, NEW c \in Timer \cup {NULL}
  PROVE  /\ Gone(x, p, c) \in SweepState /\ Gone(x, p, c).pc = p /\ Gone(x, p, c).copy = c
         /\ Gone(x, p, c).id = x.id /\ Gone(x, p, c).todo = x.todo /\ Gone(x, p, c).now = x.now
<1>. DEFINE I == Ticket \X Kind
            C == Timer \cup {NULL}
            N == 0..MaxTime
            T == SUBSET I
            J == I \cup {NULL}
<1>1. SweepState = [pc : SweepPc, todo : T, now : N, id : J, copy : C]
  BY DEF SweepState, SweepPc
<1>2. c \in C
  OBVIOUS
<1>. HIDE DEF I, C, N, T, J
<1>. QED
  BY <1>1, <1>2 DEF Gone

\* A sweep that only holds timers to deal with.
LEMMA WaitingFine ==
  ASSUME NEW todo \in SUBSET (Ticket \X Kind), \A id \in todo : timers[id[1]][id[2]] # NULL
  PROVE  SweepFine([NoSweep EXCEPT !.pc = "swept", !.todo = todo])
<1>1. NoSweep \in SweepState
  BY IdleFine DEF SweepFine
<1>2. PICK x : x = [NoSweep EXCEPT !.pc = "swept", !.todo = todo]
  OBVIOUS
<1>3. x \in SweepState /\ x.pc = "swept" /\ x.todo = todo
  BY <1>1, <1>2 DEF SweepState
<1>4. SweepFine(x)
  BY <1>3 DEF SweepFine, Holding
<1>. QED
  BY <1>2, <1>4

LEMMA RestFine ==
  ASSUME SInv, NEW s \in Sweeper
  PROVE  SweepFine(Rest(s))
<1>1. SweepFine(sweep[s])
  BY DEF SInv, SweepsOK
<1>2. /\ sweep[s].todo \in SUBSET (Ticket \X Kind)
      /\ \A id \in sweep[s].todo : timers[id[1]][id[2]] # NULL
  BY <1>1 DEF SweepFine, SweepState
<1>. QED
  BY <1>2, IdleFine, WaitingFine DEF Rest

LEMMA SweepBegins ==
  ASSUME SInv, NEW s \in Sweeper, Sweep(s)
  PROVE  SInv'
<1>1. PICK todo \in SUBSET DueTimers(clock) :
        sweep' = [sweep EXCEPT ![s] = [NoSweep EXCEPT !.pc = "swept", !.todo = todo]]
  BY DEF Sweep
<1>2. todo \in SUBSET (Ticket \X Kind) /\ \A id \in todo : timers[id[1]][id[2]] # NULL
  BY DEF DueTimers
<1>3. UNCHANGED <<facts, timers, processed, breaches, job, clock, faults>>
  BY DEF Sweep
<1>4. PICK x : x = [NoSweep EXCEPT !.pc = "swept", !.todo = todo] /\ SweepFine(x)
  BY <1>2, WaitingFine
<1>5. sweep' = [sweep EXCEPT ![s] = x]
  BY <1>1, <1>4
<1>. QED
  BY <1>3, <1>4, <1>5, Types, SweepChange

LEMMA BeginMarkStep ==
  ASSUME SInv, NEW s \in Sweeper, BeginMark(s)
  PROVE  SInv'
<1>1. PICK id \in sweep[s].todo : sweep' = [sweep EXCEPT ![s] = Begun(@, id, clock)]
  BY DEF BeginMark, Begun
<1>2. UNCHANGED <<facts, timers, processed, breaches, job, clock, faults>>
  BY DEF BeginMark
<1>3. PICK o : o = sweep[s] /\ SweepFine(o)
  BY DEF SInv, SweepsOK
<1>4. id \in Ticket \X Kind /\ o.todo \in SUBSET (Ticket \X Kind) /\ timers[id[1]][id[2]] # NULL
  BY <1>1, <1>3 DEF SweepFine, SweepState
<1>5. PICK x : x = Begun(o, id, clock)
  OBVIOUS
<1>6. x \in SweepState /\ x.pc = "begun" /\ x.id = id /\ x.todo = o.todo \ {id}
  BY <1>3, <1>4, <1>5, Types, BegunFields DEF SweepFine
<1>7. SweepFine(x)
  BY <1>3, <1>4, <1>6 DEF SweepFine, Holding
<1>8. sweep' = [sweep EXCEPT ![s] = x]
  BY <1>1, <1>3, <1>5, Types
<1>. QED
  BY <1>2, <1>7, <1>8, Types, SweepChange

LEMMA CheckAgainStep ==
  ASSUME SInv, NEW s \in Sweeper, CheckAgain(s)
  PROVE  SInv'
<1>1. PICK o : o = sweep[s] /\ SweepFine(o)
  BY DEF SInv, SweepsOK
<1>2. PICK row : row = timers[o.id[1]][o.id[2]]
  OBVIOUS
<1>3. /\ o.pc = "begun"
      /\ sweep' = [sweep EXCEPT ![s] = IF IsOverdue(row, o.now) THEN Gone(o, "loaded", row) ELSE Rest(s)]
      /\ UNCHANGED <<facts, timers, processed, breaches, job, clock, faults>>
  BY <1>1, <1>2, Types DEF CheckAgain, Gone
<1>4. CASE IsOverdue(row, o.now)
  <2>1. o.id[1] \in Ticket /\ o.id[2] \in Kind /\ row # NULL
    BY <1>1, <1>2, <1>3 DEF SweepFine, Holding
  <2>2. TimerFine(o.id[1], o.id[2], row)
    BY <1>2, <2>1 DEF SInv, RowsOK
  <2>3. PICK x : x = Gone(o, "loaded", row)
    OBVIOUS
  <2>4. row \in Timer \cup {NULL}
    BY <2>2 DEF TimerFine
  <2>5. /\ x \in SweepState /\ x.pc = "loaded" /\ x.copy = row
        /\ x.id = o.id /\ x.todo = o.todo /\ x.now = o.now
    <3>1. o \in SweepState /\ "loaded" \in SweepPc
      BY <1>1 DEF SweepFine, SweepPc
    <3>. QED  BY <2>3, <2>4, <3>1, GoneFields
  <2>6. SweepFine(x)
    BY <1>1, <1>2, <1>3, <1>4, <2>2, <2>5 DEF SweepFine, Holding
  <2>7. sweep' = [sweep EXCEPT ![s] = x]
    BY <1>3, <1>4, <2>3
  <2>. QED  BY <1>3, <2>6, <2>7, Types, SweepChange
<1>5. CASE ~IsOverdue(row, o.now)
  <2>1. sweep' = [sweep EXCEPT ![s] = Rest(s)]
    BY <1>3, <1>5
  <2>. QED  BY <1>3, <2>1, RestFine, Types, SweepChange
<1>. QED
  BY <1>4, <1>5

LEMMA BreachedFine ==
  ASSUME NEW t, NEW k, NEW r, TimerFine(t, k, r), NEW n \in Nat, IsOverdue(r, n)
  PROVE  LET x == MarkBreached(r, n)
         IN  TimerFine(t, k, x) /\ x.breachedAt = n /\ x.dueAt = r.dueAt
<1>1. r \in Timer /\ r.stoppedAt = NULL /\ IsRunning(r) /\ r.dueAt \in Nat /\ r.dueAt <= n
  BY DEF TimerFine, IsOverdue, IsRunning, Timer
<1>2. PICK x : x = MarkBreached(r, n)
  OBVIOUS
<1>3. /\ x \in Timer /\ x.startedAt = r.startedAt /\ x.dueAt = r.dueAt
      /\ x.stoppedAt = NULL /\ x.breachedAt = n
  BY <1>1, <1>2 DEF MarkBreached, Timer
<1>4. TimerFine(t, k, x)
  BY <1>1, <1>3 DEF TimerFine
<1>. QED
  BY <1>2, <1>3, <1>4

LEMMA BreachTimerStep ==
  ASSUME SInv, NEW s \in Sweeper, BreachTimer(s)
  PROVE  SInv'
<1>1. PICK o : o = sweep[s] /\ SweepFine(o)
  BY DEF SInv, SweepsOK
<1>2. o.pc = "loaded" /\ o.now \in Nat
  <2>1. o.now \in 0..MaxTime
    BY <1>1 DEF SweepFine, SweepState
  <2>. QED  BY <1>1, <2>1, SlaAssumption DEF BreachTimer
<1>3. PICK c : c = MarkBreached(o.copy, o.now)
  OBVIOUS
<1>4. /\ sweep' = [sweep EXCEPT ![s] = Gone(o, "saved", c)]
      /\ UNCHANGED <<facts, timers, processed, breaches, job, clock, faults>>
  BY <1>1, <1>3, Types DEF BreachTimer, Gone
<1>5. TimerFine(o.id[1], o.id[2], c) /\ c.breachedAt = o.now /\ c.dueAt = o.copy.dueAt
  <2>1. TimerFine(o.id[1], o.id[2], o.copy) /\ IsOverdue(o.copy, o.now)
    BY <1>1, <1>2 DEF SweepFine
  <2>. QED  BY <1>2, <1>3, <2>1, BreachedFine
<1>6. PICK x : x = Gone(o, "saved", c)
  OBVIOUS
<1>7. c \in Timer \cup {NULL}
  BY <1>5 DEF TimerFine
<1>8. /\ x \in SweepState /\ x.pc = "saved" /\ x.copy = c
      /\ x.id = o.id /\ x.todo = o.todo /\ x.now = o.now
  <2>1. o \in SweepState /\ "saved" \in SweepPc
    BY <1>1 DEF SweepFine, SweepPc
  <2>. QED  BY <1>6, <1>7, <2>1, GoneFields
<1>9. c.breachedAt # NULL
  BY <1>2, <1>5, NullAssumption
<1>10. SweepFine(x)
  BY <1>1, <1>2, <1>5, <1>8, <1>9 DEF SweepFine, Holding
<1>11. sweep' = [sweep EXCEPT ![s] = x]
  BY <1>4, <1>6
<1>. QED
  BY <1>4, <1>10, <1>11, Types, SweepChange

LEMMA GiveUpSteps ==
  ASSUME SInv, NEW s \in Sweeper, FailMark(s) \/ CrashSweep(s)
  PROVE  SInv'
<1>1. faults' \in 0..MaxFaults
  BY FaultType DEF FailMark, CrashSweep
<1>2. UNCHANGED <<facts, timers, processed, breaches, job, clock>>
  BY DEF FailMark, CrashSweep
<1>3. sweep' = [sweep EXCEPT ![s] = Rest(s)] \/ sweep' = [sweep EXCEPT ![s] = NoSweep]
  BY DEF FailMark, CrashSweep
<1>. QED
  BY <1>1, <1>2, <1>3, RestFine, IdleFine, SweepChange

\* The row and the count a sweep's commit leaves.
LEMMA BreachRow ==
  ASSUME SInv, NEW s \in Sweeper, CommitBreach(s)
  PROVE  \E t \in Ticket, k \in Kind, row \in Timer :
           /\ sweep[s].id[1] = t /\ sweep[s].id[2] = k
           /\ timers' = [timers EXCEPT ![t][k] = row]
           /\ breaches' = [breaches EXCEPT ![t][k] = @ + 1]
           /\ TimerFine(t, k, row) /\ Started(t) /\ row.breachedAt # NULL
           /\ timers[t][k] # NULL
           /\ row.startedAt = timers[t][k].startedAt /\ row.dueAt = timers[t][k].dueAt
<1>1. PICK o : o = sweep[s] /\ SweepFine(o)
  BY DEF SInv, SweepsOK
<1>2. o.pc = "saved"
  BY <1>1 DEF CommitBreach
<1>3. PICK t \in Ticket, k \in Kind : t = o.id[1] /\ k = o.id[2]
  BY <1>1, <1>2 DEF SweepFine, Holding
<1>4. /\ timers[t][k] # NULL /\ TimerFine(t, k, o.copy) /\ o.copy.breachedAt # NULL
      /\ o.copy.dueAt = timers[t][k].dueAt
  BY <1>1, <1>2, <1>3 DEF SweepFine, Holding
<1>5. PICK row : row = Upsert(timers[t][k], o.copy)
  OBVIOUS
<1>6. /\ TimerFine(t, k, row) /\ row.breachedAt = o.copy.breachedAt
      /\ row.startedAt = timers[t][k].startedAt /\ row.dueAt = timers[t][k].dueAt
  BY <1>4, <1>5, UpsertFine
<1>7. /\ timers' = [timers EXCEPT ![t][k] = row]
      /\ breaches' = [breaches EXCEPT ![t][k] = @ + 1]
  BY <1>1, <1>3, <1>5, Types DEF CommitBreach
<1>8. Started(t) /\ row \in Timer
  BY <1>4, <1>6 DEF SInv, RowsOK, TimerFine
<1>. QED
  BY <1>1, <1>3, <1>4, <1>6, <1>7, <1>8

\* One entry of a table by ticket and kind.
LEMMA EntrySet ==
  ASSUME NEW S, NEW f \in [Ticket -> [Kind -> S]], NEW t \in Ticket, NEW k \in Kind, NEW v \in S
  PROVE  /\ [f EXCEPT ![t][k] = v] \in [Ticket -> [Kind -> S]]
         /\ \A u \in Ticket, l \in Kind :
              [f EXCEPT ![t][k] = v][u][l] = IF u = t /\ l = k THEN v ELSE f[u][l]
OBVIOUS

LEMMA CommitBreachStep ==
  ASSUME SInv, NEW s \in Sweeper, CommitBreach(s)
  PROVE  SInv'
<1>1. PICK t \in Ticket, k \in Kind, row \in Timer :
        /\ timers' = [timers EXCEPT ![t][k] = row]
        /\ breaches' = [breaches EXCEPT ![t][k] = @ + 1]
        /\ TimerFine(t, k, row) /\ Started(t) /\ row.breachedAt # NULL
        /\ timers[t][k] # NULL
        /\ row.startedAt = timers[t][k].startedAt /\ row.dueAt = timers[t][k].dueAt
  BY BreachRow
<1>2. /\ sweep' = [sweep EXCEPT ![s] = Rest(s)]
      /\ UNCHANGED <<facts, processed, job, clock, faults>>
  BY DEF CommitBreach
<1>3. /\ timers' \in [Ticket -> [Kind -> Timer \cup {NULL}]]
      /\ \A u \in Ticket, l \in Kind : timers'[u][l] = IF u = t /\ l = k THEN row ELSE timers[u][l]
  <2>1. row \in Timer \cup {NULL}
    OBVIOUS
  <2>. QED  BY <1>1, <2>1, Types, EntrySet
<1>4. /\ breaches' \in [Ticket -> [Kind -> Nat]]
      /\ \A u \in Ticket, l \in Kind :
           breaches'[u][l] = IF u = t /\ l = k THEN breaches[t][k] + 1 ELSE breaches[u][l]
  <2>1. breaches \in [Ticket -> [Kind -> Nat]] /\ breaches[t][k] + 1 \in Nat
    BY Types
  <2>2. breaches' = [breaches EXCEPT ![t][k] = breaches[t][k] + 1]
    BY <1>1, <2>1
  <2>. QED  BY <2>1, <2>2, EntrySet
<1>5. Kept
  BY <1>1, <1>2, <1>3, NullAssumption DEF Kept
<1>6. RowsOK'
  <2>. SUFFICES ASSUME NEW u \in Ticket, NEW l \in Kind, NEW r, r = timers'[u][l], r # NULL
                PROVE  /\ TimerFine(u, l, r)' /\ Started(u)'
                       /\ r.breachedAt # NULL => breaches'[u][l] > 0
    BY DEF RowsOK
  <2>1. Started(u) => Started(u)'
    BY <1>2 DEF Started
  <2>2. CASE u = t /\ l = k
    <3>1. r = row /\ breaches'[u][l] = breaches[t][k] + 1 /\ breaches[t][k] \in Nat
      BY <1>3, <1>4, <2>2, Types
    <3>2. TimerFine(u, l, r)'
      BY <1>1, <1>2, <2>2, <3>1, TimerKept
    <3>. QED  BY <1>1, <2>1, <2>2, <3>1, <3>2
  <2>3. CASE ~(u = t /\ l = k)
    <3>1. r = timers[u][l] /\ breaches'[u][l] = breaches[u][l]
      BY <1>3, <1>4, <2>3
    <3>2. TimerFine(u, l, r) /\ Started(u) /\ (r.breachedAt # NULL => breaches[u][l] > 0)
      BY <3>1 DEF SInv, RowsOK
    <3>. QED  BY <1>2, <2>1, <3>1, <3>2, TimerKept
  <2>. QED  BY <2>2, <2>3
<1>7. sweep \in [Sweeper -> SweepState] /\ SweepFine(Rest(s)) /\ Rest(s) \in SweepState
  BY Types, RestFine DEF SweepFine
<1>8. sweep' \in [Sweeper -> SweepState] /\ \A v \in Sweeper : sweep'[v] = IF v = s THEN Rest(s) ELSE sweep[v]
  BY <1>2, <1>7
<1>9. TypeOK'
  BY <1>2, <1>3, <1>4, <1>8, Types DEF TypeOK, JobState, SweepState
<1>10. FactsOK'
  BY <1>2 DEF SInv, FactsOK
<1>11. JobsOK'
  BY <1>2, JobsSame
<1>12. SweepsOK'
  <2>1. PICK y : y = Rest(s) /\ SweepFine(y)
    BY <1>7
  <2>2. SweepFine(y)' /\ \A v \in Sweeper : sweep'[v] = IF v = s THEN y ELSE sweep[v]
    BY <1>5, <1>8, <2>1, SweepKept
  <2>3. ASSUME NEW v \in Sweeper \ {s} PROVE SweepFine(sweep[v])'
    <3>1. PICK x : x = sweep[v] /\ SweepFine(x)
      BY DEF SInv, SweepsOK
    <3>2. SweepFine(x)'
      BY <1>5, <3>1, SweepKept
    <3>. QED  BY <2>2, <3>1, <3>2
  <2>. QED  BY <2>2, <2>3 DEF SweepsOK
<1>. QED
  BY <1>6, <1>9, <1>10, <1>11, <1>12 DEF SInv

-----------------------------------------------------------------------------
(* The theorems.                                                           *)

LEMMA SStep == SInv /\ [Next]_vars => SInv'
<1>. SUFFICES ASSUME SInv, [Next]_vars PROVE SInv'
  OBVIOUS
<1>1. ASSUME NEW w \in Worker, JobStep(w) \/ AbortJob(w) PROVE SInv'
  BY <1>1, ClaimFactStep, StartTimersStep, FindRunningStep, StopTimerStep, CommitJobStep, AbortJobStep
     DEF JobStep
<1>2. ASSUME NEW s \in Sweeper, SweepStep(s) \/ FailMark(s) \/ CrashSweep(s) PROVE SInv'
  BY <1>2, SweepBegins, BeginMarkStep, CheckAgainStep, BreachTimerStep, CommitBreachStep, GiveUpSteps
     DEF SweepStep
<1>. QED
  BY <1>1, <1>2, TickStep, HappenStep, NothingHappens DEF Next

LEMMA SlaInvariant == Spec => []SInv
<1>. QED
  BY SInit, SStep, PTL DEF Spec

\* Timers, jobs and sweeps keep their types.
THEOREM SlaTypes == Spec => []TypeOK
<1>1. SInv => TypeOK
  BY DEF SInv
<1>. QED
  BY SlaInvariant, <1>1, PTL

\* However the writes of jobs and sweepers overlap, no timer is both met and
\* breached.
THEOREM MetOrBreached == Spec => []NeverMetAndBreached
<1>1. SInv => NeverMetAndBreached
  BY DEF SInv, RowsOK, TimerFine, NeverMetAndBreached, Row
<1>. QED
  BY SlaInvariant, <1>1, PTL

\* A stored timer starts at the ticket's creation and stops at the fact it
\* waited for, whenever its jobs ran.
THEOREM TimersFromFacts == Spec => []TimersFollowTheFacts
<1>1. SInv => TimersFollowTheFacts
  BY DEF SInv, RowsOK, TimerFine, StopName, TimersFollowTheFacts, Row
<1>. QED
  BY SlaInvariant, <1>1, PTL

\* A timer shown as breached was out of time, and its breach was recorded.
THEOREM BreachesEarned == Spec => []BreachesAreEarned
<1>1. SInv => BreachesAreEarned
  <2>. SUFFICES ASSUME SInv, NEW t \in Ticket, NEW k \in Kind, NEW r, r = timers[t][k], r # NULL,
                       DescribeSlaTimer(r, clock).status = "breached"
                PROVE  DescribeSlaTimer(r, clock).remaining <= 0 /\ breaches[t][k] > 0
    BY DEF BreachesAreEarned, Row
  <2>1. r.breachedAt # NULL
    BY DEF DescribeSlaTimer
  <2>2. /\ r \in Timer /\ r.dueAt <= r.breachedAt /\ breaches[t][k] > 0
    BY <2>1 DEF SInv, RowsOK, TimerFine
  <2>3. r.dueAt \in Nat /\ r.breachedAt \in Nat
    BY <2>1, <2>2, TimerFields
  <2>4. DescribeSlaTimer(r, clock).remaining = r.dueAt - r.breachedAt
    BY <2>1 DEF DescribeSlaTimer
  <2>. QED  BY <2>2, <2>3, <2>4
<1>. QED
  BY SlaInvariant, <1>1, PTL

\* The start job finds no row of its ticket: a row is there only after that job.
LEMMA StartsOnce ==
  ASSUME SInv, NEW w \in Worker, job[w].pc # "idle", job[w].fact.name = "created"
  PROVE  \A k \in Kind : timers[job[w].fact.ticket][k] = NULL
<1>. SUFFICES ASSUME NEW k \in Kind, timers[job[w].fact.ticket][k] # NULL PROVE FALSE
  OBVIOUS
<1>1. job[w].fact \in facts \ processed /\ job[w].fact.ticket \in Ticket
  BY FactOfJob
<1>2. PICK f \in processed : f.name = "created" /\ f.ticket = job[w].fact.ticket
  BY <1>1 DEF SInv, RowsOK, Started
<1>. QED
  BY <1>1, <1>2, Types DEF SInv, FactsOK

LEMMA SettledStep ==
  ASSUME SInv, [Next]_vars, NEW t \in Ticket, NEW k \in Kind, timers[t][k] # NULL
  PROVE  /\ timers'[t][k] # NULL
         /\ timers'[t][k].startedAt = timers[t][k].startedAt
         /\ timers'[t][k].dueAt = timers[t][k].dueAt
         /\ ~IsRunning(timers[t][k]) => ~IsRunning(timers'[t][k])
<1>1. ASSUME NEW w \in Worker, CommitJob(w)
      PROVE  /\ timers'[t][k] # NULL
             /\ timers'[t][k].startedAt = timers[t][k].startedAt
             /\ timers'[t][k].dueAt = timers[t][k].dueAt
             /\ ~IsRunning(timers[t][k]) => ~IsRunning(timers'[t][k])
  <2>1. CASE t = job[w].fact.ticket /\ job[w].copy[k] # NULL
    <3>1. job[w].pc = "saved"
      BY <1>1 DEF CommitJob
    <3>2. job[w].fact.name # "created"
      BY <2>1, <3>1, StartsOnce
    <3>3. ~IsRunning(job[w].copy[k]) /\ job[w].copy[k].breachedAt = NULL
      BY <2>1, <3>1, <3>2 DEF SInv, JobsOK, JobFine
    <3>4. PICK row : row = Upsert(timers[t][k], job[w].copy[k])
      OBVIOUS
    <3>5. /\ row \in Timer /\ row.stoppedAt = job[w].copy[k].stoppedAt /\ row.breachedAt = NULL
          /\ row.startedAt = timers[t][k].startedAt /\ row.dueAt = timers[t][k].dueAt
      BY <1>1, <2>1, <3>4, JobRows DEF TimerFine, Written
    <3>6. timers'[t][k] = row
      BY <1>1, <2>1, <3>4, JobRows
    <3>7. ~IsRunning(row)
      BY <3>3, <3>5 DEF IsRunning
    <3>. QED  BY <3>5, <3>6, <3>7, NullAssumption
  <2>2. CASE ~(t = job[w].fact.ticket /\ job[w].copy[k] # NULL)
    <3>1. timers'[t][k] = timers[t][k]
      BY <1>1, <2>2, JobRows
    <3>. QED  BY <3>1
  <2>. QED  BY <2>1, <2>2
<1>2. ASSUME NEW s \in Sweeper, CommitBreach(s)
      PROVE  /\ timers'[t][k] # NULL
             /\ timers'[t][k].startedAt = timers[t][k].startedAt
             /\ timers'[t][k].dueAt = timers[t][k].dueAt
             /\ ~IsRunning(timers[t][k]) => ~IsRunning(timers'[t][k])
  <2>1. PICK u \in Ticket, l \in Kind, row \in Timer :
          /\ timers' = [timers EXCEPT ![u][l] = row] /\ row.breachedAt # NULL
          /\ row.startedAt = timers[u][l].startedAt /\ row.dueAt = timers[u][l].dueAt
    BY <1>2, BreachRow
  <2>2. timers'[t][k] = IF t = u /\ k = l THEN row ELSE timers[t][k]
    BY <2>1, Types
  <2>3. row # NULL /\ ~IsRunning(row)
    BY <2>1, NullAssumption DEF IsRunning
  <2>. QED  BY <2>1, <2>2, <2>3
<1>3. CASE UNCHANGED timers
  <2>1. timers'[t][k] = timers[t][k]
    BY <1>3
  <2>. QED  BY <2>1
<1>4. \/ \E w \in Worker : CommitJob(w)
      \/ \E s \in Sweeper : CommitBreach(s)
      \/ UNCHANGED timers
  BY DEF Next, JobStep, SweepStep, Tick, Happen, ClaimFact, StartTimers, FindRunning, StopTimer,
         AbortJob, Sweep, BeginMark, CheckAgain, BreachTimer, FailMark, CrashSweep, vars
<1>. QED
  BY <1>1, <1>2, <1>3, <1>4

\* A stored timer keeps its objective, and once settled never runs again.
THEOREM SettledStays == Spec => SettledForGood
<1>1. SInv /\ [Next]_vars =>
        [\A t \in Ticket, k \in Kind : Row(t, k) # NULL =>
           /\ Row(t, k)' # NULL
           /\ <<Row(t, k)'.startedAt, Row(t, k)'.dueAt>> = <<Row(t, k).startedAt, Row(t, k).dueAt>>
           /\ ~IsRunning(Row(t, k)) => ~IsRunning(Row(t, k)')]_vars
  BY SettledStep DEF Row
<1>. QED
  BY SlaInvariant, <1>1, PTL DEF Spec, SettledForGood

-----------------------------------------------------------------------------
(* How often a timer can be breached: a sweeper that holds a running copy  *)
(* can breach it once more, and no sweeper gets one after the first breach. *)

Pending(t, k) == {s \in Sweeper : sweep[s].pc \in {"loaded", "saved"} /\ sweep[s].id = <<t, k>>}

CountInv ==
  \A t \in Ticket, k \in Kind :
    /\ breaches[t][k] + Cardinality(Pending(t, k)) <= Cardinality(Sweeper)
    /\ breaches[t][k] > 0 => timers[t][k] # NULL /\ ~IsRunning(timers[t][k])

\* A step leaves the pending breaches of a timer, adds one while it runs, or
\* carries one out.
BreachKinds(t, k) ==
  \/ Pending(t, k)' \subseteq Pending(t, k) /\ breaches'[t][k] = breaches[t][k]
  \/ /\ timers[t][k] # NULL /\ IsRunning(timers[t][k])
     /\ breaches'[t][k] = breaches[t][k]
  \/ \E s \in Pending(t, k) :
       /\ Pending(t, k)' \subseteq Pending(t, k) \ {s}
       /\ breaches'[t][k] = breaches[t][k] + 1
       /\ timers'[t][k] # NULL /\ ~IsRunning(timers'[t][k])

LEMMA RestIsFree ==
  ASSUME NEW s \in Sweeper
  PROVE  Rest(s).pc \notin {"loaded", "saved"}
BY DEF Rest, NoSweep

\* A sweep that lets go of its timer takes it from the pending ones.
LEMMA LetsGo ==
  ASSUME SInv, NEW s \in Sweeper, NEW y, y.pc \notin {"loaded", "saved"},
         sweep' = [sweep EXCEPT ![s] = y], NEW t \in Ticket, NEW k \in Kind
  PROVE  Pending(t, k)' \subseteq Pending(t, k) \ {s}
<1>1. sweep \in [Sweeper -> SweepState]
  BY Types
<1>2. \A v \in Sweeper : sweep'[v] = IF v = s THEN y ELSE sweep[v]
  BY <1>1
<1>. QED
  BY <1>2 DEF Pending

LEMMA CommitBreachKind ==
  ASSUME SInv, NEW s \in Sweeper, CommitBreach(s), NEW t \in Ticket, NEW k \in Kind
  PROVE  BreachKinds(t, k)
<1>1. PICK u \in Ticket, l \in Kind, row \in Timer :
        /\ sweep[s].id[1] = u /\ sweep[s].id[2] = l
        /\ timers' = [timers EXCEPT ![u][l] = row]
        /\ breaches' = [breaches EXCEPT ![u][l] = @ + 1]
        /\ row.breachedAt # NULL
  BY BreachRow
<1>2. PICK y : y = Rest(s)
  OBVIOUS
<1>3. /\ sweep' = [sweep EXCEPT ![s] = y] /\ y.pc \notin {"loaded", "saved"}
      /\ sweep[s].pc = "saved"
  BY <1>2, RestIsFree DEF CommitBreach
<1>4. Pending(t, k)' \subseteq Pending(t, k) \ {s}
  BY <1>3, LetsGo
<1>5. /\ timers'[t][k] = IF t = u /\ k = l THEN row ELSE timers[t][k]
      /\ breaches'[t][k] = IF t = u /\ k = l THEN breaches[t][k] + 1 ELSE breaches[t][k]
  BY <1>1, Types
<1>6. CASE t = u /\ k = l
  <2>1. row # NULL /\ ~IsRunning(row)
    BY <1>1, NullAssumption DEF IsRunning
  <2>2. sweep[s].id \in Ticket \X Kind
    BY <1>3 DEF SInv, SweepsOK, SweepFine, Holding
  <2>3. s \in Pending(t, k)
    BY <1>1, <1>3, <1>6, <2>2 DEF Pending
  <2>. QED  BY <1>4, <1>5, <1>6, <2>1, <2>3 DEF BreachKinds
<1>7. CASE ~(t = u /\ k = l)
  BY <1>4, <1>5, <1>7 DEF BreachKinds
<1>. QED
  BY <1>6, <1>7

LEMMA CheckAgainKind ==
  ASSUME SInv, NEW s \in Sweeper, CheckAgain(s), NEW t \in Ticket, NEW k \in Kind
  PROVE  BreachKinds(t, k)
<1>1. PICK x : x = sweep[s] /\ SweepFine(x)
  BY DEF SInv, SweepsOK
<1>2. x.pc = "begun" /\ UNCHANGED breaches /\ x \in SweepState
  BY <1>1 DEF CheckAgain, SweepFine
<1>3. PICK row : row = timers[x.id[1]][x.id[2]]
  OBVIOUS
<1>4. CASE ~IsOverdue(row, x.now)
  <2>1. PICK y : y = Rest(s)
    OBVIOUS
  <2>2. y.pc \notin {"loaded", "saved"} /\ sweep' = [sweep EXCEPT ![s] = y]
    BY <1>1, <1>3, <1>4, <2>1, RestIsFree DEF CheckAgain
  <2>. QED  BY <1>2, <2>2, LetsGo DEF BreachKinds
<1>5. CASE IsOverdue(row, x.now)
  <2>1. PICK y : y = Gone(x, "loaded", row)
    OBVIOUS
  <2>2. sweep' = [sweep EXCEPT ![s] = y]
    BY <1>1, <1>3, <1>5, <2>1 DEF CheckAgain, Gone
  <2>3. y.id = x.id
    BY <1>2, <2>1 DEF Gone, SweepState
  <2>4. sweep'[s] = y /\ \A v \in Sweeper \ {s} : sweep'[v] = sweep[v]
    BY <2>2, Types
  <2>5. CASE x.id = <<t, k>>
    <3>1. row = timers[t][k] /\ timers[t][k] # NULL
      BY <1>1, <1>2, <1>3, <2>5 DEF SweepFine, Holding
    <3>. QED  BY <1>2, <1>5, <3>1 DEF IsOverdue, BreachKinds
  <2>6. CASE x.id # <<t, k>>
    <3>1. Pending(t, k)' \subseteq Pending(t, k)
      BY <2>3, <2>4, <2>6 DEF Pending
    <3>. QED  BY <1>2, <3>1 DEF BreachKinds
  <2>. QED  BY <2>5, <2>6
<1>. QED
  BY <1>4, <1>5

\* Taking up or giving up timers breaches none.
LEMMA OtherSweepKinds ==
  ASSUME SInv, NEW s \in Sweeper,
         Sweep(s) \/ BeginMark(s) \/ BreachTimer(s) \/ FailMark(s) \/ CrashSweep(s),
         NEW t \in Ticket, NEW k \in Kind
  PROVE  BreachKinds(t, k)
<1>1. UNCHANGED breaches
  BY DEF Sweep, BeginMark, BreachTimer, FailMark, CrashSweep
<1>2. sweep \in [Sweeper -> SweepState] /\ sweep[s] \in SweepState
  BY Types
<1>3. CASE BreachTimer(s)
  <2>1. /\ sweep[s].pc = "loaded" /\ sweep'[s].id = sweep[s].id
        /\ \A v \in Sweeper \ {s} : sweep'[v] = sweep[v]
    BY <1>2, <1>3 DEF BreachTimer, SweepState
  <2>2. Pending(t, k)' \subseteq Pending(t, k)
    BY <2>1 DEF Pending
  <2>. QED  BY <1>1, <2>2 DEF BreachKinds
<1>4. CASE Sweep(s)
  <2>1. sweep'[s].pc = "swept" /\ \A v \in Sweeper \ {s} : sweep'[v] = sweep[v]
    BY <1>2, <1>4 DEF Sweep, NoSweep
  <2>2. Pending(t, k)' \subseteq Pending(t, k)
    BY <2>1 DEF Pending
  <2>. QED  BY <1>1, <2>2 DEF BreachKinds
<1>5. CASE BeginMark(s)
  <2>1. PICK o : o = sweep[s] /\ o \in SweepState /\ o.todo \in SUBSET (Ticket \X Kind)
    BY <1>2 DEF SweepState
  <2>2. PICK id \in o.todo : sweep' = [sweep EXCEPT ![s] = Begun(o, id, clock)]
    BY <1>5, <2>1 DEF BeginMark, Begun
  <2>3. PICK y : y = Begun(o, id, clock)
    OBVIOUS
  <2>4. y.pc = "begun"
    BY <2>1, <2>3, Types, BegunFields
  <2>5. sweep' = [sweep EXCEPT ![s] = y]
    BY <2>2, <2>3
  <2>. QED  BY <1>1, <2>4, <2>5, LetsGo DEF BreachKinds
<1>6. CASE FailMark(s) \/ CrashSweep(s)
  <2>1. PICK y : y \in {Rest(s), NoSweep} /\ sweep' = [sweep EXCEPT ![s] = y]
    BY <1>6 DEF FailMark, CrashSweep
  <2>2. y.pc \notin {"loaded", "saved"}
    BY <2>1, RestIsFree DEF NoSweep
  <2>. QED  BY <1>1, <2>1, <2>2, LetsGo DEF BreachKinds
<1>. QED
  BY <1>3, <1>4, <1>5, <1>6

LEMMA EveryBreachKind ==
  ASSUME SInv, [Next]_vars, NEW t \in Ticket, NEW k \in Kind
  PROVE  BreachKinds(t, k)
<1>1. ASSUME UNCHANGED <<sweep, breaches>>
      PROVE  BreachKinds(t, k)
  BY <1>1 DEF BreachKinds, Pending
<1>2. ASSUME NEW w \in Worker, JobStep(w) \/ AbortJob(w)
      PROVE  UNCHANGED <<sweep, breaches>>
  BY <1>2 DEF JobStep, ClaimFact, StartTimers, FindRunning, StopTimer, CommitJob, AbortJob
<1>3. ASSUME NEW s \in Sweeper, SweepStep(s) \/ FailMark(s) \/ CrashSweep(s)
      PROVE  BreachKinds(t, k)
  BY <1>3, CommitBreachKind, CheckAgainKind, OtherSweepKinds DEF SweepStep
<1>4. ASSUME Tick \/ UNCHANGED vars \/ \E u \in Ticket : \E name : Happen(u, name)
      PROVE  UNCHANGED <<sweep, breaches>>
  BY <1>4 DEF Tick, vars, Happen
<1>. QED
  BY <1>1, <1>2, <1>3, <1>4 DEF Next

LEMMA CountStep == SInv /\ SInv' /\ CountInv /\ [Next]_vars => CountInv'
<1>. SUFFICES ASSUME SInv, SInv', CountInv, [Next]_vars, NEW t \in Ticket, NEW k \in Kind
              PROVE  /\ breaches'[t][k] + Cardinality(Pending(t, k)') <= Cardinality(Sweeper)
                     /\ breaches'[t][k] > 0 => timers'[t][k] # NULL /\ ~IsRunning(timers'[t][k])
  BY DEF CountInv
<1>1. PICK p, q : p = Pending(t, k) /\ q = Pending(t, k)'
  OBVIOUS
<1>2. p \subseteq Sweeper /\ q \subseteq Sweeper
  BY <1>1 DEF Pending
<1>3. /\ IsFiniteSet(Sweeper) /\ IsFiniteSet(p) /\ IsFiniteSet(q)
      /\ Cardinality(Sweeper) \in Nat /\ Cardinality(p) \in Nat /\ Cardinality(q) \in Nat
      /\ Cardinality(q) <= Cardinality(Sweeper)
  BY <1>2, SlaAssumption, FS_Subset, FS_CardinalityType
<1>4. /\ breaches[t][k] + Cardinality(p) <= Cardinality(Sweeper)
      /\ breaches[t][k] > 0 => timers[t][k] # NULL /\ ~IsRunning(timers[t][k])
      /\ breaches[t][k] \in Nat
  BY <1>1, Types DEF CountInv
<1>5. breaches[t][k] > 0 => timers'[t][k] # NULL /\ ~IsRunning(timers'[t][k])
  BY <1>4, SettledStep
<1>6. CASE q \subseteq p /\ breaches'[t][k] = breaches[t][k]
  <2>1. Cardinality(q) <= Cardinality(p)
    BY <1>3, <1>6, FS_Subset
  <2>. QED  BY <1>1, <1>3, <1>4, <1>5, <1>6, <2>1
<1>7. CASE timers[t][k] # NULL /\ IsRunning(timers[t][k]) /\ breaches'[t][k] = breaches[t][k]
  <2>1. breaches[t][k] = 0
    BY <1>4, <1>7
  <2>. QED  BY <1>1, <1>3, <1>7, <2>1
<1>8. ASSUME NEW s \in p, q \subseteq p \ {s}, breaches'[t][k] = breaches[t][k] + 1,
             timers'[t][k] # NULL, ~IsRunning(timers'[t][k])
      PROVE  /\ breaches'[t][k] + Cardinality(q) <= Cardinality(Sweeper)
             /\ timers'[t][k] # NULL /\ ~IsRunning(timers'[t][k])
  <2>1. IsFiniteSet(p \ {s}) /\ Cardinality(p \ {s}) = Cardinality(p) - 1
    BY <1>3, FS_RemoveElement
  <2>2. Cardinality(q) <= Cardinality(p) - 1
    BY <1>8, <2>1, FS_Subset
  <2>. QED  BY <1>3, <1>4, <1>8, <2>2
<1>. QED
  BY <1>1, <1>6, <1>7, <1>8, EveryBreachKind DEF BreachKinds

\* For any number of sweepers: a breach is earned, and repeated only by
\* sweepers that overlap the first, each of them once.
THEOREM BreachesBounded == Spec => []BreachesAreReal
<1>1. Init => CountInv
  <2>. SUFFICES ASSUME Init, NEW t \in Ticket, NEW k \in Kind
                PROVE  /\ breaches[t][k] = 0
                       /\ Cardinality(Pending(t, k)) <= Cardinality(Sweeper)
                       /\ Cardinality(Pending(t, k)) \in Nat
    BY DEF CountInv
  <2>1. PICK p : p = Pending(t, k) /\ p \subseteq Sweeper
    BY DEF Pending
  <2>2. IsFiniteSet(p) /\ Cardinality(p) <= Cardinality(Sweeper) /\ Cardinality(p) \in Nat
    BY <2>1, SlaAssumption, FS_Subset, FS_CardinalityType
  <2>. QED  BY <2>1, <2>2 DEF Init
<1>2. SInv /\ CountInv => \A t \in Ticket, k \in Kind : breaches[t][k] <= Cardinality(Sweeper)
  <2>. SUFFICES ASSUME SInv, CountInv, NEW t \in Ticket, NEW k \in Kind
                PROVE  breaches[t][k] <= Cardinality(Sweeper)
    OBVIOUS
  <2>1. PICK p : p = Pending(t, k) /\ p \subseteq Sweeper
    BY DEF Pending
  <2>2. Cardinality(p) \in Nat /\ Cardinality(Sweeper) \in Nat
    BY <2>1, SlaAssumption, FS_Subset, FS_CardinalityType
  <2>. QED  BY <2>1, <2>2, Types DEF CountInv
<1>3. BreachesAreEarned /\ (\A t \in Ticket, k \in Kind : breaches[t][k] <= Cardinality(Sweeper))
        => BreachesAreReal
  BY DEF BreachesAreReal
<1>. QED
  BY SlaInvariant, BreachesEarned, CountStep, <1>1, <1>2, <1>3, PTL DEF Spec

\* The loops of the instances never hold one timer at the same time.
SweepsApart ==
  \A t \in Ticket, k \in Kind : \A r, s \in Pending(t, k) : r = s

\* Then nobody still holds a timer that has been breached.
OnceInv ==
  \A t \in Ticket, k \in Kind :
    /\ breaches[t][k] <= 1
    /\ breaches[t][k] > 0 =>
         /\ timers[t][k] # NULL /\ ~IsRunning(timers[t][k])
         /\ Pending(t, k) = {}

LEMMA OnceStep == SInv /\ SweepsApart /\ OnceInv /\ [Next]_vars => OnceInv'
<1>. SUFFICES ASSUME SInv, SweepsApart, OnceInv, [Next]_vars, NEW t \in Ticket, NEW k \in Kind
              PROVE  /\ breaches'[t][k] <= 1
                     /\ breaches'[t][k] > 0 =>
                          /\ timers'[t][k] # NULL /\ ~IsRunning(timers'[t][k])
                          /\ Pending(t, k)' = {}
  BY DEF OnceInv
<1>1. /\ breaches[t][k] \in Nat /\ breaches[t][k] <= 1
      /\ breaches[t][k] > 0 => /\ timers[t][k] # NULL /\ ~IsRunning(timers[t][k])
                               /\ Pending(t, k) = {}
      /\ \A r, s \in Pending(t, k) : r = s
  BY Types DEF OnceInv, SweepsApart
<1>2. CASE Pending(t, k)' \subseteq Pending(t, k) /\ breaches'[t][k] = breaches[t][k]
  <2>1. breaches[t][k] > 0 => timers'[t][k] # NULL /\ ~IsRunning(timers'[t][k])
    BY <1>1, SettledStep
  <2>. QED  BY <1>1, <1>2, <2>1
<1>3. CASE timers[t][k] # NULL /\ IsRunning(timers[t][k]) /\ breaches'[t][k] = breaches[t][k]
  BY <1>1, <1>3
<1>4. ASSUME NEW s \in Pending(t, k), Pending(t, k)' \subseteq Pending(t, k) \ {s},
             breaches'[t][k] = breaches[t][k] + 1,
             timers'[t][k] # NULL, ~IsRunning(timers'[t][k])
      PROVE  /\ breaches'[t][k] <= 1
             /\ timers'[t][k] # NULL /\ ~IsRunning(timers'[t][k])
             /\ Pending(t, k)' = {}
  <2>1. breaches[t][k] = 0
    BY <1>1
  <2>2. Pending(t, k)' = {}
    BY <1>1, <1>4
  <2>. QED  BY <1>4, <2>1, <2>2
<1>. QED
  BY <1>2, <1>3, <1>4, EveryBreachKind DEF BreachKinds

\* "solo uno afecta a una fila", for as long as no two loops hold one timer, which
\* the code leaves to chance: then each is breached, audited and announced once.
THEOREM SweepsApartBreachOnce == Spec /\ []SweepsApart => []BreachedOnce
<1>1. Init => OnceInv
  BY DEF Init, OnceInv
<1>2. OnceInv => BreachedOnce
  BY DEF OnceInv, BreachedOnce
<1>. QED
  BY SlaInvariant, OnceStep, <1>1, <1>2, PTL DEF Spec

-----------------------------------------------------------------------------
(* A ticket gets both of its timers or none.                               *)

\* Both rows are written by the one commit that marks the creation processed.
TimersComeTogether == \A t \in Ticket, k \in Kind : Started(t) <=> Row(t, k) # NULL

\* The timers a job is about.
Concerns(name) == IF name = "created" THEN Kind ELSE StoppedBy(name)

LEMMA StopKinds ==
  ASSUME NEW name
  PROVE  /\ StoppedBy(name) \subseteq Kind /\ StoppedBy("created") = {}
         /\ \A k, l \in StoppedBy(name) : k = l
BY DEF StoppedBy, Kind

\* A job that holds a timer holds all that it is about.
Whole(j) ==
  /\ j.pc = "loaded" => j.fact.name # "created"
  /\ j.pc \in {"loaded", "saved"} => \A k \in Concerns(j.fact.name) : j.copy[k] # NULL

JobsAreWhole == \A w \in Worker : Whole(job[w])

PairInv == TimersComeTogether /\ JobsAreWhole

LEMMA WholeJobStep ==
  ASSUME SInv, JobsAreWhole, NEW w \in Worker, NEW j, job' = [job EXCEPT ![w] = j], Whole(j)
  PROVE  JobsAreWhole'
<1>1. \A v \in Worker : job'[v] = IF v = w THEN j ELSE job[v]
  BY Types
<1>. QED
  BY <1>1 DEF JobsAreWhole

LEMMA WholeStep == SInv /\ JobsAreWhole /\ [Next]_vars => JobsAreWhole'
<1>. SUFFICES ASSUME SInv, JobsAreWhole, [Next]_vars PROVE JobsAreWhole'
  OBVIOUS
<1>1. CASE UNCHANGED job
  BY <1>1 DEF JobsAreWhole
<1>2. ASSUME NEW w \in Worker, StartTimers(w) PROVE JobsAreWhole'
  <2>1. PICK target \in Targets :
          job' = [job EXCEPT ![w].pc = "saved",
                             ![w].copy = [k \in Kind |-> Start(job[w].fact.at, target[k])]]
    BY <1>2 DEF StartTimers
  <2>2. PICK f : f = job[w].fact /\ f \in facts /\ f.name = "created"
    BY <1>2, FactOfJob DEF StartTimers
  <2>3. PICK c : c = [k \in Kind |-> Start(f.at, target[k])]
    OBVIOUS
  <2>4. \A k \in Kind : c[k] # NULL /\ c[k] \in Timer
    BY <2>2, <2>3, StartedFine, NullAssumption DEF TimerFine
  <2>5. c \in [Kind -> Timer \cup {NULL}]
    BY <2>3, <2>4
  <2>6. PICK j : j = Moved(job[w], "saved", c) /\ j.pc = "saved" /\ j.copy = c /\ j.fact = f
    BY <2>2, <2>5, Types, MovedFields
  <2>7. job' = [job EXCEPT ![w] = j]
    BY <2>1, <2>2, <2>3, <2>6, Types DEF Moved
  <2>8. Whole(j)
    BY <2>2, <2>4, <2>6 DEF Whole, Concerns
  <2>. QED  BY <2>7, <2>8, WholeJobStep
<1>3. ASSUME NEW w \in Worker, ClaimFact(w) PROVE JobsAreWhole'
  <2>1. PICK f : job' = [job EXCEPT ![w] = [NoJob EXCEPT !.pc = "claimed", !.fact = f]]
    BY <1>3 DEF ClaimFact
  <2>2. [NoJob EXCEPT !.pc = "claimed", !.fact = f].pc = "claimed"
    BY DEF NoJob
  <2>. QED  BY <2>1, <2>2, WholeJobStep DEF Whole
<1>4. ASSUME NEW w \in Worker, job' = [job EXCEPT ![w] = NoJob] PROVE JobsAreWhole'
  BY <1>4, WholeJobStep DEF Whole, NoJob
<1>5. ASSUME NEW w \in Worker, FindRunning(w) PROVE JobsAreWhole'
  <2>1. PICK f : f = job[w].fact /\ f.ticket \in Ticket /\ f.name # "created"
    BY <1>5, FactOfJob DEF FindRunning
  <2>2. PICK found : found = {k \in StoppedBy(f.name) :
                                timers[f.ticket][k] # NULL /\ IsRunning(timers[f.ticket][k])}
    OBVIOUS
  <2>3. CASE found = {}
    <3>1. job' = [job EXCEPT ![w] = NoJob]
      BY <1>5, <2>1, <2>2, <2>3 DEF FindRunning
    <3>. QED  BY <1>4, <3>1
  <2>4. CASE found # {}
    <3>1. PICK c : c = [k \in Kind |-> IF k \in found THEN timers[f.ticket][k] ELSE NULL]
      OBVIOUS
    <3>2. job' = [job EXCEPT ![w].pc = "loaded", ![w].copy = c]
      BY <1>5, <2>1, <2>2, <2>4, <3>1 DEF FindRunning
    <3>3. c \in [Kind -> Timer \cup {NULL}]
      BY <2>1, <3>1, Types
    <3>4. PICK j : j = Moved(job[w], "loaded", c) /\ j.pc = "loaded" /\ j.copy = c /\ j.fact = f
      BY <2>1, <3>3, Types, MovedFields
    <3>5. \A k \in StoppedBy(f.name) : k \in found
      BY <2>2, <2>4, StopKinds
    <3>6. \A k \in StoppedBy(f.name) : c[k] # NULL
      BY <2>2, <3>1, <3>5, StopKinds
    <3>7. Whole(j)
      BY <2>1, <3>4, <3>6 DEF Whole, Concerns
    <3>8. job' = [job EXCEPT ![w] = j]
      BY <3>2, <3>4, Types DEF Moved
    <3>. QED  BY <3>7, <3>8, WholeJobStep
  <2>. QED  BY <2>3, <2>4
<1>6. ASSUME NEW w \in Worker, StopTimer(w) PROVE JobsAreWhole'
  <2>1. PICK f, o : f = job[w].fact /\ o = job[w].copy
    OBVIOUS
  <2>2. /\ job[w].pc = "loaded" /\ f \in facts /\ f.name # "created"
        /\ \A k \in StoppedBy(f.name) : o[k] # NULL
    BY <1>6, <2>1, FactOfJob DEF StopTimer, JobsAreWhole, Whole, Concerns
  <2>3. \A k \in Kind : o[k] # NULL =>
          TimerFine(f.ticket, k, o[k]) /\ IsRunning(o[k]) /\ k \in StoppedBy(f.name)
    BY <2>1, <2>2 DEF SInv, JobsOK, JobFine
  <2>4. PICK c : c = [k \in Kind |-> IF o[k] = NULL THEN NULL ELSE Stop(o[k], f.at)]
    OBVIOUS
  <2>5. \A k \in Kind : o[k] # NULL => c[k] = Stop(o[k], f.at) /\ c[k] \in Timer
    BY <2>2, <2>3, <2>4, StoppedFine DEF TimerFine
  <2>6. c \in [Kind -> Timer \cup {NULL}]
    BY <2>4, <2>5
  <2>7. PICK j : j = Moved(job[w], "saved", c) /\ j.pc = "saved" /\ j.copy = c /\ j.fact = f
    BY <2>1, <2>6, Types, MovedFields
  <2>8. job' = [job EXCEPT ![w] = j]
    <3>1. job' = [job EXCEPT ![w].pc = "saved", ![w].copy = c]
      BY <1>6, <2>1, <2>4, Types DEF StopTimer, JobState
    <3>. QED  BY <2>7, <3>1, Types DEF Moved
  <2>9. Whole(j)
    BY <2>2, <2>5, <2>7, StopKinds, NullAssumption DEF Whole, Concerns
  <2>. QED  BY <2>8, <2>9, WholeJobStep
<1>7. \/ UNCHANGED job
      \/ \E w \in Worker : \/ StartTimers(w) \/ ClaimFact(w) \/ FindRunning(w) \/ StopTimer(w)
                           \/ job' = [job EXCEPT ![w] = NoJob]
  BY DEF Next, JobStep, SweepStep, Tick, Happen, Sweep, BeginMark, CheckAgain, BreachTimer,
         CommitBreach, FailMark, CrashSweep, CommitJob, AbortJob, vars
<1>. QED
  BY <1>1, <1>2, <1>3, <1>4, <1>5, <1>6, <1>7

\* Every step but a job's end leaves processed, and those that leave it add no row.
LEMMA TogetherStep == SInv /\ SInv' /\ PairInv /\ [Next]_vars => TimersComeTogether'
<1>. SUFFICES ASSUME SInv, SInv', PairInv, [Next]_vars, NEW t \in Ticket, NEW k \in Kind
              PROVE  Started(t)' <=> timers'[t][k] # NULL
  BY DEF TimersComeTogether, Row
<1>1. timers'[t][k] # NULL => Started(t)'
  BY DEF SInv, RowsOK
<1>2. Started(t) => timers'[t][k] # NULL
  BY SettledStep DEF PairInv, TimersComeTogether, Row
<1>3. ASSUME Started(t)', ~Started(t) PROVE timers'[t][k] # NULL
  <2>1. PICK f \in processed' : f.name = "created" /\ f.ticket = t /\ f \notin processed
    BY <1>3 DEF Started
  <2>2. PICK w \in Worker : CommitJob(w) /\ job[w].fact = f
    <3>1. processed' # processed
      BY <2>1
    <3>2. \E w \in Worker : CommitJob(w) \/ FindRunning(w)
      BY <3>1 DEF Next, JobStep, SweepStep, Tick, Happen, Sweep, BeginMark, CheckAgain, BreachTimer,
                  CommitBreach, FailMark, CrashSweep, ClaimFact, StartTimers, StopTimer, AbortJob, vars
    <3>3. ASSUME NEW w \in Worker, FindRunning(w) PROVE FALSE
      <4>1. job[w].fact.name # "created" /\ processed' \in {processed, processed \cup {job[w].fact}}
        BY <3>3 DEF FindRunning
      <4>. QED  BY <2>1, <4>1
    <3>4. ASSUME NEW w \in Worker, CommitJob(w) PROVE job[w].fact = f
      BY <2>1, <3>4 DEF CommitJob
    <3>. QED  BY <3>2, <3>3, <3>4
  <2>3. job[w].copy[k] # NULL /\ t = job[w].fact.ticket
    BY <2>1, <2>2 DEF PairInv, JobsAreWhole, Whole, Concerns, CommitJob
  <2>4. PICK row : row = Upsert(timers[t][k], job[w].copy[k]) /\ TimerFine(t, k, row)
    BY <2>2, <2>3, JobRows DEF Written
  <2>5. timers'[t][k] = row
    BY <2>2, <2>3, <2>4, JobRows
  <2>. QED  BY <2>4, <2>5, NullAssumption DEF TimerFine
<1>. QED
  BY <1>1, <1>2, <1>3

\* The safety behind TimersStart, for any numbers of workers and faults: a ticket
\* whose creation is marked processed has both timers, and one without has none.
THEOREM BothTimersOrNone == Spec => []TimersComeTogether
<1>1. Init => PairInv
  BY DEF Init, PairInv, TimersComeTogether, JobsAreWhole, Whole, Started, Row, NoJob
<1>2. SInv /\ SInv' /\ PairInv /\ [Next]_vars => PairInv'
  BY TogetherStep, WholeStep DEF PairInv
<1>3. PairInv => TimersComeTogether
  BY DEF PairInv
<1>. QED
  BY SlaInvariant, <1>1, <1>2, <1>3, PTL DEF Spec

-----------------------------------------------------------------------------
(* What "si la cola va lenta" costs: with prompt jobs, nothing.            *)

Answers(f, t, k) == f.ticket = t /\ k \in StoppedBy(f.name)

\* No job of a ticket is done before its creation's, and when a sweeper is about
\* to look at a timer the jobs of the answers given in time are done.
JobsArePrompt ==
  /\ \A f \in processed : Started(f.ticket)
  /\ \A s \in Sweeper : sweep[s].pc = "begun" =>
       \A f \in facts :
         Answers(f, sweep[s].id[1], sweep[s].id[2]) /\ f.at < DueAt(sweep[s].id) => f \in processed

\* An answer whose job is done has settled its timer.
AnswersSettle ==
  \A f \in processed : \A k \in StoppedBy(f.name) :
    timers[f.ticket][k] # NULL /\ ~IsRunning(timers[f.ticket][k])

LEMMA SettleStep ==
  SInv /\ SInv' /\ PairInv /\ PairInv' /\ AnswersSettle /\ JobsArePrompt' /\ [Next]_vars => AnswersSettle'
<1>. SUFFICES ASSUME SInv, SInv', PairInv, PairInv', AnswersSettle, JobsArePrompt', [Next]_vars,
                     NEW f \in processed', NEW k \in StoppedBy(f.name)
              PROVE  timers'[f.ticket][k] # NULL /\ ~IsRunning(timers'[f.ticket][k])
  BY DEF AnswersSettle
<1>1. f \in Fact /\ f.ticket \in Ticket /\ k \in Kind
  <2>1. processed' \subseteq Fact
    BY DEF SInv, TypeOK
  <2>. QED  BY <2>1, StopKinds DEF Fact
<1>2. CASE f \in processed
  BY <1>1, <1>2, SettledStep DEF AnswersSettle
<1>3. CASE f \notin processed
  <2>1. timers'[f.ticket][k] # NULL
    BY <1>1 DEF JobsArePrompt, PairInv, TimersComeTogether, Row
  <2>2. PICK w \in Worker : CommitJob(w) \/ FindRunning(w)
    <3>1. processed' # processed
      BY <1>3
    <3>. QED
      BY <3>1 DEF Next, JobStep, SweepStep, Tick, Happen, Sweep, BeginMark, CheckAgain, BreachTimer,
                  CommitBreach, FailMark, CrashSweep, ClaimFact, StartTimers, StopTimer, AbortJob, vars
  <2>3. processed' \in {processed, processed \cup {job[w].fact}} /\ job[w].pc # "idle"
    BY <2>2 DEF CommitJob, FindRunning
  <2>4. job[w].fact = f /\ f.name # "created"
    BY <1>3, <2>3, StopKinds
  <2>5. CASE FindRunning(w)
    <3>1. PICK found : found = {l \in StoppedBy(f.name) :
                                  timers[f.ticket][l] # NULL /\ IsRunning(timers[f.ticket][l])}
      OBVIOUS
    <3>2. found = {} /\ UNCHANGED timers
      BY <1>3, <2>4, <2>5, <3>1 DEF FindRunning
    <3>3. timers'[f.ticket][k] = timers[f.ticket][k]
      BY <3>2
    <3>. QED  BY <2>1, <3>1, <3>2, <3>3
  <2>6. CASE CommitJob(w)
    <3>1. job[w].copy[k] # NULL
      BY <2>4, <2>6 DEF PairInv, JobsAreWhole, Whole, Concerns, CommitJob
    <3>2. ~IsRunning(job[w].copy[k]) /\ job[w].copy[k].breachedAt = NULL
      BY <1>1, <2>4, <2>6, <3>1 DEF SInv, JobsOK, JobFine, CommitJob
    <3>3. PICK row : /\ row = Upsert(timers[f.ticket][k], job[w].copy[k])
                     /\ row.stoppedAt = job[w].copy[k].stoppedAt
      BY <1>1, <2>4, <2>6, <3>1, JobRows DEF Written
    <3>4. timers'[f.ticket][k] = row
      BY <1>1, <2>4, <2>6, <3>1, <3>3, JobRows
    <3>. QED  BY <2>1, <3>2, <3>3, <3>4 DEF IsRunning
  <2>. QED  BY <2>2, <2>5, <2>6
<1>. QED
  BY <1>2, <1>3

\* The time of a timer is over, and no answer came before.
Unanswered(t, k, due) == due <= clock /\ \A f \in facts : Answers(f, t, k) => due <= f.at

LEMMA ClockStep ==
  ASSUME SInv, [Next]_vars
  PROVE  clock \in Nat /\ clock' \in {clock, clock + 1}
<1>1. clock \in Nat
  BY Types, SlaAssumption
<1>2. clock' \in {clock, clock + 1}
  BY DEF Next, JobStep, SweepStep, Tick, Happen, Sweep, BeginMark, CheckAgain, BreachTimer,
         CommitBreach, FailMark, CrashSweep, ClaimFact, StartTimers, FindRunning, StopTimer,
         CommitJob, AbortJob, vars
<1>. QED
  BY <1>1, <1>2

\* A fact happens at the clock's reading, so what is overdue stays unanswered.
LEMMA UnansweredStays ==
  ASSUME SInv, [Next]_vars, NEW t \in Ticket, NEW k \in Kind, NEW due \in Nat, Unanswered(t, k, due)
  PROVE  Unanswered(t, k, due)'
<1>1. clock \in Nat /\ clock' \in {clock, clock + 1}
  BY ClockStep
<1>2. UNCHANGED facts \/ \E u \in Ticket : \E name : Happen(u, name)
  BY DEF Next, JobStep, SweepStep, Tick, Sweep, BeginMark, CheckAgain, BreachTimer,
         CommitBreach, FailMark, CrashSweep, ClaimFact, StartTimers, FindRunning, StopTimer,
         CommitJob, AbortJob, vars
<1>3. \A f \in facts' : f \in facts \/ f.at = clock
  <2>1. ASSUME NEW u \in Ticket, NEW name, Happen(u, name)
        PROVE  \E g : g.at = clock /\ facts' = facts \cup {g}
    <3>1. [name |-> name, ticket |-> u, at |-> clock].at = clock
      OBVIOUS
    <3>2. facts' = facts \cup {[name |-> name, ticket |-> u, at |-> clock]}
      BY <2>1 DEF Happen
    <3>. QED  BY <3>1, <3>2
  <2>. QED  BY <1>2, <2>1
<1>. QED
  BY <1>1, <1>3 DEF Unanswered, Answers

RowsUnanswered ==
  \A t \in Ticket, k \in Kind : timers[t][k] # NULL /\ timers[t][k].breachedAt # NULL =>
    Unanswered(t, k, timers[t][k].dueAt)

SweepUnanswered(x) ==
  /\ x.now <= clock
  /\ x.pc \in {"loaded", "saved"} => Unanswered(x.id[1], x.id[2], x.copy.dueAt)

SweepsUnanswered == \A s \in Sweeper : SweepUnanswered(sweep[s])

LEMMA RowsUnansweredStep ==
  SInv /\ RowsUnanswered /\ SweepsUnanswered /\ [Next]_vars => RowsUnanswered'
<1>. SUFFICES ASSUME SInv, RowsUnanswered, SweepsUnanswered, [Next]_vars,
                     NEW t \in Ticket, NEW k \in Kind, NEW r, r = timers'[t][k], r # NULL, r.breachedAt # NULL
              PROVE  Unanswered(t, k, r.dueAt)'
  BY DEF RowsUnanswered
<1>1. CASE r = timers[t][k]
  <2>1. Unanswered(t, k, r.dueAt) /\ r.dueAt \in Nat
    BY <1>1, TimerFields DEF RowsUnanswered, SInv, RowsOK, TimerFine
  <2>. QED  BY <2>1, UnansweredStays
<1>2. ASSUME NEW w \in Worker, CommitJob(w), r # timers[t][k] PROVE FALSE
  BY <1>2, JobRows DEF Written
<1>3. ASSUME NEW s \in Sweeper, CommitBreach(s), r # timers[t][k] PROVE Unanswered(t, k, r.dueAt)'
  <2>1. PICK u \in Ticket, l \in Kind, row \in Timer :
          /\ sweep[s].id[1] = u /\ sweep[s].id[2] = l
          /\ timers' = [timers EXCEPT ![u][l] = row]
          /\ row.dueAt = timers[u][l].dueAt
    BY <1>3, BreachRow
  <2>2. t = u /\ k = l /\ r = row
    BY <1>3, <2>1, Types
  <2>3. sweep[s].copy.dueAt = timers[t][k].dueAt
    BY <1>3, <2>1, <2>2 DEF SInv, SweepsOK, SweepFine, CommitBreach
  <2>4. Unanswered(t, k, r.dueAt) /\ r.dueAt \in Nat
    BY <1>3, <2>1, <2>2, <2>3, TimerFields DEF SweepsUnanswered, SweepUnanswered, CommitBreach
  <2>. QED  BY <2>4, UnansweredStays
<1>4. \/ \E w \in Worker : CommitJob(w)
      \/ \E s \in Sweeper : CommitBreach(s)
      \/ UNCHANGED timers
  BY DEF Next, JobStep, SweepStep, Tick, Happen, ClaimFact, StartTimers, FindRunning, StopTimer,
         AbortJob, Sweep, BeginMark, CheckAgain, BreachTimer, FailMark, CrashSweep, vars
<1>. QED
  BY <1>1, <1>2, <1>3, <1>4

\* What a sweeper finds running, due and with its timely answers done is unanswered.
LEMMA FoundUnanswered ==
  ASSUME SInv, AnswersSettle, JobsArePrompt, NEW s \in Sweeper, sweep[s].pc = "begun",
         sweep[s].now <= clock, NEW t \in Ticket, NEW k \in Kind, sweep[s].id = <<t, k>>,
         NEW row, row = timers[t][k], IsOverdue(row, sweep[s].now)
  PROVE  Unanswered(t, k, row.dueAt)
<1>1. row # NULL /\ DueAt(sweep[s].id) = row.dueAt
  BY DEF SInv, SweepsOK, SweepFine, Holding, DueAt
<1>2. row.dueAt \in Nat /\ row.dueAt <= sweep[s].now /\ IsRunning(row) /\ sweep[s].now \in Nat /\ clock \in Nat
  BY <1>1, TimerFields, Types, SlaAssumption DEF SInv, RowsOK, TimerFine, IsOverdue, SweepState
<1>3. row.dueAt <= clock
  BY <1>2
<1>4. ASSUME NEW f \in facts, Answers(f, t, k), f.at < row.dueAt PROVE FALSE
  <2>1. f \in processed
    BY <1>1, <1>4 DEF JobsArePrompt
  <2>. QED  BY <1>2, <1>4, <2>1 DEF AnswersSettle, Answers
<1>5. \A f \in facts : f.at \in Nat
  BY Types DEF Fact
<1>. QED
  BY <1>2, <1>3, <1>4, <1>5 DEF Unanswered

LEMMA SweepUnansweredStays ==
  ASSUME SInv, [Next]_vars, NEW x, SweepFine(x), SweepUnanswered(x)
  PROVE  SweepUnanswered(x)'
<1>1. clock \in Nat /\ clock' \in {clock, clock + 1} /\ x.now \in Nat
  BY ClockStep, SlaAssumption DEF SweepFine, SweepState
<1>2. CASE x.pc \in {"loaded", "saved"}
  <2>1. x.id[1] \in Ticket /\ x.id[2] \in Kind /\ x.copy.dueAt \in Nat
    BY <1>2, TimerFields DEF SweepFine, Holding, TimerFine
  <2>2. PICK t \in Ticket, k \in Kind, due \in Nat : t = x.id[1] /\ k = x.id[2] /\ due = x.copy.dueAt
    BY <2>1
  <2>3. Unanswered(t, k, due)'
    BY <1>2, <2>2, UnansweredStays DEF SweepUnanswered
  <2>. QED  BY <1>1, <2>2, <2>3 DEF SweepUnanswered
<1>. QED
  BY <1>1, <1>2 DEF SweepUnanswered

\* A sweeper's step to a sweep that holds no other timer than before.
LEMMA SweepTurn ==
  ASSUME SInv, [Next]_vars, SweepsUnanswered, NEW s \in Sweeper, NEW x,
         sweep' = [sweep EXCEPT ![s] = x], SweepUnanswered(x)'
  PROVE  SweepsUnanswered'
<1>1. ASSUME NEW v \in Sweeper \ {s} PROVE SweepUnanswered(sweep[v])'
  <2>1. PICK y : y = sweep[v] /\ SweepFine(y) /\ SweepUnanswered(y) /\ sweep'[v] = y
    BY Types DEF SInv, SweepsOK, SweepsUnanswered
  <2>2. SweepUnanswered(y)'
    BY <2>1, SweepUnansweredStays
  <2>. QED  BY <2>1, <2>2
<1>2. sweep'[s] = x
  BY Types
<1>. QED
  BY <1>1, <1>2 DEF SweepsUnanswered

LEMMA WaitingFields ==
  ASSUME NEW todo
  PROVE  /\ [NoSweep EXCEPT !.pc = "swept", !.todo = todo].now = 0
         /\ [NoSweep EXCEPT !.pc = "swept", !.todo = todo].pc = "swept"
<1>. DEFINE P == {"idle", "swept"}
            T == {{}, todo}
            N == {0}
            I == {NULL}
<1>1. NoSweep \in [pc : P, todo : T, now : N, id : I, copy : I]
  BY DEF NoSweep
<1>2. "swept" \in P /\ todo \in T
  OBVIOUS
<1>. HIDE DEF P, T, N, I
<1>3. PICK x : x = [NoSweep EXCEPT !.pc = "swept", !.todo = todo]
  OBVIOUS
<1>4. x.pc = "swept" /\ x.now = NoSweep.now
  BY <1>1, <1>2, <1>3
<1>. QED
  BY <1>3, <1>4 DEF NoSweep

LEMMA SweepLetsGo ==
  ASSUME SInv, [Next]_vars, SweepsUnanswered, NEW s \in Sweeper, NEW x,
         sweep' = [sweep EXCEPT ![s] = x], x.now = 0, x.pc \notin {"loaded", "saved"}
  PROVE  SweepsUnanswered'
<1>1. clock' \in Nat
  BY ClockStep
<1>2. SweepUnanswered(x)'
  BY <1>1 DEF SweepUnanswered
<1>. QED
  BY <1>2, SweepTurn

LEMMA SweepsUnansweredStep ==
  SInv /\ SInv' /\ AnswersSettle /\ JobsArePrompt /\ SweepsUnanswered /\ [Next]_vars => SweepsUnanswered'
<1>. SUFFICES ASSUME SInv, SInv', AnswersSettle, JobsArePrompt, SweepsUnanswered, [Next]_vars
              PROVE  SweepsUnanswered'
  OBVIOUS
<1>1. CASE UNCHANGED sweep
  <2>1. ASSUME NEW s \in Sweeper PROVE SweepUnanswered(sweep[s])'
    <3>1. PICK x : x = sweep[s] /\ SweepFine(x) /\ SweepUnanswered(x)
      BY DEF SInv, SweepsOK, SweepsUnanswered
    <3>2. SweepUnanswered(x)'
      BY <3>1, SweepUnansweredStays
    <3>. QED  BY <1>1, <3>1, <3>2
  <2>. QED  BY <2>1 DEF SweepsUnanswered
<1>2. ASSUME NEW s \in Sweeper, Sweep(s) PROVE SweepsUnanswered'
  <2>1. PICK todo : sweep' = [sweep EXCEPT ![s] = [NoSweep EXCEPT !.pc = "swept", !.todo = todo]]
    BY <1>2 DEF Sweep
  <2>2. PICK x : x = [NoSweep EXCEPT !.pc = "swept", !.todo = todo] /\ x.now = 0 /\ x.pc = "swept"
    BY WaitingFields
  <2>. QED  BY <2>1, <2>2, SweepLetsGo
<1>3. ASSUME NEW s \in Sweeper, NEW x, x \in {Rest(s), NoSweep}, sweep' = [sweep EXCEPT ![s] = x]
      PROVE  SweepsUnanswered'
  <2>1. NoSweep.now = 0 /\ NoSweep.pc = "idle"
    BY DEF NoSweep
  <2>2. Rest(s).now = 0 /\ Rest(s).pc \notin {"loaded", "saved"}
    BY <2>1, WaitingFields DEF Rest
  <2>. QED  BY <1>3, <2>1, <2>2, SweepLetsGo
<1>4. ASSUME NEW s \in Sweeper, BeginMark(s) PROVE SweepsUnanswered'
  <2>1. PICK o : o = sweep[s] /\ o \in SweepState /\ o.todo \in SUBSET (Ticket \X Kind)
    BY Types DEF SweepState
  <2>2. PICK id \in o.todo : sweep' = [sweep EXCEPT ![s] = Begun(o, id, clock)]
    BY <1>4, <2>1 DEF BeginMark, Begun
  <2>3. PICK x : x = Begun(o, id, clock) /\ x.pc = "begun" /\ x.now = clock
    BY <2>1, BegunFields, Types
  <2>4. clock' = clock /\ clock \in Nat
    BY <1>4, ClockStep DEF BeginMark
  <2>5. SweepUnanswered(x)'
    BY <2>3, <2>4 DEF SweepUnanswered
  <2>. QED  BY <2>2, <2>3, <2>5, SweepTurn
<1>5. ASSUME NEW s \in Sweeper, CheckAgain(s) PROVE SweepsUnanswered'
  <2>1. PICK o : o = sweep[s] /\ SweepFine(o) /\ SweepUnanswered(o) /\ o \in SweepState
    BY Types DEF SInv, SweepsOK, SweepsUnanswered
  <2>2. PICK row : row = timers[o.id[1]][o.id[2]]
    OBVIOUS
  <2>3. o.pc = "begun" /\ clock' = clock /\ facts' = facts
    BY <1>5, <2>1 DEF CheckAgain
  <2>4. CASE IsOverdue(row, o.now)
    <3>1. PICK t \in Ticket, k \in Kind : o.id = <<t, k>>
      BY <2>1, <2>3 DEF SweepFine, Holding
    <3>2. Unanswered(t, k, row.dueAt)
      BY <2>1, <2>2, <2>3, <2>4, <3>1, FoundUnanswered DEF SweepUnanswered
    <3>3. PICK x : x = Gone(o, "loaded", row)
      OBVIOUS
    <3>4. sweep' = [sweep EXCEPT ![s] = x]
      BY <1>5, <2>1, <2>2, <2>4, <3>3 DEF CheckAgain, Gone
    <3>5. row \in Timer \cup {NULL}
      BY <2>2, <3>1, Types
    <3>6. x.pc = "loaded" /\ x.id = o.id /\ x.copy = row /\ x.now = o.now
      <4>1. "loaded" \in SweepPc
        BY DEF SweepPc
      <4>. QED  BY <2>1, <3>3, <3>5, <4>1, GoneFields
    <3>7. SweepUnanswered(x)'
      BY <2>1, <2>3, <3>1, <3>2, <3>6 DEF SweepUnanswered, Unanswered
    <3>. QED  BY <3>4, <3>7, SweepTurn
  <2>5. CASE ~IsOverdue(row, o.now)
    <3>1. sweep' = [sweep EXCEPT ![s] = Rest(s)]
      BY <1>5, <2>1, <2>2, <2>5 DEF CheckAgain
    <3>. QED  BY <1>3, <3>1
  <2>. QED  BY <2>4, <2>5
<1>6. ASSUME NEW s \in Sweeper, BreachTimer(s) PROVE SweepsUnanswered'
  <2>1. PICK o : o = sweep[s] /\ SweepFine(o) /\ SweepUnanswered(o) /\ o \in SweepState
    BY Types DEF SInv, SweepsOK, SweepsUnanswered
  <2>2. o.pc = "loaded" /\ clock' = clock /\ facts' = facts
    BY <1>6, <2>1 DEF BreachTimer
  <2>3. o.now \in Nat /\ IsOverdue(o.copy, o.now) /\ TimerFine(o.id[1], o.id[2], o.copy)
    BY <2>1, <2>2, SlaAssumption DEF SweepFine, SweepState
  <2>4. PICK c : c = MarkBreached(o.copy, o.now) /\ c \in Timer /\ c.dueAt = o.copy.dueAt
    <3>1. PICK c : c = MarkBreached(o.copy, o.now)
      OBVIOUS
    <3>2. TimerFine(o.id[1], o.id[2], c) /\ c.dueAt = o.copy.dueAt
      BY <2>3, <3>1, BreachedFine
    <3>. QED  BY <3>1, <3>2 DEF TimerFine
  <2>5. PICK x : x = Gone(o, "saved", c)
    OBVIOUS
  <2>6. sweep' = [sweep EXCEPT ![s] = x]
    BY <1>6, <2>1, <2>4, <2>5, Types DEF BreachTimer, Gone
  <2>7. x.pc = "saved" /\ x.id = o.id /\ x.copy = c /\ x.now = o.now
    <3>1. "saved" \in SweepPc /\ c \in Timer \cup {NULL}
      BY <2>4 DEF SweepPc
    <3>. QED  BY <2>1, <2>5, <3>1, GoneFields
  <2>8. SweepUnanswered(x)'
    BY <2>1, <2>2, <2>4, <2>7 DEF SweepUnanswered, Unanswered
  <2>. QED  BY <2>6, <2>8, SweepTurn
<1>7. \/ UNCHANGED sweep
      \/ \E s \in Sweeper : Sweep(s) \/ BeginMark(s) \/ CheckAgain(s) \/ BreachTimer(s)
      \/ \E s \in Sweeper : \E x \in {Rest(s), NoSweep} : sweep' = [sweep EXCEPT ![s] = x]
  BY DEF Next, JobStep, SweepStep, Tick, Happen, ClaimFact, StartTimers, FindRunning, StopTimer,
         CommitJob, AbortJob, CommitBreach, FailMark, CrashSweep, vars
<1>. QED
  BY <1>1, <1>2, <1>3, <1>4, <1>5, <1>6, <1>7

PromptInv == PairInv /\ AnswersSettle /\ RowsUnanswered /\ SweepsUnanswered

\* Where the run SlaSlowQueue shows an answer given in time recorded as a breach:
\* it takes a job that comes late, or before the start job.  With prompt jobs no
\* interleaving of workers, sweepers, failures and answers does it.
THEOREM PromptJobsKeepAnswers == Spec /\ []JobsArePrompt => []AnsweredInTimeIsNotBreached
<1>1. Init => PromptInv
  <2>. SUFFICES ASSUME Init PROVE PromptInv
    OBVIOUS
  <2>1. PairInv
    BY DEF Init, PairInv, TimersComeTogether, JobsAreWhole, Whole, Started, Row, NoJob
  <2>2. AnswersSettle /\ RowsUnanswered
    BY DEF Init, AnswersSettle, RowsUnanswered
  <2>3. SweepsUnanswered
    BY DEF Init, SweepsUnanswered, SweepUnanswered, NoSweep
  <2>. QED  BY <2>1, <2>2, <2>3 DEF PromptInv
<1>2. SInv /\ SInv' /\ JobsArePrompt /\ JobsArePrompt' /\ PromptInv /\ [Next]_vars => PromptInv'
  <2>1. SInv /\ SInv' /\ PairInv /\ [Next]_vars => PairInv'
    BY TogetherStep, WholeStep DEF PairInv
  <2>. QED
    BY <2>1, SettleStep, RowsUnansweredStep, SweepsUnansweredStep DEF PromptInv
<1>3. SInv /\ PromptInv => AnsweredInTimeIsNotBreached
  <2>. SUFFICES ASSUME SInv, PromptInv, NEW t \in Ticket, NEW k \in Kind, timers[t][k] # NULL,
                       timers[t][k].breachedAt # NULL,
                       NEW f \in facts, Answers(f, t, k), f.at < timers[t][k].dueAt
                PROVE  FALSE
    BY DEF AnsweredInTimeIsNotBreached, Row, Answers
  <2>1. timers[t][k].dueAt <= f.at
    BY DEF PromptInv, RowsUnanswered, Unanswered
  <2>2. timers[t][k].dueAt \in Nat /\ f.at \in Nat
    BY TimerFields, Types DEF SInv, RowsOK, TimerFine, Fact
  <2>. QED  BY <2>1, <2>2
<1>. QED
  BY SlaInvariant, <1>1, <1>2, <1>3, PTL DEF Spec
=============================================================================
