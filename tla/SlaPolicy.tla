----------------------------- MODULE SlaPolicy -----------------------------
(***************************************************************************)
(* The SLA policy of one organization: administrators change and reset the *)
(* target of a priority while start jobs resolve the targets of new        *)
(* tickets.  Each request is a READ COMMITTED transaction, which reads all *)
(* overrides without a lock and then writes the row of its priority.       *)
(*                                                                         *)
(* Organizations share nothing, so one is enough.  Instants and the actor  *)
(* of an audit entry are left out.                                         *)
(***************************************************************************)
EXTENDS Integers, Sequences

CONSTANTS
  Worker,         \* concurrent request contexts
  Ticket,         \* tickets whose ticket.created is delivered
  Priority,
  PriorityOf,     \* the priority each ticket was created with
  Input,          \* what administrators ask for, valid or not
  DefaultPolicy,  \* DEFAULT_SLA_POLICY
  SlaMaxMinutes,  \* SLA_MAX_MINUTES
  NULL,           \* no row
  MaxChanges      \* bound: no change begins with that many entries on the trail

Minutes == [responseMinutes : Int, resolutionMinutes : Int]

\* makeSlaTarget: both deadlines in range, and no answer due after the resolution.
IsTarget(m) ==
  /\ m.responseMinutes \in 1..SlaMaxMinutes
  /\ m.resolutionMinutes \in 1..SlaMaxMinutes
  /\ m.resolutionMinutes >= m.responseMinutes

Target == {m \in [responseMinutes : 1..SlaMaxMinutes, resolutionMinutes : 1..SlaMaxMinutes] :
             m.responseMinutes <= m.resolutionMinutes}

ASSUME PolicyAssumption ==
  /\ PriorityOf \in [Ticket -> Priority]
  /\ Input \subseteq Minutes
  /\ DefaultPolicy \in [Priority -> Target]
  /\ SlaMaxMinutes \in Nat
  /\ NULL \notin Target \cup Ticket \cup Priority
  /\ MaxChanges \in Nat

VARIABLES
  overrides,  \* sla_policies, by priority; NULL where the default rules
  trail,      \* the sla.policy_changed entries, in the order they commit
  promised,   \* the target the timers of a ticket were started with
  tx          \* the transaction each worker has open

vars == <<overrides, trail, promised, tx>>

\* A target and where it comes from.
Effective == [target : Target, source : {"organization", "default"}]

Entry == [priority : Priority, before : Effective, after : Effective]

Overrides == [Priority -> Target \cup {NULL}]

\* No transaction open.
Idle == [pc |-> "idle", op |-> "none", priority |-> NULL, ticket |-> NULL, target |-> NULL,
         seen |-> [p \in Priority |-> NULL]]

TypeOK ==
  /\ overrides \in Overrides
  /\ trail \in Seq(Entry)
  /\ promised \in [Ticket -> Target \cup {NULL}]
  /\ tx \in [Worker ->
       [pc       : {"idle", "begun", "read", "written", "nothing"},
        op       : {"none", "update", "reset", "start"},
        priority : Priority \cup {NULL},
        ticket   : Ticket \cup {NULL},
        target   : Target \cup {NULL},
        seen     : Overrides]]

Init ==
  /\ overrides = [p \in Priority |-> NULL]
  /\ trail = <<>>
  /\ promised = [t \in Ticket |-> NULL]
  /\ tx = [w \in Worker |-> Idle]

-----------------------------------------------------------------------------
\* effectivePolicy: what the organization has agreed on, or else the default.
EffectiveOf(ov, p) ==
  IF ov[p] = NULL THEN [target |-> DefaultPolicy[p], source |-> "default"]
                  ELSE [target |-> ov[p], source |-> "organization"]

\* The row a transaction has inserted, updated or deleted makes the next writer wait.
HoldsRow(w, p) == tx[w].pc = "written" /\ tx[w].op \in {"update", "reset"} /\ tx[w].priority = p

IsFree(w, p) == \A v \in Worker \ {w} : ~HoldsRow(v, p)

\* The claim of (consumer, event) lets one delivery go on.
HoldsClaim(w, t) == tx[w].op = "start" /\ tx[w].ticket = t

-----------------------------------------------------------------------------
(* Requests.                                                               *)

\* UpdateSlaPolicy: an invalid target is refused before any transaction.
BeginUpdate(w) ==
  /\ tx[w].pc = "idle"
  /\ Len(trail) < MaxChanges
  /\ \E p \in Priority, m \in Input :
       /\ IsTarget(m)
       /\ tx' = [tx EXCEPT ![w] = [Idle EXCEPT !.pc = "begun", !.op = "update",
                                               !.priority = p, !.target = m]]
  /\ UNCHANGED <<overrides, trail, promised>>

BeginReset(w) ==
  /\ tx[w].pc = "idle"
  /\ Len(trail) < MaxChanges
  /\ \E p \in Priority :
       tx' = [tx EXCEPT ![w] = [Idle EXCEPT !.pc = "begun", !.op = "reset", !.priority = p]]
  /\ UNCHANGED <<overrides, trail, promised>>

\* StartSlaTimers: a delivery that claims the event; duplicates are skipped.
BeginStart(w) ==
  /\ tx[w].pc = "idle"
  /\ \E t \in Ticket :
       /\ promised[t] = NULL
       /\ \A v \in Worker : ~HoldsClaim(v, t)
       /\ tx' = [tx EXCEPT ![w] = [Idle EXCEPT !.pc = "begun", !.op = "start",
                                               !.priority = PriorityOf[t], !.ticket = t]]
  /\ UNCHANGED <<overrides, trail, promised>>

\* A mutant: rows that are not committed are read too.
ReadUncommitted(w) ==
  /\ tx[w].pc = "begun"
  /\ tx' = [tx EXCEPT ![w].pc = "read",
                      ![w].seen = [p \in Priority |->
                        IF \E v \in Worker : HoldsRow(v, p)
                          THEN tx[CHOOSE v \in Worker : HoldsRow(v, p)].target
                          ELSE overrides[p]]]
  /\ UNCHANGED <<overrides, trail, promised>>

\* overridesOf: the committed rows.
Read(w) ==
  /\ tx[w].pc = "begun"
  /\ tx' = [tx EXCEPT ![w].pc = "read", ![w].seen = overrides]
  /\ UNCHANGED <<overrides, trail, promised>>

\* upsert: INSERT .. ON CONFLICT, which waits for the row.
Upsert(w) ==
  /\ tx[w].pc = "read"
  /\ tx[w].op = "update"
  /\ IsFree(w, tx[w].priority)
  /\ tx' = [tx EXCEPT ![w].pc = "written"]
  /\ UNCHANGED <<overrides, trail, promised>>

\* A mutant: whether there was an override is asked of the copy.
RemoveByCopy(w) ==
  LET p == tx[w].priority
  IN  /\ tx[w].pc = "read"
      /\ tx[w].op = "reset"
      /\ overrides[p] # NULL => IsFree(w, p)
      /\ tx' = [tx EXCEPT ![w].pc = IF tx[w].seen[p] # NULL THEN "written" ELSE "nothing"]
      /\ UNCHANGED <<overrides, trail, promised>>

\* remove: a DELETE finds the committed row, for which it waits, or none.  A row
\* that another transaction has inserted and not committed is not there.
Remove(w) ==
  LET p == tx[w].priority
  IN  /\ tx[w].pc = "read"
      /\ tx[w].op = "reset"
      /\ overrides[p] # NULL => IsFree(w, p)
      /\ tx' = [tx EXCEPT ![w].pc = IF overrides[p] # NULL THEN "written" ELSE "nothing"]
      /\ UNCHANGED <<overrides, trail, promised>>

-----------------------------------------------------------------------------
(* Commits.                                                                *)

\* A mutant: a change to what the request has read as current is not audited.
CommitChangeIfNew(w) ==
  LET p == tx[w].priority
      after == [overrides EXCEPT ![p] = tx[w].target]
      before == EffectiveOf(tx[w].seen, p)
  IN  /\ tx[w].pc = "written"
      /\ overrides' = after
      /\ trail' = IF before = EffectiveOf(after, p)
                    THEN trail
                    ELSE Append(trail, [priority |-> p, before |-> before,
                                        after |-> EffectiveOf(after, p)])
      /\ tx' = [tx EXCEPT ![w] = Idle]
      /\ UNCHANGED promised

\* Change and audit entry at once.  `before` is what the request has read, and
\* the default is what a reset reads back after its own DELETE.
CommitChange(w) ==
  LET p == tx[w].priority
      after == [overrides EXCEPT ![p] = tx[w].target]
  IN  /\ tx[w].pc = "written"
      /\ overrides' = after
      /\ trail' = Append(trail, [priority |-> p, before |-> EffectiveOf(tx[w].seen, p),
                                 after |-> EffectiveOf(after, p)])
      /\ tx' = [tx EXCEPT ![w] = Idle]
      /\ UNCHANGED promised

\* A reset that found no override is not audited.
EndReset(w) ==
  /\ tx[w].pc = "nothing"
  /\ tx' = [tx EXCEPT ![w] = Idle]
  /\ UNCHANGED <<overrides, trail, promised>>

\* StartSlaTimers: both timers with the target of the policy it has read.
CommitStart(w) ==
  /\ tx[w].pc = "read"
  /\ tx[w].op = "start"
  /\ promised' = [promised EXCEPT ![tx[w].ticket] =
                    EffectiveOf(tx[w].seen, tx[w].priority).target]
  /\ tx' = [tx EXCEPT ![w] = Idle]
  /\ UNCHANGED <<overrides, trail>>

\* The process dies, the connection drops or the transaction times out.
Abort(w) ==
  /\ tx[w].pc # "idle"
  /\ tx' = [tx EXCEPT ![w] = Idle]
  /\ UNCHANGED <<overrides, trail, promised>>

-----------------------------------------------------------------------------
Next ==
  \E w \in Worker :
    \/ BeginUpdate(w) \/ BeginReset(w) \/ BeginStart(w)
    \/ Read(w) \/ Upsert(w) \/ Remove(w)
    \/ CommitChange(w) \/ EndReset(w) \/ CommitStart(w)
    \/ Abort(w)

Spec == Init /\ [][Next]_vars

-----------------------------------------------------------------------------
(* Safety.                                                                 *)

NoOverride == [p \in Priority |-> NULL]

\* The entries about p among the first n of a trail.
About(s, p, n) == {i \in 1..n : s[i].priority = p}

IsLast(s, i, p, n) == i \in About(s, p, n) /\ \A j \in About(s, p, n) : j <= i

\* The policy in force is the one the last entry of the trail tells, whichever
\* changes and resets overlapped: no change is missing on it, and none is on
\* it that was rolled back or overtaken.
TrailExplainsPolicy ==
  \A p \in Priority :
    IF About(trail, p, Len(trail)) = {}
      THEN EffectiveOf(overrides, p) = EffectiveOf(NoOverride, p)
      ELSE \A i \in About(trail, p, Len(trail)) :
             IsLast(trail, i, p, Len(trail)) => EffectiveOf(overrides, p) = trail[i].after

\* What has been in force for p when the first n entries were on the trail.
InForce(s, p, n) == {EffectiveOf(NoOverride, p)} \cup {s[i].after : i \in About(s, p, n)}

\* What was promised to a ticket, and what an entry says it replaced, can be
\* found on the trail: it was in force, even if a stale reader took it for current.
PromisesAreOnRecord ==
  /\ \A t \in Ticket : promised[t] # NULL =>
       \E e \in InForce(trail, PriorityOf[t], Len(trail)) : e.target = promised[t]
  /\ \A i \in 1..Len(trail) : trail[i].before \in InForce(trail, trail[i].priority, i - 1)

\* "Solo audita si de verdad había un override": however resets overlap, the last
\* thing the trail says of a priority before a reset is that it had an override.
ResetsFollowChanges ==
  \A i \in 1..Len(trail) : trail[i].after.source = "default" =>
    \E j \in 1..(i - 1) : /\ IsLast(trail, j, trail[i].priority, i - 1)
                          /\ trail[j].after.source = "organization"
=============================================================================
