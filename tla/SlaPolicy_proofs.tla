-------------------------- MODULE SlaPolicy_proofs --------------------------
(* What SlaPolicy guarantees for any number of requests and priorities. *)
EXTENDS SlaPolicy, TLAPS

TxState ==
  [pc       : {"idle", "begun", "read", "written", "nothing"},
   op       : {"none", "update", "reset", "start"},
   priority : Priority \cup {NULL},
   ticket   : Ticket \cup {NULL},
   target   : Target \cup {NULL},
   seen     : Overrides]

-----------------------------------------------------------------------------
(* Operators.                                                              *)

LEMMA ValidTargets == \A m \in Minutes : IsTarget(m) => m \in Target
<1> SUFFICES ASSUME NEW m \in Minutes, IsTarget(m)
             PROVE  m \in Target
  OBVIOUS
<1>1. m \in [responseMinutes : 1..SlaMaxMinutes, resolutionMinutes : 1..SlaMaxMinutes]
  BY DEF Minutes, IsTarget
<1>2. m.responseMinutes <= m.resolutionMinutes
  BY <1>1, PolicyAssumption DEF IsTarget
<1> QED
  BY <1>1, <1>2 DEF Target

\* Only where there is no override does the default rule.
LEMMA EffectiveIs ==
  ASSUME NEW ov \in Overrides, NEW p \in Priority
  PROVE  /\ EffectiveOf(ov, p) \in Effective
         /\ EffectiveOf(ov, p).source = "default" <=> ov[p] = NULL
         /\ ov[p] = NULL => EffectiveOf(ov, p) = EffectiveOf(NoOverride, p)
<1>1. NoOverride[p] = NULL
  BY DEF NoOverride
<1>2. DefaultPolicy[p] \in Target
  BY PolicyAssumption
<1> QED
  BY <1>1, <1>2 DEF EffectiveOf, Effective, Overrides

LEMMA AppendKeeps ==
  ASSUME NEW s \in Seq(Entry), NEW e \in Entry
  PROVE  /\ Append(s, e) \in Seq(Entry) /\ Len(s) \in Nat
         /\ Len(Append(s, e)) = Len(s) + 1 /\ Append(s, e)[Len(s) + 1] = e
         /\ \A i \in 1..Len(s) : Append(s, e)[i] = s[i]
OBVIOUS

-----------------------------------------------------------------------------
(* Types.                                                                  *)

\* What a request holds while it is under way.
WellFormed ==
  \A w \in Worker :
    /\ tx[w].pc # "idle" => tx[w].priority \in Priority
    /\ tx[w].op = "start" => tx[w].ticket \in Ticket /\ tx[w].priority = PriorityOf[tx[w].ticket]
    /\ tx[w].op = "update" => tx[w].target \in Target
    /\ tx[w].op = "reset" => tx[w].target = NULL
    /\ tx[w].pc \in {"written", "nothing"} => tx[w].op \in {"update", "reset"}

TypeInv == TypeOK /\ WellFormed

LEMMA TypeInvInit == Init => TypeInv
<1>1. [p \in Priority |-> NULL] \in Overrides
  BY DEF Overrides
<1> QED
  BY <1>1 DEF Init, TypeInv, TypeOK, WellFormed, Idle

\* An entry about a change has the type of an entry.
LEMMA EntryType ==
  ASSUME TypeInv, NEW w \in Worker, CommitChange(w)
  PROVE  LET p == tx[w].priority
             after == [overrides EXCEPT ![p] = tx[w].target]
             e == [priority |-> p, before |-> EffectiveOf(tx[w].seen, p),
                   after |-> EffectiveOf(after, p)]
         IN  /\ p \in Priority /\ after \in Overrides /\ e \in Entry
             /\ overrides' = after /\ trail' = Append(trail, e)
<1> DEFINE p == tx[w].priority
           after == [overrides EXCEPT ![p] = tx[w].target]
<1>1. tx[w] \in TxState /\ p \in Priority
  BY DEF TypeInv, TypeOK, TxState, WellFormed, CommitChange
<1>2. after \in Overrides /\ tx[w].seen \in Overrides
  BY <1>1 DEF TypeInv, TypeOK, Overrides, TxState
<1>3. EffectiveOf(tx[w].seen, p) \in Effective /\ EffectiveOf(after, p) \in Effective
  BY <1>1, <1>2, EffectiveIs
<1> QED
  BY <1>1, <1>2, <1>3 DEF CommitChange, Entry

LEMMA TypeInvStep == TypeInv /\ [Next]_vars => TypeInv'
<1> SUFFICES ASSUME TypeInv, [Next]_vars
             PROVE  TypeInv'
  OBVIOUS
<1>t. /\ overrides \in Overrides /\ trail \in Seq(Entry)
      /\ promised \in [Ticket -> Target \cup {NULL}] /\ tx \in [Worker -> TxState]
  BY DEF TypeInv, TypeOK, TxState
<1>i. Idle \in TxState /\ Idle.pc = "idle" /\ Idle.op = "none"
  BY DEF Idle, TxState, Overrides
<1>1. CASE UNCHANGED vars
  BY <1>1 DEF vars, TypeInv, TypeOK, WellFormed
<1>2. ASSUME NEW w \in Worker, BeginUpdate(w)
      PROVE  TypeInv'
  <2>1. PICK p \in Priority, m \in Input :
          /\ IsTarget(m)
          /\ tx' = [tx EXCEPT ![w] = [Idle EXCEPT !.pc = "begun", !.op = "update",
                                                  !.priority = p, !.target = m]]
    BY <1>2 DEF BeginUpdate
  <2>2. m \in Target
    BY <2>1, ValidTargets, PolicyAssumption
  <2>3. tx' \in [Worker -> TxState]
    BY <1>t, <1>i, <2>1, <2>2 DEF TxState
  <2>4. WellFormed'
    BY <1>t, <1>i, <2>1, <2>2 DEF TxState, TypeInv, WellFormed
  <2> QED
    BY <1>2, <1>t, <2>3, <2>4 DEF BeginUpdate, TypeInv, TypeOK, TxState
<1>3. ASSUME NEW w \in Worker, BeginReset(w)
      PROVE  TypeInv'
  <2>1. PICK p \in Priority :
          tx' = [tx EXCEPT ![w] = [Idle EXCEPT !.pc = "begun", !.op = "reset", !.priority = p]]
    BY <1>3 DEF BeginReset
  <2>2. tx' \in [Worker -> TxState]
    BY <1>t, <1>i, <2>1 DEF TxState
  <2>3. WellFormed'
    BY <1>t, <2>1 DEF TypeInv, WellFormed, Idle
  <2> QED
    BY <1>3, <1>t, <2>2, <2>3 DEF BeginReset, TypeInv, TypeOK, TxState
<1>4. ASSUME NEW w \in Worker, BeginStart(w)
      PROVE  TypeInv'
  <2>1. PICK t \in Ticket :
          tx' = [tx EXCEPT ![w] = [Idle EXCEPT !.pc = "begun", !.op = "start",
                                               !.priority = PriorityOf[t], !.ticket = t]]
    BY <1>4 DEF BeginStart
  <2>2. PriorityOf[t] \in Priority
    BY PolicyAssumption
  <2>3. tx' \in [Worker -> TxState]
    BY <1>t, <1>i, <2>1, <2>2 DEF TxState
  <2>4. WellFormed'
    BY <1>t, <1>i, <2>1, <2>2 DEF TypeInv, WellFormed, TxState
  <2> QED
    BY <1>4, <1>t, <2>3, <2>4 DEF BeginStart, TypeInv, TypeOK, TxState
<1>5. ASSUME NEW w \in Worker, Read(w)
      PROVE  TypeInv'
  <2>1. tx' \in [Worker -> TxState]
    <3> DEFINE r == [tx[w] EXCEPT !.pc = "read", !.seen = overrides]
    <3>1. tx' = [tx EXCEPT ![w] = r]
      BY <1>5, <1>t DEF Read
    <3>2. r \in TxState
      BY <1>t DEF TxState
    <3> HIDE DEF r
    <3> QED
      BY <1>t, <3>1, <3>2
  <2>2. WellFormed'
    BY <1>5, <1>t DEF Read, TypeInv, WellFormed, TxState
  <2> QED
    BY <1>5, <1>t, <2>1, <2>2 DEF Read, TypeInv, TypeOK, TxState
<1>6. ASSUME NEW w \in Worker, Upsert(w) \/ Remove(w)
      PROVE  TypeInv'
  <2>1. PICK pc \in {"written", "nothing"} : tx' = [tx EXCEPT ![w].pc = pc]
    BY <1>6 DEF Upsert, Remove
  <2>2. tx' \in [Worker -> TxState]
    BY <1>t, <2>1 DEF TxState
  <2>3. WellFormed'
    BY <1>6, <1>t, <2>1 DEF Upsert, Remove, TypeInv, WellFormed, TxState
  <2> QED
    BY <1>6, <1>t, <2>2, <2>3 DEF Upsert, Remove, TypeInv, TypeOK, TxState
<1>e. ASSUME NEW w \in Worker, tx' = [tx EXCEPT ![w] = Idle]
      PROVE  tx' \in [Worker -> TxState] /\ WellFormed'
  BY <1>e, <1>t, <1>i DEF TypeInv, WellFormed
<1>7. ASSUME NEW w \in Worker, CommitChange(w)
      PROVE  TypeInv'
  <2>1. overrides' \in Overrides /\ trail' \in Seq(Entry)
    <3>1. overrides' \in Overrides /\ \E e \in Entry : trail' = Append(trail, e)
      BY <1>7, EntryType
    <3> QED
      BY <1>t, <3>1
  <2> QED
    BY <1>7, <1>t, <1>e, <2>1 DEF CommitChange, TypeInv, TypeOK, TxState
<1>8. ASSUME NEW w \in Worker, EndReset(w) \/ Abort(w)
      PROVE  TypeInv'
  BY <1>8, <1>t, <1>e DEF EndReset, Abort, TypeInv, TypeOK, TxState
<1>9. ASSUME NEW w \in Worker, CommitStart(w)
      PROVE  TypeInv'
  <2>1. tx[w].ticket \in Ticket /\ tx[w].priority \in Priority /\ tx[w].seen \in Overrides
    BY <1>9, <1>t DEF CommitStart, TypeInv, WellFormed, TxState
  <2>2. EffectiveOf(tx[w].seen, tx[w].priority).target \in Target
    BY <2>1, EffectiveIs DEF Effective
  <2>3. promised' \in [Ticket -> Target \cup {NULL}]
    BY <1>9, <1>t, <2>2 DEF CommitStart
  <2> QED
    BY <1>9, <1>t, <1>e, <2>3 DEF CommitStart, TypeInv, TypeOK, TxState
<1> QED
  BY <1>1, <1>2, <1>3, <1>4, <1>5, <1>6, <1>7, <1>8, <1>9 DEF Next

\* Policy, trail, promises and requests are always of their types.
THEOREM PolicyTyped == Spec => []TypeOK
<1>1. TypeInv => TypeOK
  BY DEF TypeInv
<1> QED
  BY <1>1, TypeInvInit, TypeInvStep, PTL DEF Spec

-----------------------------------------------------------------------------
(* The trail accounts for the policy.                                      *)

\* Where the trail is silent the default rules, and elsewhere what its last
\* entry says.  Unlike TrailExplainsPolicy it says that there is a last one.
TrailInv ==
  \A p \in Priority :
    \/ About(trail, p, Len(trail)) = {} /\ overrides[p] = NULL
    \/ \E i \in 1..Len(trail) : IsLast(trail, i, p, Len(trail)) /\ EffectiveOf(overrides, p) = trail[i].after

\* At most one request has written a row, and a reset has one to take away.
RowsLocked ==
  /\ \A v, w \in Worker, p \in Priority : HoldsRow(v, p) /\ HoldsRow(w, p) => v = w
  /\ \A w \in Worker, p \in Priority :
       HoldsRow(w, p) /\ tx[w].op = "reset" => overrides[p] # NULL

\* What a request has read was in force.
ReadInForce ==
  \A w \in Worker : tx[w].pc \in {"read", "written", "nothing"} =>
    \A p \in Priority : EffectiveOf(tx[w].seen, p) \in InForce(trail, p, Len(trail))

PolicyInv == TrailInv /\ RowsLocked /\ ReadInForce /\ PromisesAreOnRecord /\ ResetsFollowChanges

LEMMA PolicyInvInit == Init => PolicyInv
<1> SUFFICES ASSUME Init
             PROVE  PolicyInv
  OBVIOUS
<1>1. Len(trail) = 0
  BY DEF Init
<1>2. \A w \in Worker : tx[w] = Idle
  BY DEF Init
<1>3. TrailInv
  BY <1>1 DEF Init, TrailInv, About
<1>4. RowsLocked /\ ReadInForce
  BY <1>2 DEF RowsLocked, ReadInForce, HoldsRow, Idle
<1>5. PromisesAreOnRecord /\ ResetsFollowChanges
  BY <1>1 DEF Init, PromisesAreOnRecord, ResetsFollowChanges
<1> QED
  BY <1>3, <1>4, <1>5 DEF PolicyInv

\* What is in force now is on the trail.
LEMMA NowInForce ==
  ASSUME TypeInv, TrailInv, NEW p \in Priority
  PROVE  EffectiveOf(overrides, p) \in InForce(trail, p, Len(trail))
<1>1. CASE overrides[p] = NULL
  BY <1>1, EffectiveIs DEF TypeInv, TypeOK, InForce
<1>2. CASE \E i \in 1..Len(trail) : IsLast(trail, i, p, Len(trail)) /\ EffectiveOf(overrides, p) = trail[i].after
  BY <1>2 DEF IsLast, InForce
<1> QED
  BY <1>1, <1>2 DEF TrailInv

\* A change adds one entry at the end of the trail.
LEMMA ChangeTrail ==
  ASSUME TypeInv, NEW w \in Worker, CommitChange(w), NEW n, n = Len(trail)
  PROVE  LET q == tx[w].priority
         IN  /\ n \in Nat /\ Len(trail') = n + 1 /\ q \in Priority
             /\ \A i \in 1..n : trail'[i] = trail[i]
             /\ trail'[n + 1].priority = q
             /\ trail'[n + 1].before = EffectiveOf(tx[w].seen, q)
             /\ trail'[n + 1].after = EffectiveOf(overrides', q)
             /\ \A p \in Priority : /\ About(trail', p, n + 1) = About(trail, p, n) \cup (IF p = q THEN {n + 1} ELSE {})
                                    /\ \A k \in 0..n : About(trail', p, k) = About(trail, p, k)
                                    /\ \A k \in 0..n : InForce(trail', p, k) = InForce(trail, p, k)
                                    /\ InForce(trail, p, n) \subseteq InForce(trail', p, n + 1)
<1> DEFINE q == tx[w].priority
           e == [priority |-> q, before |-> EffectiveOf(tx[w].seen, q),
                 after |-> EffectiveOf([overrides EXCEPT ![q] = tx[w].target], q)]
<1>1. /\ e \in Entry /\ trail' = Append(trail, e) /\ q \in Priority
      /\ overrides' = [overrides EXCEPT ![q] = tx[w].target]
  BY EntryType
<1>2. trail \in Seq(Entry)
  BY DEF TypeInv, TypeOK
<1>3. /\ n \in Nat /\ Len(trail') = n + 1 /\ trail'[n + 1] = e
      /\ \A i \in 1..n : trail'[i] = trail[i]
  BY <1>1, <1>2, AppendKeeps
<1>4. trail'[n + 1].after = EffectiveOf(overrides', q) /\ trail'[n + 1].priority = q
  BY <1>1, <1>3
<1> HIDE DEF q, e
<1>5. ASSUME NEW p \in Priority
      PROVE  /\ About(trail', p, n + 1) = About(trail, p, n) \cup (IF p = q THEN {n + 1} ELSE {})
             /\ \A k \in 0..n : About(trail', p, k) = About(trail, p, k)
  <2>1. \A k \in 0..(n + 1) : About(trail', p, k) = {i \in 1..k : trail'[i].priority = p}
    BY <1>3 DEF About
  <2>2. \A k \in 0..n : About(trail, p, k) = {i \in 1..k : trail[i].priority = p}
    BY <1>3 DEF About
  <2>3. ASSUME NEW k \in 0..n
        PROVE  About(trail', p, k) = About(trail, p, k)
    <3>1. \A i \in 1..k : trail'[i] = trail[i]
      BY <1>3
    <3>2. {i \in 1..k : trail'[i].priority = p} = {i \in 1..k : trail[i].priority = p}
      BY <3>1
    <3>3. k \in 0..(n + 1)
      BY <1>3
    <3> QED
      BY <2>1, <2>2, <3>2, <3>3
  <2>4. About(trail', p, n + 1) = About(trail, p, n) \cup (IF p = q THEN {n + 1} ELSE {})
    <3>1. About(trail', p, n + 1) = {i \in 1..(n + 1) : trail'[i].priority = p}
      BY <1>3, <2>1
    <3>2. 1..(n + 1) = 1..n \cup {n + 1}
      BY <1>3
    <3>3. {i \in 1..n : trail'[i].priority = p} = About(trail, p, n)
      BY <1>3, <2>2
    <3> QED
      BY <1>4, <3>1, <3>2, <3>3
  <2> QED
    BY <2>3, <2>4
<1>6. ASSUME NEW p \in Priority
      PROVE  /\ \A k \in 0..n : InForce(trail', p, k) = InForce(trail, p, k)
             /\ InForce(trail, p, n) \subseteq InForce(trail', p, n + 1)
  <2>1. \A k \in 0..n : About(trail, p, k) \subseteq 1..n
    <3>1. n \in Nat
      BY <1>3
    <3>2. \A k \in 0..n : About(trail, p, k) \subseteq 1..k
      BY DEF About
    <3> QED
      BY <3>1, <3>2
  <2>2. \A k \in 0..n : {trail'[i].after : i \in About(trail, p, k)} = {trail[i].after : i \in About(trail, p, k)}
    BY <1>3, <2>1
  <2>3. \A k \in 0..n : InForce(trail', p, k) = InForce(trail, p, k)
    BY <1>5, <2>2 DEF InForce, EffectiveOf, NoOverride
  <2>4. About(trail, p, n) \subseteq About(trail', p, n + 1)
    BY <1>5
  <2>5. InForce(trail', p, n) \subseteq InForce(trail', p, n + 1)
    BY <1>3, <1>5, <2>4 DEF InForce, EffectiveOf, NoOverride
  <2> QED
    BY <1>3, <2>3, <2>5
<1>7. trail'[n + 1].before = EffectiveOf(tx[w].seen, q)
  BY <1>3 DEF e
<1> QED
  BY <1>1, <1>3, <1>4, <1>5, <1>6, <1>7 DEF q

\* Policy and trail stay as they are: what is said of them does too.
LEMMA QuietTrail ==
  ASSUME PolicyInv, UNCHANGED <<overrides, trail>>
  PROVE  /\ TrailInv' /\ ResetsFollowChanges'
         /\ \A p \in Priority : InForce(trail', p, Len(trail)) = InForce(trail, p, Len(trail))
         /\ promised' = promised => PromisesAreOnRecord'
<1>1. \A p, n : /\ About(trail', p, n) = About(trail, p, n) /\ InForce(trail', p, n) = InForce(trail, p, n)
                /\ \A i : IsLast(trail', i, p, n) <=> IsLast(trail, i, p, n)
  BY DEF About, InForce, IsLast, EffectiveOf, NoOverride
<1>2. \A p : EffectiveOf(overrides, p)' = EffectiveOf(overrides, p)
  BY DEF EffectiveOf
<1>3. TrailInv'
  BY <1>1, <1>2 DEF PolicyInv, TrailInv
<1>4. ResetsFollowChanges'
  BY <1>1 DEF PolicyInv, ResetsFollowChanges
<1>5. promised' = promised => PromisesAreOnRecord'
  BY <1>1 DEF PolicyInv, PromisesAreOnRecord
<1> QED
  BY <1>1, <1>3, <1>4, <1>5

\* A request that has not read yet, or is over, holds and knows nothing.
LEMMA FreshRequest ==
  ASSUME TypeInv, PolicyInv, UNCHANGED <<overrides, trail, promised>>, NEW w \in Worker,
         NEW r \in TxState, r.pc \in {"idle", "begun"}, tx' = [tx EXCEPT ![w] = r]
  PROVE  PolicyInv'
<1>t. tx \in [Worker -> TxState]
  BY DEF TypeInv, TypeOK, TxState
<1>1. \A v \in Worker, p \in Priority : HoldsRow(v, p)' => v # w /\ HoldsRow(v, p)
  BY <1>t DEF HoldsRow
<1>2. RowsLocked'
  BY <1>t, <1>1 DEF PolicyInv, RowsLocked
<1>3. ReadInForce'
  BY <1>t, QuietTrail DEF PolicyInv, ReadInForce, EffectiveOf
<1> QED
  BY <1>2, <1>3, QuietTrail DEF PolicyInv

LEMMA ChangeStep ==
  ASSUME TypeInv, PolicyInv, NEW w \in Worker, CommitChange(w)
  PROVE  PolicyInv'
<1> DEFINE q == tx[w].priority
<1>p. PICK n : n = Len(trail)
  OBVIOUS
<1>1. /\ n \in Nat /\ Len(trail') = n + 1 /\ q \in Priority
      /\ \A i \in 1..n : trail'[i] = trail[i]
      /\ trail'[n + 1].priority = q
      /\ trail'[n + 1].before = EffectiveOf(tx[w].seen, q)
      /\ trail'[n + 1].after = EffectiveOf(overrides', q)
      /\ \A p \in Priority : /\ About(trail', p, n + 1) = About(trail, p, n) \cup (IF p = q THEN {n + 1} ELSE {})
                             /\ \A k \in 0..n : About(trail', p, k) = About(trail, p, k)
                             /\ \A k \in 0..n : InForce(trail', p, k) = InForce(trail, p, k)
                             /\ InForce(trail, p, n) \subseteq InForce(trail', p, n + 1)
  BY <1>p, ChangeTrail
<1>2. /\ overrides' = [overrides EXCEPT ![q] = tx[w].target] /\ overrides \in Overrides
      /\ tx' = [tx EXCEPT ![w] = Idle] /\ tx \in [Worker -> TxState]
      /\ tx[w].pc = "written" /\ promised' = promised
      /\ overrides' \in Overrides /\ trail' \in Seq(Entry) /\ trail \in Seq(Entry)
  BY TypeInvStep DEF CommitChange, TypeInv, TypeOK, TxState, Next
<1>s. \A i \in 1..n : trail[i].priority \in Priority
  <2>1. trail \in Seq(Entry)
    BY <1>2
  <2>2. \A i \in 1..n : trail[i] \in Entry
    BY <1>p, <2>1
  <2> QED
    BY <2>2 DEF Entry
<1>i. Idle.pc = "idle"
  BY DEF Idle
<1>l. \A p \in Priority : \A k \in 0..n : \A i : IsLast(trail', i, p, k) <=> IsLast(trail, i, p, k)
  BY <1>1 DEF IsLast
<1>r. HoldsRow(w, q)
  BY <1>2 DEF HoldsRow, CommitChange, TypeInv, WellFormed
<1> HIDE DEF q
<1>3. TrailInv'
  <2> SUFFICES ASSUME NEW p \in Priority
               PROVE  (\/ About(trail, p, Len(trail)) = {} /\ overrides[p] = NULL
                       \/ \E i \in 1..Len(trail) : /\ IsLast(trail, i, p, Len(trail))
                                                   /\ EffectiveOf(overrides, p) = trail[i].after)'
    BY DEF TrailInv
  <2>1. CASE p = q
    <3>1. \A j \in About(trail', q, n + 1) : j <= n + 1
      <4>1. n \in Nat
        BY <1>1
      <4>2. About(trail', q, n + 1) \subseteq 1..(n + 1)
        BY DEF About
      <4> QED
        BY <4>1, <4>2
    <3>2. IsLast(trail', n + 1, q, n + 1)
      BY <1>1, <3>1 DEF IsLast
    <3> QED
      BY <1>1, <2>1, <3>2
  <2>2. CASE p # q
    <3>0. About(trail', p, n + 1) = About(trail, p, n)
      <4>1. About(trail', p, n + 1) = About(trail, p, n) \cup (IF p = q THEN {n + 1} ELSE {})
        BY <1>1
      <4> QED
        BY <2>2, <4>1
    <3>1. About(trail', p, n + 1) = About(trail, p, n) /\ overrides'[p] = overrides[p]
      BY <1>2, <2>2, <3>0 DEF Overrides
    <3>2. EffectiveOf(overrides, p)' = EffectiveOf(overrides, p)
      BY <3>1 DEF EffectiveOf
    <3>3. \A i : IsLast(trail', i, p, n + 1) <=> IsLast(trail, i, p, n)
      BY <3>1 DEF IsLast
    <3>4. CASE About(trail, p, n) = {} /\ overrides[p] = NULL
      BY <1>1, <3>1, <3>4
    <3>5. CASE \E i \in 1..n : IsLast(trail, i, p, n) /\ EffectiveOf(overrides, p) = trail[i].after
      <4>1. PICK i \in 1..n : IsLast(trail, i, p, n) /\ EffectiveOf(overrides, p) = trail[i].after
        BY <3>5
      <4>2. i \in 1..(n + 1) /\ trail'[i].after = trail[i].after
        BY <1>1
      <4> QED
        BY <1>1, <3>2, <3>3, <4>1, <4>2
    <3> QED
      BY <1>p, <3>4, <3>5 DEF PolicyInv, TrailInv
  <2> QED
    BY <2>1, <2>2
<1>4. RowsLocked'
  <2>1. \A v \in Worker, p \in Priority : HoldsRow(v, p)' => v # w /\ HoldsRow(v, p)
    BY <1>2, <1>i DEF HoldsRow
  <2>2. ASSUME NEW v \in Worker, NEW p \in Priority, HoldsRow(v, p)', (tx[v].op = "reset")'
        PROVE  overrides'[p] # NULL
    <3>1. HoldsRow(v, p) /\ v # w /\ tx[v].op = "reset"
      BY <1>2, <2>1, <2>2
    <3>2. p # q
      BY <1>r, <1>1, <3>1 DEF PolicyInv, RowsLocked
    <3>3. overrides[p] # NULL
      BY <3>1 DEF PolicyInv, RowsLocked
    <3> QED
      BY <1>2, <3>2, <3>3 DEF Overrides
  <2> QED
    BY <2>1, <2>2 DEF PolicyInv, RowsLocked
<1>5. ReadInForce'
  <2> SUFFICES ASSUME NEW v \in Worker, tx'[v].pc \in {"read", "written", "nothing"},
                      NEW p \in Priority
               PROVE  EffectiveOf(tx'[v].seen, p) \in InForce(trail', p, n + 1)
    BY <1>1 DEF ReadInForce, EffectiveOf
  <2>1. v # w /\ tx'[v] = tx[v]
    BY <1>2, <1>i
  <2>2. EffectiveOf(tx[v].seen, p) \in InForce(trail, p, n)
    BY <1>p, <2>1 DEF PolicyInv, ReadInForce
  <2> QED
    BY <1>1, <2>1, <2>2
<1>6. PromisesAreOnRecord'
  <2>1. ASSUME NEW t \in Ticket, promised[t] # NULL
        PROVE  \E e \in InForce(trail', PriorityOf[t], n + 1) : e.target = promised[t]
    <3>1. PriorityOf[t] \in Priority
      BY PolicyAssumption
    <3>2. \E e \in InForce(trail, PriorityOf[t], n) : e.target = promised[t]
      BY <1>p, <2>1 DEF PolicyInv, PromisesAreOnRecord
    <3> QED
      BY <1>1, <3>1, <3>2
  <2>2. ASSUME NEW i \in 1..(n + 1)
        PROVE  trail'[i].before \in InForce(trail', trail'[i].priority, i - 1)
    <3>1. CASE i = n + 1
      <4>1. EffectiveOf(tx[w].seen, q) \in InForce(trail, q, n)
        BY <1>p, <1>1, <1>2 DEF PolicyInv, ReadInForce
      <4> QED
        BY <1>1, <3>1, <4>1
    <3>2. CASE i # n + 1
      <4>1. i \in 1..n /\ i - 1 \in 0..n /\ trail'[i] = trail[i]
        BY <1>1, <3>2
      <4>2. trail[i].priority \in Priority
        BY <1>s, <4>1
      <4>3. trail[i].before \in InForce(trail, trail[i].priority, i - 1)
        BY <1>p, <4>1 DEF PolicyInv, PromisesAreOnRecord
      <4> QED
        BY <1>1, <4>1, <4>2, <4>3
    <3> QED
      BY <3>1, <3>2
  <2> QED
    BY <1>1, <1>2, <2>1, <2>2 DEF PromisesAreOnRecord
<1>7. ResetsFollowChanges'
  <2> SUFFICES ASSUME NEW i \in 1..(n + 1), trail'[i].after.source = "default"
               PROVE  \E j \in 1..(i - 1) : /\ IsLast(trail', j, trail'[i].priority, i - 1)
                                            /\ trail'[j].after.source = "organization"
    BY <1>1 DEF ResetsFollowChanges
  <2>1. CASE i = n + 1
    <3>1. overrides'[q] = NULL
      <4>1. q \in Priority /\ overrides' \in Overrides
        BY <1>1, <1>2
      <4>2. trail'[n + 1].after = EffectiveOf(overrides', q)
        BY <1>1
      <4>3. EffectiveOf(overrides', q).source = "default"
        BY <2>1, <4>2
      <4> QED
        BY <4>1, <4>3, EffectiveIs
    <3>2. tx[w].op = "reset"
      BY <1>1, <1>2, <3>1, PolicyAssumption DEF Overrides, CommitChange, TypeInv, WellFormed
    <3>3. overrides[q] # NULL
      BY <1>r, <1>1, <3>2 DEF PolicyInv, RowsLocked
    <3>4. PICK j \in 1..n : IsLast(trail, j, q, n) /\ EffectiveOf(overrides, q) = trail[j].after
      BY <1>p, <1>1, <3>3 DEF PolicyInv, TrailInv
    <3>5. EffectiveOf(overrides, q).source = "organization"
      BY <3>3 DEF EffectiveOf
    <3>6. n \in 0..n /\ i - 1 = n
      BY <1>1, <2>1
    <3> QED
      BY <1>1, <1>l, <2>1, <3>4, <3>5, <3>6
  <2>2. CASE i # n + 1
    <3>1. i \in 1..n /\ i - 1 \in 0..n /\ trail'[i] = trail[i]
      BY <1>1, <2>2
    <3>2. trail[i].priority \in Priority
      BY <1>s, <3>1
    <3>3. PICK j \in 1..(i - 1) : /\ IsLast(trail, j, trail[i].priority, i - 1)
                                  /\ trail[j].after.source = "organization"
      BY <1>p, <2>2, <3>1 DEF PolicyInv, ResetsFollowChanges
    <3>4. trail'[j] = trail[j]
      BY <1>1, <3>1
    <3> QED
      BY <1>l, <3>1, <3>2, <3>3, <3>4
  <2> QED
    BY <2>1, <2>2
<1> QED
  BY <1>3, <1>4, <1>5, <1>6, <1>7 DEF PolicyInv

LEMMA PolicyStep == TypeInv /\ PolicyInv /\ [Next]_vars => PolicyInv'
<1> SUFFICES ASSUME TypeInv, PolicyInv, [Next]_vars
             PROVE  PolicyInv'
  OBVIOUS
<1>t. /\ tx \in [Worker -> TxState] /\ overrides \in Overrides /\ trail \in Seq(Entry)
      /\ promised \in [Ticket -> Target \cup {NULL}] /\ tx' \in [Worker -> TxState]
  BY TypeInvStep DEF TypeInv, TypeOK, TxState
<1>i. Idle.pc = "idle" /\ Idle \in TxState
  BY DEF Idle, TxState, Overrides
<1>1. CASE UNCHANGED vars
  <2>1. RowsLocked' /\ ReadInForce'
    BY <1>1, QuietTrail DEF vars, PolicyInv, RowsLocked, ReadInForce, HoldsRow, EffectiveOf
  <2> QED
    BY <1>1, <2>1, QuietTrail DEF vars, PolicyInv
<1>2. ASSUME NEW w \in Worker, BeginUpdate(w) \/ BeginReset(w) \/ BeginStart(w)
      PROVE  PolicyInv'
  <2>1. PICK r : r.pc = "begun" /\ tx' = [tx EXCEPT ![w] = r]
    BY <1>2, <1>i DEF BeginUpdate, BeginReset, BeginStart, Idle
  <2>2. r \in TxState
    BY <1>t, <2>1
  <2>3. UNCHANGED <<overrides, trail, promised>>
    BY <1>2 DEF BeginUpdate, BeginReset, BeginStart
  <2> QED
    BY <2>1, <2>2, <2>3, FreshRequest
<1>3. ASSUME NEW w \in Worker, EndReset(w) \/ Abort(w)
      PROVE  PolicyInv'
  <2>1. UNCHANGED <<overrides, trail, promised>> /\ tx' = [tx EXCEPT ![w] = Idle]
    BY <1>3 DEF EndReset, Abort
  <2> QED
    BY <1>i, <2>1, FreshRequest
<1>4. ASSUME NEW w \in Worker, Read(w)
      PROVE  PolicyInv'
  <2>1. RowsLocked'
    <3>1. \A v \in Worker : /\ tx'[v].op = tx[v].op /\ tx'[v].priority = tx[v].priority
                            /\ tx'[v].pc = "written" => tx[v].pc = "written"
      BY <1>4, <1>t DEF Read, TxState
    <3>2. \A v \in Worker, p \in Priority : HoldsRow(v, p)' => HoldsRow(v, p)
      BY <3>1 DEF HoldsRow
    <3>3. overrides' = overrides
      BY <1>4 DEF Read
    <3> QED
      BY <3>1, <3>2, <3>3 DEF PolicyInv, RowsLocked
  <2>2. ReadInForce'
    <3> SUFFICES ASSUME NEW v \in Worker, tx'[v].pc \in {"read", "written", "nothing"},
                        NEW p \in Priority
                 PROVE  EffectiveOf(tx'[v].seen, p) \in InForce(trail, p, Len(trail))
      BY <1>4, QuietTrail DEF Read, ReadInForce
    <3>1. CASE v = w
      BY <1>4, <1>t, <3>1, NowInForce DEF Read, PolicyInv, TxState
    <3>2. CASE v # w
      BY <1>4, <1>t, <3>2 DEF Read, PolicyInv, ReadInForce
    <3> QED
      BY <3>1, <3>2
  <2> QED
    BY <1>4, <2>1, <2>2, QuietTrail DEF Read, PolicyInv
<1>5. ASSUME NEW w \in Worker, Upsert(w) \/ Remove(w)
      PROVE  PolicyInv'
  <2> DEFINE q == tx[w].priority
  <2>1. PICK pc \in {"written", "nothing"} : tx' = [tx EXCEPT ![w].pc = pc]
    BY <1>5 DEF Upsert, Remove
  <2>2. /\ UNCHANGED <<overrides, trail, promised>> /\ tx[w].pc = "read"
        /\ tx'[w].seen = tx[w].seen /\ tx'[w].op = tx[w].op /\ tx'[w].priority = q
        /\ \A v \in Worker \ {w} : tx'[v] = tx[v]
    BY <1>5, <1>t, <2>1 DEF Upsert, Remove, TxState
  <2>3. \A v \in Worker \ {w}, p \in Priority : HoldsRow(v, p)' <=> HoldsRow(v, p)
    BY <2>2 DEF HoldsRow
  <2>4. \A p \in Priority : HoldsRow(w, p)' =>
          /\ p = q /\ IsFree(w, q)
          /\ tx[w].op = "reset" => overrides[q] # NULL
    BY <1>5, <1>t, <2>1, <2>2 DEF Upsert, Remove, HoldsRow, TxState
  <2>5. RowsLocked'
    <3>1. \A v, u \in Worker, p \in Priority : HoldsRow(v, p)' /\ HoldsRow(u, p)' => v = u
      BY <2>3, <2>4 DEF IsFree, PolicyInv, RowsLocked
    <3>2. \A v \in Worker, p \in Priority :
            HoldsRow(v, p)' /\ tx'[v].op = "reset" => overrides'[p] # NULL
      BY <2>2, <2>3, <2>4 DEF PolicyInv, RowsLocked
    <3> QED
      BY <3>1, <3>2 DEF RowsLocked
  <2>6. ReadInForce'
    <3> SUFFICES ASSUME NEW v \in Worker, tx'[v].pc \in {"read", "written", "nothing"},
                        NEW p \in Priority
                 PROVE  EffectiveOf(tx'[v].seen, p) \in InForce(trail, p, Len(trail))
      BY <2>2, QuietTrail DEF ReadInForce
    <3>1. tx'[v].seen = tx[v].seen /\ tx[v].pc \in {"read", "written", "nothing"}
      BY <2>2
    <3> QED
      BY <3>1 DEF PolicyInv, ReadInForce
  <2> QED
    BY <2>2, <2>5, <2>6, QuietTrail DEF PolicyInv
<1>6. ASSUME NEW w \in Worker, CommitChange(w)
      PROVE  PolicyInv'
  BY <1>6, ChangeStep
<1>7. ASSUME NEW w \in Worker, CommitStart(w)
      PROVE  PolicyInv'
  <2> DEFINE t == tx[w].ticket
             q == tx[w].priority
  <2>1. /\ UNCHANGED <<overrides, trail>> /\ tx' = [tx EXCEPT ![w] = Idle]
        /\ promised' = [promised EXCEPT ![t] = EffectiveOf(tx[w].seen, q).target]
        /\ t \in Ticket /\ q = PriorityOf[t] /\ q \in Priority /\ tx[w].pc = "read"
    BY <1>7 DEF CommitStart, TypeInv, WellFormed
  <2>2. \A v \in Worker, p \in Priority : HoldsRow(v, p)' => v # w /\ HoldsRow(v, p)
    BY <1>t, <1>i, <2>1 DEF HoldsRow
  <2>3. RowsLocked'
    BY <1>t, <2>1, <2>2 DEF PolicyInv, RowsLocked
  <2>4. ReadInForce'
    BY <1>t, <1>i, <2>1, QuietTrail DEF PolicyInv, ReadInForce, EffectiveOf
  <2>5. EffectiveOf(tx[w].seen, q) \in InForce(trail, q, Len(trail))
    BY <2>1 DEF PolicyInv, ReadInForce
  <2>6. \A u \in Ticket : promised'[u] # NULL =>
          \E e \in InForce(trail, PriorityOf[u], Len(trail)) : e.target = promised'[u]
    <3>1. promised'[t] = EffectiveOf(tx[w].seen, q).target /\ q = PriorityOf[t]
      BY <1>t, <2>1
    <3>2. \A u \in Ticket \ {t} : promised'[u] = promised[u]
      BY <1>t, <2>1
    <3>3. \A u \in Ticket : promised[u] # NULL =>
            \E e \in InForce(trail, PriorityOf[u], Len(trail)) : e.target = promised[u]
      BY DEF PolicyInv, PromisesAreOnRecord
    <3> QED
      BY <2>5, <3>1, <3>2, <3>3
  <2>7. PromisesAreOnRecord'
    <3>1. trail' = trail
      BY <2>1
    <3>2. \A p, k : InForce(trail', p, k) = InForce(trail, p, k)
      BY <3>1
    <3>3. \A i \in 1..Len(trail) : trail[i].before \in InForce(trail, trail[i].priority, i - 1)
      BY DEF PolicyInv, PromisesAreOnRecord
    <3> QED
      BY <2>6, <3>1, <3>2, <3>3 DEF PromisesAreOnRecord
  <2> QED
    BY <2>1, <2>3, <2>4, <2>7, QuietTrail DEF PolicyInv
<1> QED
  BY <1>1, <1>2, <1>3, <1>4, <1>5, <1>6, <1>7 DEF Next

\* However changes and resets overlap, the last entry about a priority tells
\* the policy in force, and without one the default rules.
THEOREM TrailSafe == Spec => []TrailExplainsPolicy
<1>1. TypeInv /\ PolicyInv => TrailExplainsPolicy
  <2> SUFFICES ASSUME TypeInv, PolicyInv, NEW p \in Priority
               PROVE  IF About(trail, p, Len(trail)) = {}
                        THEN EffectiveOf(overrides, p) = EffectiveOf(NoOverride, p)
                        ELSE \A i \in About(trail, p, Len(trail)) :
                               IsLast(trail, i, p, Len(trail)) => EffectiveOf(overrides, p) = trail[i].after
    BY DEF TrailExplainsPolicy
  <2>1. CASE About(trail, p, Len(trail)) = {} /\ overrides[p] = NULL
    BY <2>1, EffectiveIs DEF TypeInv, TypeOK
  <2>2. ASSUME NEW i \in 1..Len(trail), IsLast(trail, i, p, Len(trail)),
               EffectiveOf(overrides, p) = trail[i].after
        PROVE  \A j \in About(trail, p, Len(trail)) :
                 IsLast(trail, j, p, Len(trail)) => EffectiveOf(overrides, p) = trail[j].after
    <3>1. \A j \in About(trail, p, Len(trail)) : j \in Int
      BY DEF About
    <3>2. \A j : IsLast(trail, j, p, Len(trail)) => j = i
      BY <2>2, <3>1 DEF IsLast
    <3> QED
      BY <2>2, <3>2
  <2>3. \A i : IsLast(trail, i, p, Len(trail)) => About(trail, p, Len(trail)) # {}
    BY DEF IsLast
  <2> QED
    BY <2>1, <2>2, <2>3 DEF PolicyInv, TrailInv
<1> QED
  BY <1>1, TypeInvInit, TypeInvStep, PolicyInvInit, PolicyStep, PTL DEF Spec

\* What a ticket was promised, and what an entry says was replaced, was once
\* in force, however stale the reader.
THEOREM PromisesSafe == Spec => []PromisesAreOnRecord
<1>1. PolicyInv => PromisesAreOnRecord
  BY DEF PolicyInv
<1> QED
  BY <1>1, TypeInvInit, TypeInvStep, PolicyInvInit, PolicyStep, PTL DEF Spec

\* A reset is on the trail only after a change that it took back.
THEOREM ResetsSafe == Spec => []ResetsFollowChanges
<1>1. PolicyInv => ResetsFollowChanges
  BY DEF PolicyInv
<1> QED
  BY <1>1, TypeInvInit, TypeInvStep, PolicyInvInit, PolicyStep, PTL DEF Spec
=============================================================================
