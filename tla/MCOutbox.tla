----------------------------- MODULE MCOutbox -----------------------------
(* Small instances of Outbox for TLC.  "sla" claims processed_messages, and *)
(* "realtime" does not.  In OutboxBatches event 2 is of a version that its   *)
(* consumer does not understand.                                            *)
EXTENDS Outbox, TLC

CONSTANTS p1, p2, w1, w2, sla, realtime

BothQueues == 1 :> <<sla, realtime>>
GuardedOnly == 1 :> <<sla>> @@ 2 :> <<sla>>

SecondOfSla == {<<sla, 2>>}

ProcessSymmetry == Permutations({p1, p2}) \cup Permutations({w1, w2})
=============================================================================
