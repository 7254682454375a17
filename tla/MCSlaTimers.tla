---------------------------- MODULE MCSlaTimers ----------------------------
(* Small instances of SlaTimers for TLC. *)
EXTENDS SlaTimers, TLC

CONSTANTS t1, w1, s1, s2

OnePolicy == {[RESPONSE |-> 1, RESOLUTION |-> 2]}
=============================================================================
