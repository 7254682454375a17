----------------------------- MODULE MCRealtime -----------------------------
(* Small instances of Realtime for TLC. *)
EXTENDS Realtime, TLC

CONSTANTS n1, n2, t1, viewer, agent, r1, r2

Homes == viewer :> r1 @@ agent :> r2

Tokens ==
  viewer :> [tenant |-> n1, role |-> "VIEWER", exp |-> 2] @@
  agent  :> [tenant |-> n2, role |-> "AGENT", exp |-> 1]

GivenOf(n) == [name |-> "ticket.assigned", tenant |-> n, ticket |-> t1]
MovedOf(n) == [name |-> "ticket.status_changed", tenant |-> n, ticket |-> t1]

ThreeEvents == {GivenOf(n1), GivenOf(n2), MovedOf(n2)}
=============================================================================
