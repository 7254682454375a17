----------------------------- MODULE MCTickets -----------------------------
(* Small instances of Tickets for TLC. *)
EXTENDS Tickets, TLC

CONSTANTS w1, w2, n1, n2, t1, t2, u1, u2

OneTenantMembers == n1 :> {u1, u2}
OneTenantAgents == n1 :> <<u1, u2>>

\* u2 is a member, and an agent, of both organizations.
MixedMembers == n1 :> {u1, u2} @@ n2 :> {u2}
MixedAgents == n1 :> <<u1, u2>> @@ n2 :> <<u2>>

AllOps == UseCase
StatusOps == {"create", "status", "comment"}
=============================================================================
