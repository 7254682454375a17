---------------------------- MODULE MCTicketFeed ----------------------------
(* Small instances of TicketFeed for TLC. *)
EXTENDS TicketFeed

CONSTANTS u1

Everything == [status |-> NULL, assignee |-> NULL]
OpenOnes == [status |-> "OPEN", assignee |-> NULL]
OpenOfU1 == [status |-> "OPEN", assignee |-> u1]

AllFilters == {Everything, OpenOnes, OpenOfU1}
=============================================================================
