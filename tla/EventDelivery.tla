--------------------------- MODULE EventDelivery ---------------------------
(***************************************************************************)
(* What the event pipeline promises its idempotent consumers: an event that*)
(* was committed takes effect on each consumer it is routed to, once.      *)
(***************************************************************************)
EXTENDS Naturals

CONSTANTS Event, Consumer,
          Listens(_, _)   \* Listens(c, e): events of e reach consumer c

VARIABLES emitted,   \* events committed with their change
          taken      \* taken[c][e]: how often e took effect on c

Init ==
  /\ emitted = {}
  /\ taken = [c \in Consumer |-> [e \in Event |-> 0]]

Emit(e) ==
  /\ e \notin emitted
  /\ emitted' = emitted \cup {e}
  /\ UNCHANGED taken

Deliver(c, e) ==
  /\ e \in emitted /\ Listens(c, e)
  /\ taken[c][e] = 0
  /\ taken' = [taken EXCEPT ![c][e] = 1]
  /\ UNCHANGED emitted

Next == \E e \in Event : Emit(e) \/ \E c \in Consumer : Deliver(c, e)

Spec == Init /\ [][Next]_<<emitted, taken>>
=============================================================================
