---------------------------- MODULE MCSlaPolicy ----------------------------
(* A small instance of SlaPolicy for TLC. *)
EXTENDS SlaPolicy, TLC

CONSTANTS w1, w2, w3, t1

T(response, resolution) == [responseMinutes |-> response, resolutionMinutes |-> resolution]

UrgentOnly == t1 :> "URGENT"
Defaults == "URGENT" :> T(1, 1) @@ "HIGH" :> T(2, 2)

\* Two that are accepted, an answer due after the resolution, and one out of range.
Inputs == {T(1, 2), T(2, 2), T(2, 1), T(0, 3)}

WorkerSymmetry == Permutations({w1, w2, w3})
=============================================================================
