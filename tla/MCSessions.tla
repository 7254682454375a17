---------------------------- MODULE MCSessions ----------------------------
(* A small instance of Sessions for TLC. *)
EXTENDS Sessions, TLC

CONSTANTS w1, w2, o1, o2, k1, k2, k3

IdSymmetry ==
  Permutations({w1, w2}) \cup Permutations({o1, o2}) \cup Permutations({k1, k2, k3})
=============================================================================
