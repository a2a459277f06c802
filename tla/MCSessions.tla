----------------------------- MODULE MCSessions -----------------------------
(* Small instances of Sessions for TLC. *)
EXTENDS Sessions, TLC

CONSTANTS d1, d2, r1, r2

Symmetry == Permutations(Devices) \cup Permutations(Requests)
=============================================================================
