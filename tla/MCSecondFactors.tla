--------------------------- MODULE MCSecondFactors ---------------------------
(* Small instances of SecondFactors for TLC. *)
EXTENDS SecondFactors, TLC

CONSTANTS d1, d2, a1, a2, k1, r1, r2

Symmetry == Permutations(Devices) \cup Permutations(Addresses)
              \cup Permutations(Keys) \cup Permutations(Requests)
=============================================================================
