------------------------------- MODULE MCVault -------------------------------
(* Small instances of Vault for TLC. *)
EXTENDS Vault, TLC

CONSTANTS u1, u2, o1, o2, k1, k2, c1, c2, f1, f2, r1, r2

Symmetry == Permutations(Users) \cup Permutations(Orgs) \cup Permutations(Collections)
              \cup Permutations(Ciphers) \cup Permutations(Folders)
              \cup Permutations(Requests)
=============================================================================
