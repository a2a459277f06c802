----------------------------- MODULE MCAccounts -----------------------------
(* Small instances of Accounts for TLC. *)
EXTENDS Accounts, TLC

CONSTANTS e1, e2, p1, p2, k1, k2, i1, i2, r1, r2

Symmetry == Permutations(Emails) \cup Permutations(Passwords)
              \cup Permutations(Kdfs) \cup Permutations(Items)
              \cup Permutations(Requests)
=============================================================================
