------------------------- MODULE MCEmergencyAccess -------------------------
(* Small instances of EmergencyAccess for TLC. *)
EXTENDS EmergencyAccess, TLC

CONSTANTS u1, u2, u3, e1, e2, r1, r2

Symmetry == Permutations(Users) \cup Permutations(Grants)
              \cup Permutations(Requests)
=============================================================================
