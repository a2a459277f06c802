-------------------------- MODULE MCOrgMembership --------------------------
(* Small instances of OrgMembership for TLC. *)
EXTENDS OrgMembership, TLC

CONSTANTS u1, u2, u3, o1, o2, m1, m2, m3, r1, r2

Symmetry == Permutations(Users) \cup Permutations(Members)
              \cup Permutations(Requests) \cup Permutations(Orgs)
=============================================================================
