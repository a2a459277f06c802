------------------------------ MODULE MCSends ------------------------------
(* Small instances of Sends for TLC. *)
EXTENDS Sends, TLC

CONSTANTS u1, s1, s2, r1, r2, p1

Symmetry == Permutations(Uuids) \cup Permutations(Requests)

\* A Send without limits; one access only; one access with a password and an
\* expiry; disabled.
MCInputs == {
    [maxAccessCount |-> None, password |-> None, expirationDate |-> None,
     deletionDate |-> 1, disabled |-> FALSE],
    [maxAccessCount |-> 1, password |-> None, expirationDate |-> None,
     deletionDate |-> 2, disabled |-> FALSE],
    [maxAccessCount |-> 1, password |-> p1, expirationDate |-> 1,
     deletionDate |-> 2, disabled |-> FALSE],
    [maxAccessCount |-> None, password |-> None, expirationDate |-> None,
     deletionDate |-> 2, disabled |-> TRUE]}
=============================================================================
