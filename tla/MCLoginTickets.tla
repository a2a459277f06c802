--------------------------- MODULE MCLoginTickets ----------------------------
(* Small instances of LoginTickets for TLC. *)
EXTENDS LoginTickets

CONSTANTS a1, s1, i1, i2, r1
=============================================================================
