--------------------------- MODULE RecoveryGrant ---------------------------
(***************************************************************************)
(* What emergency access promises about one grant: it is offered, accepted *)
(* by a contact who stays the same from then on, confirmed by the grantor  *)
(* and, as often as the contact asks, approved or rejected.  Withdrawing   *)
(* it is always possible and ends everything.                              *)
(***************************************************************************)
CONSTANTS Grants, None

VARIABLES stage, holder

Init == /\ stage = [e \in Grants |-> "none"]
        /\ holder = [e \in Grants |-> None]

Moves(e, from, to) == stage[e] = from /\ stage'[e] = to
Kept(e) == holder'[e] = holder[e]

Offer(e)    == Moves(e, "none", "invited") /\ Kept(e)
Accept(e)   == /\ \E from \in {"none", "invited"} : Moves(e, from, "accepted")
               /\ holder'[e] # None
Confirm(e)  == Moves(e, "accepted", "confirmed") /\ Kept(e)
Initiate(e) == Moves(e, "confirmed", "initiated") /\ Kept(e)
Approve(e)  == Moves(e, "initiated", "approved") /\ Kept(e)
Reject(e)   == /\ \E from \in {"initiated", "approved"} :
                    Moves(e, from, "confirmed")
               /\ Kept(e)
Withdraw(e) == stage'[e] = "none" /\ holder'[e] = None

\* One statement may move several grants: a registration accepts every open
\* invitation, the deletion of an account withdraws all it took part in.
Next ==
    /\ DOMAIN stage' = Grants /\ DOMAIN holder' = Grants
    /\ \A e \in Grants :
         \/ stage'[e] = stage[e] /\ Kept(e)
         \/ Offer(e) \/ Accept(e) \/ Confirm(e) \/ Initiate(e) \/ Approve(e)
         \/ Reject(e) \/ Withdraw(e)

Spec == Init /\ [][Next]_<<stage, holder>>
=============================================================================
