--------------------------- MODULE MemberLifecycle ---------------------------
(***************************************************************************)
(* What the organization handlers promise about one membership, without    *)
(* the integer encoding of its status and without the requests that write  *)
(* it.  A membership is at a stage, and a revoked one keeps its stage so   *)
(* that a restore brings it back exactly where it was.  The exception is   *)
(* the enforcement of the two-factor policy at login: it forgets the stage *)
(* ("dropped"), and a restore then leads to a stage ("limbo") from which   *)
(* the membership can only be dropped again or removed.                    *)
(***************************************************************************)
CONSTANT Members

VARIABLE life

Stages == {"invited", "accepted", "confirmed"}
Lives == [stage : Stages, revoked : BOOLEAN]
           \cup [stage : {"none", "dropped", "limbo"}, revoked : {FALSE}]

At(stage) == [stage |-> stage, revoked |-> FALSE]
RevokedAt(stage) == [stage |-> stage, revoked |-> TRUE]

Init == life = [m \in Members |-> At("none")]

Enter(m)   == /\ life[m] = At("none")
              /\ life'[m] \in {At(s) : s \in Stages}
Accept(m)  == life[m] = At("invited") /\ life'[m] = At("accepted")
Confirm(m) == life[m] = At("accepted") /\ life'[m] = At("confirmed")
Revoke(m)  == \E s \in Stages :
                life[m] = At(s) /\ life'[m] = RevokedAt(s)
Restore(m) == \E s \in Stages :
                life[m] = RevokedAt(s) /\ life'[m] = At(s)
Drop(m)    == /\ life[m] \in {At("accepted"), At("confirmed"), At("limbo")}
              /\ life'[m] = At("dropped")
Misplace(m) == life[m] = At("dropped") /\ life'[m] = At("limbo")
Remove(m)  == life'[m] = At("none")

\* One statement may move several memberships: a cascade, or a registration
\* that accepts every open invitation.
Next ==
    /\ DOMAIN life' = Members
    /\ \A m \in Members :
         \/ life'[m] = life[m]
         \/ Enter(m) \/ Accept(m) \/ Confirm(m) \/ Revoke(m) \/ Restore(m)
         \/ Drop(m) \/ Misplace(m) \/ Remove(m)

Spec == Init /\ [][Next]_life
=============================================================================
