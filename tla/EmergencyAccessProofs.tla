----------------------- MODULE EmergencyAccessProofs -----------------------
(***************************************************************************)
(* Proofs about EmergencyAccess, for any number of users and grants.       *)
(* Under any number of overlapping requests: its type invariant, that a    *)
(* recoverable grant has a key, and that nobody is handed a vault that its *)
(* owner did not approve.  With one request at a time: what is stored      *)
(* stays usable, and the handlers implement RecoveryGrant.                 *)
(***************************************************************************)
EXTENDS EmergencyAccess, TLAPS

(***************************************************************************)
(* The inductive invariant.  The two promises about a request and a row    *)
(* take the row, the invited address and the approval as arguments, so     *)
(* that a step is a step from one set of arguments to another.             *)
(***************************************************************************)
GrantOps == RowOps \cup AccessOps \cup {"invite"}
Keyed == {"confirm", "rotate", "setPassword"} \cup AccessOps

\* What a row of the table satisfies.
GoodRow(row, addr, con) ==
    /\ row.status >= Accepted => row.grantee # None
    /\ row.status >= Confirmed => row.keyEncrypted # NoKey
    /\ row.grantee \in {None, addr}
    /\ row.email \in {None, addr}
    /\ ~MailEnabled /\ row.status = Invited => row.email # None
    /\ row.status = RecoveryApproved => con = <<row.grantor, addr>>

\* What a request has learnt about its row and may still rely on when other
\* requests have written the row since.
Claim(q, row, addr, con) ==
    /\ q.op \in AccessOps => con = <<q.other, q.actor>>
    /\ q.op = "invite" => row = None /\ q.other \in Users
    /\ row # None =>
         /\ q.op = "accept" => q.actor = addr
         /\ q.op \in {"confirm", "initiate", "approve", "reject"} =>
              row.grantee # None
         /\ q.op \in {"initiate", "approve", "reject"} =>
              row.keyEncrypted # NoKey
         /\ q.op = "approve" => q.actor = row.grantor
         /\ q.op \in AccessOps => q.other = row.grantor /\ q.actor = addr

Carries(q) ==
    /\ q.op \in Keyed => q.ver \in Keys
    /\ q.op \in GrantOps => q.grant \in Grants

GoodRequest(q) ==
    /\ Carries(q)
    /\ q.op \in GrantOps =>
         Claim(q, grants[q.grant], invited[q.grant], consent[q.grant])

RowsGood == \A e \in Grants :
              grants[e] # None => GoodRow(grants[e], invited[e], consent[e])
RequestsGood == \A r \in Requests :
                  requests[r] # None => GoodRequest(requests[r])

\* Nobody else knows the uuid of a row that is still to be inserted.
Exclusive ==
    \A r, s \in Requests :
      /\ requests[r] # None /\ requests[s] # None /\ r # s
      /\ requests[r].op = "invite"
      => requests[s].grant # requests[r].grant

Inv == TypeOK /\ RowsGood /\ RequestsGood /\ Exclusive

----------------------------------------------------------------------------
(***************************************************************************)
(* Lemmas on the pieces                                                    *)
(***************************************************************************)
AccountsOK ==
    /\ users \subseteq Users
    /\ shells \subseteq users
    /\ registered \subseteq users
    /\ secret \in [Users -> Users]
    /\ akey \in [Users -> Keys]
    /\ vault \in [Users -> Keys]
    /\ twofactor \subseteq Users

\* What an update may do to a row that others have read: the grantor stays, a
\* contact or a key that is there is not lost.
Follows(new, old) ==
    /\ new.grantor = old.grantor
    /\ old.grantee # None => new.grantee # None
    /\ old.keyEncrypted # NoKey => new.keyEncrypted # NoKey

RowStep(e) ==
    /\ \/ grants'[e] = None
       \/ grants'[e] = grants[e]
       \/ grants[e] # None /\ Follows(grants'[e], grants[e])
    /\ \/ consent'[e] = consent[e]
       \/ grants[e] # None /\ consent'[e] = <<grants[e].grantor, invited[e]>>
    /\ grants'[e] # None => GoodRow(grants'[e], invited[e], consent'[e])

\* A request in flight goes on, or ends.
RequestStep(r) ==
    \/ requests'[r] = None
    \/ /\ requests[r] # None
       /\ requests'[r].op = requests[r].op
       /\ requests'[r].actor = requests[r].actor
       /\ requests'[r].grant = requests[r].grant
       /\ requests'[r].other = requests[r].other
       /\ requests'[r].ver = requests[r].ver

\* The value that stands for nothing is no user, grant, row or request.
LEMMA NoneFacts ==
    /\ None \notin Users /\ None \notin Grants
    /\ None \notin Row /\ None \notin Request
  BY NoneAssumption

\* The first version of a key is a key, and no key is none.
LEMMA KeyFacts == 1 \in Keys /\ NoKey \notin Keys
  BY BoundAssumption DEF Keys, NoKey

\* A request starts well-formed, with the fields it was given.
LEMMA NewRequestType ==
    ASSUME NEW op \in AllOps,
           NEW pc \in {"write", "twofactor", "sweep", "vault", "keys"},
           NEW u \in Users, NEW e \in Grants \cup {None}
    PROVE  NewRequest(op, pc, u, e) \in Request
  BY DEF NewRequest, Request, Types, View

\* A claim survives what others do to the row.
LEMMA ClaimKept ==
    ASSUME NEW q, NEW row, NEW row2, NEW addr, NEW con, NEW con2,
           Claim(q, row, addr, con),
           \/ row2 = None
           \/ row2 = row
           \/ row # None /\ Follows(row2, row),
           \/ con2 = con
           \/ row # None /\ con2 = <<row.grantor, addr>>
    PROVE  Claim(q, row2, addr, con2)
  BY DEF Claim, Follows

\* A claim is about these fields of the request only.
LEMMA ClaimFields ==
    ASSUME NEW q, NEW q2, NEW row, NEW addr, NEW con,
           Claim(q, row, addr, con),
           q2.op = q.op, q2.actor = q.actor, q2.other = q.other
    PROVE  Claim(q2, row, addr, con)
  BY DEF Claim

\* Accounts that are left alone.
LEMMA SameAccounts ==
    ASSUME Inv, UNCHANGED accounts
    PROVE  AccountsOK'
  BY DEF Inv, TypeOK, accounts, AccountsOK

\* A request that arrives keeps the invariant if what it claims is true.
LEMMA ArriveStep ==
    ASSUME Inv, NEW r \in Requests, NEW q \in Request,
           requests[r] = None,
           requests' = [requests EXCEPT ![r] = q],
           AccountsOK', UNCHANGED table,
           GoodRequest(q),
           q.op = "invite" => FreshGrant(q.grant),
           q.op # "invite" => q.grant = None \/ grants[q.grant] # None
    PROVE  Inv'
  <1> USE NoneFacts DEF table
  <1>1. TypeOK'
    BY DEF Inv, TypeOK, AccountsOK
  <1>2. RowsGood'
    BY DEF Inv, RowsGood
  <1>4. RequestsGood'
    <2> SUFFICES ASSUME NEW s \in Requests, requests'[s] # None
                 PROVE  GoodRequest(requests[s])'
      BY DEF RequestsGood
    <2>1. CASE s = r
      <3>1. requests'[s] = q
        BY <2>1 DEF Inv, TypeOK
      <3> QED  BY <3>1 DEF GoodRequest
    <2>2. CASE s # r
      <3>1. requests'[s] = requests[s]
        BY <2>2 DEF Inv, TypeOK
      <3>2. GoodRequest(requests[s])
        BY <3>1 DEF Inv, RequestsGood
      <3> QED  BY <3>1, <3>2 DEF GoodRequest
    <2> QED  BY <2>1, <2>2
  <1>5. Exclusive'
    <2> SUFFICES ASSUME NEW s \in Requests, NEW t \in Requests,
                        requests'[s] # None, requests'[t] # None, s # t,
                        requests'[s].op = "invite"
                 PROVE  requests'[t].grant # requests'[s].grant
      BY DEF Exclusive
    <2>0. requests'[r] = q /\ \A p \in Requests : p # r => requests'[p] = requests[p]
      BY DEF Inv, TypeOK
    <2>1. CASE s = r
      BY <2>0, <2>1 DEF FreshGrant, Active
    <2>2. CASE t = r
      <3>1. GoodRequest(requests[s]) /\ requests[s].op = "invite"
        BY <2>0, <2>2 DEF Inv, RequestsGood
      <3>2. /\ requests[s].grant \in Grants
            /\ grants[requests[s].grant] = None
        BY <3>1 DEF GoodRequest, Carries, Claim, GrantOps
      <3>3. CASE q.op = "invite"
        <4>1. s \in Active
          BY <2>0, <2>2 DEF Active
        <4> QED  BY <2>0, <2>2, <3>3, <4>1 DEF FreshGrant
      <3>4. CASE q.op # "invite"
        BY <2>0, <2>2, <3>2, <3>4
      <3> QED  BY <3>3, <3>4
    <2>3. CASE s # r /\ t # r
      BY <2>0, <2>3 DEF Inv, Exclusive
    <2> QED  BY <2>1, <2>2, <2>3
  <1> QED  BY <1>1, <1>2, <1>4, <1>5 DEF Inv

\* A step that follows the rows it changes keeps the invariant.
LEMMA WriteStep ==
    ASSUME Inv, AccountsOK', invited' = invited,
           grants' \in [Grants -> Row \cup {None}],
           consent' \in [Grants -> (Users \X Users) \cup {None}],
           requests' \in [Requests -> Request \cup {None}],
           \A e \in Grants : RowStep(e),
           \A r \in Requests : RequestStep(r)
    PROVE  Inv'
  <1>1. TypeOK'
    BY DEF Inv, TypeOK, AccountsOK
  <1>2. RowsGood'
    BY DEF RowsGood, RowStep
  <1>3. RequestsGood'
    <2> SUFFICES ASSUME NEW s \in Requests, requests'[s] # None
                 PROVE  GoodRequest(requests[s])'
      BY DEF RequestsGood
    <2> DEFINE q == requests[s]
               p == requests'[s]
    <2>1. /\ q # None /\ p.op = q.op /\ p.actor = q.actor
          /\ p.grant = q.grant /\ p.other = q.other /\ p.ver = q.ver
      BY DEF RequestStep
    <2>2. GoodRequest(q)
      BY <2>1 DEF Inv, RequestsGood
    <2>3. Carries(p)
      BY <2>1, <2>2 DEF GoodRequest, Carries
    <2>4. ASSUME p.op \in GrantOps
          PROVE  Claim(p, grants'[p.grant], invited'[p.grant],
                       consent'[p.grant])
      <3>1. /\ p.grant \in Grants
            /\ Claim(q, grants[p.grant], invited[p.grant], consent[p.grant])
        BY <2>1, <2>2, <2>4 DEF GoodRequest, Carries
      <3> HIDE DEF p, q
      <3>2. Claim(q, grants'[p.grant], invited[p.grant], consent'[p.grant])
        <4>1. RowStep(p.grant)
          BY <3>1
        <4> DEFINE row == grants[p.grant]
                   row2 == grants'[p.grant]
                   con == consent[p.grant]
                   con2 == consent'[p.grant]
        <4>2. \/ row2 = None \/ row2 = row
              \/ row # None /\ Follows(row2, row)
          BY <4>1 DEF RowStep
        <4>3. \/ con2 = con
              \/ row # None /\ con2 = <<row.grantor, invited[p.grant]>>
          BY <4>1 DEF RowStep
        <4>4. Claim(q, row, invited[p.grant], con)
          BY <3>1
        <4> HIDE DEF row, row2, con, con2
        <4>5. Claim(q, row2, invited[p.grant], con2)
          BY <4>2, <4>3, <4>4, ClaimKept
        <4> QED  BY <4>5 DEF row2, con2
      <3> QED  BY <2>1, <3>2, ClaimFields
    <2> QED  BY <2>3, <2>4 DEF GoodRequest, Carries
  <1>4. Exclusive'
    <2> SUFFICES ASSUME NEW s \in Requests, NEW t \in Requests,
                        requests'[s] # None, requests'[t] # None, s # t,
                        requests'[s].op = "invite"
                 PROVE  requests'[t].grant # requests'[s].grant
      BY DEF Exclusive
    <2> QED  BY DEF RequestStep, Inv, Exclusive
  <1> QED  BY <1>1, <1>2, <1>3, <1>4 DEF Inv

\* The end of a request.
LEMMA DoneStep ==
    ASSUME Inv, NEW r \in Requests, Done(r)
    PROVE  /\ requests' \in [Requests -> Request \cup {None}]
           /\ \A s \in Requests : RequestStep(s)
  BY DEF Inv, TypeOK, Done, RequestStep

\* A request moves on to its next statement.
LEMMA GoToStep ==
    ASSUME Inv, NEW r \in Requests, requests[r] # None,
           NEW pc \in {"write", "twofactor", "sweep", "vault", "keys"},
           GoTo(r, pc)
    PROVE  /\ requests' \in [Requests -> Request \cup {None}]
           /\ \A s \in Requests : RequestStep(s)
  <1>1. requests[r] \in Request
    BY DEF Inv, TypeOK
  <1>2. requests' = [requests EXCEPT ![r] = [requests[r] EXCEPT !.pc = pc]]
    BY DEF GoTo, Inv, TypeOK
  <1>3. [requests[r] EXCEPT !.pc = pc] \in Request
    BY <1>1 DEF Request
  <1>4. requests' \in [Requests -> Request \cup {None}]
    BY <1>2, <1>3 DEF Inv, TypeOK
  <1>5. ASSUME NEW s \in Requests PROVE RequestStep(s)
    <2>1. CASE s = r
      BY <1>1, <1>2, <2>1 DEF RequestStep, Inv, TypeOK, Request
    <2>2. CASE s # r
      BY <1>2, <2>2 DEF RequestStep, Inv, TypeOK
    <2> QED  BY <2>1, <2>2
  <1> QED  BY <1>4, <1>5

\* A table that is left alone.
LEMMA SameTable ==
    ASSUME Inv, UNCHANGED table
    PROVE  /\ invited' = invited
           /\ grants' \in [Grants -> Row \cup {None}]
           /\ consent' \in [Grants -> (Users \X Users) \cup {None}]
           /\ \A e \in Grants : RowStep(e)
  BY DEF Inv, TypeOK, table, RowStep, RowsGood

\* An UPDATE of one row.
LEMMA UpdateStep ==
    ASSUME Inv, NEW e \in Grants, NEW row, Update(e, row),
           UNCHANGED <<invited, consent>>,
           grants[e] # None => /\ row \in Row
                               /\ Follows(row, grants[e])
                               /\ GoodRow(row, invited[e], consent[e])
    PROVE  /\ invited' = invited
           /\ grants' \in [Grants -> Row \cup {None}]
           /\ consent' \in [Grants -> (Users \X Users) \cup {None}]
           /\ \A f \in Grants : RowStep(f)
  <1>1. CASE grants[e] = None
    <2>1. UNCHANGED table
      BY <1>1 DEF Update, Rows, table
    <2> QED  BY <2>1, SameTable
  <1>2. CASE grants[e] # None
    <2>1. grants' = [grants EXCEPT ![e] = row]
      BY <1>2 DEF Update, Rows
    <2>2. grants' \in [Grants -> Row \cup {None}]
      BY <1>2, <2>1 DEF Inv, TypeOK
    <2>3. ASSUME NEW f \in Grants PROVE RowStep(f)
      <3>1. CASE f = e
        <4>1. grants'[f] = row
          BY <2>1, <3>1 DEF Inv, TypeOK
        <4> QED  BY <1>2, <3>1, <4>1 DEF RowStep
      <3>2. CASE f # e
        <4>1. grants'[f] = grants[f]
          BY <2>1, <3>2 DEF Inv, TypeOK
        <4> QED  BY <4>1 DEF RowStep, Inv, RowsGood
      <3> QED  BY <3>1, <3>2
    <2> QED  BY <2>2, <2>3 DEF Inv, TypeOK
  <1> QED  BY <1>1, <1>2

\* What the invariant says about one request that is about to write.
LEMMA AboutRequest ==
    ASSUME Inv, NEW r \in Requests, requests[r] # None
    PROVE  /\ requests[r] \in Request
           /\ requests[r].op \in Keyed => requests[r].ver \in Keys
           /\ requests[r].op \in GrantOps =>
                /\ requests[r].grant \in Grants
                /\ Claim(requests[r], grants[requests[r].grant],
                         invited[requests[r].grant],
                         consent[requests[r].grant])
                /\ grants[requests[r].grant] # None =>
                     /\ grants[requests[r].grant] \in Row
                     /\ GoodRow(grants[requests[r].grant],
                                invited[requests[r].grant],
                                consent[requests[r].grant])
  BY DEF Inv, TypeOK, RowsGood, RequestsGood, GoodRequest, Carries

\* The statuses are numbers in this order.
LEMMA StatusFacts ==
    /\ Accepted \in Statuses /\ Confirmed \in Statuses /\ Invited \in Statuses
    /\ RecoveryInitiated \in Statuses /\ RecoveryApproved \in Statuses
    /\ Statuses \subseteq Int
    /\ ~(Invited >= Accepted) /\ ~(Accepted >= Confirmed)
    /\ Accepted # Invited /\ Accepted # RecoveryApproved
    /\ Confirmed # Invited /\ Confirmed # RecoveryApproved
    /\ Invited # RecoveryApproved
    /\ RecoveryInitiated # Invited /\ RecoveryInitiated # RecoveryApproved
    /\ \A s \in {Confirmed, RecoveryInitiated, RecoveryApproved} :
         s >= Accepted /\ s >= Confirmed
  BY DEF Statuses, Invited, Accepted, Confirmed, RecoveryInitiated,
         RecoveryApproved

----------------------------------------------------------------------------
(***************************************************************************)
(* The initial state and the arrival of requests                           *)
(***************************************************************************)
\* Nothing is granted and nothing in flight at the start.
LEMMA InitInv == Init => Inv
  <1> SUFFICES ASSUME Init PROVE Inv
    OBVIOUS
  <1>1. TypeOK
    BY KeyFacts DEF Init, TypeOK
  <1> QED
    BY <1>1 DEF Init, Inv, RowsGood, RequestsGood, Exclusive

\* A route that has loaded a row.
LEMMA ArriveOnRow ==
    ASSUME Inv, NEW r \in Requests, NEW q \in Request, Begin(r, q),
           UNCHANGED <<accounts, table>>,
           q.op \in RowOps \cup AccessOps,
           q.grant \in Grants, grants[q.grant] # None,
           q.op \in Keyed => q.ver \in Keys,
           Claim(q, grants[q.grant], invited[q.grant], consent[q.grant])
    PROVE  Inv'
  <1>1. GoodRequest(q)
    BY DEF GoodRequest, Carries
  <1>2. q.op # "invite"
    BY DEF RowOps, AccessOps
  <1> QED  BY <1>1, <1>2, SameAccounts, ArriveStep DEF Begin

\* The rows that the two loaders return.
LEMMA LoadedRow ==
    ASSUME Inv, NEW u \in Users, NEW e \in Grants,
           loadForGrantor(u, e) \/ loadForGrantee(u, e)
    PROVE  /\ grants[e] # None /\ grants[e] \in Row
           /\ GoodRow(grants[e], invited[e], consent[e])
           /\ loadForGrantor(u, e) => grants[e].grantor = u
           /\ loadForGrantee(u, e) => grants[e].grantee = u
  BY DEF loadForGrantor, loadForGrantee, Rows, Inv, TypeOK, RowsGood

\* An invitation takes a uuid that nobody knows.
LEMMA InviteReadInv ==
    ASSUME Inv, NEW r \in Requests, NEW u \in Users, NEW c \in Users,
           NEW t \in Types, NEW e \in Grants, InviteRead(r, u, c, t, e)
    PROVE  Inv'
  <1> DEFINE known == (c \in users)
             q == [NewRequest("invite", "write", u, e) EXCEPT
                     !.other = c, !.found = known, !.type = t]
  <1>1. known \in BOOLEAN
    OBVIOUS
  <1>2. Begin(r, q) /\ UNCHANGED <<accounts, table>>
    BY DEF InviteRead
  <1> HIDE DEF known
  <1>3. /\ q \in Request /\ q.op = "invite" /\ q.grant = e /\ q.other = c
    BY <1>1 DEF NewRequest, Request, AllOps, Types, View, AccessOps, RowOps
  <1>4. grants[e] = None /\ FreshGrant(e)
    BY DEF InviteRead, FreshGrant
  <1> HIDE DEF q
  <1>5. GoodRequest(q)
    BY <1>3, <1>4 DEF GoodRequest, Carries, Claim, Keyed, AccessOps
  <1> QED  BY <1>2, <1>3, <1>4, <1>5, SameAccounts, ArriveStep
           DEF Begin

\* An update of the type relies on nothing but the row.
LEMMA UpdateReadInv ==
    ASSUME Inv, NEW r \in Requests, NEW u \in Users, NEW e \in Grants,
           NEW t \in Types, UpdateRead(r, u, e, t)
    PROVE  Inv'
  <1> DEFINE q == [NewRequest("update", "write", u, e) EXCEPT !.type = t]
  <1>1. q \in Request /\ q.op = "update" /\ q.grant = e
    BY DEF NewRequest, Request, AllOps, Types, View, AccessOps, RowOps
  <1>2. Begin(r, q) /\ UNCHANGED <<accounts, table>> /\ loadForGrantor(u, e)
    BY DEF UpdateRead
  <1> HIDE DEF q
  <1>3. Claim(q, grants[e], invited[e], consent[e])
    BY <1>1 DEF Claim, AccessOps
  <1> QED
    BY <1>1, <1>2, <1>3, LoadedRow, ArriveOnRow DEF RowOps, Keyed, AccessOps

\* Whoever passes the check of accept is the invited contact.
LEMMA AcceptReadInv ==
    ASSUME Inv, NEW r \in Requests, NEW u \in Users, NEW e \in Grants,
           AcceptRead(r, u, e)
    PROVE  Inv'
  <1> DEFINE q == NewRequest("accept", "write", u, e)
  <1>1. q \in Request /\ q.op = "accept" /\ q.grant = e /\ q.actor = u
    BY DEF NewRequest, Request, AllOps, Types, View, AccessOps, RowOps
  <1>2. /\ Begin(r, q) /\ UNCHANGED <<accounts, table>>
        /\ grants[e] # None /\ grants[e].status = Invited
        /\ InvitationMatches(u, e)
    BY DEF AcceptRead, Rows
  <1>3. GoodRow(grants[e], invited[e], consent[e])
    BY <1>2 DEF Inv, RowsGood
  <1>4. u = invited[e]
    <2>1. CASE MailEnabled
      BY <1>2, <2>1 DEF InvitationMatches
    <2>2. CASE ~MailEnabled
      BY <1>2, <1>3, <2>2 DEF InvitationMatches, GoodRow
    <2> QED  BY <2>1, <2>2
  <1> HIDE DEF q
  <1>5. Claim(q, grants[e], invited[e], consent[e])
    BY <1>1, <1>4 DEF Claim, AccessOps
  <1> QED  BY <1>1, <1>2, <1>5, ArriveOnRow DEF RowOps, Keyed, AccessOps

\* A confirm has seen a row with a contact and carries a key.
LEMMA ConfirmReadInv ==
    ASSUME Inv, NEW r \in Requests, NEW u \in Users, NEW e \in Grants,
           ConfirmRead(r, u, e)
    PROVE  Inv'
  <1> DEFINE q == [NewRequest("confirm", "write", u, e) EXCEPT !.ver = akey[u]]
  <1>0. akey[u] \in Keys
    BY DEF Inv, TypeOK
  <1>1. /\ q \in Request /\ q.op = "confirm" /\ q.grant = e
        /\ q.ver = akey[u]
    BY <1>0 DEF NewRequest, Request, AllOps, Types, View, AccessOps, RowOps
  <1>2. /\ Begin(r, q) /\ UNCHANGED <<accounts, table>> /\ loadForGrantor(u, e)
        /\ grants[e].status = Accepted
    BY DEF ConfirmRead
  <1>3. /\ grants[e] # None
        /\ GoodRow(grants[e], invited[e], consent[e])
    BY <1>2, LoadedRow
  <1> HIDE DEF q
  <1>4. Claim(q, grants[e], invited[e], consent[e])
    BY <1>1, <1>2, <1>3 DEF Claim, AccessOps, GoodRow, Accepted
  <1> QED
    BY <1>0, <1>1, <1>2, <1>3, <1>4, ArriveOnRow DEF RowOps

\* Initiate, approve and reject find a row that is at least confirmed.
LEMMA RecoveryReadInv ==
    ASSUME Inv, NEW r \in Requests, NEW u \in Users, NEW e \in Grants,
           \/ InitiateRead(r, u, e)
           \/ ApproveRead(r, u, e)
           \/ RejectRead(r, u, e)
    PROVE  Inv'
  <1>1. PICK op \in {"initiate", "approve", "reject"} :
          /\ Begin(r, NewRequest(op, "write", u, e))
          /\ UNCHANGED <<accounts, table>>
          /\ loadForGrantor(u, e) \/ loadForGrantee(u, e)
          /\ op = "approve" => loadForGrantor(u, e)
          /\ grants[e].status \in
               {Confirmed, RecoveryInitiated, RecoveryApproved}
    BY DEF InitiateRead, ApproveRead, RejectRead
  <1> DEFINE q == NewRequest(op, "write", u, e)
  <1>2. q \in Request /\ q.op = op /\ q.grant = e /\ q.actor = u
    BY DEF NewRequest, Request, AllOps, Types, View, AccessOps, RowOps
  <1>3. /\ grants[e] # None /\ grants[e] \in Row
        /\ GoodRow(grants[e], invited[e], consent[e])
        /\ op = "approve" => grants[e].grantor = u
    BY <1>1, LoadedRow
  <1>4. grants[e].grantee # None /\ grants[e].keyEncrypted # NoKey
    BY <1>1, <1>3, StatusFacts DEF GoodRow
  <1>5. Begin(r, q)
    BY <1>1
  <1> HIDE DEF q
  <1>6. Claim(q, grants[e], invited[e], consent[e])
    BY <1>2, <1>3, <1>4 DEF Claim, AccessOps
  <1> QED
    BY <1>1, <1>2, <1>3, <1>5, <1>6, ArriveOnRow DEF RowOps, Keyed, AccessOps

\* A row that passes isValidRequest was approved for this contact.
LEMMA AccessReadInv ==
    ASSUME Inv, NEW r \in Requests, NEW op \in AccessOps, NEW u \in Users,
           NEW e \in Grants, AccessRead(r, op, u, e)
    PROVE  Inv'
  <1> DEFINE q == [NewRequest(op, "write", u, e) EXCEPT
                     !.other = grants[e].grantor,
                     !.ver = grants[e].keyEncrypted]
  <1>1. /\ Begin(r, q) /\ UNCHANGED <<accounts, table>>
        /\ loadForGrantee(u, e)
        /\ grants[e].status = RecoveryApproved
    BY DEF AccessRead, isValidRequest
  <1>2. /\ grants[e] # None /\ grants[e] \in Row
        /\ GoodRow(grants[e], invited[e], consent[e])
        /\ grants[e].grantee = u
    BY <1>1, LoadedRow
  <1>3. /\ grants[e].keyEncrypted \in Keys
        /\ grants[e].grantor \in Users
        /\ invited[e] = u
        /\ consent[e] = <<grants[e].grantor, u>>
    BY <1>1, <1>2, StatusFacts, NoneFacts DEF GoodRow, Row
  <1>4. /\ q \in Request /\ q.op = op /\ q.grant = e /\ q.actor = u
        /\ q.other = grants[e].grantor /\ q.ver \in Keys
    BY <1>3 DEF NewRequest, Request, AllOps, Types, View
  <1> HIDE DEF q
  <1>5. Claim(q, grants[e], invited[e], consent[e])
    BY <1>3, <1>4 DEF Claim, AccessOps
  <1> QED  BY <1>1, <1>2, <1>4, <1>5, ArriveOnRow

\* A rotation carries a key and no row of its own.
LEMMA RotateReadInv ==
    ASSUME Inv, NEW r \in Requests, NEW u \in Users, NEW v \in Keys,
           RotateRead(r, u, v)
    PROVE  Inv'
  <1> DEFINE L == {e \in Rows : /\ grants[e].grantor = u
                                /\ grants[e].status >= Confirmed}
             q == [NewRequest("rotate", "vault", u, None) EXCEPT
                     !.ver = v, !.left = L]
  <1>1. L \in SUBSET Grants
    BY DEF Rows
  <1>2. Begin(r, q) /\ UNCHANGED <<accounts, table>>
    BY DEF RotateRead
  <1> HIDE DEF L
  <1>3. q \in Request /\ q.op = "rotate" /\ q.grant = None /\ q.ver = v
    BY <1>1 DEF NewRequest, Request, AllOps, Types, View
  <1> HIDE DEF q
  <1>4. GoodRequest(q)
    BY <1>3 DEF GoodRequest, Carries, GrantOps, RowOps, AccessOps
  <1> QED  BY <1>2, <1>3, <1>4, SameAccounts, ArriveStep DEF Begin

----------------------------------------------------------------------------
(***************************************************************************)
(* The writes                                                              *)
(***************************************************************************)
\* A request that updates its row and ends.
LEMMA RowWriteInv ==
    ASSUME Inv, NEW r \in Requests, requests[r] # None,
           requests[r].op \in GrantOps, NEW row,
           Update(requests[r].grant, row), Done(r),
           UNCHANGED <<accounts, invited, consent>>,
           grants[requests[r].grant] # None =>
             /\ row \in Row
             /\ Follows(row, grants[requests[r].grant])
             /\ GoodRow(row, invited[requests[r].grant],
                        consent[requests[r].grant])
    PROVE  Inv'
  <1>1. requests[r].grant \in Grants
    BY AboutRequest
  <1>2. AccountsOK'
    BY SameAccounts
  <1>3. /\ invited' = invited
        /\ grants' \in [Grants -> Row \cup {None}]
        /\ consent' \in [Grants -> (Users \X Users) \cup {None}]
        /\ \A f \in Grants : RowStep(f)
    BY <1>1, UpdateStep
  <1> QED  BY <1>2, <1>3, DoneStep, WriteStep

\* The type of a grant may change at any time.
LEMMA UpdateWriteInv ==
    ASSUME Inv, NEW r \in Requests, UpdateWrite(r)
    PROVE  Inv'
  <1> DEFINE q == requests[r]
             old == grants[q.grant]
             row == [old EXCEPT !.atype = q.type]
  <1>1. /\ q # None /\ q.op = "update" /\ Done(r)
        /\ Update(q.grant, row) /\ UNCHANGED <<accounts, invited, consent>>
    BY DEF UpdateWrite, At
  <1>2. q \in Request /\ q.op \in GrantOps
    BY <1>1, AboutRequest DEF GrantOps, RowOps
  <1>3. ASSUME old # None
        PROVE  /\ row \in Row /\ Follows(row, old)
               /\ GoodRow(row, invited[q.grant], consent[q.grant])
    <2>1. old \in Row /\ GoodRow(old, invited[q.grant], consent[q.grant])
      BY <1>1, <1>2, <1>3, AboutRequest
    <2> QED  BY <1>2, <2>1 DEF Row, Request, Follows, GoodRow
  <1> HIDE DEF row
  <1> QED  BY <1>1, <1>2, <1>3, RowWriteInv

\* A late accept can only name the same contact again.
LEMMA AcceptWriteInv ==
    ASSUME Inv, NEW r \in Requests, AcceptWrite(r)
    PROVE  Inv'
  <1> DEFINE q == requests[r]
             old == grants[q.grant]
             row == [old EXCEPT !.grantee = q.actor, !.email = None,
                                !.status = Accepted]
  <1>1. /\ q # None /\ q.op = "accept" /\ Done(r)
        /\ Update(q.grant, row) /\ UNCHANGED <<accounts, invited, consent>>
    BY DEF AcceptWrite, At
  <1>2. q \in Request /\ q.op \in GrantOps
    BY <1>1, AboutRequest DEF GrantOps, RowOps
  <1>3. ASSUME old # None
        PROVE  /\ row \in Row /\ Follows(row, old)
               /\ GoodRow(row, invited[q.grant], consent[q.grant])
    <2>1. /\ old \in Row /\ GoodRow(old, invited[q.grant], consent[q.grant])
          /\ Claim(q, old, invited[q.grant], consent[q.grant])
      BY <1>1, <1>2, <1>3, AboutRequest
    <2>2. q.actor = invited[q.grant] /\ q.actor \in Users
      BY <1>1, <1>2, <1>3, <2>1 DEF Claim, Request
    <2> QED
      BY <1>2, <2>1, <2>2, StatusFacts, NoneFacts DEF Row, Follows, GoodRow
  <1> HIDE DEF row
  <1> QED  BY <1>1, <1>2, <1>3, RowWriteInv

\* Status and key are written together, for a row with a contact.
LEMMA ConfirmWriteInv ==
    ASSUME Inv, NEW r \in Requests, ConfirmWrite(r)
    PROVE  Inv'
  <1> DEFINE q == requests[r]
             old == grants[q.grant]
             row == [old EXCEPT !.keyEncrypted = q.ver, !.status = Confirmed]
  <1>1. /\ q # None /\ q.op = "confirm" /\ Done(r)
        /\ Update(q.grant, row) /\ UNCHANGED <<accounts, invited, consent>>
    BY DEF ConfirmWrite, At
  <1>2. q \in Request /\ q.op \in GrantOps /\ q.ver \in Keys
    BY <1>1, AboutRequest DEF GrantOps, RowOps, Keyed
  <1>3. ASSUME old # None
        PROVE  /\ row \in Row /\ Follows(row, old)
               /\ GoodRow(row, invited[q.grant], consent[q.grant])
    <2>1. /\ old \in Row /\ GoodRow(old, invited[q.grant], consent[q.grant])
          /\ Claim(q, old, invited[q.grant], consent[q.grant])
      BY <1>1, <1>2, <1>3, AboutRequest
    <2>2. old.grantee # None
      BY <1>1, <1>3, <2>1 DEF Claim
    <2> QED
      BY <1>2, <2>1, <2>2, StatusFacts, KeyFacts DEF Row, Follows, GoodRow
  <1> HIDE DEF row
  <1> QED  BY <1>1, <1>2, <1>3, RowWriteInv

\* However late, initiate finds a key and a contact in the row.
LEMMA InitiateWriteInv ==
    ASSUME Inv, NEW r \in Requests, InitiateWrite(r)
    PROVE  Inv'
  <1> DEFINE q == requests[r]
             old == grants[q.grant]
             row == [old EXCEPT !.status = RecoveryInitiated,
                                !.recoveryInitiatedAt = "waiting"]
  <1>1. /\ q # None /\ q.op = "initiate" /\ Done(r)
        /\ Update(q.grant, row) /\ UNCHANGED <<accounts, invited, consent>>
    BY DEF InitiateWrite, At
  <1>2. q \in Request /\ q.op \in GrantOps
    BY <1>1, AboutRequest DEF GrantOps, RowOps
  <1>3. ASSUME old # None
        PROVE  /\ row \in Row /\ Follows(row, old)
               /\ GoodRow(row, invited[q.grant], consent[q.grant])
    <2>1. /\ old \in Row /\ GoodRow(old, invited[q.grant], consent[q.grant])
          /\ Claim(q, old, invited[q.grant], consent[q.grant])
      BY <1>1, <1>2, <1>3, AboutRequest
    <2>2. old.grantee # None /\ old.keyEncrypted # NoKey
      BY <1>1, <1>3, <2>1 DEF Claim
    <2> QED
      BY <2>1, <2>2, StatusFacts DEF Row, Follows, GoodRow, Waits
  <1> HIDE DEF row
  <1> QED  BY <1>1, <1>2, <1>3, RowWriteInv

\* However late, reject finds a key and a contact in the row.
LEMMA RejectWriteInv ==
    ASSUME Inv, NEW r \in Requests, RejectWrite(r)
    PROVE  Inv'
  <1> DEFINE q == requests[r]
             old == grants[q.grant]
             row == [old EXCEPT !.status = Confirmed,
                                !.recoveryInitiatedAt = "null"]
  <1>1. /\ q # None /\ q.op = "reject" /\ Done(r)
        /\ Update(q.grant, row) /\ UNCHANGED <<accounts, invited, consent>>
    BY DEF RejectWrite, At
  <1>2. q \in Request /\ q.op \in GrantOps
    BY <1>1, AboutRequest DEF GrantOps, RowOps
  <1>3. ASSUME old # None
        PROVE  /\ row \in Row /\ Follows(row, old)
               /\ GoodRow(row, invited[q.grant], consent[q.grant])
    <2>1. /\ old \in Row /\ GoodRow(old, invited[q.grant], consent[q.grant])
          /\ Claim(q, old, invited[q.grant], consent[q.grant])
      BY <1>1, <1>2, <1>3, AboutRequest
    <2>2. old.grantee # None /\ old.keyEncrypted # NoKey
      BY <1>1, <1>3, <2>1 DEF Claim
    <2> QED
      BY <2>1, <2>2, StatusFacts DEF Row, Follows, GoodRow, Waits
  <1> HIDE DEF row
  <1> QED  BY <1>1, <1>2, <1>3, RowWriteInv

\* An approval is the grantor's, also when it lands late.
LEMMA ApproveWriteInv ==
    ASSUME Inv, NEW r \in Requests, ApproveWrite(r)
    PROVE  Inv'
  <1> DEFINE q == requests[r]
             e == q.grant
             old == grants[e]
             row == [old EXCEPT !.status = RecoveryApproved]
  <1>1. /\ q # None /\ q.op = "approve" /\ Done(r) /\ Update(e, row)
        /\ UNCHANGED <<accounts, invited>>
        /\ consent' = IF e \in Rows
             THEN [consent EXCEPT ![e] = <<q.actor, invited[e]>>] ELSE consent
    BY DEF ApproveWrite, At
  <1>2. /\ q \in Request /\ q.op \in GrantOps /\ e \in Grants
        /\ Claim(q, old, invited[e], consent[e])
        /\ old # None => old \in Row /\ GoodRow(old, invited[e], consent[e])
    BY <1>1, AboutRequest DEF GrantOps, RowOps
  <1> HIDE DEF row
  <1>3. CASE old = None
    <2>1. UNCHANGED <<consent, invited, accounts>>
      BY <1>1, <1>3 DEF Rows
    <2> QED  BY <1>1, <1>2, <1>3, <2>1, RowWriteInv
  <1>4. CASE old # None
    <2>1. /\ q.actor = old.grantor /\ old.grantee # None
          /\ old.keyEncrypted # NoKey
      BY <1>1, <1>2, <1>4 DEF Claim
    <2>2. /\ grants' = [grants EXCEPT ![e] = row]
          /\ consent' = [consent EXCEPT ![e] = <<q.actor, invited[e]>>]
      BY <1>1, <1>2, <1>4 DEF Update, Rows
    <2>3. /\ row \in Row /\ Follows(row, old)
          /\ GoodRow(row, invited[e], <<old.grantor, invited[e]>>)
      BY <1>2, <1>4, <2>1, StatusFacts DEF row, Row, Follows, GoodRow
    <2>4. old.grantee = invited[e] /\ invited[e] \in Users /\ q.actor \in Users
      BY <1>2, <1>4, <2>1 DEF GoodRow, Row, Request
    <2>5. /\ grants' \in [Grants -> Row \cup {None}]
          /\ consent' \in [Grants -> (Users \X Users) \cup {None}]
      BY <2>2, <2>3, <2>4 DEF Inv, TypeOK
    <2>6. ASSUME NEW f \in Grants PROVE RowStep(f)
      <3>1. CASE f = e
        <4>1. grants'[f] = row /\ consent'[f] = <<old.grantor, invited[f]>>
          BY <1>2, <2>1, <2>2, <3>1 DEF Inv, TypeOK
        <4> QED  BY <1>4, <2>3, <3>1, <4>1 DEF RowStep
      <3>2. CASE f # e
        <4>1. grants'[f] = grants[f] /\ consent'[f] = consent[f]
          BY <2>2, <3>2 DEF Inv, TypeOK
        <4> QED  BY <4>1 DEF RowStep, Inv, RowsGood
      <3> QED  BY <3>1, <3>2
    <2> QED  BY <1>1, <2>5, <2>6, SameAccounts, DoneStep, WriteStep
  <1> QED  BY <1>3, <1>4

\* The uuid of an inserted row is known to its request alone.
LEMMA InviteWriteInv ==
    ASSUME Inv, NEW r \in Requests, InviteWrite(r)
    PROVE  Inv'
  <1> DEFINE q == requests[r]
             e == q.grant
             row == [grantor |-> q.actor,
                     grantee |-> IF q.found THEN q.other ELSE None,
                     email |-> IF q.found THEN None ELSE q.other,
                     keyEncrypted |-> NoKey, atype |-> q.type,
                     status |-> IF ~MailEnabled /\ q.found
                                THEN Accepted ELSE Invited,
                     recoveryInitiatedAt |-> "null"]
  <1>1. /\ q # None /\ q.op = "invite" /\ Done(r) /\ UNCHANGED accounts
        /\ grants' = [grants EXCEPT ![e] = row]
        /\ invited' = [invited EXCEPT ![e] = q.other]
        /\ consent' = [consent EXCEPT ![e] = None]
    BY DEF InviteWrite, At
  <1>2. /\ q \in Request /\ e \in Grants /\ q.other \in Users
    BY <1>1, AboutRequest DEF GrantOps, Claim
  <1>3. row \in Row
    BY <1>2, StatusFacts DEF Row, Request, Waits
  <1>4. GoodRow(row, q.other, None)
    BY <1>2, StatusFacts, NoneFacts DEF GoodRow
  <1> HIDE DEF row
  <1>5. /\ requests' \in [Requests -> Request \cup {None}]
        /\ requests'[r] = None
        /\ \A s \in Requests : s # r => requests'[s] = requests[s]
    BY <1>1 DEF Done, Inv, TypeOK
  <1>6. TypeOK'
    BY <1>1, <1>2, <1>3, <1>5, SameAccounts DEF Inv, TypeOK, AccountsOK
  <1>7. RowsGood'
    <2> SUFFICES ASSUME NEW f \in Grants, grants'[f] # None
                 PROVE  GoodRow(grants'[f], invited'[f], consent'[f])
      BY DEF RowsGood
    <2>1. CASE f = e
      BY <1>1, <1>4, <2>1 DEF Inv, TypeOK
    <2>2. CASE f # e
      <3>1. /\ grants'[f] = grants[f] /\ invited'[f] = invited[f]
            /\ consent'[f] = consent[f]
        BY <1>1, <2>2 DEF Inv, TypeOK
      <3> QED  BY <3>1 DEF Inv, RowsGood
    <2> QED  BY <2>1, <2>2
  <1>8. RequestsGood'
    <2> SUFFICES ASSUME NEW s \in Requests, requests'[s] # None
                 PROVE  GoodRequest(requests[s])'
      BY DEF RequestsGood
    <2>1. /\ s # r /\ requests'[s] = requests[s] /\ requests[s] # None
      BY <1>5
    <2>2. requests[s].grant # e /\ GoodRequest(requests[s])
      BY <1>1, <2>1 DEF Inv, Exclusive, RequestsGood
    <2>3. ASSUME requests[s].op \in GrantOps
          PROVE  /\ grants'[requests[s].grant] = grants[requests[s].grant]
                 /\ invited'[requests[s].grant] = invited[requests[s].grant]
                 /\ consent'[requests[s].grant] = consent[requests[s].grant]
      BY <1>1, <2>2, <2>3 DEF GoodRequest, Carries, Inv, TypeOK
    <2> QED  BY <2>1, <2>2, <2>3 DEF GoodRequest, Carries
  <1>9. Exclusive'
    BY <1>5 DEF Inv, Exclusive
  <1> QED  BY <1>6, <1>7, <1>8, <1>9 DEF Inv

\* A new account starts with a key of its own.
LEMMA ShellOK ==
    ASSUME Inv, NEW u \in Users, Shell(u)
    PROVE  AccountsOK'
  BY KeyFacts DEF Shell, Inv, TypeOK, AccountsOK

\* A registration arrives: it knows nothing of any grant.
LEMMA RegisterReadInv ==
    ASSUME Inv, NEW r \in Requests, NEW u \in Users, RegisterRead(r, u)
    PROVE  Inv'
  <1> DEFINE q == NewRequest("register", "write", u, None)
  <1>1. AccountsOK'
    BY ShellOK, SameAccounts DEF RegisterRead
  <1>2. /\ UNCHANGED table /\ requests[r] = None
        /\ requests' = [requests EXCEPT ![r] = q]
    BY DEF RegisterRead
  <1>3. q \in Request /\ q.op = "register" /\ q.grant = None
    BY DEF NewRequest, Request, AllOps, Types, View
  <1> HIDE DEF q
  <1>4. GoodRequest(q)
    BY <1>3 DEF GoodRequest, Carries, GrantOps, Keyed, RowOps, AccessOps
  <1> QED  BY <1>1, <1>2, <1>3, <1>4, ArriveStep

\* So does a first password, but for the key of its account.
LEMMA SetPasswordReadInv ==
    ASSUME Inv, NEW r \in Requests, NEW u \in Users, SetPasswordRead(r, u)
    PROVE  Inv'
  <1> DEFINE q == [NewRequest("setPassword", "write", u, None) EXCEPT
                     !.ver = akey[u]]
  <1>1. AccountsOK' /\ UNCHANGED table
    BY SameAccounts DEF SetPasswordRead, table
  <1>2. requests[r] = None /\ requests' = [requests EXCEPT ![r] = q]
    BY DEF SetPasswordRead, Begin
  <1>3. akey[u] \in Keys
    BY DEF Inv, TypeOK
  <1>4. /\ q \in Request /\ q.op = "setPassword" /\ q.grant = None
        /\ q.ver = akey[u]
    BY <1>3 DEF NewRequest, Request, AllOps, Types, View
  <1> HIDE DEF q
  <1>5. GoodRequest(q)
    BY <1>3, <1>4 DEF GoodRequest, Carries, GrantOps, RowOps, AccessOps
  <1> QED  BY <1>1, <1>2, <1>4, <1>5, ArriveStep

\* The UPDATEs of a registration and of a first password, and the refusal of
\* a registration, touch no row of the table.
LEMMA RegisterWritesInv ==
    ASSUME Inv, NEW r \in Requests,
           RegisterRefused(r) \/ RegisterWrite(r) \/ SetPasswordWrite(r)
    PROVE  Inv'
  <1>1. requests[r] # None /\ UNCHANGED table
    BY DEF RegisterRefused, RegisterWrite, SetPasswordWrite, At, table
  <1>2. requests[r].actor \in Users
    BY <1>1, AboutRequest DEF Request
  <1>3. SetPasswordWrite(r) => requests[r].ver \in Keys
    BY <1>1, AboutRequest DEF SetPasswordWrite, At, Keyed
  <1>4. AccountsOK'
    BY <1>2, <1>3, KeyFacts, SameAccounts
       DEF RegisterRefused, RegisterWrite, SetPasswordWrite, Inv, TypeOK,
           AccountsOK
  <1>5. Done(r) \/ GoTo(r, "sweep")
    BY DEF RegisterRefused, RegisterWrite, SetPasswordWrite
  <1> QED  BY <1>1, <1>4, <1>5, SameTable, DoneStep, GoToStep, WriteStep

\* A registration accepts the invitations of its own address.
LEMMA RegisterSweepInv ==
    ASSUME Inv, NEW r \in Requests, RegisterSweep(r)
    PROVE  Inv'
  <1> DEFINE u == requests[r].actor
             row(e) == [grants[e] EXCEPT !.grantee = u, !.email = None,
                                         !.status = Accepted]
  <1>1. /\ requests[r] # None /\ Done(r)
        /\ UNCHANGED <<accounts, invited, consent>>
        /\ grants' = [e \in Grants |->
             IF e \in Rows /\ grants[e].email = u THEN row(e) ELSE grants[e]]
    BY DEF RegisterSweep, At
  <1>2. u \in Users
    BY <1>1, AboutRequest DEF Request
  <1>3. ASSUME NEW e \in Grants
        PROVE  grants'[e] \in Row \cup {None} /\ RowStep(e)
    <2>1. CASE e \in Rows /\ grants[e].email = u
      <3>1. /\ grants[e] \in Row /\ grants[e] # None
            /\ GoodRow(grants[e], invited[e], consent[e])
        BY <2>1 DEF Rows, Inv, TypeOK, RowsGood
      <3>2. u = invited[e]
        BY <1>2, <2>1, <3>1, NoneFacts DEF GoodRow
      <3>3. /\ row(e) \in Row /\ Follows(row(e), grants[e])
            /\ GoodRow(row(e), invited[e], consent[e])
        BY <1>2, <3>1, <3>2, StatusFacts, NoneFacts DEF Row, Follows, GoodRow
      <3>4. grants'[e] = row(e) /\ consent'[e] = consent[e]
        BY <1>1, <2>1
      <3> HIDE DEF row
      <3> QED  BY <3>1, <3>3, <3>4 DEF RowStep
    <2>2. CASE ~(e \in Rows /\ grants[e].email = u)
      <3>1. grants'[e] = grants[e] /\ consent'[e] = consent[e]
        BY <1>1, <2>2
      <3> QED  BY <3>1 DEF RowStep, Inv, TypeOK, RowsGood
    <2> QED  BY <2>1, <2>2
  <1>4. grants' \in [Grants -> Row \cup {None}]
    <2> HIDE DEF row
    <2> QED  BY <1>1, <1>3
  <1>5. consent' \in [Grants -> (Users \X Users) \cup {None}]
    BY <1>1 DEF Inv, TypeOK
  <1> QED
    BY <1>1, <1>3, <1>4, <1>5, SameAccounts, DoneStep, WriteStep

\* The statements of a takeover and of a rotation that write the account, the
\* answers, and the errors.
LEMMA AccountWriteInv ==
    ASSUME Inv, NEW r \in Requests,
           \/ AccessAnswer(r) \/ PasswordWrite(r) \/ PasswordDropTwofactor(r)
           \/ RotateVault(r) \/ RotateWrite(r) \/ Fail(r)
    PROVE  Inv'
  <1>1. requests[r] # None /\ UNCHANGED table
    BY DEF AccessAnswer, PasswordWrite, PasswordDropTwofactor, RotateVault,
           RotateWrite, Fail, At
  <1>2. Done(r) \/ GoTo(r, "twofactor") \/ GoTo(r, "keys")
    BY DEF AccessAnswer, PasswordWrite, PasswordDropTwofactor, RotateVault,
           RotateWrite, Fail
  <1>3. /\ requests' \in [Requests -> Request \cup {None}]
        /\ \A s \in Requests : RequestStep(s)
    BY <1>1, <1>2, DoneStep, GoToStep
  <1>4. /\ requests[r] \in Request
        /\ requests[r].op \in {"rotate", "password"} => requests[r].ver \in Keys
    BY <1>1, AboutRequest DEF Keyed, AccessOps
  <1>5. AccountsOK'
    <2>1. CASE PasswordWrite(r)
      BY <1>4, <2>1 DEF PasswordWrite, At, Request, Inv, TypeOK, AccountsOK, table
    <2>2. CASE RotateVault(r)
      BY <1>4, <2>2 DEF RotateVault, At, Request, Inv, TypeOK, AccountsOK,
                              stages, table
    <2>3. CASE RotateWrite(r)
      BY <1>4, <2>3 DEF RotateWrite, At, Request, Inv, TypeOK, AccountsOK,
                              stages, table
    <2>4. CASE PasswordDropTwofactor(r)
      BY <2>4 DEF PasswordDropTwofactor, Inv, TypeOK, AccountsOK, stages, table
    <2>5. CASE AccessAnswer(r) \/ Fail(r)
      BY <2>5, SameAccounts DEF AccessAnswer, Fail
    <2> QED  BY <2>1, <2>2, <2>3, <2>4, <2>5
  <1> QED  BY <1>1, <1>3, <1>5, SameTable, WriteStep

\* A rotation replaces a key by a key.
LEMMA RotateGrantInv ==
    ASSUME Inv, NEW r \in Requests, NEW e \in Grants, RotateGrant(r, e)
    PROVE  Inv'
  <1> DEFINE q == requests[r]
             row == [grants[e] EXCEPT !.keyEncrypted = q.ver]
             p == [q EXCEPT !.left = @ \ {e}]
  <1>1. /\ q # None /\ q.op = "rotate"
        /\ UNCHANGED <<accounts, invited, consent>>
        /\ Update(e, row) \/ UNCHANGED grants
    BY DEF RotateGrant, At
  <1>2. q \in Request /\ q.ver \in Keys
    BY <1>1, AboutRequest DEF Keyed
  <1>3. requests' = [requests EXCEPT ![r] = p]
    BY DEF RotateGrant
  <1>4. /\ p \in Request /\ p.op = q.op /\ p.actor = q.actor
        /\ p.grant = q.grant /\ p.other = q.other /\ p.ver = q.ver
    BY <1>2 DEF Request
  <1>5. /\ requests' \in [Requests -> Request \cup {None}]
        /\ \A s \in Requests : RequestStep(s)
    <2> HIDE DEF p
    <2>1. requests' \in [Requests -> Request \cup {None}]
      BY <1>3, <1>4 DEF Inv, TypeOK
    <2>2. ASSUME NEW s \in Requests PROVE RequestStep(s)
      <3>1. CASE s = r
        BY <1>1, <1>3, <1>4, <3>1 DEF RequestStep, Inv, TypeOK
      <3>2. CASE s # r
        BY <1>3, <3>2 DEF RequestStep, Inv, TypeOK
      <3> QED  BY <3>1, <3>2
    <2> QED  BY <2>1, <2>2
  <1>6. ASSUME grants[e] # None
        PROVE  /\ row \in Row /\ Follows(row, grants[e])
               /\ GoodRow(row, invited[e], consent[e])
    <2>1. grants[e] \in Row /\ GoodRow(grants[e], invited[e], consent[e])
      BY <1>6 DEF Inv, TypeOK, RowsGood
    <2> QED  BY <1>2, <2>1, KeyFacts DEF Row, Follows, GoodRow
  <1> HIDE DEF row
  <1>7. /\ invited' = invited
        /\ grants' \in [Grants -> Row \cup {None}]
        /\ consent' \in [Grants -> (Users \X Users) \cup {None}]
        /\ \A f \in Grants : RowStep(f)
    <2>1. CASE Update(e, row)
      BY <1>1, <1>6, <2>1, UpdateStep
    <2>2. CASE UNCHANGED grants
      BY <1>1, <2>2, SameTable DEF table
    <2> QED  BY <1>1, <2>1, <2>2
  <1> QED  BY <1>1, <1>5, <1>7, SameAccounts, WriteStep

\* The handlers with one statement: what they do to every row at once.
LEMMA InstantInv ==
    ASSUME Inv, Instant
    PROVE  Inv'
  <1>1. AccountsOK'
    <2>1. CASE runScheduledJobs \/ \E u \in Users, e \in Grants : deleteEa(u, e)
      BY <2>1, SameAccounts DEF runScheduledJobs, deleteEa
    <2>2. CASE \E u \in Users : ActivateTwofactor(u) \/ DeleteAccount(u)
      BY <2>2 DEF ActivateTwofactor, DeleteAccount, Inv, TypeOK, AccountsOK,
                  stages, table
    <2>3. CASE \E u \in Users : CreateShell(u)
      BY <2>3, ShellOK DEF CreateShell
    <2> QED  BY <2>1, <2>2, <2>3 DEF Instant
  <1>2. UNCHANGED <<invited, consent, requests>>
    BY DEF Instant, runScheduledJobs, ActivateTwofactor, DeleteAccount,
           deleteEa, CreateShell, table
  <1>3. ASSUME NEW e \in Grants
        PROVE  \/ grants'[e] = grants[e]
               \/ grants'[e] = None
               \/ /\ grants[e] # None
                  /\ grants'[e] =
                       [grants[e] EXCEPT !.recoveryInitiatedAt = "elapsed"]
    BY DEF Instant, runScheduledJobs, ActivateTwofactor, DeleteAccount,
           deleteEa, CreateShell, table, Rows, Inv, TypeOK
  <1>4. DOMAIN grants' = Grants /\ grants' = [e \in Grants |-> grants'[e]]
    BY DEF Instant, runScheduledJobs, ActivateTwofactor, DeleteAccount,
           deleteEa, CreateShell, table, Inv, TypeOK
  <1>5. ASSUME NEW e \in Grants
        PROVE  grants'[e] \in Row \cup {None} /\ RowStep(e)
    <2>1. CASE grants'[e] = None
      BY <1>2, <2>1 DEF RowStep
    <2>2. CASE grants'[e] = grants[e]
      BY <1>2, <2>2 DEF RowStep, Inv, TypeOK, RowsGood
    <2>3. CASE /\ grants[e] # None
               /\ grants'[e] =
                    [grants[e] EXCEPT !.recoveryInitiatedAt = "elapsed"]
      <3>1. grants[e] \in Row /\ GoodRow(grants[e], invited[e], consent[e])
        BY <2>3 DEF Inv, TypeOK, RowsGood
      <3>2. /\ grants'[e] \in Row /\ Follows(grants'[e], grants[e])
            /\ GoodRow(grants'[e], invited[e], consent[e])
        BY <2>3, <3>1 DEF Row, Waits, Follows, GoodRow
      <3> QED  BY <1>2, <2>3, <3>2 DEF RowStep
    <2> QED  BY <1>3, <2>1, <2>2, <2>3
  <1>6. grants' \in [Grants -> Row \cup {None}]
    BY <1>4, <1>5
  <1>7. /\ consent' \in [Grants -> (Users \X Users) \cup {None}]
        /\ requests' \in [Requests -> Request \cup {None}]
        /\ \A r \in Requests : RequestStep(r)
    BY <1>2 DEF Inv, TypeOK, RequestStep
  <1> QED  BY <1>1, <1>2, <1>5, <1>6, <1>7, WriteStep

----------------------------------------------------------------------------
(***************************************************************************)
(* Every step, and the theorems                                            *)
(***************************************************************************)
\* Every step preserves the invariant.
LEMMA NextInv == Inv /\ [Next]_vars => Inv'
  <1> SUFFICES ASSUME Inv, [Next]_vars PROVE Inv'
    OBVIOUS
  <1>1. CASE Instant
    BY <1>1, InstantInv
  <1>2. ASSUME NEW r \in Requests, Arrive(r) PROVE Inv'
    <2>1. PICK u \in Users :
            \/ RegisterRead(r, u)
            \/ SetPasswordRead(r, u)
            \/ \E v \in Keys : RotateRead(r, u, v)
            \/ \E e \in Grants :
                 \/ \E c \in Users, t \in Types : InviteRead(r, u, c, t, e)
                 \/ AcceptRead(r, u, e) \/ ConfirmRead(r, u, e)
                 \/ InitiateRead(r, u, e) \/ ApproveRead(r, u, e)
                 \/ RejectRead(r, u, e)
                 \/ \E t \in Types : UpdateRead(r, u, e, t)
                 \/ \E op \in AccessOps : AccessRead(r, op, u, e)
      BY <1>2, Zenon DEF Arrive
    <2>2. CASE RegisterRead(r, u) \/ SetPasswordRead(r, u)
      BY <2>2, RegisterReadInv, SetPasswordReadInv
    <2>3. CASE \E v \in Keys : RotateRead(r, u, v)
      BY <2>3, RotateReadInv
    <2>4. ASSUME NEW e \in Grants,
                 \/ \E c \in Users, t \in Types : InviteRead(r, u, c, t, e)
                 \/ AcceptRead(r, u, e) \/ ConfirmRead(r, u, e)
                 \/ InitiateRead(r, u, e) \/ ApproveRead(r, u, e)
                 \/ RejectRead(r, u, e)
                 \/ \E t \in Types : UpdateRead(r, u, e, t)
                 \/ \E op \in AccessOps : AccessRead(r, op, u, e)
          PROVE  Inv'
      BY <2>4, InviteReadInv, AcceptReadInv, ConfirmReadInv, RecoveryReadInv,
         UpdateReadInv, AccessReadInv
    <2> QED  BY <2>1, <2>2, <2>3, <2>4
  <1>3. ASSUME NEW r \in Requests, Continue(r) PROVE Inv'
    BY <1>3, UpdateWriteInv, AcceptWriteInv, ConfirmWriteInv,
       InitiateWriteInv, ApproveWriteInv, RejectWriteInv, AccountWriteInv,
       RegisterWritesInv, RegisterSweepInv, InviteWriteInv, RotateGrantInv
       DEF Continue
  <1>4. CASE UNCHANGED vars
    <2>1. UNCHANGED <<accounts, table, requests>>
      BY <1>4 DEF vars, accounts, table
    <2>2. /\ requests' \in [Requests -> Request \cup {None}]
          /\ \A r \in Requests : RequestStep(r)
      BY <2>1 DEF Inv, TypeOK, RequestStep
    <2> QED  BY <2>1, <2>2, SameAccounts, SameTable, WriteStep
  <1> QED  BY <1>1, <1>2, <1>3, <1>4 DEF Next

\* The invariant holds in every reachable state.
LEMMA Invariance == Spec => []Inv
  BY InitInv, NextInv, PTL DEF Spec

\* Whatever overlaps, every table and request of emergency access stays
\* well-formed; in particular a takeover never stores a missing key as the
\* grantor's.
THEOREM EmergencyTypeCorrect == Spec => []TypeOK
  <1>1. Inv => TypeOK
    BY DEF Inv
  <1> QED  BY <1>1, Invariance, PTL

\* Whatever overlaps, view, takeover and password serve only a grant that its
\* grantor approved, and only the contact the grantor invited.
THEOREM AccessOnlyApproved == Spec => []AccessWasApproved
  <1>1. Inv => AccessWasApproved
    <2> SUFFICES ASSUME Inv, NEW r \in Requests, requests[r] # None,
                        requests[r].op \in AccessOps
                 PROVE  consent[requests[r].grant] =
                          <<requests[r].other, requests[r].actor>>
      BY DEF AccessWasApproved, Active
    <2> QED  BY AboutRequest DEF GrantOps, Claim
  <1> QED  BY <1>1, Invariance, PTL

\* Whatever overlaps, a grant that is confirmed or in recovery has its key and
\* its contact.
THEOREM RecoverableHasKey == Spec => []GrantHasKey
  <1>1. Inv => GrantHasKey
    <2> SUFFICES ASSUME Inv, NEW e \in Grants, grants[e] # None,
                        grants[e].status >= Confirmed
                 PROVE  /\ grants[e].keyEncrypted # NoKey
                        /\ grants[e].grantee # None
      BY DEF GrantHasKey, Rows
    <2>1. grants[e] \in Row /\ GoodRow(grants[e], invited[e], consent[e])
      BY DEF Inv, TypeOK, RowsGood
    <2>2. grants[e].status >= Accepted
      BY <2>1 DEF Row, Statuses, Confirmed, Accepted, Invited,
                  RecoveryApproved
    <2> QED  BY <2>1, <2>2 DEF GoodRow
  <1> QED  BY <1>1, Invariance, PTL

----------------------------------------------------------------------------
(***************************************************************************)
(* One request at a time                                                   *)
(*                                                                         *)
(* With a single slot in Requests, what a handler has read is still so     *)
(* when it writes (Current), and the keys and the open invitations are in  *)
(* order except where the request in the slot is about to put them right   *)
(* (AccountsOpen, GrantsOpen, NoOpenInvitation).  The second part needs    *)
(* every request to run to its end: a rotation or a registration that      *)
(* fails halfway leaves its work undone.                                   *)
(***************************************************************************)
\* Foreign keys, and what an address in a row means.
RowLinked(row, us) ==
    /\ row.grantor \in us
    /\ row.grantee \in us \cup {None}
    /\ row.email # None => row.status = Invited
RowsLinked == \A e \in Grants : grants[e] # None => RowLinked(grants[e], users)

\* The statuses in which a handler found its row.
FoundAt(op) == CASE op = "accept"   -> {Invited}
                 [] op = "confirm"  -> {Accepted}
                 [] op = "initiate" -> {Confirmed}
                 [] op = "approve"  -> {RecoveryInitiated}
                 [] op = "reject"   -> {RecoveryInitiated, RecoveryApproved}
                 [] op \in AccessOps -> {RecoveryApproved}
                 [] OTHER -> Statuses

\* The row is as the handler has read it.
CurrentRow(q, row, ak) ==
    /\ row # None /\ row.status \in FoundAt(q.op)
    /\ q.op = "confirm" => q.actor = row.grantor /\ q.ver = ak[row.grantor]
    /\ q.op \in AccessOps =>
         /\ q.other = row.grantor /\ q.actor = row.grantee
         /\ q.ver = row.keyEncrypted
         /\ row.atype = IF q.op = "view" THEN View ELSE Takeover

Current(q, us, gr, ak, va) ==
    /\ q.op \in RowOps \cup AccessOps => CurrentRow(q, gr[q.grant], ak)
    /\ q.op = "invite" => (q.found <=> q.other \in us)
    /\ q.op = "rotate" /\ q.pc = "vault" =>
         \A e \in Grants :
           /\ gr[e] # None /\ gr[e].grantor = q.actor
           /\ gr[e].status >= Confirmed
           => e \in q.left
    /\ q.op = "rotate" => q.actor \in us
    /\ q.op = "rotate" /\ q.pc # "vault" => q.pc = "keys" /\ va[q.actor] = q.ver
    /\ q.op = "register" => q.actor \in us /\ (q.pc = "sweep" => ~MailEnabled)
    /\ q.op = "setPassword" => q.actor \in us /\ q.ver = ak[q.actor]
    /\ q.op = "password" => q.pc \in {"write", "twofactor"}

SlotCurrent ==
    \A r \in Requests :
      requests[r] # None => Current(requests[r], users, grants, akey, vault)

SerialInv == Inv /\ RowsLinked /\ SlotCurrent

\* What the request in the slot, if any, is about to put right.
Rotates(q, u) == q # None /\ q.op = "rotate" /\ q.pc = "keys" /\ q.actor = u
AccountsOpen(q, us, ak, va) == \A u \in us : ak[u] = va[u] \/ Rotates(q, u)
GrantsOpen(q, gr, va) ==
    \A e \in Grants :
      gr[e] # None /\ gr[e].status >= Confirmed =>
        \/ gr[e].keyEncrypted = va[gr[e].grantor]
        \/ Rotates(q, gr[e].grantor) /\ e \in q.left
NoOpenInvitation(q, rg, gr) ==
    ~MailEnabled =>
      \A e \in Grants :
        gr[e] # None /\ gr[e].email \in rg =>
          /\ q # None /\ q.op = "register" /\ q.pc = "sweep"
          /\ q.actor = gr[e].email

WholeIn(q, us, rg, gr, ak, va) ==
    /\ AccountsOpen(q, us, ak, va) /\ GrantsOpen(q, gr, va)
    /\ NoOpenInvitation(q, rg, gr)

Whole == \A r \in Requests :
           WholeIn(requests[r], users, registered, grants, akey, vault)

\* The request is in the middle of what another would find undone.
Owes(q) == q # None /\ (q.op = "rotate" \/ (q.op = "register" /\ q.pc = "sweep"))

\* A shell has encrypted nothing yet: its vault waits for the first key, also
\* while a registration of it is under way, and nobody rotates its key.
ShellsFresh ==
    /\ \A u \in shells : vault[u] = 1
    /\ \A r \in Requests : requests[r] # None =>
         /\ requests[r].op = "rotate" => requests[r].actor \notin shells
         /\ requests[r].op = "register" /\ requests[r].pc = "write" =>
              vault[requests[r].actor] = 1

(***************************************************************************)
(* What a handler has read is still so                                     *)
(***************************************************************************)
\* There is only one request to put into the slot.
LEMMA PutSlot ==
    ASSUME Inv, NEW slot, Requests = {slot}, NEW q,
           requests' = [requests EXCEPT ![slot] = q]
    PROVE  \A r \in Requests : requests'[r] = q
  BY DEF Inv, TypeOK

\* The request in the slot is up to date, if it is.
LEMMA PutCurrent ==
    ASSUME Inv, NEW slot, Requests = {slot}, NEW q,
           requests' = [requests EXCEPT ![slot] = q],
           q = None \/ Current(q, users', grants', akey', vault')
    PROVE  SlotCurrent'
  BY PutSlot DEF SlotCurrent

\* The request in flight: well-formed and up to date.
LEMMA InSlot ==
    ASSUME SerialInv, NEW r \in Requests, requests[r] # None
    PROVE  /\ requests[r] \in Request
           /\ Current(requests[r], users, grants, akey, vault)
           /\ requests[r].op \in Keyed => requests[r].ver \in Keys
           /\ requests[r].op \in GrantOps => requests[r].grant \in Grants
  BY AboutRequest DEF SerialInv, SlotCurrent

\* The row that the request in flight is about to write.
LEMMA HeldRow ==
    ASSUME SerialInv, NEW r \in Requests, requests[r] # None,
           requests[r].op \in RowOps \cup AccessOps
    PROVE  LET q == requests[r]
           IN  /\ q \in Request /\ q.grant \in Grants
               /\ CurrentRow(q, grants[q.grant], akey)
               /\ grants[q.grant] # None /\ grants[q.grant] \in Row
               /\ RowLinked(grants[q.grant], users)
               /\ GoodRow(grants[q.grant], invited[q.grant], consent[q.grant])
  <1>1. requests[r].op \in GrantOps
    BY DEF GrantOps
  <1> QED
    BY <1>1, InSlot, AboutRequest
       DEF SerialInv, RowsLinked, Current, CurrentRow

\* A request whose first statement reads a row of the table.
LEMMA RowReadCurrent ==
    ASSUME SerialInv, NEW slot, Requests = {slot}, NEW u \in Users,
           NEW e \in Grants,
           \/ AcceptRead(slot, u, e) \/ ConfirmRead(slot, u, e)
           \/ InitiateRead(slot, u, e) \/ ApproveRead(slot, u, e)
           \/ RejectRead(slot, u, e)
           \/ \E t \in Types : UpdateRead(slot, u, e, t)
           \/ \E op \in AccessOps : AccessRead(slot, op, u, e)
    PROVE  SlotCurrent'
  <1>0. /\ UNCHANGED <<users, grants, akey, vault>>
        /\ grants[e] # None /\ grants[e].status \in Statuses
    BY DEF AcceptRead, ConfirmRead, InitiateRead, ApproveRead, RejectRead,
           UpdateRead, AccessRead, loadForGrantor, loadForGrantee, Rows,
           accounts, table, SerialInv, Inv, TypeOK, Row
  <1>1. PICK q :
          /\ requests' = [requests EXCEPT ![slot] = q]
          /\ q.op \in RowOps \cup AccessOps /\ q.grant = e /\ q.pc = "write"
          /\ CurrentRow(q, grants[e], akey)
    <2>1. CASE \/ AcceptRead(slot, u, e) \/ InitiateRead(slot, u, e)
               \/ ApproveRead(slot, u, e) \/ RejectRead(slot, u, e)
      <3>1. PICK op \in {"accept", "initiate", "approve", "reject"} :
              /\ requests' = [requests EXCEPT ![slot] =
                                NewRequest(op, "write", u, e)]
              /\ grants[e].status \in FoundAt(op)
        BY <2>1 DEF AcceptRead, InitiateRead, ApproveRead, RejectRead, Begin,
                    FoundAt, AccessOps
      <3> WITNESS NewRequest(op, "write", u, e)
      <3> QED
        BY <1>0, <3>1 DEF NewRequest, CurrentRow, RowOps, AccessOps
    <2>2. CASE ConfirmRead(slot, u, e)
      <3> DEFINE q == [NewRequest("confirm", "write", u, e) EXCEPT !.ver = akey[u]]
      <3>1. /\ requests' = [requests EXCEPT ![slot] = q]
            /\ grants[e].status = Accepted /\ grants[e].grantor = u
        BY <2>2 DEF ConfirmRead, Begin, loadForGrantor
      <3>2. /\ q.op = "confirm" /\ q.grant = e /\ q.pc = "write"
            /\ q.actor = u /\ q.ver = akey[u]
        BY DEF NewRequest
      <3> HIDE DEF q
      <3> QED
        BY <1>0, <3>1, <3>2 DEF CurrentRow, FoundAt, RowOps, AccessOps
    <2>3. CASE \E t \in Types : UpdateRead(slot, u, e, t)
      <3>1. PICK t \in Types :
              requests' = [requests EXCEPT ![slot] =
                [NewRequest("update", "write", u, e) EXCEPT !.type = t]]
        BY <2>3 DEF UpdateRead, Begin
      <3> DEFINE q == [NewRequest("update", "write", u, e) EXCEPT !.type = t]
      <3>2. q.op = "update" /\ q.grant = e /\ q.pc = "write"
        BY DEF NewRequest
      <3> HIDE DEF q
      <3>3. requests' = [requests EXCEPT ![slot] = q]
        BY <3>1 DEF q
      <3> QED
        BY <1>0, <3>2, <3>3 DEF CurrentRow, FoundAt, RowOps, AccessOps
    <2>4. CASE \E op \in AccessOps : AccessRead(slot, op, u, e)
      <3>1. PICK op \in AccessOps : AccessRead(slot, op, u, e)
        BY <2>4
      <3> DEFINE q == [NewRequest(op, "write", u, e) EXCEPT
                         !.other = grants[e].grantor,
                         !.ver = grants[e].keyEncrypted]
      <3>2. /\ q.op = op /\ q.grant = e /\ q.pc = "write" /\ q.actor = u
            /\ q.other = grants[e].grantor /\ q.ver = grants[e].keyEncrypted
        BY DEF NewRequest
      <3>3. requests' = [requests EXCEPT ![slot] = q]
        BY <3>1 DEF AccessRead, Begin
      <3> HIDE DEF q
      <3>4. /\ grants[e].status = RecoveryApproved /\ grants[e].grantee = u
            /\ grants[e].atype = IF op = "view" THEN View ELSE Takeover
        BY <3>1 DEF AccessRead, isValidRequest
      <3> QED
        BY <1>0, <3>2, <3>3, <3>4 DEF CurrentRow, FoundAt, AccessOps
    <2> QED
      BY <2>1, <2>2, <2>3, <2>4
  <1>2. Current(q, users', grants', akey', vault')
    BY <1>0, <1>1 DEF Current, RowOps, AccessOps
  <1> QED
    BY <1>1, <1>2, PutCurrent DEF SerialInv

\* The other requests that arrive: an invitation, a rotation, a registration,
\* a first password.
LEMMA OtherArriveCurrent ==
    ASSUME SerialInv, NEW slot, Requests = {slot}, NEW u \in Users,
           \/ RegisterRead(slot, u) \/ SetPasswordRead(slot, u)
           \/ \E v \in Keys : RotateRead(slot, u, v)
           \/ \E e \in Grants, c \in Users, t \in Types :
                InviteRead(slot, u, c, t, e)
    PROVE  SlotCurrent'
  <1>1. CASE RegisterRead(slot, u)
    <2> DEFINE q == NewRequest("register", "write", u, None)
    <2>1. requests' = [requests EXCEPT ![slot] = q] /\ u \in users'
      BY <1>1 DEF RegisterRead, Shell, accounts, SerialInv, Inv, TypeOK
    <2>2. q.op = "register" /\ q.actor = u /\ q.pc = "write"
      BY DEF NewRequest
    <2> HIDE DEF q
    <2>3. Current(q, users', grants', akey', vault')
      BY <2>1, <2>2 DEF Current, RowOps, AccessOps
    <2> QED
      BY <2>1, <2>3, PutCurrent DEF SerialInv
  <1>4. CASE SetPasswordRead(slot, u)
    <2> DEFINE q == [NewRequest("setPassword", "write", u, None) EXCEPT
                       !.ver = akey[u]]
    <2>1. /\ requests' = [requests EXCEPT ![slot] = q] /\ u \in users'
          /\ akey' = akey
      BY <1>4 DEF SetPasswordRead, Begin, NewRequest, accounts
    <2>2. q.op = "setPassword" /\ q.actor = u /\ q.ver = akey[u]
      BY DEF NewRequest
    <2> HIDE DEF q
    <2>3. Current(q, users', grants', akey', vault')
      BY <2>1, <2>2 DEF Current, RowOps, AccessOps
    <2> QED
      BY <2>1, <2>3, PutCurrent DEF SerialInv
  <1>2. ASSUME NEW v \in Keys, RotateRead(slot, u, v)
        PROVE  SlotCurrent'
    <2> DEFINE q == [NewRequest("rotate", "vault", u, None) EXCEPT
                       !.ver = v,
                       !.left = {e \in Rows : /\ grants[e].grantor = u
                                              /\ grants[e].status >= Confirmed}]
    <2>1. /\ requests' = [requests EXCEPT ![slot] = q] /\ grants' = grants
          /\ u \in users /\ users' = users
      BY <1>2 DEF RotateRead, Begin, NewRequest, table, accounts
    <2>2. /\ q.op = "rotate" /\ q.pc = "vault" /\ q.actor = u
          /\ q.left = {e \in Rows : /\ grants[e].grantor = u
                                    /\ grants[e].status >= Confirmed}
      BY DEF NewRequest
    <2> HIDE DEF q
    <2>3. Current(q, users', grants', akey', vault')
      BY <2>1, <2>2 DEF Current, RowOps, AccessOps, Rows
    <2> QED
      BY <2>1, <2>3, PutCurrent DEF SerialInv
  <1>3. ASSUME NEW e \in Grants, NEW c \in Users, NEW t \in Types,
               InviteRead(slot, u, c, t, e)
        PROVE  SlotCurrent'
    <2> DEFINE found == c \in users
               q == [NewRequest("invite", "write", u, e) EXCEPT
                       !.other = c, !.found = found, !.type = t]
    <2>0. found \in BOOLEAN /\ (found <=> c \in users)
      OBVIOUS
    <2>1. requests' = [requests EXCEPT ![slot] = q] /\ users' = users
      BY <1>3 DEF InviteRead, Begin, accounts
    <2> HIDE DEF found
    <2>2. q.op = "invite" /\ q.pc = "write" /\ q.other = c /\ q.found = found
      BY <2>0 DEF NewRequest
    <2> HIDE DEF q
    <2>3. Current(q, users', grants', akey', vault')
      BY <2>0, <2>1, <2>2 DEF Current, RowOps, AccessOps
    <2> QED
      BY <2>1, <2>3, PutCurrent DEF SerialInv
  <1> QED
    BY <1>1, <1>2, <1>3, <1>4

\* A request that goes on: it is over, or it has changed nothing it relies on.
LEMMA ContinueCurrent ==
    ASSUME SerialInv, NEW slot, Requests = {slot}, Continue(slot)
    PROVE  SlotCurrent'
  <1> DEFINE p == requests[slot]
  <1>0. p # None
    BY DEF Continue, UpdateWrite, AcceptWrite, ConfirmWrite, InitiateWrite,
           ApproveWrite, RejectWrite, AccessAnswer, PasswordWrite,
           PasswordDropTwofactor, RegisterRefused, RegisterWrite, RegisterSweep,
           SetPasswordWrite, RotateVault, RotateWrite, Fail, InviteWrite,
           RotateGrant, At
  <1>1. p \in Request /\ Current(p, users, grants, akey, vault)
    BY <1>0, InSlot
  <1>2. CASE Done(slot)
    BY <1>2, PutCurrent DEF Done, SerialInv
  <1>3. CASE PasswordWrite(slot)
    <2> DEFINE q == [p EXCEPT !.pc = "twofactor"]
    <2>1. /\ p.op = "password" /\ requests' = [requests EXCEPT ![slot] = q]
          /\ UNCHANGED <<users, grants, vault>>
      BY <1>3 DEF PasswordWrite, At, GoTo, table
    <2>2. /\ q.op = "password" /\ q.pc = "twofactor" /\ q.grant = p.grant
          /\ q.actor = p.actor /\ q.other = p.other /\ q.ver = p.ver
      BY <1>1, <2>1 DEF Request
    <2> HIDE DEF q
    <2>3. CurrentRow(q, grants[q.grant], akey')
      BY <1>1, <2>1, <2>2 DEF Current, CurrentRow, RowOps, AccessOps
    <2>4. Current(q, users', grants', akey', vault')
      BY <2>1, <2>2, <2>3 DEF Current
    <2> QED
      BY <2>1, <2>4, PutCurrent DEF SerialInv
  <1>4. CASE RotateVault(slot)
    <2> DEFINE q == [p EXCEPT !.pc = "keys"]
    <2>0. p.op = "rotate" /\ p.actor \in users
      BY <1>1, <1>4 DEF RotateVault, At, Current
    <2>1. /\ p.op = "rotate" /\ requests' = [requests EXCEPT ![slot] = q]
          /\ vault' = [vault EXCEPT ![p.actor] = p.ver]
          /\ UNCHANGED <<users, grants, akey>>
      BY <1>4, <2>0 DEF RotateVault, At, GoTo, stages, table
    <2>2. /\ q.op = "rotate" /\ q.pc = "keys" /\ q.actor = p.actor
          /\ q.ver = p.ver
      BY <1>1, <2>1 DEF Request
    <2>3. vault'[p.actor] = p.ver
      BY <1>1, <2>1 DEF Request, SerialInv, Inv, TypeOK
    <2> HIDE DEF q
    <2>4. Current(q, users', grants', akey', vault')
      BY <2>0, <2>1, <2>2, <2>3 DEF Current, RowOps, AccessOps
    <2> QED
      BY <2>1, <2>4, PutCurrent DEF SerialInv
  <1>5. ASSUME NEW e \in Grants, RotateGrant(slot, e)
        PROVE  SlotCurrent'
    <2> DEFINE q == [p EXCEPT !.left = @ \ {e}]
    <2>1. /\ p.op = "rotate" /\ p.pc = "keys"
          /\ requests' = [requests EXCEPT ![slot] = q]
          /\ UNCHANGED <<users, akey, vault>>
      BY <1>5 DEF RotateGrant, At, accounts
    <2>2. /\ q.op = "rotate" /\ q.pc = "keys" /\ q.actor = p.actor
          /\ q.ver = p.ver
      BY <1>1, <2>1 DEF Request
    <2> HIDE DEF q
    <2>3. Current(q, users', grants', akey', vault')
      BY <1>1, <2>1, <2>2 DEF Current, RowOps, AccessOps
    <2> QED
      BY <2>1, <2>3, PutCurrent DEF SerialInv
  <1>6. CASE RegisterWrite(slot) /\ ~Done(slot)
    <2> DEFINE q == [p EXCEPT !.pc = "sweep"]
    <2>1. /\ p.op = "register" /\ requests' = [requests EXCEPT ![slot] = q]
          /\ users' = users /\ ~MailEnabled
      BY <1>6 DEF RegisterWrite, At, GoTo
    <2>2. q.op = "register" /\ q.actor = p.actor /\ p.actor \in users
      BY <1>1, <2>1 DEF Request, Current
    <2> HIDE DEF q
    <2>3. Current(q, users', grants', akey', vault')
      BY <2>1, <2>2 DEF Current, RowOps, AccessOps
    <2> QED
      BY <2>1, <2>3, PutCurrent DEF SerialInv
  <1> QED
    BY <1>2, <1>3, <1>4, <1>5, <1>6
       DEF Continue, UpdateWrite, AcceptWrite, ConfirmWrite, InitiateWrite,
           ApproveWrite, RejectWrite, AccessAnswer, PasswordDropTwofactor,
           RegisterRefused, RegisterSweep, SetPasswordWrite, RotateWrite, Fail,
           InviteWrite

\* Rows that are not written stay linked while no account goes away.
LEMMA SameLinked ==
    ASSUME RowsLinked, UNCHANGED grants, users \subseteq users'
    PROVE  RowsLinked'
  BY DEF RowsLinked, RowLinked

\* An UPDATE of one row.
LEMMA UpdateLinked ==
    ASSUME RowsLinked, Inv, NEW e \in Grants, NEW row, Update(e, row),
           users' = users, grants[e] # None => RowLinked(row, users)
    PROVE  RowsLinked'
  BY DEF RowsLinked, Update, Rows, Inv, TypeOK

\* A request that goes on leaves no row pointing at a missing account.
LEMMA ContinueLinked ==
    ASSUME SerialInv, NEW slot, Requests = {slot}, Continue(slot)
    PROVE  RowsLinked'
  <1> DEFINE q == requests[slot]
             row == grants[q.grant]
  <1>0. RowsLinked /\ Inv
    BY DEF SerialInv
  <1>1. CASE UNCHANGED <<users, grants>>
    BY <1>0, <1>1, SameLinked
  <1>2. CASE \/ UpdateWrite(slot) \/ AcceptWrite(slot) \/ ConfirmWrite(slot)
             \/ InitiateWrite(slot) \/ ApproveWrite(slot) \/ RejectWrite(slot)
    <2>1. /\ q # None /\ users' = users
          /\ q.op \in {"update", "accept", "confirm", "initiate", "approve",
                       "reject"}
      BY <1>2 DEF UpdateWrite, AcceptWrite, ConfirmWrite, InitiateWrite,
                  ApproveWrite, RejectWrite, At, accounts
    <2>2. /\ q.grant \in Grants /\ CurrentRow(q, row, akey)
          /\ row \in Row /\ RowLinked(row, users)
      BY <2>1, HeldRow DEF RowOps
    <2>3. PICK new : Update(q.grant, new) /\ RowLinked(new, users)
      <3>1. CASE UpdateWrite(slot)
        <4>1. Update(q.grant, [row EXCEPT !.atype = q.type])
          BY <3>1 DEF UpdateWrite
        <4>2. RowLinked([row EXCEPT !.atype = q.type], users)
          BY <2>2 DEF RowLinked, Row
        <4> QED
          BY <4>1, <4>2
      <3>2. CASE AcceptWrite(slot)
        <4> DEFINE new == [row EXCEPT !.grantee = q.actor, !.email = None,
                                      !.status = Accepted]
        <4>1. Update(q.grant, new) /\ q.actor \in users
          BY <3>2 DEF AcceptWrite
        <4>2. RowLinked(new, users)
          BY <2>2, <4>1 DEF RowLinked, Row
        <4> QED
          BY <4>1, <4>2
      <3>3. CASE ~UpdateWrite(slot) /\ ~AcceptWrite(slot)
        <4>1. PICK new :
                /\ Update(q.grant, new)
                /\ new.grantor = row.grantor /\ new.grantee = row.grantee
                /\ new.email = row.email
          <5>1. CASE ConfirmWrite(slot)
            <6> WITNESS [row EXCEPT !.keyEncrypted = q.ver, !.status = Confirmed]
            <6> QED  BY <2>2, <5>1 DEF ConfirmWrite, Row
          <5>2. CASE InitiateWrite(slot)
            <6> WITNESS [row EXCEPT !.status = RecoveryInitiated,
                                    !.recoveryInitiatedAt = "waiting"]
            <6> QED  BY <2>2, <5>2 DEF InitiateWrite, Row
          <5>3. CASE ApproveWrite(slot)
            <6> WITNESS [row EXCEPT !.status = RecoveryApproved]
            <6> QED  BY <2>2, <5>3 DEF ApproveWrite, Row
          <5>4. CASE RejectWrite(slot)
            <6> WITNESS [row EXCEPT !.status = Confirmed,
                                    !.recoveryInitiatedAt = "null"]
            <6> QED  BY <2>2, <5>4 DEF RejectWrite, Row
          <5> QED
            BY <1>2, <3>3, <5>1, <5>2, <5>3, <5>4
        <4>2. row.email = None
          BY <1>2, <2>2, <3>3
             DEF ConfirmWrite, InitiateWrite, ApproveWrite, RejectWrite, At,
                 CurrentRow, FoundAt, RowLinked, Invited, Accepted, Confirmed,
                 RecoveryInitiated, RecoveryApproved
        <4> QED
          BY <2>2, <4>1, <4>2 DEF RowLinked
      <3> QED
        BY <3>1, <3>2, <3>3
    <2> QED
      BY <1>0, <2>1, <2>2, <2>3, UpdateLinked
  <1>3. CASE InviteWrite(slot)
    <2> DEFINE e == q.grant
               new == [grantor |-> q.actor,
                       grantee |-> IF q.found THEN q.other ELSE None,
                       email |-> IF q.found THEN None ELSE q.other,
                       keyEncrypted |-> NoKey, atype |-> q.type,
                       status |-> IF ~MailEnabled /\ q.found THEN Accepted
                                  ELSE Invited,
                       recoveryInitiatedAt |-> "null"]
    <2>1. /\ grants' = [grants EXCEPT ![e] = new] /\ users' = users
          /\ q.actor \in users /\ (q.found => q.other \in users)
      BY <1>3 DEF InviteWrite, accounts
    <2>2. RowLinked(new, users)
      BY <2>1 DEF RowLinked
    <2> HIDE DEF new
    <2> QED
      BY <1>0, <2>1, <2>2 DEF RowsLinked, Inv, TypeOK
  <1>4. CASE RegisterSweep(slot)
    <2> DEFINE new(e) == [grants[e] EXCEPT !.grantee = q.actor, !.email = None,
                                           !.status = Accepted]
    <2>1. /\ q.actor \in users /\ users' = users
          /\ grants' = [e \in Grants |->
               IF e \in Rows /\ grants[e].email = q.actor THEN new(e)
               ELSE grants[e]]
      BY <1>4 DEF RegisterSweep, accounts
    <2>2. ASSUME NEW e \in Grants, grants[e] # None
          PROVE  RowLinked(grants[e], users) /\ RowLinked(new(e), users)
      BY <1>0, <2>1, <2>2 DEF RowsLinked, RowLinked, Inv, TypeOK, Row
    <2> HIDE DEF new
    <2> QED
      BY <2>1, <2>2 DEF RowsLinked, Rows
  <1>5. ASSUME NEW e \in Grants, RotateGrant(slot, e)
        PROVE  RowsLinked'
    <2> DEFINE new == [grants[e] EXCEPT !.keyEncrypted = q.ver]
    <2>1. /\ users' = users
          /\ \/ UNCHANGED grants
             \/ Update(e, new)
      BY <1>5 DEF RotateGrant, accounts
    <2>2. grants[e] # None => RowLinked(new, users)
      BY <1>0 DEF RowsLinked, RowLinked, Inv, TypeOK, Row
    <2> HIDE DEF new
    <2> QED
      BY <1>0, <2>1, <2>2, <1>5, UpdateLinked, SameLinked DEF RotateGrant, accounts
  <1> QED
    BY <1>1, <1>2, <1>3, <1>4, <1>5
       DEF Continue, AccessAnswer, PasswordWrite, PasswordDropTwofactor,
           RegisterRefused, RegisterWrite, SetPasswordWrite, RotateVault,
           RotateWrite, Fail, accounts, table

\* The first statement of a request writes no row; a registration adds an
\* account.
LEMMA ArriveLinked ==
    ASSUME SerialInv, NEW r \in Requests, Arrive(r)
    PROVE  RowsLinked'
  <1>1. UNCHANGED grants /\ users \subseteq users'
    BY DEF Arrive, RegisterRead, Shell, SetPasswordRead, RotateRead,
           InviteRead, AcceptRead, ConfirmRead, InitiateRead, ApproveRead,
           RejectRead, UpdateRead, AccessRead, accounts, table
  <1> QED
    BY <1>1, SameLinked DEF SerialInv

\* Between requests: a cascade takes the rows of an account with it.
LEMMA InstantSerial ==
    ASSUME SerialInv, Active = {}, Instant
    PROVE  RowsLinked' /\ SlotCurrent'
  <1>0. /\ grants \in [Grants -> Row \cup {None}] /\ RowsLinked
        /\ \A r \in Requests : requests[r] = None
    BY DEF SerialInv, Inv, TypeOK, Active
  <1>1. requests' = requests
    BY DEF Instant, runScheduledJobs, CreateShell, ActivateTwofactor,
           DeleteAccount, deleteEa
  <1>2. SlotCurrent'
    BY <1>0, <1>1 DEF SlotCurrent
  <1>3. CASE runScheduledJobs
    <2>1. ASSUME NEW e \in Grants, grants[e] # None
          PROVE  RowLinked([grants[e] EXCEPT !.recoveryInitiatedAt = "elapsed"],
                           users)
      BY <1>0, <2>1 DEF RowsLinked, RowLinked, Row
    <2>2. users' = users
      BY <1>3 DEF runScheduledJobs, accounts
    <2>3. ASSUME NEW e \in Grants
          PROVE  \/ grants'[e] = grants[e]
                 \/ /\ grants[e] # None
                    /\ grants'[e] =
                         [grants[e] EXCEPT !.recoveryInitiatedAt = "elapsed"]
      BY <1>3 DEF runScheduledJobs, Rows
    <2>4. ASSUME NEW e \in Grants, grants'[e] # None
          PROVE  RowLinked(grants'[e], users)
      BY <1>0, <2>1, <2>3, <2>4 DEF RowsLinked
    <2> QED
      BY <1>2, <2>2, <2>4 DEF RowsLinked
  <1>4. ASSUME NEW u \in Users, ActivateTwofactor(u)
        PROVE  RowsLinked'
    BY <1>0, <1>4, SameLinked DEF ActivateTwofactor, table
  <1>7. ASSUME NEW u \in Users, CreateShell(u)
        PROVE  RowsLinked'
    BY <1>0, <1>7, SameLinked DEF CreateShell, Shell, table
  <1>5. ASSUME NEW u \in Users, NEW e \in Grants, deleteEa(u, e)
        PROVE  RowsLinked'
    BY <1>0, <1>5 DEF deleteEa, RowsLinked, accounts
  <1>6. ASSUME NEW u \in Users, DeleteAccount(u)
        PROVE  RowsLinked'
    <2>1. users' = users \ {u}
      BY <1>6 DEF DeleteAccount
    <2>2. ASSUME NEW e \in Grants, grants'[e] # None
          PROVE  /\ grants'[e] = grants[e]
                 /\ u \notin {grants[e].grantor, grants[e].grantee}
      BY <1>6, <2>2 DEF DeleteAccount, Rows
    <2> QED
      BY <1>0, <2>1, <2>2 DEF RowsLinked, RowLinked
  <1> QED
    BY <1>2, <1>3, <1>4, <1>5, <1>6, <1>7 DEF Instant

\* No row, no request.
LEMMA SerialInvInit == Init => SerialInv
  <1> SUFFICES ASSUME Init PROVE SerialInv
    OBVIOUS
  <1>1. \A e \in Grants : grants[e] = None
    BY DEF Init
  <1>2. \A r \in Requests : requests[r] = None
    BY DEF Init
  <1> QED
    BY <1>1, <1>2, InitInv DEF SerialInv, RowsLinked, SlotCurrent

\* Every step of the one request keeps what it has read true.
LEMMA SerialInvStep ==
    ASSUME NEW slot, Requests = {slot}
    PROVE  SerialInv /\ [SerialNext]_vars => SerialInv'
  <1> SUFFICES ASSUME SerialInv, [SerialNext]_vars PROVE SerialInv'
    OBVIOUS
  <1>1. Inv'
    BY NextInv DEF SerialInv, SerialNext, Next
  <1>2. CASE Active = {} /\ Instant
    BY <1>1, <1>2, InstantSerial DEF SerialInv
  <1>3. CASE Arrive(slot)
    <2>1. PICK u \in Users :
            \/ RegisterRead(slot, u)
            \/ SetPasswordRead(slot, u)
            \/ \E v \in Keys : RotateRead(slot, u, v)
            \/ \E e \in Grants :
                 \/ \E c \in Users, t \in Types : InviteRead(slot, u, c, t, e)
                 \/ AcceptRead(slot, u, e) \/ ConfirmRead(slot, u, e)
                 \/ InitiateRead(slot, u, e) \/ ApproveRead(slot, u, e)
                 \/ RejectRead(slot, u, e)
                 \/ \E t \in Types : UpdateRead(slot, u, e, t)
                 \/ \E op \in AccessOps : AccessRead(slot, op, u, e)
      BY <1>3, Zenon DEF Arrive
    <2>2. SlotCurrent'
      BY <2>1, RowReadCurrent, OtherArriveCurrent
    <2> QED
      BY <1>1, <1>3, <2>2, ArriveLinked DEF SerialInv
  <1>4. CASE Continue(slot)
    BY <1>1, <1>4, ContinueCurrent, ContinueLinked DEF SerialInv
  <1>5. CASE UNCHANGED vars
    BY <1>1, <1>5 DEF vars, SerialInv, RowsLinked, SlotCurrent
  <1> QED
    BY <1>2, <1>3, <1>4, <1>5 DEF SerialNext

\* One request at a time, somebody else's password for an account is stored
\* only while that grantor's approval stands, and only by the contact of that
\* grant: however many statements lie between the check and the UPDATE.
THEOREM TakeoverNeedsApproval ==
    ASSUME NEW slot, Requests = {slot}
    PROVE  SerialSpec => TakeoverWhileApproved
  <1> DEFINE A == \A u \in Users :
                    secret'[u] \notin {secret[u], u} =>
                      \E e \in Rows : /\ grants[e].grantor = u
                                      /\ grants[e].grantee = secret'[u]
                                      /\ grants[e].status = RecoveryApproved
                                      /\ grants[e].atype = Takeover
  <1>1. SerialInv /\ [SerialNext]_vars => [A]_vars
    <2> SUFFICES ASSUME SerialInv, SerialNext, NEW u \in Users,
                        secret'[u] \notin {secret[u], u}
                 PROVE  \E e \in Rows : /\ grants[e].grantor = u
                                        /\ grants[e].grantee = secret'[u]
                                        /\ grants[e].status = RecoveryApproved
                                        /\ grants[e].atype = Takeover
      OBVIOUS
    <2> DEFINE q == requests[slot]
    <2>0. secret \in [Users -> Users]
      BY DEF SerialInv, Inv, TypeOK
    <2>1. PasswordWrite(slot)
      <3>1. CASE Instant
        BY <2>0, <3>1
           DEF Instant, runScheduledJobs, CreateShell, Shell, ActivateTwofactor,
               DeleteAccount, deleteEa, accounts
      <3>2. CASE Arrive(slot)
        <4>1. CASE \E v \in Users : RegisterRead(slot, v)
          BY <2>0, <4>1 DEF RegisterRead, Shell, accounts
        <4>2. CASE UNCHANGED secret
          BY <4>2
        <4> QED
          BY <3>2, <4>1, <4>2
             DEF Arrive, SetPasswordRead, RotateRead, InviteRead, AcceptRead,
                 ConfirmRead, InitiateRead, ApproveRead, RejectRead, UpdateRead,
                 AccessRead, accounts
      <3>3. CASE \/ RotateWrite(slot) \/ RegisterWrite(slot)
                 \/ SetPasswordWrite(slot)
        BY <2>0, <3>3 DEF RotateWrite, RegisterWrite, SetPasswordWrite
      <3>4. CASE /\ Continue(slot) /\ ~RotateWrite(slot)
                 /\ ~PasswordWrite(slot) /\ ~RegisterWrite(slot)
                 /\ ~SetPasswordWrite(slot)
        BY <3>4
           DEF Continue, UpdateWrite, AcceptWrite, ConfirmWrite, InitiateWrite,
               ApproveWrite, RejectWrite, AccessAnswer, PasswordDropTwofactor,
               RegisterRefused, RegisterSweep, RotateVault, Fail, InviteWrite,
               RotateGrant, accounts
      <3> QED
        BY <3>1, <3>2, <3>3, <3>4 DEF SerialNext
    <2>2. q # None /\ q.op = "password" /\ u = q.other /\ secret'[u] = q.actor
      BY <2>0, <2>1 DEF PasswordWrite, At
    <2>3. /\ q.grant \in Grants /\ grants[q.grant] # None
          /\ CurrentRow(q, grants[q.grant], akey)
      BY <2>2, HeldRow DEF AccessOps
    <2> QED
      BY <2>2, <2>3 DEF CurrentRow, FoundAt, AccessOps, Rows
  <1>2. SerialInv /\ [SerialNext]_vars => SerialInv'
    BY SerialInvStep
  <1>3. SerialSpec => [][A]_vars
    BY <1>1, <1>2, SerialInvInit, PTL DEF SerialSpec
  <1> QED
    BY <1>3, PTL DEF TakeoverWhileApproved

(***************************************************************************)
(* The keys and the open invitations                                       *)
(***************************************************************************)
\* Nothing between its two statements ends a request.
RunToEnd == "fail" \notin Ops

\* What the one request has left to do.
LEMMA PutWhole ==
    ASSUME Inv, NEW slot, Requests = {slot}, NEW q,
           requests' = [requests EXCEPT ![slot] = q],
           WholeIn(q, users', registered', grants', akey', vault')
    PROVE  Whole'
  BY PutSlot DEF Whole

\* Nothing of it changes, but the request in the slot: it was not, and is not,
\* one that has something to put right.
LEMMA SameWhole ==
    ASSUME Inv, Whole, NEW slot, Requests = {slot}, NEW q,
           requests' = [requests EXCEPT ![slot] = q],
           UNCHANGED <<users, registered, grants, akey, vault>>,
           ~Owes(requests[slot])
    PROVE  Whole'
  <1>1. WholeIn(requests[slot], users, registered, grants, akey, vault)
    BY DEF Whole
  <1>2. WholeIn(q, users, registered, grants, akey, vault)
    BY <1>1 DEF WholeIn, AccountsOpen, GrantsOpen, NoOpenInvitation, Rotates,
                Owes
  <1> QED
    BY <1>2, PutWhole

\* An UPDATE of one row that changes neither its address nor its grantor, and
\* leaves a usable row with the key of the vault.
LEMMA UpdateWhole ==
    ASSUME Inv, Whole, NEW slot, Requests = {slot}, NEW q,
           requests' = [requests EXCEPT ![slot] = q],
           UNCHANGED <<users, registered, akey, vault>>,
           ~Owes(requests[slot]),
           NEW e \in Grants, NEW row, Update(e, row),
           grants[e] # None =>
             /\ row.email \in {grants[e].email, None}
             /\ row.status >= Confirmed =>
                  row.keyEncrypted = vault[row.grantor]
    PROVE  Whole'
  <1> DEFINE p == requests[slot]
  <1>1. WholeIn(p, users, registered, grants, akey, vault)
    BY DEF Whole
  <1>2. /\ \A f \in Grants \ {e} : grants'[f] = grants[f]
        /\ grants[e] # None => grants'[e] = row
        /\ grants[e] = None => grants'[e] = None
    BY DEF Update, Rows, Inv, TypeOK
  <1>3. AccountsOpen(q, users', akey', vault')
    BY <1>1 DEF WholeIn, AccountsOpen, Rotates, Owes
  <1>4. GrantsOpen(q, grants', vault')
    BY <1>1, <1>2 DEF WholeIn, GrantsOpen, Rotates, Owes
  <1>5. NoOpenInvitation(q, registered', grants')
    <2>1. None \notin registered
      BY NoneFacts DEF Inv, TypeOK
    <2> QED
      BY <1>1, <1>2, <2>1 DEF WholeIn, NoOpenInvitation, Owes
  <1> QED
    BY <1>3, <1>4, <1>5, PutWhole DEF WholeIn

\* The statements that update the row the request holds.
LEMMA RowWriteWhole ==
    ASSUME SerialInv, Whole, NEW slot, Requests = {slot},
           \/ UpdateWrite(slot) \/ AcceptWrite(slot) \/ ConfirmWrite(slot)
           \/ InitiateWrite(slot) \/ ApproveWrite(slot) \/ RejectWrite(slot)
    PROVE  Whole'
  <1> DEFINE q == requests[slot]
             row == grants[q.grant]
  <1>1. /\ q # None /\ UNCHANGED <<users, registered, akey, vault>>
        /\ requests' = [requests EXCEPT ![slot] = None]
        /\ q.op \in {"update", "accept", "confirm", "initiate", "approve",
                     "reject"}
    BY DEF UpdateWrite, AcceptWrite, ConfirmWrite, InitiateWrite, ApproveWrite,
           RejectWrite, At, Done, accounts
  <1>2. /\ q.grant \in Grants /\ CurrentRow(q, row, akey) /\ row # None
        /\ row \in Row /\ RowLinked(row, users) /\ q \in Request
    BY <1>1, HeldRow DEF RowOps
  <1>3. WholeIn(q, users, registered, grants, akey, vault)
    BY DEF Whole
  <1>4. row.status >= Confirmed => row.keyEncrypted = vault[row.grantor]
    BY <1>1, <1>2, <1>3 DEF WholeIn, GrantsOpen, Rotates
  <1>5. akey[row.grantor] = vault[row.grantor]
    BY <1>1, <1>2, <1>3 DEF WholeIn, AccountsOpen, Rotates, RowLinked
  <1>6. PICK new :
          /\ Update(q.grant, new)
          /\ new.email \in {row.email, None}
          /\ new.status >= Confirmed => new.keyEncrypted = vault[new.grantor]
    <2>1. CASE UpdateWrite(slot)
      <3> WITNESS [row EXCEPT !.atype = q.type]
      <3> QED  BY <1>2, <1>4, <2>1 DEF UpdateWrite, Row
    <2>2. CASE AcceptWrite(slot)
      <3> WITNESS [row EXCEPT !.grantee = q.actor, !.email = None,
                              !.status = Accepted]
      <3> QED  BY <1>2, <2>2, StatusFacts DEF AcceptWrite, Row
    <2>3. CASE ConfirmWrite(slot)
      <3> WITNESS [row EXCEPT !.keyEncrypted = q.ver, !.status = Confirmed]
      <3>1. q.ver = vault[row.grantor]
        BY <1>2, <1>5, <2>3 DEF ConfirmWrite, At, CurrentRow
      <3> QED  BY <1>2, <2>3, <3>1 DEF ConfirmWrite, Row
    <2>4. CASE InitiateWrite(slot) \/ ApproveWrite(slot) \/ RejectWrite(slot)
      <3>1. row.keyEncrypted = vault[row.grantor]
        BY <1>2, <1>4, <2>4, StatusFacts
           DEF InitiateWrite, ApproveWrite, RejectWrite, At, CurrentRow, FoundAt,
               AccessOps
      <3>2. CASE InitiateWrite(slot)
        <4> WITNESS [row EXCEPT !.status = RecoveryInitiated,
                                !.recoveryInitiatedAt = "waiting"]
        <4> QED  BY <1>2, <3>1, <3>2 DEF InitiateWrite, Row
      <3>3. CASE ApproveWrite(slot)
        <4> WITNESS [row EXCEPT !.status = RecoveryApproved]
        <4> QED  BY <1>2, <3>1, <3>3 DEF ApproveWrite, Row
      <3>4. CASE RejectWrite(slot)
        <4> WITNESS [row EXCEPT !.status = Confirmed,
                                !.recoveryInitiatedAt = "null"]
        <4> QED  BY <1>2, <3>1, <3>4 DEF RejectWrite, Row
      <3> QED
        BY <2>4, <3>2, <3>3, <3>4
    <2> QED
      BY <2>1, <2>2, <2>3, <2>4
  <1> HIDE DEF q, row
  <1>7. q.op \notin {"rotate", "register"}
    BY <1>1
  <1> QED
    BY <1>1, <1>2, <1>6, <1>7, UpdateWhole DEF q, row, SerialInv, Owes

\* A takeover stores the key that the grant has carried, which opens the vault.
LEMMA PasswordWhole ==
    ASSUME SerialInv, Whole, NEW slot, Requests = {slot},
           PasswordWrite(slot) \/ PasswordDropTwofactor(slot) \/ AccessAnswer(slot)
    PROVE  Whole'
  <1> DEFINE p == requests[slot]
             q == [p EXCEPT !.pc = "twofactor"]
  <1>1. p # None /\ p.op \in AccessOps
    BY DEF PasswordWrite, PasswordDropTwofactor, AccessAnswer, At, AccessOps
  <1>2. CASE PasswordDropTwofactor(slot) \/ AccessAnswer(slot)
    <2>1. /\ requests' = [requests EXCEPT ![slot] = None]
          /\ UNCHANGED <<users, registered, grants, akey, vault>>
      BY <1>2 DEF PasswordDropTwofactor, AccessAnswer, Done, accounts, stages,
                  table
    <2> QED
      BY <1>1, <2>1, SameWhole DEF SerialInv, AccessOps, Owes
  <1>3. CASE PasswordWrite(slot)
    <2>1. /\ p \in Request /\ p.grant \in Grants /\ grants[p.grant] # None
          /\ grants[p.grant] \in Row /\ RowLinked(grants[p.grant], users)
          /\ CurrentRow(p, grants[p.grant], akey)
      BY <1>1, HeldRow
    <2>2. WholeIn(p, users, registered, grants, akey, vault)
      BY DEF Whole
    <2>3. /\ p.other = grants[p.grant].grantor /\ p.other \in users
          /\ p.ver = vault[p.other]
      BY <1>1, <2>1, <2>2, StatusFacts
         DEF CurrentRow, FoundAt, RowLinked, WholeIn, GrantsOpen, Rotates,
             AccessOps
    <2>4. /\ akey' = [akey EXCEPT ![p.other] = p.ver]
          /\ requests' = [requests EXCEPT ![slot] = q]
          /\ UNCHANGED <<users, registered, grants, vault>>
      BY <1>3, <2>3 DEF PasswordWrite, GoTo, table
    <2>5. q.op = p.op
      BY <2>1 DEF Request
    <2> HIDE DEF q
    <2>6. \A u \in users : akey'[u] = vault[u]
      BY <1>1, <2>2, <2>3, <2>4
         DEF WholeIn, AccountsOpen, Rotates, SerialInv, Inv, TypeOK, AccessOps
    <2>7. WholeIn(q, users', registered', grants', akey', vault')
      BY <1>1, <2>2, <2>4, <2>6
         DEF WholeIn, AccountsOpen, GrantsOpen, NoOpenInvitation, Rotates,
             AccessOps
    <2> QED
      BY <2>4, <2>7, PutWhole DEF SerialInv
  <1> QED
    BY <1>2, <1>3

\* A new row holds no key, and an address only if it has no account.
LEMMA InviteWhole ==
    ASSUME SerialInv, Whole, NEW slot, Requests = {slot}, InviteWrite(slot)
    PROVE  Whole'
  <1> DEFINE q == requests[slot]
             e == q.grant
             addr == IF q.found THEN None ELSE q.other
             new == [grantor |-> q.actor,
                     grantee |-> IF q.found THEN q.other ELSE None,
                     email |-> addr,
                     keyEncrypted |-> NoKey, atype |-> q.type,
                     status |-> IF ~MailEnabled /\ q.found THEN Accepted
                                ELSE Invited,
                     recoveryInitiatedAt |-> "null"]
  <1>1. /\ q # None /\ q.op = "invite"
        /\ grants' = [grants EXCEPT ![e] = new]
        /\ UNCHANGED <<users, registered, akey, vault>>
        /\ requests' = [requests EXCEPT ![slot] = None]
    BY DEF InviteWrite, At, Done, accounts
  <1>2. e \in Grants /\ (q.found <=> q.other \in users)
    BY <1>1, InSlot DEF Current, GrantOps
  <1>3. WholeIn(q, users, registered, grants, akey, vault)
    BY DEF Whole
  <1>4. ~(new.status >= Confirmed) /\ new.email = addr
    BY StatusFacts DEF Invited, Accepted, Confirmed
  <1>5. addr \notin registered
    BY <1>2, NoneFacts DEF SerialInv, Inv, TypeOK
  <1> HIDE DEF new, addr
  <1>6. /\ \A f \in Grants \ {e} : grants'[f] = grants[f]
        /\ grants'[e] = new
    BY <1>1, <1>2 DEF SerialInv, Inv, TypeOK
  <1>7. WholeIn(None, users', registered', grants', akey', vault')
    BY <1>1, <1>3, <1>4, <1>5, <1>6
       DEF WholeIn, AccountsOpen, GrantsOpen, NoOpenInvitation, Rotates
  <1> QED
    BY <1>1, <1>7, PutWhole DEF SerialInv

\* A new account opens its own, empty, vault, and no row is about it.
LEMMA ShellWhole ==
    ASSUME SerialInv, NEW u \in Users, Shell(u), grants' = grants,
           WholeIn(None, users, registered, grants, akey, vault),
           NEW q, q = None \/ (q.op = "register" /\ q.pc = "write")
    PROVE  WholeIn(q, users', registered', grants', akey', vault')
  <1>1. /\ users' = users \cup {u} /\ u \notin users
        /\ akey' = [akey EXCEPT ![u] = 1] /\ vault' = [vault EXCEPT ![u] = 1]
        /\ registered' = registered
    BY DEF Shell, FreshUser
  <1>2. AccountsOpen(q, users', akey', vault')
    BY <1>1 DEF WholeIn, AccountsOpen, Rotates, SerialInv, Inv, TypeOK
  <1>3. GrantsOpen(q, grants', vault')
    <2>1. \A e \in Grants : grants[e] # None => grants[e].grantor \in users
      BY DEF SerialInv, RowsLinked, RowLinked
    <2>2. \A v \in users : vault'[v] = vault[v]
      BY <1>1 DEF SerialInv, Inv, TypeOK
    <2> QED
      BY <2>1, <2>2 DEF WholeIn, GrantsOpen, Rotates
  <1>4. NoOpenInvitation(q, registered', grants')
    BY <1>1 DEF WholeIn, NoOpenInvitation
  <1> QED
    BY <1>2, <1>3, <1>4 DEF WholeIn

\* A registration or a first password arrives.
LEMMA AccountReadWhole ==
    ASSUME SerialInv, Whole, NEW slot, Requests = {slot}, NEW u \in Users,
           RegisterRead(slot, u) \/ SetPasswordRead(slot, u)
    PROVE  Whole'
  <1>0. requests[slot] = None
    BY DEF RegisterRead, SetPasswordRead, Begin
  <1>1. CASE UNCHANGED accounts
    <2>1. UNCHANGED <<users, registered, grants, akey, vault>>
      BY <1>1 DEF RegisterRead, SetPasswordRead, accounts, table
    <2>2. \E q : requests' = [requests EXCEPT ![slot] = q]
      BY DEF RegisterRead, SetPasswordRead, Begin
    <2> QED
      BY <1>0, <2>1, <2>2, SameWhole DEF SerialInv, Owes
  <1>2. CASE RegisterRead(slot, u) /\ Shell(u)
    <2> DEFINE q == NewRequest("register", "write", u, None)
    <2>1. requests' = [requests EXCEPT ![slot] = q] /\ grants' = grants
      BY <1>2 DEF RegisterRead, table
    <2>2. q.op = "register" /\ q.pc = "write"
      BY DEF NewRequest
    <2> HIDE DEF q
    <2>3. WholeIn(None, users, registered, grants, akey, vault)
      BY <1>0 DEF Whole
    <2>4. WholeIn(q, users', registered', grants', akey', vault')
      BY <1>2, <2>1, <2>2, <2>3, ShellWhole
    <2> QED
      BY <2>1, <2>4, PutWhole DEF SerialInv
  <1> QED
    BY <1>1, <1>2 DEF RegisterRead, SetPasswordRead, accounts

\* A registration that is refused, and a first password, which stores the key
\* that the account had.
LEMMA AccountWriteWhole ==
    ASSUME SerialInv, Whole, NEW slot, Requests = {slot},
           RegisterRefused(slot) \/ SetPasswordWrite(slot)
    PROVE  Whole'
  <1> DEFINE q == requests[slot]
  <1>1. /\ q # None /\ requests' = [requests EXCEPT ![slot] = None]
        /\ UNCHANGED <<users, registered, grants, vault>>
        /\ ~Owes(q)
    BY DEF RegisterRefused, SetPasswordWrite, At, Done, accounts, table, Owes
  <1>2. akey' = akey
    <2>1. CASE RegisterRefused(slot)
      BY <2>1 DEF RegisterRefused, accounts
    <2>2. CASE SetPasswordWrite(slot)
      <3>1. q.op = "setPassword" /\ Current(q, users, grants, akey, vault)
        BY <1>1, <2>2, InSlot DEF SetPasswordWrite, At
      <3>2. akey' = [akey EXCEPT ![q.actor] = akey[q.actor]]
        BY <2>2, <3>1 DEF SetPasswordWrite, Current
      <3> QED
        BY <3>2 DEF SerialInv, Inv, TypeOK
    <2> QED
      BY <2>1, <2>2
  <1> QED
    BY <1>1, <1>2, SameWhole DEF SerialInv

\* Registration: the account that it completes has encrypted nothing before,
\* and the sweep leaves no invitation of its address behind.
LEMMA RegisterWhole ==
    ASSUME SerialInv, ShellsFresh, Whole, NEW slot, Requests = {slot},
           RegisterWrite(slot) \/ RegisterSweep(slot)
    PROVE  Whole'
  <1>1. CASE RegisterWrite(slot)
    <2> DEFINE p == requests[slot]
               u == p.actor
               q == IF MailEnabled THEN None ELSE [p EXCEPT !.pc = "sweep"]
    <2>1. /\ p # None /\ p.op = "register" /\ p.pc = "write"
          /\ UNCHANGED <<users, grants, vault>>
          /\ requests' = [requests EXCEPT ![slot] = q]
      BY <1>1 DEF RegisterWrite, At, Done, GoTo, table
    <2>2. p \in Request /\ u \in Users /\ u \in users /\ vault[u] = 1
      BY <2>1, InSlot DEF Current, Request, ShellsFresh
    <2>3. /\ akey' = [akey EXCEPT ![u] = 1]
          /\ registered' = registered \cup {u}
      BY <1>1, <2>2 DEF RegisterWrite
    <2>4. ~MailEnabled => /\ q # None /\ q.op = "register" /\ q.actor = u
                          /\ q.pc = "sweep"
      <3>1. [p EXCEPT !.pc = "sweep"] \in Request
        BY <2>2 DEF Request
      <3> QED
        BY <2>1, <2>2, <3>1, NoneFacts DEF Request
    <2>5. WholeIn(p, users, registered, grants, akey, vault)
      BY DEF Whole
    <2> HIDE DEF q
    <2>6. AccountsOpen(q, users', akey', vault')
      BY <2>1, <2>2, <2>3, <2>5
         DEF WholeIn, AccountsOpen, Rotates, SerialInv, Inv, TypeOK
    <2>7. GrantsOpen(q, grants', vault')
      BY <2>1, <2>5 DEF WholeIn, GrantsOpen, Rotates
    <2>8. NoOpenInvitation(q, registered', grants')
      BY <2>1, <2>3, <2>4, <2>5 DEF WholeIn, NoOpenInvitation
    <2> QED
      BY <2>1, <2>6, <2>7, <2>8, PutWhole DEF WholeIn, SerialInv
  <1>2. CASE RegisterSweep(slot)
    <2> DEFINE q == requests[slot]
               new(e) == [grants[e] EXCEPT !.grantee = q.actor, !.email = None,
                                           !.status = Accepted]
    <2>1. /\ q # None /\ q.op = "register"
          /\ requests' = [requests EXCEPT ![slot] = None]
          /\ UNCHANGED <<users, registered, akey, vault>>
          /\ grants' = [e \in Grants |->
               IF e \in Rows /\ grants[e].email = q.actor THEN new(e)
               ELSE grants[e]]
      BY <1>2 DEF RegisterSweep, At, Done, accounts
    <2>2. WholeIn(q, users, registered, grants, akey, vault)
      BY DEF Whole
    <2>3. ASSUME NEW e \in Grants, grants[e] # None
          PROVE  new(e).email = None /\ ~(new(e).status >= Confirmed)
      BY <2>3, StatusFacts DEF SerialInv, Inv, TypeOK, Row
    <2> HIDE DEF new
    <2>4. None \notin registered
      BY NoneFacts DEF SerialInv, Inv, TypeOK
    <2>5. AccountsOpen(None, users', akey', vault')
      BY <2>1, <2>2 DEF WholeIn, AccountsOpen, Rotates
    <2>6. GrantsOpen(None, grants', vault')
      BY <2>1, <2>2, <2>3 DEF WholeIn, GrantsOpen, Rotates, Rows
    <2>7. NoOpenInvitation(None, registered', grants')
      BY <2>1, <2>2, <2>3, <2>4 DEF WholeIn, NoOpenInvitation, Rows
    <2> QED
      BY <2>1, <2>5, <2>6, <2>7, PutWhole DEF WholeIn, SerialInv
  <1> QED
    BY <1>1, <1>2

\* A rotation takes the vault to the new key, then one grant after the other,
\* and the account last.
LEMMA RotateWhole ==
    ASSUME SerialInv, Whole, NEW slot, Requests = {slot},
           \/ RotateVault(slot) \/ RotateWrite(slot)
           \/ \E e \in Grants : RotateGrant(slot, e)
    PROVE  Whole'
  <1> DEFINE p == requests[slot]
             u == p.actor
  <1>1. p # None /\ p.op = "rotate"
    BY DEF RotateVault, RotateWrite, RotateGrant, At
  <1>2. /\ p \in Request /\ Current(p, users, grants, akey, vault)
        /\ WholeIn(p, users, registered, grants, akey, vault) /\ u \in users /\ u \in Users
    BY <1>1, InSlot DEF Whole, Current, Request
  <1>3. CASE RotateVault(slot)
    <2> DEFINE q == [p EXCEPT !.pc = "keys"]
    <2>1. /\ p.pc = "vault" /\ requests' = [requests EXCEPT ![slot] = q]
          /\ vault' = [vault EXCEPT ![u] = p.ver]
          /\ UNCHANGED <<users, registered, grants, akey>>
      BY <1>2, <1>3 DEF RotateVault, At, GoTo, stages, table
    <2>2. /\ q.op = "rotate" /\ q.pc = "keys" /\ q.actor = u /\ q.left = p.left
          /\ q # None
      BY <1>1, <1>2, NoneFacts DEF Request
    <2> HIDE DEF q
    <2>3. \A w \in Users : w # u => vault'[w] = vault[w]
      BY <2>1 DEF SerialInv, Inv, TypeOK
    <2>4. AccountsOpen(q, users', akey', vault')
      BY <1>2, <2>1, <2>2, <2>3
         DEF WholeIn, AccountsOpen, Rotates, SerialInv, Inv, TypeOK
    <2>5. GrantsOpen(q, grants', vault')
      BY <1>1, <1>2, <2>1, <2>2, <2>3
         DEF WholeIn, GrantsOpen, Rotates, Current, SerialInv, Inv, TypeOK, Row
    <2>6. NoOpenInvitation(q, registered', grants')
      BY <1>1, <1>2, <2>1 DEF WholeIn, NoOpenInvitation
    <2> QED
      BY <2>1, <2>4, <2>5, <2>6, PutWhole DEF WholeIn, SerialInv
  <1>4. CASE RotateWrite(slot)
    <2>1. /\ p.pc = "keys" /\ p.left = {}
          /\ requests' = [requests EXCEPT ![slot] = None]
          /\ akey' = [akey EXCEPT ![u] = p.ver]
          /\ UNCHANGED <<users, registered, grants, vault>>
      BY <1>2, <1>4 DEF RotateWrite, At, Done, stages, table
    <2>2. vault[u] = p.ver
      BY <1>1, <1>2, <2>1 DEF Current
    <2>3. AccountsOpen(None, users', akey', vault')
      BY <1>2, <2>1, <2>2
         DEF WholeIn, AccountsOpen, Rotates, SerialInv, Inv, TypeOK
    <2>4. GrantsOpen(None, grants', vault')
      BY <1>2, <2>1 DEF WholeIn, GrantsOpen
    <2>5. NoOpenInvitation(None, registered', grants')
      BY <1>1, <1>2, <2>1 DEF WholeIn, NoOpenInvitation
    <2> QED
      BY <2>1, <2>3, <2>4, <2>5, PutWhole DEF WholeIn, SerialInv
  <1>5. ASSUME NEW e \in Grants, RotateGrant(slot, e)
        PROVE  Whole'
    <2> DEFINE q == [p EXCEPT !.left = @ \ {e}]
               row == [grants[e] EXCEPT !.keyEncrypted = p.ver]
    <2>1. /\ p.pc = "keys" /\ requests' = [requests EXCEPT ![slot] = q]
          /\ UNCHANGED <<users, registered, akey, vault>>
          /\ IF grants[e] # None /\ grants[e].grantor = u
             THEN grants' = [grants EXCEPT ![e] = row]
             ELSE grants' = grants
      BY <1>5 DEF RotateGrant, At, accounts, loadForGrantor, Update, Rows
    <2>2. /\ q.op = "rotate" /\ q.pc = "keys" /\ q.actor = u
          /\ q.left = p.left \ {e} /\ q # None
      <3>1. q \in Request
        BY <1>2 DEF Request
      <3> QED
        BY <1>1, <1>2, <2>1, <3>1, NoneFacts DEF Request
    <2>3. vault[u] = p.ver
      BY <1>1, <1>2, <2>1 DEF Current
    <2>4. grants[e] # None =>
            /\ row.keyEncrypted = p.ver /\ row.grantor = grants[e].grantor
            /\ row.email = grants[e].email
      BY DEF SerialInv, Inv, TypeOK, Row
    <2> HIDE DEF q, row
    <2>5. AccountsOpen(q, users', akey', vault')
      BY <1>2, <2>1, <2>2 DEF WholeIn, AccountsOpen, Rotates
    <2>6. GrantsOpen(q, grants', vault')
      BY <1>2, <2>1, <2>2, <2>3, <2>4
         DEF WholeIn, GrantsOpen, Rotates, SerialInv, Inv, TypeOK
    <2>7. NoOpenInvitation(q, registered', grants')
      BY <1>1, <1>2, <2>1, <2>4
         DEF WholeIn, NoOpenInvitation, SerialInv, Inv, TypeOK
    <2> QED
      BY <2>1, <2>5, <2>6, <2>7, PutWhole DEF WholeIn, SerialInv
  <1> QED
    BY <1>3, <1>4, <1>5

\* The one-statement handlers, between requests.
LEMMA InstantWhole ==
    ASSUME SerialInv, Whole, Active = {}, Instant
    PROVE  Whole'
  <1>0. /\ grants \in [Grants -> Row \cup {None}]
        /\ \A r \in Requests : requests[r] = None
    BY DEF SerialInv, Inv, TypeOK, Active
  <1>4. ASSUME NEW u \in Users, CreateShell(u)
        PROVE  Whole'
    <2>1. Shell(u) /\ grants' = grants /\ requests' = requests
      BY <1>4 DEF CreateShell, table
    <2>2. ASSUME NEW r \in Requests
          PROVE  WholeIn(None, users', registered', grants', akey', vault')
      <3>1. WholeIn(None, users, registered, grants, akey, vault)
        BY <1>0 DEF Whole
      <3> QED
        BY <2>1, <3>1, ShellWhole
    <2> QED
      BY <1>0, <2>1, <2>2 DEF Whole
  <1> SUFFICES ASSUME ~\E u \in Users : CreateShell(u)
               PROVE  Whole'
    BY <1>4
  <1>1. /\ UNCHANGED <<requests, akey, vault>>
        /\ users' \subseteq users /\ registered' \subseteq registered
    BY DEF Instant, runScheduledJobs, ActivateTwofactor, DeleteAccount, deleteEa,
           accounts, stages
  <1>2. ASSUME NEW e \in Grants, grants'[e] # None
        PROVE  /\ grants[e] # None
               /\ grants'[e].status = grants[e].status
               /\ grants'[e].email = grants[e].email
               /\ grants'[e].grantor = grants[e].grantor
               /\ grants'[e].keyEncrypted = grants[e].keyEncrypted
    <2>1. \/ grants'[e] = grants[e]
          \/ /\ grants[e] # None
             /\ grants'[e] = [grants[e] EXCEPT !.recoveryInitiatedAt = "elapsed"]
      BY <1>0, <1>2 DEF Instant, runScheduledJobs, ActivateTwofactor,
                        DeleteAccount, deleteEa, table, Rows
    <2> QED
      BY <1>0, <1>2, <2>1 DEF Row
  <1>3. ASSUME NEW r \in Requests
        PROVE  WholeIn(None, users', registered', grants', akey', vault')
    <2>1. WholeIn(None, users, registered, grants, akey, vault)
      BY <1>0 DEF Whole
    <2> QED
      BY <1>1, <1>2, <2>1
         DEF WholeIn, AccountsOpen, GrantsOpen, NoOpenInvitation, Rotates
  <1> QED
    BY <1>0, <1>1, <1>3 DEF Whole

\* Any other request that arrives.
LEMMA ArriveWhole ==
    ASSUME SerialInv, Whole, NEW slot, Requests = {slot}, Arrive(slot),
           ~\E u \in Users : RegisterRead(slot, u) \/ SetPasswordRead(slot, u)
    PROVE  Whole'
  <1>1. UNCHANGED <<users, registered, grants, akey, vault>>
    BY DEF Arrive, RotateRead, InviteRead, AcceptRead, ConfirmRead, InitiateRead,
           ApproveRead, RejectRead, UpdateRead, AccessRead, accounts, table
  <1>2. \E q : Begin(slot, q)
    BY Zenon DEF Arrive, RotateRead, InviteRead, AcceptRead, ConfirmRead,
                 InitiateRead, ApproveRead, RejectRead, UpdateRead, AccessRead
  <1> QED
    BY <1>1, <1>2, SameWhole DEF Begin, SerialInv, Owes

\* An insert that a foreign key refuses.
LEMMA FailWhole ==
    ASSUME SerialInv, Whole, NEW slot, Requests = {slot}, Fail(slot), RunToEnd
    PROVE  Whole'
  <1> DEFINE q == requests[slot]
  <1>1. /\ q # None /\ q.op # "rotate"
        /\ q.op = "register" => q.actor \notin users
        /\ requests' = [requests EXCEPT ![slot] = None]
        /\ UNCHANGED <<users, registered, grants, akey, vault>>
    BY DEF Fail, RunToEnd, Done, accounts, table
  <1>2. q.op # "register"
    BY <1>1, InSlot DEF Current
  <1> QED
    BY <1>1, <1>2, SameWhole DEF SerialInv, Owes

\* The request in the slot does not begin to rotate or to register, and the
\* vaults are as they were.
LEMMA SameFresh ==
    ASSUME ShellsFresh, NEW slot, Requests = {slot},
           shells' \subseteq shells, vault' = vault,
           \/ requests'[slot] = None
           \/ requests'[slot].op \notin {"rotate", "register"}
           \/ /\ requests[slot] # None
              /\ requests'[slot].op = requests[slot].op
              /\ requests'[slot].actor = requests[slot].actor
              /\ requests'[slot].pc = "write" => requests[slot].pc = "write"
    PROVE  ShellsFresh'
  BY DEF ShellsFresh

\* A statement of the request in the slot, other than the one that rotates the
\* vault.
LEMMA ContinueFresh ==
    ASSUME SerialInv, ShellsFresh, NEW slot, Requests = {slot},
           Continue(slot), ~RotateVault(slot)
    PROVE  ShellsFresh'
  <1> DEFINE p == requests[slot]
  <1>1. shells' \subseteq shells /\ vault' = vault
    BY DEF Continue, UpdateWrite, AcceptWrite, ConfirmWrite, InitiateWrite,
           ApproveWrite, RejectWrite, AccessAnswer, PasswordWrite,
           PasswordDropTwofactor, RegisterRefused, RegisterWrite, RegisterSweep,
           SetPasswordWrite, RotateWrite, Fail, InviteWrite, RotateGrant,
           accounts, stages
  <1>2. p # None
    BY DEF Continue, UpdateWrite, AcceptWrite, ConfirmWrite, InitiateWrite,
           ApproveWrite, RejectWrite, AccessAnswer, PasswordWrite,
           PasswordDropTwofactor, RegisterRefused, RegisterWrite, RegisterSweep,
           SetPasswordWrite, RotateWrite, Fail, InviteWrite, RotateGrant, At
  <1>3. p \in Request
    BY <1>2, InSlot
  <1>4. \/ Done(slot)
        \/ \E pc \in {"twofactor", "sweep"} : GoTo(slot, pc)
        \/ \E e \in Grants :
             requests' = [requests EXCEPT ![slot] = [p EXCEPT !.left = @ \ {e}]]
    BY DEF Continue, UpdateWrite, AcceptWrite, ConfirmWrite, InitiateWrite,
           ApproveWrite, RejectWrite, AccessAnswer, PasswordWrite,
           PasswordDropTwofactor, RegisterRefused, RegisterWrite, RegisterSweep,
           SetPasswordWrite, RotateWrite, Fail, InviteWrite, RotateGrant
  <1>5. \/ requests'[slot] = None
        \/ /\ requests'[slot].op = p.op /\ requests'[slot].actor = p.actor
           /\ requests'[slot].pc = "write" => p.pc = "write"
    BY <1>3, <1>4 DEF Done, GoTo, SerialInv, Inv, TypeOK, Request
  <1> QED
    BY <1>1, <1>2, <1>5, SameFresh

\* Every step keeps the shells as they are made.
LEMMA ShellsStep ==
    ASSUME NEW slot, Requests = {slot}
    PROVE  SerialInv /\ ShellsFresh /\ [SerialNext]_vars => ShellsFresh'
  <1> SUFFICES ASSUME SerialInv, ShellsFresh, [SerialNext]_vars
               PROVE  ShellsFresh'
    OBVIOUS
  <1>0. /\ requests \in [Requests -> Request \cup {None}]
        /\ vault \in [Users -> Keys] /\ shells \subseteq Users
    BY DEF SerialInv, Inv, TypeOK
  <1>1. CASE Active = {} /\ Instant
    <2>1. requests' = requests /\ \A r \in Requests : requests[r] = None
      BY <1>1 DEF Instant, runScheduledJobs, CreateShell, ActivateTwofactor,
                  DeleteAccount, deleteEa, Active
    <2>2. CASE \E u \in Users : CreateShell(u)
      <3>1. PICK u \in Users : Shell(u)
        BY <2>2 DEF CreateShell
      <3> QED
        BY <1>0, <2>1, <3>1 DEF Shell, ShellsFresh
    <2>3. CASE shells' \subseteq shells /\ vault' = vault
      BY <2>1, <2>3, SameFresh
    <2> QED
      BY <1>1, <2>2, <2>3
         DEF Instant, runScheduledJobs, ActivateTwofactor, DeleteAccount,
             deleteEa, accounts, stages
  <1>2. ASSUME NEW u \in Users, RegisterRead(slot, u)
        PROVE  ShellsFresh'
    <2> DEFINE q == NewRequest("register", "write", u, None)
    <2>1. requests'[slot] = q
      BY <1>0, <1>2 DEF RegisterRead
    <2>2. q.op = "register" /\ q.actor = u
      BY DEF NewRequest
    <2> HIDE DEF q
    <2>3. /\ vault'[u] = 1
          /\ \A w \in shells' : vault'[w] = 1
      BY <1>0, <1>2 DEF RegisterRead, Shell, accounts, ShellsFresh
    <2> QED
      BY <2>1, <2>2, <2>3 DEF ShellsFresh
  <1>3. ASSUME NEW u \in Users, NEW v \in Keys, RotateRead(slot, u, v)
        PROVE  ShellsFresh'
    <2>1. /\ u \notin shells /\ shells' = shells /\ vault' = vault
          /\ requests' = [requests EXCEPT ![slot] =
               [NewRequest("rotate", "vault", u, None) EXCEPT
                  !.ver = v,
                  !.left = {e \in Rows : /\ grants[e].grantor = u
                                         /\ grants[e].status >= Confirmed}]]
      BY <1>3 DEF RotateRead, Begin, accounts
    <2>2. requests'[slot].op = "rotate" /\ requests'[slot].actor = u
      BY <1>0, <2>1 DEF NewRequest
    <2> QED
      BY <2>1, <2>2 DEF ShellsFresh
  <1>4. CASE /\ Arrive(slot)
             /\ ~\E u \in Users : \/ RegisterRead(slot, u)
                                  \/ \E v \in Keys : RotateRead(slot, u, v)
    <2>1. shells' = shells /\ vault' = vault
      BY <1>4
         DEF Arrive, SetPasswordRead, InviteRead, AcceptRead, ConfirmRead,
             InitiateRead, ApproveRead, RejectRead, UpdateRead, AccessRead,
             accounts
    <2>2. PICK u \in Users :
            \/ SetPasswordRead(slot, u)
            \/ \E e \in Grants :
                 \/ \E c \in Users, t \in Types : InviteRead(slot, u, c, t, e)
                 \/ AcceptRead(slot, u, e) \/ ConfirmRead(slot, u, e)
                 \/ InitiateRead(slot, u, e) \/ ApproveRead(slot, u, e)
                 \/ RejectRead(slot, u, e)
                 \/ \E t \in Types : UpdateRead(slot, u, e, t)
                 \/ \E op \in AccessOps : AccessRead(slot, op, u, e)
      BY <1>4, Zenon DEF Arrive
    <2>3. requests'[slot].op \notin {"rotate", "register"}
      <3>1. CASE SetPasswordRead(slot, u)
        BY <1>0, <3>1 DEF SetPasswordRead, Begin, NewRequest
      <3>2. CASE \E e \in Grants, c \in Users, t \in Types :
                   InviteRead(slot, u, c, t, e)
        BY <1>0, <3>2 DEF InviteRead, Begin, NewRequest
      <3>3. CASE \E e \in Grants :
                   \/ AcceptRead(slot, u, e) \/ ConfirmRead(slot, u, e)
                   \/ InitiateRead(slot, u, e) \/ ApproveRead(slot, u, e)
                   \/ RejectRead(slot, u, e)
        BY <1>0, <3>3
           DEF AcceptRead, ConfirmRead, InitiateRead, ApproveRead, RejectRead,
               Begin, NewRequest
      <3>4. CASE \E e \in Grants :
                   \/ \E t \in Types : UpdateRead(slot, u, e, t)
                   \/ \E op \in AccessOps : AccessRead(slot, op, u, e)
        BY <1>0, <3>4 DEF UpdateRead, AccessRead, Begin, NewRequest, AccessOps
      <3> QED
        BY <2>2, <3>1, <3>2, <3>3, <3>4
    <2> QED
      BY <2>1, <2>3, SameFresh
  <1>5. CASE RotateVault(slot)
    <2> DEFINE p == requests[slot]
    <2>1. /\ p # None /\ p.op = "rotate" /\ shells' = shells
          /\ requests' = [requests EXCEPT ![slot] = [p EXCEPT !.pc = "keys"]]
      BY <1>5 DEF RotateVault, At, GoTo, stages
    <2>2. p \in Request /\ p.actor \notin shells
      BY <2>1, InSlot DEF ShellsFresh
    <2>3. \A w \in shells : vault'[w] = vault[w]
      BY <1>0, <1>5, <2>2 DEF RotateVault
    <2>4. /\ requests'[slot].op = "rotate"
          /\ requests'[slot].actor = p.actor
      BY <1>0, <2>1, <2>2 DEF Request
    <2> QED
      BY <2>1, <2>2, <2>3, <2>4 DEF ShellsFresh
  <1>6. CASE UNCHANGED vars
    BY <1>6 DEF vars, ShellsFresh
  <1> QED
    BY <1>1, <1>2, <1>3, <1>4, <1>5, <1>6, ContinueFresh DEF SerialNext

\* Every step leaves the keys and the invitations in order.
LEMMA WholeStep ==
    ASSUME NEW slot, Requests = {slot}, RunToEnd
    PROVE  SerialInv /\ ShellsFresh /\ Whole /\ [SerialNext]_vars => Whole'
  <1> SUFFICES ASSUME SerialInv, ShellsFresh, Whole, [SerialNext]_vars
               PROVE  Whole'
    OBVIOUS
  <1>1. CASE Active = {} /\ Instant
    BY <1>1, InstantWhole
  <1>2. CASE Arrive(slot)
    BY <1>2, ArriveWhole, AccountReadWhole
  <1>3. CASE Continue(slot)
    BY <1>3, RowWriteWhole, PasswordWhole, RotateWhole, FailWhole, InviteWhole,
       AccountWriteWhole, RegisterWhole DEF Continue
  <1>4. CASE UNCHANGED vars
    BY <1>4 DEF vars, Whole
  <1> QED
    BY <1>1, <1>2, <1>3, <1>4 DEF SerialNext

\* The first accounts come with their first key.
LEMMA WholeInit == Init => Whole /\ ShellsFresh
  BY DEF Init, Whole, WholeIn, AccountsOpen, GrantsOpen, NoOpenInvitation,
         ShellsFresh

\* One request at a time and each to its end, one key opens everything: the
\* key users.akey wraps is the key of the vault, and every grant that may be
\* used carries it, after any sequence of rotations, confirmations and
\* takeovers of any number of accounts.
THEOREM OneKeyAlways ==
    ASSUME NEW slot, Requests = {slot}, RunToEnd
    PROVE  SerialSpec => []OneKeyOpensAll
  <1>1. Whole => OneKeyOpensAll
    BY DEF Whole, WholeIn, AccountsOpen, GrantsOpen, Rotates, OneKeyOpensAll,
           Active, Rows
  <1>2. SerialInv /\ [SerialNext]_vars => SerialInv'
    BY SerialInvStep
  <1>3. SerialInv /\ ShellsFresh /\ [SerialNext]_vars => ShellsFresh'
    BY ShellsStep
  <1>4. SerialInv /\ ShellsFresh /\ Whole /\ [SerialNext]_vars => Whole'
    BY WholeStep
  <1> QED
    BY <1>1, <1>2, <1>3, <1>4, SerialInvInit, WholeInit, PTL DEF SerialSpec

\* One request at a time and each to its end, without mail no invitation stays
\* open for somebody who has registered: whether the registration or the
\* invitation came first, whether the account was there before as a shell, and
\* however many of its registrations were refused.
THEOREM RegistrationSettles ==
    ASSUME NEW slot, Requests = {slot}, RunToEnd
    PROVE  SerialSpec => []InvitationsFollowRegistration
  <1>1. Whole => InvitationsFollowRegistration
    BY DEF Whole, WholeIn, NoOpenInvitation, InvitationsFollowRegistration, Active,
           Rows
  <1>2. SerialInv /\ [SerialNext]_vars => SerialInv'
    BY SerialInvStep
  <1>3. SerialInv /\ ShellsFresh /\ [SerialNext]_vars => ShellsFresh'
    BY ShellsStep
  <1>4. SerialInv /\ ShellsFresh /\ Whole /\ [SerialNext]_vars => Whole'
    BY WholeStep
  <1> QED
    BY <1>1, <1>2, <1>3, <1>4, SerialInvInit, WholeInit, PTL DEF SerialSpec

(***************************************************************************)
(* The handlers implement RecoveryGrant                                    *)
(***************************************************************************)
\* How one statement may change a row, as far as its status and its contact
\* go.
Advances(a, b) ==
    /\ a # None /\ b.grantee = a.grantee
    /\ \/ a.status = Accepted /\ b.status = Confirmed
       \/ a.status = Confirmed /\ b.status = RecoveryInitiated
       \/ a.status = RecoveryInitiated /\ b.status = RecoveryApproved
       \/ /\ a.status \in {RecoveryInitiated, RecoveryApproved}
          /\ b.status = Confirmed
RowMoves(a, b) ==
    \/ b = None
    \/ a # None /\ b.status = a.status /\ b.grantee = a.grantee
    \/ a = None /\ b.status = Invited
    \/ /\ a = None \/ a.status = Invited
       /\ b.status = Accepted /\ b.grantee # None
    \/ Advances(a, b)

\* The stage and the holder of a row of the table.
LEMMA StageOfRow ==
    ASSUME NEW e \in Grants, grants[e] \in Row \cup {None}
    PROVE  /\ grants[e] = None => StageOf(e) = "none" /\ HolderOf(e) = None
           /\ grants[e] # None =>
                /\ grants[e].status = Invited =>
                     StageOf(e) = "invited" /\ HolderOf(e) = None
                /\ grants[e].status # Invited => HolderOf(e) = grants[e].grantee
                /\ grants[e].status = Accepted => StageOf(e) = "accepted"
                /\ grants[e].status = Confirmed => StageOf(e) = "confirmed"
                /\ grants[e].status = RecoveryInitiated =>
                     StageOf(e) = "initiated"
                /\ grants[e].status = RecoveryApproved =>
                     StageOf(e) = "approved"
  BY DEF StageOf, HolderOf, Rows, Invited, Accepted, Confirmed,
         RecoveryInitiated, RecoveryApproved

\* The five values of the column.
LEMMA StatusOfRow ==
    ASSUME NEW row \in Row
    PROVE  row.status \in {Invited, Accepted, Confirmed, RecoveryInitiated,
                           RecoveryApproved}
  BY DEF Row, Statuses, Invited, Accepted, Confirmed, RecoveryInitiated,
         RecoveryApproved

\* A row that moves like this makes a step of RecoveryGrant.
LEMMA GrantMoves ==
    ASSUME NEW e \in Grants,
           grants[e] \in Row \cup {None}, grants'[e] \in Row \cup {None},
           grants'[e] = grants[e] \/ RowMoves(grants[e], grants'[e])
    PROVE  \/ Grant!Offer(e) \/ Grant!Accept(e) \/ Grant!Confirm(e)
           \/ Grant!Initiate(e) \/ Grant!Approve(e) \/ Grant!Reject(e)
           \/ Grant!Withdraw(e)
           \/ StageOf(e)' = StageOf(e) /\ HolderOf(e)' = HolderOf(e)
  <1> DEFINE a == grants[e]
             b == grants'[e]
             sa == StageOf(e)
             sb == StageOf(e)'
             ha == HolderOf(e)
             hb == HolderOf(e)'
  <1>1. /\ a = None => sa = "none" /\ ha = None
        /\ a # None =>
             /\ a.status = Invited => sa = "invited" /\ ha = None
             /\ a.status # Invited => ha = a.grantee
             /\ a.status = Accepted => sa = "accepted"
             /\ a.status = Confirmed => sa = "confirmed"
             /\ a.status = RecoveryInitiated => sa = "initiated"
             /\ a.status = RecoveryApproved => sa = "approved"
    BY StageOfRow
  <1>2. /\ b = None => sb = "none" /\ hb = None
        /\ b # None =>
             /\ b.status = Invited => sb = "invited" /\ hb = None
             /\ b.status # Invited => hb = b.grantee
             /\ b.status = Accepted => sb = "accepted"
             /\ b.status = Confirmed => sb = "confirmed"
             /\ b.status = RecoveryInitiated => sb = "initiated"
             /\ b.status = RecoveryApproved => sb = "approved"
    BY DEF StageOf, HolderOf, Rows, Invited, Accepted, Confirmed,
           RecoveryInitiated, RecoveryApproved
  <1>3. /\ [f \in Grants |-> StageOf(f)][e] = sa
        /\ [f \in Grants |-> StageOf(f)]'[e] = sb
        /\ [f \in Grants |-> HolderOf(f)][e] = ha
        /\ [f \in Grants |-> HolderOf(f)]'[e] = hb
    OBVIOUS
  <1>4. /\ a # None => a.status \in {Invited, Accepted, Confirmed,
                                     RecoveryInitiated, RecoveryApproved}
        /\ b # None => b.status \in {Invited, Accepted, Confirmed,
                                     RecoveryInitiated, RecoveryApproved}
    BY StatusOfRow
  <1>5. a = b \/ RowMoves(a, b)
    OBVIOUS
  <1> HIDE DEF a, b, sa, sb, ha, hb
  <1>6. \/ sb = "none" /\ hb = None
        \/ sb = sa /\ hb = ha
        \/ sa = "none" /\ sb = "invited" /\ hb = ha
        \/ sa \in {"none", "invited"} /\ sb = "accepted" /\ hb # None
        \/ sa = "accepted" /\ sb = "confirmed" /\ hb = ha
        \/ sa = "confirmed" /\ sb = "initiated" /\ hb = ha
        \/ sa = "initiated" /\ sb = "approved" /\ hb = ha
        \/ sa \in {"initiated", "approved"} /\ sb = "confirmed" /\ hb = ha
    <2>1. CASE b = None
      BY <1>2, <2>1
    <2>2. CASE a = None /\ b # None
      BY <1>1, <1>2, <1>5, <2>2, StatusFacts DEF RowMoves, Advances
    <2>3. CASE a # None /\ b # None /\ a.status = b.status /\ a.grantee = b.grantee
      BY <1>1, <1>2, <1>4, <2>3
    <2>4. CASE a # None /\ b # None /\ Advances(a, b)
      BY <1>1, <1>2, <2>4, StatusFacts DEF Advances
    <2>5. CASE /\ a # None /\ b # None /\ a.status = Invited
               /\ b.status = Accepted /\ b.grantee # None
      BY <1>1, <1>2, <2>5, StatusFacts
    <2> QED
      BY <1>5, <2>1, <2>2, <2>3, <2>4, <2>5 DEF RowMoves
  <1> QED
    BY <1>3, <1>6
       DEF sa, sb, ha, hb, Grant!Offer, Grant!Accept, Grant!Confirm,
           Grant!Initiate, Grant!Approve, Grant!Reject, Grant!Withdraw,
           Grant!Moves, Grant!Kept

RowsMove ==
    \A e \in Grants : grants'[e] = grants[e] \/ RowMoves(grants[e], grants'[e])

\* The statements that update the row the request holds.
LEMMA HeldRowMoves ==
    ASSUME SerialInv, NEW r \in Requests,
           \/ UpdateWrite(r) \/ AcceptWrite(r) \/ ConfirmWrite(r)
           \/ InitiateWrite(r) \/ ApproveWrite(r) \/ RejectWrite(r)
    PROVE  RowsMove
  <1> DEFINE q == requests[r]
             row == grants[q.grant]
  <1>1. /\ q # None
        /\ q.op \in {"update", "accept", "confirm", "initiate", "approve",
                     "reject"}
    BY DEF UpdateWrite, AcceptWrite, ConfirmWrite, InitiateWrite, ApproveWrite,
           RejectWrite, At
  <1>2. /\ q.grant \in Grants /\ CurrentRow(q, row, akey) /\ row # None
        /\ row \in Row /\ q \in Request
    BY <1>1, HeldRow DEF RowOps
  <1>3. PICK new : Update(q.grant, new) /\ RowMoves(row, new)
    <2>1. CASE UpdateWrite(r)
      <3> WITNESS [row EXCEPT !.atype = q.type]
      <3> QED  BY <1>2, <2>1 DEF UpdateWrite, Row, RowMoves
    <2>2. CASE AcceptWrite(r)
      <3>1. row.status = Invited /\ q.actor # None
        BY <1>2, <2>2, NoneFacts
           DEF AcceptWrite, At, CurrentRow, FoundAt, AccessOps, Request
      <3> WITNESS [row EXCEPT !.grantee = q.actor, !.email = None,
                              !.status = Accepted]
      <3> QED  BY <1>2, <2>2, <3>1 DEF AcceptWrite, Row, RowMoves
    <2>3. CASE ConfirmWrite(r)
      <3>1. row.status = Accepted
        BY <1>2, <2>3 DEF ConfirmWrite, At, CurrentRow, FoundAt,
                      AccessOps
      <3> WITNESS [row EXCEPT !.keyEncrypted = q.ver, !.status = Confirmed]
      <3> QED  BY <1>2, <2>3, <3>1 DEF ConfirmWrite, Row, RowMoves, Advances
    <2>4. CASE InitiateWrite(r)
      <3>1. row.status = Confirmed
        BY <1>2, <2>4 DEF InitiateWrite, At, CurrentRow, FoundAt,
                      AccessOps
      <3> WITNESS [row EXCEPT !.status = RecoveryInitiated,
                              !.recoveryInitiatedAt = "waiting"]
      <3> QED  BY <1>2, <2>4, <3>1 DEF InitiateWrite, Row, RowMoves, Advances
    <2>5. CASE ApproveWrite(r)
      <3>1. row.status = RecoveryInitiated
        BY <1>2, <2>5 DEF ApproveWrite, At, CurrentRow, FoundAt,
                      AccessOps
      <3> WITNESS [row EXCEPT !.status = RecoveryApproved]
      <3> QED  BY <1>2, <2>5, <3>1 DEF ApproveWrite, Row, RowMoves, Advances
    <2>6. CASE RejectWrite(r)
      <3>1. row.status \in {RecoveryInitiated, RecoveryApproved}
        BY <1>2, <2>6 DEF RejectWrite, At, CurrentRow, FoundAt,
                      AccessOps
      <3> WITNESS [row EXCEPT !.status = Confirmed,
                              !.recoveryInitiatedAt = "null"]
      <3> QED  BY <1>2, <2>6, <3>1 DEF RejectWrite, Row, RowMoves, Advances
    <2> QED
      BY <2>1, <2>2, <2>3, <2>4, <2>5, <2>6
  <1> QED
    BY <1>2, <1>3 DEF Update, Rows, RowsMove, SerialInv, Inv, TypeOK

\* An invitation, a rotated key, a registration's sweep.
LEMMA OtherRowMoves ==
    ASSUME SerialInv, NEW r \in Requests,
           \/ InviteWrite(r) \/ RegisterSweep(r)
           \/ \E e \in Grants : RotateGrant(r, e)
    PROVE  RowsMove
  <1> DEFINE q == requests[r]
  <1>0. /\ grants \in [Grants -> Row \cup {None}] /\ RowsLinked
        /\ q # None /\ q \in Request
    BY InSlot DEF SerialInv, Inv, TypeOK, InviteWrite, RegisterSweep,
                  RotateGrant, At
  <1>1. CASE InviteWrite(r)
    <2> DEFINE e == q.grant
               status == IF ~MailEnabled /\ q.found THEN Accepted ELSE Invited
               grantee == IF q.found THEN q.other ELSE None
               new == [grantor |-> q.actor, grantee |-> grantee,
                       email |-> IF q.found THEN None ELSE q.other,
                       keyEncrypted |-> NoKey, atype |-> q.type,
                       status |-> status,
                       recoveryInitiatedAt |-> "null"]
    <2>1. q.op = "invite" /\ grants' = [grants EXCEPT ![e] = new]
      BY <1>1 DEF InviteWrite, At
    <2>2. e \in Grants /\ grants[e] = None /\ q.other # None
      BY <1>0, <2>1, AboutRequest, NoneFacts DEF SerialInv, GrantOps, Claim
    <2>3. new.status = status /\ new.grantee = grantee
      OBVIOUS
    <2>4. \/ status = Invited
          \/ status = Accepted /\ grantee # None
      BY <2>2
    <2> HIDE DEF new, status, grantee
    <2>5. RowMoves(None, new)
      BY <2>3, <2>4 DEF RowMoves
    <2> QED
      BY <1>0, <2>1, <2>2, <2>5 DEF RowsMove
  <1>2. CASE RegisterSweep(r)
    <2> DEFINE new(e) == [grants[e] EXCEPT !.grantee = q.actor, !.email = None,
                                           !.status = Accepted]
    <2>1. grants' = [e \in Grants |->
               IF e \in Rows /\ grants[e].email = q.actor THEN new(e)
               ELSE grants[e]]
      BY <1>2 DEF RegisterSweep
    <2>2. q.actor # None
      BY <1>0, NoneFacts DEF Request
    <2>3. ASSUME NEW e \in Grants, grants[e] # None, grants[e].email = q.actor
          PROVE  RowMoves(grants[e], new(e))
      <3>1. grants[e] \in Row /\ grants[e].status = Invited
        BY <1>0, <2>2, <2>3 DEF RowsLinked, RowLinked
      <3>2. new(e).grantee = q.actor /\ new(e).status = Accepted
        BY <3>1 DEF Row
      <3> QED
        BY <2>2, <2>3, <3>1, <3>2 DEF RowMoves
    <2> HIDE DEF new
    <2> QED
      BY <2>1, <2>3 DEF RowsMove, Rows
  <1>3. ASSUME NEW e \in Grants, RotateGrant(r, e)
        PROVE  RowsMove
    <2> DEFINE new == [grants[e] EXCEPT !.keyEncrypted = q.ver]
    <2>1. \/ grants' = grants
          \/ e \in Rows /\ grants' = [grants EXCEPT ![e] = new]
      BY <1>3 DEF RotateGrant, Update, loadForGrantor
    <2>2. e \in Rows => RowMoves(grants[e], new)
      BY <1>0 DEF RowMoves, Row, Rows
    <2> HIDE DEF new
    <2> QED
      BY <1>0, <2>1, <2>2 DEF RowsMove
  <1> QED
    BY <1>1, <1>2, <1>3

\* Between requests rows are withdrawn, or their wait time runs out.
LEMMA InstantRowMoves ==
    ASSUME SerialInv, Instant
    PROVE  RowsMove
  <1>0. grants \in [Grants -> Row \cup {None}]
    BY DEF SerialInv, Inv, TypeOK
  <1> SUFFICES ASSUME NEW e \in Grants
               PROVE  grants'[e] = grants[e] \/ RowMoves(grants[e], grants'[e])
    BY DEF RowsMove
  <1>1. \/ grants'[e] = grants[e]
        \/ grants'[e] = None
        \/ /\ grants[e] # None
           /\ grants'[e] = [grants[e] EXCEPT !.recoveryInitiatedAt = "elapsed"]
    BY <1>0 DEF Instant, runScheduledJobs, CreateShell, ActivateTwofactor,
                DeleteAccount, deleteEa, table, Rows
  <1> QED
    BY <1>0, <1>1 DEF RowMoves, Row

\* Every step of SerialNext moves the rows this way, or not at all.
LEMMA SerialRowsMove ==
    ASSUME SerialInv, SerialNext
    PROVE  RowsMove
  <1>1. CASE UNCHANGED grants
    BY <1>1 DEF RowsMove
  <1>2. ASSUME NEW r \in Requests, Arrive(r)
        PROVE  RowsMove
    BY <1>1, <1>2
       DEF Arrive, RegisterRead, SetPasswordRead, RotateRead, InviteRead,
           AcceptRead, ConfirmRead, InitiateRead, ApproveRead, RejectRead,
           UpdateRead, AccessRead, table
  <1>3. ASSUME NEW r \in Requests, Continue(r)
        PROVE  RowsMove
    BY <1>1, <1>3, HeldRowMoves, OtherRowMoves
       DEF Continue, AccessAnswer, PasswordWrite, PasswordDropTwofactor,
           RegisterRefused, RegisterWrite, SetPasswordWrite, RotateVault,
           RotateWrite, Fail, table
  <1> QED
    BY <1>2, <1>3, InstantRowMoves DEF SerialNext

\* One request at a time, the handlers implement RecoveryGrant for any number
\* of grants: the contact that accepts stays the same, and only a confirmed
\* contact that has asked for it is approved.
THEOREM HandlersFollowGrant ==
    ASSUME NEW slot, Requests = {slot}
    PROVE  SerialSpec => ImplementsGrant
  <1> DEFINE stage == [e \in Grants |-> StageOf(e)]
             holder == [e \in Grants |-> HolderOf(e)]
  <1>1. Init => Grant!Init
    BY DEF Init, Grant!Init, StageOf, HolderOf, Rows
  <1>2. SerialInv /\ SerialInv' /\ [SerialNext]_vars =>
          Grant!Next \/ UNCHANGED <<stage, holder>>
    <2>1. CASE UNCHANGED vars
      BY <2>1 DEF vars, StageOf, HolderOf, Rows
    <2>2. ASSUME SerialInv, SerialInv', SerialNext
          PROVE  Grant!Next
      <3>1. RowsMove
        BY <2>2, SerialRowsMove
      <3>2. \A e \in Grants : grants[e] \in Row \cup {None}
                              /\ grants'[e] \in Row \cup {None}
        BY <2>2 DEF SerialInv, Inv, TypeOK
      <3>3. ASSUME NEW e \in Grants
            PROVE  \/ Grant!Offer(e) \/ Grant!Accept(e) \/ Grant!Confirm(e)
                   \/ Grant!Initiate(e) \/ Grant!Approve(e) \/ Grant!Reject(e)
                   \/ Grant!Withdraw(e)
                   \/ StageOf(e)' = StageOf(e) /\ HolderOf(e)' = HolderOf(e)
        BY <3>1, <3>2, GrantMoves DEF RowsMove
      <3> QED
        BY <3>3 DEF Grant!Next, Grant!Kept
    <2> QED
      BY <2>1, <2>2
  <1>3. SerialInv /\ [SerialNext]_vars => SerialInv'
    BY SerialInvStep
  <1> QED
    BY <1>1, <1>2, <1>3, SerialInvInit, PTL
       DEF SerialSpec, ImplementsGrant, Grant!Spec
=============================================================================
