------------------------ MODULE OrgMembershipProofs -------------------------
(***************************************************************************)
(* Proofs about OrgMembership for any number of users, organizations,      *)
(* memberships and overlapping requests: its types, that a confirmed       *)
(* member holds the organization's key, and that only Owners make Owners.  *)
(* Then, for requests that do not overlap: one membership for each user,   *)
(* an Owner who stays, Owners alone who touch Owners, members swept by a   *)
(* policy, and the life of a membership (MemberLifecycle).                 *)
(***************************************************************************)
EXTENDS OrgMembership, FiniteSetTheorems, TLAPS

(***************************************************************************)
(* What a request in flight knows.  A handler that is about to write holds *)
(* the row it read; a revoke read it unrevoked, a restore revoked, and a   *)
(* policy sweep accepted.  These are the facts that keep the arithmetic on *)
(* the status column inside Statuses however stale the row is by then.     *)
(***************************************************************************)
NeedsRow(q) == \/ q.pc \in {"count", "check2fa", "checkSingle"}
               \/ q.pc = "write" /\ q.op # "enforce"
               \/ q.pc = "actor" /\ q.op = "confirm"

ReqOK(q) ==
    /\ NeedsRow(q) => q.cur # None
    /\ q.op = "revoke" /\ q.cur # None => q.cur.status >= Invited
    /\ q.op = "restore" /\ q.cur # None => q.cur.status < Invited
    /\ q.op = "enablePolicy" =>
         /\ q.cur # None => q.cur.status >= Accepted
         /\ \A i \in q.items : i.status >= Accepted

RequestsOK ==
    /\ requests \in [Requests -> Request \cup {None}]
    /\ \A r \in Requests : requests[r] # None => ReqOK(requests[r])

TablesOK ==
    /\ users \subseteq Users
    /\ orgs \subseteq Orgs
    /\ members \in [Members -> Row \cup {None}]
    /\ twofactor \subseteq Users
    /\ policies \subseteq Orgs \X Policies

TypeInv == TablesOK /\ RequestsOK

\* The value that stands for a missing row or an idle request is neither.
LEMMA NoneFacts ==
    /\ None \notin Users /\ None \notin Orgs /\ None \notin Members
    /\ None \notin Row /\ None \notin Item /\ None \notin Request
  BY NoneAssumption

\* The arithmetic of setRevoked: subtracting 128 from an active status and
\* adding it to a revoked one stays among the values the column can hold.
LEMMA StatusFacts ==
    /\ Invited \in Statuses /\ Accepted \in Statuses /\ Confirmed \in Statuses
    /\ Revoked \in Statuses
    /\ Statuses \subseteq Int
    /\ \A s \in Statuses : s >= Invited => s - RevokedOffset \in Statuses
    /\ \A s \in Statuses : s < Invited => s + RevokedOffset \in Statuses
  BY DEF Statuses, ActiveStatuses, Invited, Accepted, Confirmed, Revoked,
         RevokedOffset

\* The roles the handlers name are MembershipType values.
LEMMA TypeFacts == Owner \in Types /\ Admin \in Types /\ User \in Types
  BY DEF Types, Owner, Admin, User

\* What a SELECT on users_organizations hands to a handler.
LEMMA SnapshotType ==
    ASSUME TablesOK, NEW m \in Rows
    PROVE  /\ m \in Members
           /\ members[m] \in Row
           /\ Snapshot(m) \in Item
           /\ Snapshot(m) # None
           /\ Snapshot(m).status = members[m].status
  BY NoneFacts DEF TablesOK, Rows, Snapshot, Row, Item

\* A request in flight is well-formed and has passed its handler's checks.
LEMMA RequestType ==
    ASSUME RequestsOK, NEW r \in Requests, requests[r] # None
    PROVE  requests[r] \in Request /\ ReqOK(requests[r])
  BY DEF RequestsOK

\* A request starts well-formed.
LEMMA NewRequestType ==
    ASSUME NEW op \in AllOps,
           NEW pc \in {"actor", "target", "count", "check2fa", "checkSingle",
                       "write", "sweep", "policy"},
           NEW u \in Users \cup {None}, NEW o \in Orgs \cup {None}
    PROVE  NewRequest(op, pc, u, o) \in Request
  BY TypeFacts DEF NewRequest, Request, Policies

(***************************************************************************)
(* The ways a step changes the requests                                    *)
(***************************************************************************)
\* One handler's step leaves the local state of all others alone.
LEMMA PutRequest ==
    ASSUME RequestsOK, NEW r \in Requests, NEW q,
           q = None \/ (q \in Request /\ ReqOK(q)),
           requests' = [requests EXCEPT ![r] = q]
    PROVE  RequestsOK'
  BY DEF RequestsOK, ReqOK, NeedsRow

\* A handler that returns or throws.
LEMMA DoneOK ==
    ASSUME RequestsOK, NEW r \in Requests, Done(r)
    PROVE  RequestsOK'
  BY PutRequest DEF Done

\* A handler that has made its first statement.
LEMMA BeginOK ==
    ASSUME RequestsOK, NEW r \in Requests, NEW q \in Request, ReqOK(q),
           Begin(r, q)
    PROVE  RequestsOK'
  BY PutRequest DEF Begin

\* A bulk route that goes on with its next id drops the row it had read.
LEMMA NextItemOK ==
    ASSUME RequestsOK, NEW r \in Requests, requests[r] # None,
           requests[r].op \in Loops, NextItem(r)
    PROVE  RequestsOK'
  <1> DEFINE q == [requests[r] EXCEPT !.cur = None,
                     !.pc = LoopStart(requests[r].op, requests[r].actor)]
  <1>1. requests[r] \in Request
    BY RequestType
  <1>2. q \in Request
    BY <1>1 DEF Request, LoopStart
  <1>3. ReqOK(q)
    BY <1>1 DEF ReqOK, NeedsRow, Request, LoopStart, Loops
  <1>4. requests' = [requests EXCEPT ![r] = q]
    BY DEF NextItem
  <1> QED
    BY <1>2, <1>3, <1>4, PutRequest

\* A check that passed: the handler still holds the row it is about to write.
LEMMA GotoWriteOK ==
    ASSUME RequestsOK, NEW r \in Requests, requests[r] # None,
           requests[r].cur # None,
           NEW pc \in {"write", "checkSingle"}, Goto(r, pc)
    PROVE  RequestsOK'
  <1> DEFINE q == [requests[r] EXCEPT !.pc = pc]
  <1>1. requests[r] \in Request /\ ReqOK(requests[r])
    BY RequestType
  <1>2. q \in Request
    BY <1>1 DEF Request
  <1>3. ReqOK(q)
    BY <1>1 DEF ReqOK, NeedsRow, Request
  <1>4. requests' = [requests EXCEPT ![r] = q]
    BY DEF Goto
  <1> QED
    BY <1>2, <1>3, <1>4, PutRequest

\* The row passed the check on its status that the handler makes.
ItemFor(op, i) ==
    /\ op = "revoke" => i.status >= Invited
    /\ op = "restore" => i.status < Invited
    /\ op = "enablePolicy" => i.status >= Accepted

\* A handler that has read a row its own checks accept.
LEMMA ReadOK ==
    ASSUME RequestsOK, NEW r \in Requests, requests[r] # None,
           NEW i \in Item, NEW pc \in {"actor", "count", "write"},
           ItemFor(requests[r].op, i), Read(r, i, pc)
    PROVE  RequestsOK'
  <1> DEFINE q == [requests[r] EXCEPT !.cur = i, !.pc = pc]
  <1>1. requests[r] \in Request /\ ReqOK(requests[r])
    BY RequestType
  <1>2. q \in Request
    BY <1>1 DEF Request
  <1>3. ReqOK(q)
    BY <1>1, NoneFacts DEF ReqOK, NeedsRow, Request, ItemFor
  <1>4. requests' = [requests EXCEPT ![r] = q]
    BY DEF Read
  <1> QED
    BY <1>2, <1>3, <1>4, PutRequest

(***************************************************************************)
(* The ways a step changes the membership table                            *)
(***************************************************************************)
\* UPDATE users_organizations SET status = ? WHERE uuid = ?
LEMMA SetStatusOK ==
    ASSUME TablesOK, NEW m \in Members, NEW s \in Statuses, SetStatus(m, s)
    PROVE  members' \in [Members -> Row \cup {None}]
  <1>1. CASE members[m] = None
    BY <1>1 DEF SetStatus, TablesOK
  <1>2. CASE members[m] # None
    <2>1. [members[m] EXCEPT !.status = s] \in Row
      BY <1>2 DEF TablesOK, Row
    <2> QED
      BY <1>2, <2>1 DEF SetStatus, TablesOK
  <1> QED
    BY <1>1, <1>2

\* INSERT INTO users_organizations by a creation, an invite or an import.
LEMMA InsertOK ==
    ASSUME TablesOK, NEW r \in Requests, requests[r] \in Request,
           requests[r].cur # None, NEW key \in Keys, Insert(r, key)
    PROVE  TablesOK'
  <1> DEFINE q == requests[r]
             row == [user |-> q.cur.user, org |-> q.org, atype |-> q.cur.atype,
                     status |-> q.cur.status, akey |-> key]
  <1>1. q.cur \in Item
    BY DEF Request
  <1>2. q.org \in Orgs
    BY DEF Insert, TablesOK
  <1>3. row \in Row
    BY <1>1, <1>2 DEF Row, Item
  <1>4. members' = [members EXCEPT ![q.cur.id] = row]
    BY DEF Insert
  <1>5. members' \in [Members -> Row \cup {None}]
    BY <1>3, <1>4 DEF TablesOK
  <1> QED
    BY <1>5 DEF TablesOK, Insert

\* DELETE FROM users_organizations by removeMember and leave.
LEMMA DeleteOK ==
    ASSUME TablesOK, NEW r \in Requests, Delete(r)
    PROVE  TablesOK'
  BY DEF Delete, TablesOK

\* UPDATE ... SET atype = ? by editMember and the admin panel.
LEMMA SetTypeOK ==
    ASSUME TypeInv, NEW r \in Requests, NEW op, op # "enforce", SetType(r, op)
    PROVE  TypeInv'
  <1> DEFINE m == requests[r].cur.id
  <1>1. requests[r] \in Request /\ ReqOK(requests[r])
    BY RequestType DEF SetType, At, TypeInv
  <1>2. members' \in [Members -> Row \cup {None}]
    <2>1. CASE members[m] = None
      BY <2>1 DEF SetType, TypeInv, TablesOK
    <2>2. CASE members[m] # None
      <3>1. m \in Members
        BY <1>1 DEF Request, ReqOK, NeedsRow, SetType, At, Item
      <3>2. [members[m] EXCEPT !.atype = requests[r].type] \in Row
        BY <1>1, <2>2, <3>1 DEF TypeInv, TablesOK, Row, Request
      <3> QED
        BY <2>2, <3>1, <3>2 DEF SetType, TypeInv, TablesOK
    <2> QED
      BY <2>1, <2>2
  <1>3. TablesOK'
    BY <1>2 DEF SetType, TypeInv, TablesOK
  <1> QED
    BY <1>3, DoneOK DEF SetType, TypeInv

\* A step that only reads.
LEMMA TablesUnchanged ==
    ASSUME TablesOK, UNCHANGED tables
    PROVE  TablesOK'
  BY DEF TablesOK, tables

(***************************************************************************)
(* Arriving requests                                                       *)
(***************************************************************************)
\* The first statement of every handler leaves a well-formed request behind.
LEMMA ArriveOK ==
    ASSUME TypeInv, NEW r \in Requests, Arrive(r)
    PROVE  TypeInv'
  <1> USE DEF TypeInv
  <1>1. CASE BeginAdminRoute(r)
    <2>1. PICK u \in users, o \in orgs, op \in AdminOps \cup OwnerOps,
               t \in Types, p \in Policies, min \in Types :
                 requireMember(r, u, o, min, op, t, p)
      BY <1>1, InputAssumption, TypeFacts DEF BeginAdminRoute, Policies
    <2>2. PICK m \in findConfirmedMembership(u, o) :
            Begin(r, [NewRequest(op, AfterAuth(op, u, t), u, o) EXCEPT
                        !.asOwner = members[m].atype = Owner,
                        !.type = t, !.policy = p])
      BY <2>1 DEF requireMember
    <2> DEFINE q == [NewRequest(op, AfterAuth(op, u, t), u, o) EXCEPT
                       !.asOwner = members[m].atype = Owner,
                       !.type = t, !.policy = p]
    <2>3. q \in Request
      <3>1. op \in AllOps /\ u \in Users /\ o \in Orgs
        BY DEF AdminOps, OwnerOps, AllOps, TablesOK
      <3>2. AfterAuth(op, u, t) \in {"actor", "target"}
        BY DEF AfterAuth, LoopStart
      <3>3. (members[m].atype = Owner) \in BOOLEAN
        OBVIOUS
      <3> QED
        BY <3>1, <3>2, <3>3 DEF NewRequest, Request
    <2>4. ReqOK(q)
      BY DEF NewRequest, AfterAuth, LoopStart, ReqOK, NeedsRow
    <2>5. RequestsOK'
      BY <2>2, <2>3, <2>4, BeginOK
    <2> QED
      BY <2>1, <2>5, TablesUnchanged DEF requireMember
  <1>2. ASSUME NEW o \in Orgs, BeginImport(r, o)
        PROVE  TypeInv'
    <2>1. PICK op \in {"import", "revoke", "restore"} :
            Begin(r, [NewRequest(op, "target", None, o) EXCEPT
                        !.asOwner = TRUE])
      BY <1>2 DEF BeginImport
    <2> DEFINE q == [NewRequest(op, "target", None, o) EXCEPT !.asOwner = TRUE]
    <2>2. q \in Request /\ ReqOK(q)
      BY TypeFacts DEF NewRequest, Request, AllOps, AdminOps, Policies, ReqOK,
                       NeedsRow
    <2>3. RequestsOK'
      BY <2>1, <2>2, BeginOK
    <2> QED
      BY <1>2, <2>3, TablesUnchanged DEF BeginImport
  <1>3. ASSUME NEW u \in Users, LoginWithout2fa(r, u) \/ LoginWithRecoveryCode(r, u)
        PROVE  TypeInv'
    <2> DEFINE q == NewRequest("enforce", "policy", u, None)
    <2>1. q \in Request /\ ReqOK(q)
      BY TypeFacts DEF NewRequest, Request, AllOps, Policies, ReqOK, NeedsRow
    <2>2. RequestsOK'
      BY <1>3, <2>1, BeginOK DEF LoginWithout2fa, LoginWithRecoveryCode
    <2>3. TablesOK'
      BY <1>3 DEF LoginWithout2fa, LoginWithRecoveryCode, TablesOK, tables
    <2> QED
      BY <2>2, <2>3
  <1>4. ASSUME NEW u \in Users, NEW m \in Members, AcceptRead(r, u, m)
        PROVE  TypeInv'
    <2> DEFINE q == [NewRequest("accept", "check2fa", u, members[m].org) EXCEPT
                       !.cur = Snapshot(m)]
    <2>1. members[m] \in Row /\ Snapshot(m) \in Item /\ Snapshot(m) # None
      BY <1>4, SnapshotType DEF AcceptRead
    <2>2. q \in Request /\ ReqOK(q)
      BY <2>1, TypeFacts DEF NewRequest, Request, Row, AllOps, Policies, ReqOK,
                             NeedsRow
    <2>3. RequestsOK'
      BY <1>4, <2>2, BeginOK DEF AcceptRead
    <2> QED
      BY <1>4, <2>3, TablesUnchanged DEF AcceptRead
  <1>5. ASSUME NEW u \in Users, NEW m \in Members, LeaveRead(r, u, m)
        PROVE  TypeInv'
    <2> DEFINE q == [NewRequest("leave", LastOwnerCheck(m), u, members[m].org)
                       EXCEPT !.cur = Snapshot(m)]
    <2>1. members[m] \in Row /\ Snapshot(m) \in Item /\ Snapshot(m) # None
      BY <1>5, SnapshotType DEF LeaveRead
    <2>2. q \in Request /\ ReqOK(q)
      BY <2>1, TypeFacts DEF NewRequest, Request, Row, AllOps, Policies, ReqOK,
                             NeedsRow, LastOwnerCheck
    <2>3. RequestsOK'
      BY <1>5, <2>2, BeginOK DEF LeaveRead
    <2> QED
      BY <1>5, <2>3, TablesUnchanged DEF LeaveRead
  <1>6. ASSUME NEW u \in Users, NEW m \in Members, NEW o \in Orgs,
               CreateOrg(r, u, o, m)
        PROVE  TypeInv'
    <2> DEFINE i == [id |-> m, user |-> u, atype |-> Owner,
                     status |-> Confirmed]
               q == [NewRequest("create", "write", u, o) EXCEPT !.cur = i]
    <2>1. i \in Item /\ i # None
      BY TypeFacts, StatusFacts, NoneFacts DEF Item
    <2>2. q \in Request /\ ReqOK(q)
      BY <2>1, TypeFacts DEF NewRequest, Request, AllOps, Policies, ReqOK,
                             NeedsRow
    <2>3. RequestsOK'
      BY <1>6, <2>2, BeginOK DEF CreateOrg
    <2> QED
      BY <1>6, <2>3 DEF CreateOrg, TablesOK
  <1>7. ASSUME NEW m \in Members, NEW t \in InputTypes, AdminTypeRead(r, m, t)
        PROVE  TypeInv'
    <2> DEFINE pc == IF members[m].atype = Owner /\ t # Owner
                     THEN "count" ELSE "write"
               q == [NewRequest("adminType", pc, None, members[m].org) EXCEPT
                       !.type = t, !.cur = Snapshot(m)]
    <2>1. members[m] \in Row /\ Snapshot(m) \in Item /\ Snapshot(m) # None
      BY <1>7, SnapshotType DEF AdminTypeRead
    <2>2. q \in Request /\ ReqOK(q)
      BY <2>1, InputAssumption
         DEF NewRequest, Request, Row, AllOps, Policies, ReqOK, NeedsRow
    <2>3. RequestsOK'
      BY <1>7, <2>2, BeginOK DEF AdminTypeRead
    <2> QED
      BY <1>7, <2>3, TablesUnchanged DEF AdminTypeRead
  <1> QED
    BY <1>1, <1>2, <1>3, <1>4, <1>5, <1>6, <1>7 DEF Arrive

(***************************************************************************)
(* Requests in flight: reads                                               *)
(***************************************************************************)
\* The row reads of confirm, edit, remove, revoke and restore.
LEMMA ReadsOK ==
    ASSUME TypeInv, NEW r \in Requests, NEW m \in Members,
           \/ ConfirmRead(r, m) \/ EditRead(r, m) \/ RemoveRead(r, m)
           \/ RevokeRead(r, m) \/ RestoreRead(r, m)
    PROVE  TypeInv'
  <1> USE DEF TypeInv
  <1>1. /\ m \in Rows /\ requests[r] # None /\ UNCHANGED tables
        /\ ItemFor(requests[r].op, Snapshot(m))
        /\ \E pc \in {"actor", "count", "write"} : Read(r, Snapshot(m), pc)
    BY SnapshotType
       DEF ConfirmRead, EditRead, RemoveRead, RevokeRead, RestoreRead, At,
           LastOwnerCheck, ItemFor
  <1> QED
    BY <1>1, SnapshotType, ReadOK, TablesUnchanged

\* The lookup of an invited or imported email.
LEMMA ReadInviteeOK ==
    ASSUME TypeInv, NEW r \in Requests, NEW op \in {"invite", "import"},
           NEW u \in Users, NEW m \in Members, NEW t \in Types,
           NEW s \in Statuses, ReadInvitee(r, op, u, m, t, s)
    PROVE  TypeInv'
  <1> DEFINE i == [id |-> m, user |-> u, atype |-> t, status |-> s]
  <1>1. i \in Item
    BY DEF Item
  <1>2. ItemFor(requests[r].op, i) /\ requests[r] # None /\ Read(r, i, "write")
    BY DEF ItemFor, ReadInvitee, At
  <1>3. RequestsOK'
    BY <1>1, <1>2, ReadOK DEF TypeInv
  <1> QED
    BY <1>3 DEF TypeInv, TablesOK, ReadInvitee

\* The member lists that putPolicyHandler and enforce2faPolicy read hold only
\* accepted or confirmed rows.
LEMMA SweepReadsOK ==
    ASSUME TypeInv, NEW r \in Requests,
           PolicyReadMembers(r) \/ EnforceRead(r)
    PROVE  TypeInv'
  <1>1. requests[r] \in Request /\ ReqOK(requests[r]) /\ requests[r] # None
    BY RequestType DEF TypeInv, PolicyReadMembers, EnforceRead, At
  <1>2. \A M \in SUBSET Rows :
          /\ {i \in {Snapshot(m) : m \in M} : Sweepable(i)} \subseteq Item
          /\ \A i \in {i \in {Snapshot(m) : m \in M} : Sweepable(i)} :
               i.status >= Accepted
    BY SnapshotType DEF TypeInv, Sweepable
  <1>3. PICK M \in SUBSET Rows, pc \in {"sweep", "write"} :
          LET S == {i \in {Snapshot(m) : m \in M} : Sweepable(i)}
          IN  /\ requests' = [requests EXCEPT ![r].items = S, ![r].pc = pc]
              /\ pc = "write" => requests[r].op = "enforce"
    <2>1. CASE PolicyReadMembers(r)
      <3> WITNESS {n \in Rows : members[n].org = requests[r].org}
                    \in SUBSET Rows, "sweep" \in {"sweep", "write"}
      <3> QED BY <2>1 DEF PolicyReadMembers
    <2>2. CASE EnforceRead(r)
      <3> WITNESS {m \in Rows : /\ members[m].user = requests[r].actor
                                /\ <<members[m].org, "TwoFactor">> \in policies}
                    \in SUBSET Rows, "write" \in {"sweep", "write"}
      <3> QED BY <2>2 DEF EnforceRead, At
    <2> QED
      BY <2>1, <2>2
  <1> DEFINE S == {i \in {Snapshot(m) : m \in M} : Sweepable(i)}
             q == [requests[r] EXCEPT !.items = S, !.pc = pc]
  <1>4. S \subseteq Item /\ \A i \in S : i.status >= Accepted
    BY <1>2
  <1>5. q \in Request
    BY <1>1, <1>4 DEF Request
  <1>6. ReqOK(q)
    BY <1>1, <1>3, <1>4 DEF ReqOK, NeedsRow, Request
  <1>7. RequestsOK'
    BY <1>3, <1>5, <1>6, PutRequest DEF TypeInv
  <1> QED
    BY <1>7, TablesUnchanged DEF TypeInv, PolicyReadMembers, EnforceRead

\* The sweep of putPolicyHandler takes one of the rows it has read.
LEMMA PolicyCheckMemberOK ==
    ASSUME TypeInv, NEW r \in Requests, NEW i, PolicyCheckMember(r, i)
    PROVE  TypeInv'
  <1> DEFINE c == Complies(i, requests[r].org, requests[r].policy)
             q == [requests[r] EXCEPT !.items = requests[r].items \ {i},
                     !.cur = IF c THEN None ELSE i,
                     !.pc = IF c THEN "sweep" ELSE "write"]
  <1>1. requests[r] \in Request /\ ReqOK(requests[r])
    BY RequestType DEF TypeInv, PolicyCheckMember, At
  <1>2. i \in Item /\ i.status >= Accepted /\ i # None
    BY <1>1, NoneFacts DEF PolicyCheckMember, Request, ReqOK, At
  <1> HIDE DEF c
  <1>3. q \in Request
    BY <1>1, <1>2 DEF Request
  <1>4. ReqOK(q)
    BY <1>1, <1>2 DEF ReqOK, NeedsRow, Request, PolicyCheckMember, At
  <1>5. requests' = [requests EXCEPT ![r] = q]
    BY DEF PolicyCheckMember, c
  <1>6. RequestsOK'
    BY <1>3, <1>4, <1>5, PutRequest DEF TypeInv
  <1> QED
    BY <1>6, TablesUnchanged DEF TypeInv, PolicyCheckMember

\* The second look at the actor's own membership.
LEMMA ReadActorOK ==
    ASSUME TypeInv, NEW r \in Requests, ReadActor(r)
    PROVE  TypeInv'
  <1>1. requests[r] \in Request /\ ReqOK(requests[r])
    BY RequestType DEF TypeInv, ReadActor
  <1> DEFINE found == findConfirmedMembership(requests[r].actor,
                                              requests[r].org)
             Roles == IF found = {} THEN {FALSE}
                      ELSE {members[m].atype = Owner : m \in found}
  <1>2. PICK owner \in Roles :
          requests' = [requests EXCEPT
            ![r].asOwner = owner,
            ![r].pc = IF requests[r].op = "confirm" THEN "write" ELSE "target"]
    BY DEF ReadActor
  <1>b. owner \in BOOLEAN
    BY <1>2, Zenon
  <1> DEFINE q == [requests[r] EXCEPT !.asOwner = owner,
                     !.pc = IF requests[r].op = "confirm" THEN "write"
                            ELSE "target"]
  <1> HIDE DEF found, Roles
  <1>3. q \in Request
    BY <1>1, <1>b DEF Request
  <1>4. ReqOK(q)
    BY <1>1 DEF ReqOK, NeedsRow, Request, ReadActor
  <1>5. requests' = [requests EXCEPT ![r] = q]
    BY <1>2
  <1> HIDE DEF q
  <1>6. RequestsOK'
    BY <1>3, <1>4, <1>5, PutRequest DEF TypeInv
  <1> QED
    BY <1>6, TablesUnchanged DEF TypeInv, ReadActor

(***************************************************************************)
(* Requests in flight: writes                                              *)
(***************************************************************************)
\* A handler about to write holds a row, and the row passed its checks.
LEMMA CurType ==
    ASSUME RequestsOK, NEW r \in Requests, requests[r] # None,
           requests[r].pc = "write", requests[r].op # "enforce"
    PROVE  /\ requests[r] \in Request /\ requests[r].cur # None
           /\ requests[r].cur \in Item
           /\ requests[r].cur.id \in Members
           /\ requests[r].cur.status \in Statuses
           /\ ItemFor(requests[r].op, requests[r].cur)
  <1>1. requests[r] \in Request /\ ReqOK(requests[r])
    BY RequestType
  <1>2. requests[r].cur # None /\ ItemFor(requests[r].op, requests[r].cur)
    BY <1>1 DEF ReqOK, NeedsRow, ItemFor
  <1>3. requests[r].cur \in Item
    BY <1>1, <1>2 DEF Request
  <1> QED
    BY <1>1, <1>2, <1>3 DEF Item

\* accept, setRevoked and the policy sweep write a status computed from the
\* row as it was read, however stale: it is a legal one all the same.
LEMMA StatusWritesOK ==
    ASSUME TypeInv, NEW r \in Requests,
           \/ AcceptWrite(r) \/ RevokeWrite(r) \/ RestoreWrite(r)
           \/ PolicyRevokeMember(r)
    PROVE  TypeInv'
  <1> USE DEF TypeInv
  <1> DEFINE q == requests[r]
  <1>1. q # None /\ q.pc = "write" /\ q.op # "enforce"
    BY DEF AcceptWrite, RevokeWrite, RestoreWrite, PolicyRevokeMember, At
  <1>2. /\ q \in Request /\ q.cur # None /\ q.cur.id \in Members
        /\ q.cur.status \in Statuses /\ ItemFor(q.op, q.cur)
    BY <1>1, CurType
  <1>3. PICK s \in Statuses : SetStatus(q.cur.id, s)
    <2>1. CASE AcceptWrite(r)
      BY <2>1, StatusFacts DEF AcceptWrite
    <2>2. CASE RevokeWrite(r)
      BY <2>2, <1>2, StatusFacts DEF RevokeWrite, At, ItemFor
    <2>3. CASE RestoreWrite(r)
      BY <2>3, <1>2, StatusFacts DEF RestoreWrite, At, ItemFor
    <2>4. CASE PolicyRevokeMember(r)
      <3>0. q.cur.status >= Accepted /\ q.cur.status \in Int
        BY <2>4, <1>2, StatusFacts DEF PolicyRevokeMember, At, ItemFor
      <3>1. q.cur.status >= Invited
        BY <3>0 DEF Accepted, Invited
      <3> QED
        BY <2>4, <3>1, <1>2, StatusFacts DEF PolicyRevokeMember
    <2> QED
      BY <2>1, <2>2, <2>3, <2>4
  <1>4. members' \in [Members -> Row \cup {None}]
    BY <1>2, <1>3, SetStatusOK
  <1>5. TablesOK'
    BY <1>4 DEF TablesOK, AcceptWrite, RevokeWrite, RestoreWrite,
                PolicyRevokeMember
  <1>6. RequestsOK'
    <2>1. CASE AcceptWrite(r)
      BY <2>1, DoneOK DEF AcceptWrite
    <2>2. CASE RevokeWrite(r) \/ RestoreWrite(r)
      BY <2>2, <1>1, NextItemOK DEF RevokeWrite, RestoreWrite, At, Loops
    <2>3. CASE PolicyRevokeMember(r)
      <3> DEFINE p == [q EXCEPT !.cur = None, !.pc = "sweep"]
      <3>1. p \in Request
        BY <1>2 DEF Request
      <3>2. ReqOK(p)
        BY <1>1, <1>2, <2>3, RequestType
           DEF ReqOK, NeedsRow, Request, PolicyRevokeMember, At
      <3>3. requests' = [requests EXCEPT ![r] = p]
        BY <2>3 DEF PolicyRevokeMember, Read
      <3> QED
        BY <3>1, <3>2, <3>3, PutRequest
    <2> QED
      BY <2>1, <2>2, <2>3
  <1> QED
    BY <1>5, <1>6

\* What a confirmation leaves in the column.
LEMMA ConfirmedKeyFacts ==
    ASSUME NEW old \in Keys, NEW key \in ConfirmKeys
    PROVE  ConfirmedKey(old, key) \in Keys \ {""}
  BY InputAssumption DEF ConfirmedKey, Keys, AllConfirmKeys

\* confirmMember writes status and key together.
LEMMA ConfirmWriteOK ==
    ASSUME TypeInv, NEW r \in Requests, NEW key \in ConfirmKeys,
           ConfirmWrite(r, key)
    PROVE  TypeInv'
  <1> USE DEF TypeInv
  <1> DEFINE m == requests[r].cur.id
  <1>1. requests[r] # None /\ m \in Members
    BY CurType DEF ConfirmWrite, At
  <1>2. members' \in [Members -> Row \cup {None}]
    <2>1. CASE members[m] = None
      BY <2>1 DEF ConfirmWrite, TablesOK
    <2>2. CASE members[m] # None
      <3>1. ConfirmedKey(members[m].akey, key) \in Keys
        BY <1>1, <2>2, ConfirmedKeyFacts DEF TablesOK, Row
      <3>2. [members[m] EXCEPT !.status = Confirmed,
                               !.akey = ConfirmedKey(@, key)] \in Row
        BY <1>1, <2>2, <3>1, StatusFacts DEF TablesOK, Row
      <3> QED
        BY <1>1, <2>2, <3>2 DEF ConfirmWrite, TablesOK
    <2> QED
      BY <2>1, <2>2
  <1>3. TablesOK'
    BY <1>2 DEF ConfirmWrite, TablesOK
  <1>4. RequestsOK'
    BY <1>1, NextItemOK DEF ConfirmWrite, At, Loops
  <1> QED
    BY <1>3, <1>4

\* The inserts of a creation, an invite and an import.
LEMMA InsertWritesOK ==
    ASSUME TypeInv, NEW r \in Requests,
           CreateOwner(r) \/ InviteWrite(r) \/ ImportInsert(r)
    PROVE  TypeInv'
  <1> USE DEF TypeInv
  <1>1. requests[r] # None /\ requests[r] \in Request /\ requests[r].cur # None
    BY CurType DEF CreateOwner, InviteWrite, ImportInsert, At
  <1>2. PICK key \in Keys : Insert(r, key)
    BY DEF CreateOwner, InviteWrite, ImportInsert, Keys
  <1>3. TablesOK'
    BY <1>1, <1>2, InsertOK
  <1>4. CASE CreateOwner(r)
    BY <1>3, <1>4, DoneOK DEF CreateOwner
  <1>5. CASE InviteWrite(r) \/ ImportInsert(r)
    BY <1>1, <1>3, <1>5, NextItemOK DEF InviteWrite, ImportInsert, At, Loops
  <1> QED
    BY <1>4, <1>5

\* enforce2faPolicy writes the bare Revoked.
LEMMA EnforceRevokeOK ==
    ASSUME TypeInv, NEW r \in Requests, NEW i, EnforceRevoke(r, i)
    PROVE  TypeInv'
  <1> USE DEF TypeInv
  <1>1. requests[r] \in Request /\ ReqOK(requests[r]) /\ requests[r] # None
    BY RequestType DEF EnforceRevoke, At
  <1>2. i \in Item
    BY <1>1 DEF EnforceRevoke, Request
  <1>3. TablesOK'
    BY <1>2, SetStatusOK, StatusFacts DEF EnforceRevoke, TablesOK, Item
  <1> DEFINE q == [requests[r] EXCEPT !.items = requests[r].items \ {i}]
  <1>4. q \in Request
    BY <1>1 DEF Request
  <1>5. ReqOK(q)
    BY <1>1 DEF ReqOK, NeedsRow, Request
  <1>6. requests' = [requests EXCEPT ![r] = q]
    BY DEF EnforceRevoke
  <1>7. RequestsOK'
    BY <1>4, <1>5, <1>6, PutRequest
  <1> QED
    BY <1>3, <1>7

\* Deletions, policy rows and the end of a handler.
LEMMA FinalWritesOK ==
    ASSUME TypeInv, NEW r \in Requests,
           \/ EndRequest(r) \/ RemoveWrite(r) \/ LeaveWrite(r)
           \/ PolicyEnable(r) \/ PolicyDisable(r) \/ DeleteOrg(r)
    PROVE  TypeInv'
  <1> USE DEF TypeInv
  <1>1. CASE EndRequest(r)
    BY <1>1, DoneOK, TablesUnchanged DEF EndRequest
  <1>2. CASE RemoveWrite(r)
    BY <1>2, DeleteOK, NextItemOK DEF RemoveWrite, At, Loops
  <1>3. CASE LeaveWrite(r)
    BY <1>3, DeleteOK, DoneOK DEF LeaveWrite
  <1>4. CASE PolicyEnable(r)
    <2>1. requests[r] \in Request
      BY <1>4, RequestType DEF PolicyEnable, At
    <2>2. policies' \subseteq Orgs \X Policies
      BY <1>4, <2>1 DEF PolicyEnable, TablesOK, Request
    <2> QED
      BY <1>4, <2>2, DoneOK DEF PolicyEnable, TablesOK
  <1>5. CASE PolicyDisable(r)
    BY <1>5, DoneOK DEF PolicyDisable, TablesOK
  <1>6. CASE DeleteOrg(r)
    BY <1>6, DoneOK DEF DeleteOrg, TablesOK
  <1> QED
    BY <1>1, <1>2, <1>3, <1>4, <1>5, <1>6

(***************************************************************************)
(* Handlers with one statement                                             *)
(***************************************************************************)
\* Accepting every open invitation, changing the second factor, deleting and
\* registering an account write well-formed rows and touch no request.
LEMMA InstantOK ==
    ASSUME TypeInv, Instant
    PROVE  TypeInv'
  <1> USE DEF TypeInv
  <1>1. PICK u \in Users :
          \/ AcceptOpenInvitations(u) \/ ActivateTwofactor(u)
          \/ DisableTwofactor(u) \/ DeleteAccount(u) \/ RegisterAccount(u)
    BY DEF Instant
  <1>2. UNCHANGED requests
    BY <1>1 DEF AcceptOpenInvitations, ActivateTwofactor, DisableTwofactor,
                DeleteAccount, RegisterAccount
  <1>3. RequestsOK'
    BY <1>2 DEF RequestsOK, ReqOK, NeedsRow
  <1>4. CASE AcceptOpenInvitations(u)
    <2>1. \A m \in Rows : [members[m] EXCEPT !.status = Accepted] \in Row
      BY SnapshotType, StatusFacts DEF Row
    <2>2. members' \in [Members -> Row \cup {None}]
      BY <1>4, <2>1 DEF AcceptOpenInvitations, TablesOK, Rows
    <2> QED
      BY <1>3, <1>4, <2>2 DEF AcceptOpenInvitations, TablesOK
  <1>5. CASE DeleteAccount(u)
    BY <1>3, <1>5 DEF DeleteAccount, TablesOK
  <1>6. CASE ActivateTwofactor(u) \/ DisableTwofactor(u) \/ RegisterAccount(u)
    BY <1>3, <1>6
       DEF ActivateTwofactor, DisableTwofactor, RegisterAccount, TablesOK
  <1> QED
    BY <1>1, <1>4, <1>5, <1>6

(***************************************************************************)
(* Every step of a request in flight                                       *)
(***************************************************************************)
\* Whatever statement a handler is at, and whatever other requests did to the
\* rows it has read, it leaves the tables and its own state well-formed.
LEMMA ContinueOK ==
    ASSUME TypeInv, NEW r \in Requests, Continue(r)
    PROVE  TypeInv'
  <1> USE DEF TypeInv
  <1>1. CASE SkipItem(r)
    BY <1>1, NextItemOK, TablesUnchanged DEF SkipItem
  <1>2. CASE CountOwners(r) \/ AcceptCheck2fa(r) \/ AcceptCheckSingleOrg(r)
    <2>1. requests[r] # None /\ UNCHANGED tables
      BY <1>2 DEF CountOwners, AcceptCheck2fa, AcceptCheckSingleOrg, At
    <2>2. requests[r].cur # None
      BY <1>2, <2>1, RequestType
         DEF CountOwners, AcceptCheck2fa, AcceptCheckSingleOrg, At, ReqOK,
             NeedsRow
    <2>3. PICK pc \in {"write", "checkSingle"} : Goto(r, pc)
      BY <1>2 DEF CountOwners, AcceptCheck2fa, AcceptCheckSingleOrg
    <2> QED
      BY <2>1, <2>2, <2>3, GotoWriteOK, TablesUnchanged
  <1>3. CASE EditWrite(r) \/ AdminTypeWrite(r)
    BY <1>3, SetTypeOK DEF EditWrite, AdminTypeWrite
  <1>4. ASSUME NEW u \in Users, NEW m \in Members,
               InviteRead(r, u, m) \/ ImportNew(r, u, m)
        PROVE  TypeInv'
    <2>1. CASE InviteRead(r, u, m)
      <3>1. requests[r].type \in Types
        BY <2>1, RequestType DEF InviteRead, ReadInvitee, At, Request
      <3> DEFINE s == IF MailEnabled THEN Invited ELSE Accepted
      <3>2. s \in Statuses
        BY StatusFacts
      <3> HIDE DEF s
      <3>3. ReadInvitee(r, "invite", u, m, requests[r].type, s)
        BY <2>1 DEF InviteRead, s
      <3> QED
        BY <3>1, <3>2, <3>3, ReadInviteeOK
    <2>2. CASE ImportNew(r, u, m)
      <3>1. PICK s \in {Invited, Accepted} :
              ReadInvitee(r, "import", u, m, User, s)
        BY <2>2 DEF ImportNew
      <3> QED
        BY <3>1, ReadInviteeOK, StatusFacts, TypeFacts
    <2> QED
      BY <1>4, <2>1, <2>2
  <1>5. ASSUME NEW i, PolicyCheckMember(r, i) \/ EnforceRevoke(r, i)
        PROVE  TypeInv'
    BY <1>5, PolicyCheckMemberOK, EnforceRevokeOK
  <1>6. ASSUME NEW key \in ConfirmKeys, ConfirmWrite(r, key)
        PROVE  TypeInv'
    BY <1>6, ConfirmWriteOK
  <1>7. ASSUME NEW m \in Members,
               \/ ConfirmRead(r, m) \/ EditRead(r, m) \/ RemoveRead(r, m)
               \/ RevokeRead(r, m) \/ RestoreRead(r, m)
        PROVE  TypeInv'
    BY <1>7, ReadsOK
  <1>8. CASE \/ EndRequest(r) \/ RemoveWrite(r) \/ LeaveWrite(r)
             \/ PolicyEnable(r) \/ PolicyDisable(r) \/ DeleteOrg(r)
    BY <1>8, FinalWritesOK
  <1>9. CASE CreateOwner(r) \/ InviteWrite(r) \/ ImportInsert(r)
    BY <1>9, InsertWritesOK
  <1>10. CASE \/ AcceptWrite(r) \/ RevokeWrite(r) \/ RestoreWrite(r)
              \/ PolicyRevokeMember(r)
    BY <1>10, StatusWritesOK
  <1>11. CASE ReadActor(r)
    BY <1>11, ReadActorOK
  <1>12. CASE PolicyReadMembers(r) \/ EnforceRead(r)
    BY <1>12, SweepReadsOK
  <1> HIDE DEF TypeInv
  <1> QED
    BY <1>1, <1>2, <1>3, <1>4, <1>5, <1>6, <1>7, <1>8, <1>9, <1>10, <1>11,
       <1>12 DEF Continue

\* TypeInv is inductive: it holds of the empty database and every statement
\* of every handler keeps it.
LEMMA TypeInvStep ==
    ASSUME TypeInv, [Next]_vars
    PROVE  TypeInv'
  <1>1. CASE Instant
    BY <1>1, InstantOK
  <1>2. ASSUME NEW r \in Requests, Arrive(r) \/ Continue(r)
        PROVE  TypeInv'
    BY <1>2, ArriveOK, ContinueOK
  <1>3. CASE UNCHANGED vars
    BY <1>3 DEF vars, TypeInv, TablesOK, RequestsOK, ReqOK, NeedsRow
  <1> QED
    BY <1>1, <1>2, <1>3 DEF Next

\* The empty database satisfies the inductive invariant.
LEMMA TypeInvInit == Init => TypeInv
  BY DEF Init, TypeInv, TablesOK, RequestsOK

\* Whatever requests overlap and however stale the rows are that they write
\* back, the status column of users_organizations only ever holds an active
\* status, one of these minus 128, the Revoked of enforce2faPolicy or what a
\* restore makes of it, and every table and every handler stays well-formed.
THEOREM TypeCorrect == Spec => []TypeOK
  <1>1. TypeInv => TypeOK
    BY DEF TypeInv, TypeOK, TablesOK, RequestsOK
  <1> QED
    BY <1>1, TypeInvInit, TypeInvStep, PTL DEF Spec

----------------------------------------------------------------------------
(***************************************************************************)
(* A member that counts as confirmed, or that a restore turns back into    *)
(* one, was confirmed: its akey is not as the row was inserted.  For any   *)
(* number of overlapping requests.                                         *)
(*                                                                         *)
(* The difficulty is the stale row: setRevoked and the policy sweep write  *)
(* a status computed from a row read some awaits ago, and by then the row  *)
(* may have been removed, confirmed again or replaced.  The argument is    *)
(* that what a confirmation stored stays as long as the row, so that who   *)
(* has read the row as keyed still finds the key (HeldKeyed), and that no  *)
(* insert brings a row back under an identifier somebody still holds       *)
(* (InsertsFresh: uuid() never repeats).                                   *)
(***************************************************************************)
InsertOps == {"create", "invite", "import"}

HeldKeyed ==
    \A r \in Active : \A i \in Held(r) :
      members[i.id] # None /\ i.status \in Keyed => members[i.id].akey # ""

InsertsFresh ==
    \A r \in Active : requests[r].op \in InsertOps =>
      /\ requests[r].items = {}
      /\ requests[r].cur # None =>
           /\ members[requests[r].cur.id] = None
           /\ requests[r].op # "create" =>
                requests[r].cur.status \in {Invited, Accepted}
           /\ \A s \in Active \ {r} : \A i \in Held(s) :
                i.id # requests[r].cur.id

KeyInv == ConfirmedByConfirmation /\ HeldKeyed /\ InsertsFresh

(***************************************************************************)
(* The shape of a step.  No row appears and no key is lost (KeysKept); and *)
(* what a request holds afterwards it held before, or it is a row of the   *)
(* table as it stands (HoldsNoMore).                                       *)
(***************************************************************************)
KeysKept ==
    \A m \in Members :
      /\ members[m] = None => members'[m] = None
      /\ members'[m] # None /\ members[m].akey # "" => members'[m].akey # ""

Holdable(r, i) == \/ requests[r] # None /\ i \in Held(r)
                  \/ \E m \in Rows : i = Snapshot(m)
ReqHolds(r, q) ==
    /\ q.cur # None => Holdable(r, q.cur)
    /\ \A i \in q.items : Holdable(r, i)
    /\ q.op \in InsertOps =>
         /\ q.items = {}
         /\ \/ q.cur = None
            \/ requests[r] # None /\ q.op = requests[r].op
                 /\ q.cur = requests[r].cur
HoldsNoMore ==
    \A r \in Requests : \/ requests'[r] = requests[r]
                        \/ requests'[r] = None
                        \/ ReqHolds(r, requests'[r])

\* The arithmetic of setRevoked leads to a keyed status only from one.
LEMMA KeyedFacts ==
    /\ Invited \notin Keyed /\ Accepted \notin Keyed /\ Revoked \notin Keyed
    /\ \A s \in Statuses : s - RevokedOffset \in Keyed => s \in Keyed
    /\ \A s \in Statuses :
         s < Invited /\ s + RevokedOffset \in Keyed => s \in Keyed
  BY DEF Keyed, Statuses, ActiveStatuses, Invited, Accepted, Confirmed,
         Revoked, RevokedOffset

\* What a request holds are rows, read or about to be inserted.
LEMMA HeldType ==
    ASSUME TypeInv, NEW r \in Active, NEW i \in Held(r)
    PROVE  i \in Item /\ i.id \in Members /\ i # None
  <1>1. requests[r] \in Request
    BY RequestType DEF TypeInv, Active
  <1> QED
    BY <1>1, NoneFacts DEF Held, Request, Item

\* A step of this shape keeps what the requests know.
LEMMA HoldsKept ==
    ASSUME TypeInv, KeyInv, KeysKept, HoldsNoMore
    PROVE  HeldKeyed' /\ InsertsFresh'
  <1>1. ASSUME NEW r \in Requests, requests'[r] # None, NEW i \in Held(r)'
        PROVE  Holdable(r, i)
    BY <1>1 DEF HoldsNoMore, ReqHolds, Holdable, Held
  <1>2. ASSUME NEW r \in Requests, NEW i, Holdable(r, i)
        PROVE  i.id \in Members
    <2>1. CASE requests[r] # None /\ i \in Held(r)
      BY <2>1, HeldType DEF Active
    <2>2. CASE \E m \in Rows : i = Snapshot(m)
      BY <2>2 DEF Snapshot, Rows
    <2> QED
      BY <1>2, <2>1, <2>2 DEF Holdable
  <1>3. HeldKeyed'
    <2> SUFFICES ASSUME NEW r \in Requests, requests'[r] # None,
                        NEW i \in Held(r)', members'[i.id] # None,
                        i.status \in Keyed
                 PROVE  members'[i.id].akey # ""
      BY DEF HeldKeyed, Active, Keyed
    <2>1. Holdable(r, i) /\ i.id \in Members
      BY <1>1, <1>2
    <2>2. members[i.id] # None
      BY <2>1 DEF KeysKept
    <2>3. members[i.id].akey # ""
      <3>1. CASE requests[r] # None /\ i \in Held(r)
        BY <2>2, <3>1 DEF KeyInv, HeldKeyed, Active
      <3>2. CASE \E m \in Rows : i = Snapshot(m)
        <4>1. PICK m \in Rows : i = Snapshot(m)
          BY <3>2
        <4>2. i.id = m /\ i.status = members[m].status
          BY <4>1 DEF Snapshot
        <4> QED
          BY <4>2 DEF KeyInv, ConfirmedByConfirmation
      <3> QED
        BY <2>1, <3>1, <3>2 DEF Holdable
    <2> QED
      BY <2>1, <2>3 DEF KeysKept
  <1>4. InsertsFresh'
    <2> SUFFICES ASSUME NEW r \in Requests, requests'[r] # None,
                        requests'[r].op \in InsertOps
                 PROVE  /\ requests'[r].items = {}
                        /\ requests'[r].cur # None =>
                             /\ members'[requests'[r].cur.id] = None
                             /\ requests'[r].op # "create" =>
                                  requests'[r].cur.status
                                    \in {Invited, Accepted}
                             /\ \A s \in Active' \ {r} : \A i \in Held(s)' :
                                  i.id # requests'[r].cur.id
      BY DEF InsertsFresh, Active, InsertOps, Invited, Accepted
    <2>1. requests'[r].items = {}
      BY DEF HoldsNoMore, ReqHolds, KeyInv, InsertsFresh, Active
    <2> SUFFICES ASSUME requests'[r].cur # None
                 PROVE  /\ members'[requests'[r].cur.id] = None
                        /\ requests'[r].op # "create" =>
                             requests'[r].cur.status \in {Invited, Accepted}
                        /\ \A s \in Active' \ {r} : \A i \in Held(s)' :
                             i.id # requests'[r].cur.id
      BY <2>1
    <2>2. /\ requests[r] # None /\ requests[r].op = requests'[r].op
          /\ requests[r].cur = requests'[r].cur
      BY DEF HoldsNoMore, ReqHolds
    <2>3. /\ r \in Active /\ members[requests'[r].cur.id] = None
          /\ requests'[r].op # "create" =>
               requests'[r].cur.status \in {Invited, Accepted}
          /\ \A s \in Active \ {r} : \A i \in Held(s) :
               i.id # requests'[r].cur.id
      BY <2>2 DEF Active, KeyInv, InsertsFresh
    <2>4. requests'[r].cur.id \in Members
      BY <2>2, <2>3, HeldType DEF Held
    <2>5. members'[requests'[r].cur.id] = None
      BY <2>3, <2>4 DEF KeysKept
    <2>6. ASSUME NEW s \in Active', s # r, NEW i \in Held(s)'
          PROVE  i.id # requests'[r].cur.id
      <3>1. Holdable(s, i)
        BY <2>6, <1>1 DEF Active
      <3>2. CASE requests[s] # None /\ i \in Held(s)
        BY <2>3, <2>6, <3>2 DEF Active
      <3>3. CASE \E m \in Rows : i = Snapshot(m)
        BY <2>3, <3>3 DEF Snapshot, Rows
      <3> QED
        BY <3>1, <3>2, <3>3 DEF Holdable
    <2> QED
      BY <2>3, <2>5, <2>6
  <1> QED
    BY <1>3, <1>4

\* One request changes and the others do not.
LEMMA PutHolds ==
    ASSUME TypeInv, NEW r \in Requests, NEW q, q = None \/ ReqHolds(r, q),
           requests' = [requests EXCEPT ![r] = q]
    PROVE  HoldsNoMore
  BY DEF TypeInv, RequestsOK, HoldsNoMore, ReqHolds, Holdable, InsertOps

\* A handler that returns, throws or goes on with its next id holds no more
\* than before.
LEMMA ReleaseHolds ==
    ASSUME TypeInv, KeyInv, NEW r \in Requests, requests[r] # None,
           \/ Done(r) \/ NextItem(r)
           \/ \E pc : Goto(r, pc)
           \/ \E pc : Read(r, None, pc)
    PROVE  HoldsNoMore
  <1>1. requests[r] \in Request
    BY RequestType DEF TypeInv
  <1>2. ReqHolds(r, requests[r])
    BY DEF ReqHolds, Holdable, Held, KeyInv, InsertsFresh, Active
  <1>3. CASE Done(r)
    BY <1>3, PutHolds DEF Done
  <1>4. CASE NextItem(r)
    <2> DEFINE q == [requests[r] EXCEPT !.cur = None,
                       !.pc = LoopStart(requests[r].op, requests[r].actor)]
    <2>1. ReqHolds(r, q)
      BY <1>1, <1>2 DEF ReqHolds, Request
    <2>2. requests' = [requests EXCEPT ![r] = q]
      BY <1>4 DEF NextItem
    <2> QED
      BY <2>1, <2>2, PutHolds
  <1>5. ASSUME NEW pc, Goto(r, pc)
        PROVE  HoldsNoMore
    <2> DEFINE q == [requests[r] EXCEPT !.pc = pc]
    <2>1. ReqHolds(r, q)
      BY <1>1, <1>2 DEF ReqHolds, Request
    <2>2. requests' = [requests EXCEPT ![r] = q]
      BY <1>5 DEF Goto
    <2> QED
      BY <2>1, <2>2, PutHolds
  <1>6. ASSUME NEW pc, Read(r, None, pc)
        PROVE  HoldsNoMore
    <2> DEFINE q == [requests[r] EXCEPT !.cur = None, !.pc = pc]
    <2>1. ReqHolds(r, q)
      BY <1>1, <1>2 DEF ReqHolds, Request
    <2>2. requests' = [requests EXCEPT ![r] = q]
      BY <1>6 DEF Read
    <2> QED
      BY <2>1, <2>2, PutHolds
  <1> QED
    BY <1>3, <1>4, <1>5, <1>6

\* A handler that reads a row of the table.
LEMMA ReadHolds ==
    ASSUME TypeInv, KeyInv, NEW r \in Requests, requests[r] # None,
           requests[r].op \notin InsertOps, NEW m \in Rows, NEW pc,
           Read(r, Snapshot(m), pc)
    PROVE  HoldsNoMore
  <1> DEFINE q == [requests[r] EXCEPT !.cur = Snapshot(m), !.pc = pc]
  <1>1. requests[r] \in Request
    BY RequestType DEF TypeInv
  <1>2. ReqHolds(r, q)
    BY <1>1 DEF ReqHolds, Holdable, Held, Request
  <1>3. requests' = [requests EXCEPT ![r] = q]
    BY DEF Read
  <1> QED
    BY <1>2, <1>3, PutHolds

(***************************************************************************)
(* The writes                                                              *)
(***************************************************************************)
\* A step that leaves the membership table alone.
LEMMA MembersUnchanged ==
    ASSUME KeyInv, UNCHANGED members
    PROVE  KeysKept /\ ConfirmedByConfirmation'
  BY DEF KeysKept, KeyInv, ConfirmedByConfirmation, Rows, Keyed

\* Writing a status is safe when it is not a keyed one, or when whoever
\* computed it holds the row as keyed.
LEMMA StatusKeeps ==
    ASSUME TypeInv, KeyInv, NEW m \in Members, NEW s, SetStatus(m, s),
           s \in Keyed /\ members[m] # None => members[m].akey # ""
    PROVE  KeysKept /\ ConfirmedByConfirmation'
  <1>1. CASE members[m] = None
    BY <1>1, MembersUnchanged DEF SetStatus
  <1>2. CASE members[m] # None
    <2>1. members' = [members EXCEPT ![m] = [members[m] EXCEPT !.status = s]]
      BY <1>2 DEF SetStatus
    <2>2. members \in [Members -> Row \cup {None}] /\ members[m] \in Row
      BY <1>2 DEF TypeInv, TablesOK
    <2>3. \A n \in Members \ {m} : members'[n] = members[n]
      BY <2>1, <2>2
    <2>4. /\ members'[m].akey = members[m].akey /\ members'[m].status = s
      BY <2>1, <2>2 DEF Row
    <2>5. KeysKept
      BY <1>2, <2>3, <2>4 DEF KeysKept
    <2>6. ConfirmedByConfirmation'
      BY <1>2, <2>3, <2>4 DEF KeyInv, ConfirmedByConfirmation, Rows, Keyed
    <2> QED
      BY <2>5, <2>6
  <1> QED
    BY <1>1, <1>2

\* confirmMember stores a key, or the mark of a blank one, with the status.
LEMMA ConfirmKeeps ==
    ASSUME TypeInv, KeyInv, NEW r \in Requests, NEW key \in ConfirmKeys,
           ConfirmWrite(r, key)
    PROVE  KeysKept /\ ConfirmedByConfirmation'
  <1> DEFINE m == requests[r].cur.id
  <1>1. m \in Members
    BY CurType DEF TypeInv, ConfirmWrite, At
  <1>2. CASE members[m] = None
    BY <1>2, MembersUnchanged DEF ConfirmWrite
  <1>3. CASE members[m] # None
    <2>1. members' = [members EXCEPT ![m] =
                        [members[m] EXCEPT !.status = Confirmed,
                                           !.akey = ConfirmedKey(@, key)]]
      BY <1>3 DEF ConfirmWrite
    <2>2. members \in [Members -> Row \cup {None}] /\ members[m] \in Row
      BY <1>1, <1>3 DEF TypeInv, TablesOK
    <2>3. \A n \in Members \ {m} : members'[n] = members[n]
      BY <2>1, <2>2
    <2>4. members'[m].akey # ""
      <3>1. ConfirmedKey(members[m].akey, key) # ""
        BY <2>2, ConfirmedKeyFacts DEF Row
      <3> QED
        BY <1>1, <2>1, <2>2, <3>1 DEF Row
    <2> QED
      BY <1>3, <2>3, <2>4 DEF KeysKept, KeyInv, ConfirmedByConfirmation, Rows, Keyed
  <1> QED
    BY <1>2, <1>3

\* A role change leaves status and key alone.
LEMMA TypeKeeps ==
    ASSUME TypeInv, KeyInv, NEW r \in Requests, NEW op, op # "enforce",
           SetType(r, op)
    PROVE  KeysKept /\ ConfirmedByConfirmation'
  <1> DEFINE m == requests[r].cur.id
  <1>1. m \in Members
    BY CurType DEF TypeInv, SetType, At
  <1>2. CASE members[m] = None
    BY <1>2, MembersUnchanged DEF SetType
  <1>3. CASE members[m] # None
    <2>1. members' = [members EXCEPT ![m] =
                        [members[m] EXCEPT !.atype = requests[r].type]]
      BY <1>3 DEF SetType
    <2>2. members \in [Members -> Row \cup {None}] /\ members[m] \in Row
      BY <1>1, <1>3 DEF TypeInv, TablesOK
    <2>3. \A n \in Members \ {m} : members'[n] = members[n]
      BY <2>1, <2>2
    <2>4. /\ members'[m].akey = members[m].akey
          /\ members'[m].status = members[m].status
      BY <1>1, <2>1, <2>2 DEF Row
    <2> QED
      BY <1>3, <2>3, <2>4 DEF KeysKept, KeyInv, ConfirmedByConfirmation, Rows, Keyed
  <1> QED
    BY <1>2, <1>3

\* Deletions, by a handler or by a cascade, take rows away and touch no other.
LEMMA DeletionKeeps ==
    ASSUME KeyInv, \A m \in Members : members'[m] \in {None, members[m]}
    PROVE  KeysKept /\ ConfirmedByConfirmation'
  BY DEF KeysKept, KeyInv, ConfirmedByConfirmation, Rows, Keyed

\* A new organization, and an invited or imported user: the identifier of the
\* row to come is held by nobody else.
LEMMA FreshHeld ==
    ASSUME TypeInv, KeyInv, NEW r \in Requests, NEW q \in Request,
           requests' = [requests EXCEPT ![r] = q], UNCHANGED members,
           q.op \in InsertOps, q.items = {}, q.cur # None,
           FreshMember(q.cur.id),
           q.op # "create" => q.cur.status \in {Invited, Accepted}
    PROVE  KeyInv'
  <1>1. /\ requests \in [Requests -> Request \cup {None}]
        /\ q # None /\ requests'[r] = q
        /\ \A s \in Requests \ {r} : requests'[s] = requests[s]
    BY NoneFacts DEF TypeInv, RequestsOK
  <1>2. /\ members[q.cur.id] = None
        /\ \A s \in Active : \A i \in Held(s) : i.id # q.cur.id
    BY DEF FreshMember
  <1>3. ASSUME NEW s \in Active'
        PROVE  \/ s = r /\ \A i \in Held(s)' : i = q.cur
               \/ /\ s # r /\ s \in Active /\ requests'[s] = requests[s]
                  /\ \A i \in Held(s)' : i \in Held(s)
    <2>1. CASE s = r
      BY <1>1, <2>1 DEF Held
    <2>2. CASE s # r
      BY <1>1, <2>2 DEF Active, Held
    <2> QED
      BY <2>1, <2>2
  <1>4. ConfirmedByConfirmation'
    BY MembersUnchanged
  <1>5. HeldKeyed'
    <2> SUFFICES ASSUME NEW s \in Active', NEW i \in Held(s)',
                        members'[i.id] # None, i.status \in Keyed
                 PROVE  members'[i.id].akey # ""
      BY DEF HeldKeyed, Keyed
    <2> QED
      BY <1>2, <1>3 DEF KeyInv, HeldKeyed
  <1>6. InsertsFresh'
    <2> SUFFICES ASSUME NEW s \in Active', requests'[s].op \in InsertOps
                 PROVE  /\ requests'[s].items = {}
                        /\ requests'[s].cur # None =>
                             /\ members'[requests'[s].cur.id] = None
                             /\ requests'[s].op # "create" =>
                                  requests'[s].cur.status
                                    \in {Invited, Accepted}
                             /\ \A t \in Active' \ {s} : \A i \in Held(t)' :
                                  i.id # requests'[s].cur.id
      BY DEF InsertsFresh, InsertOps, Invited, Accepted
    <2>1. CASE s = r
      BY <1>1, <1>2, <1>3, <2>1
    <2>2. CASE s # r
      <3>1. s \in Active /\ requests'[s] = requests[s]
        BY <1>3, <2>2
      <3>2. requests[s].cur # None => requests[s].cur.id # q.cur.id
        BY <1>2, <3>1 DEF Held
      <3>3. ASSUME requests[s].cur # None, NEW t \in Active', t # s,
                   NEW i \in Held(t)'
            PROVE  i.id # requests[s].cur.id
        BY <1>3, <3>1, <3>2, <3>3 DEF KeyInv, InsertsFresh
      <3> QED
        BY <3>1, <3>3 DEF KeyInv, InsertsFresh
    <2> QED
      BY <2>1, <2>2
  <1> QED
    BY <1>4, <1>5, <1>6 DEF KeyInv

\* The insert itself: nobody has read a row under this identifier, and a row
\* that starts confirmed starts with its key.
LEMMA InsertKeeps ==
    ASSUME TypeInv, KeyInv, NEW r \in Requests, requests[r] # None,
           requests[r].cur # None, requests[r].op \in InsertOps,
           NEW key, Insert(r, key), requests[r].op = "create" => key # "",
           Done(r) \/ NextItem(r)
    PROVE  KeyInv'
  <1> DEFINE c == requests[r].cur
  <1>1. requests[r] \in Request /\ c \in Item /\ c.id \in Members
    BY RequestType DEF TypeInv, Request, Item
  <1>2. /\ requests[r].items = {} /\ members[c.id] = None
        /\ requests[r].op # "create" => c.status \in {Invited, Accepted}
        /\ \A s \in Active \ {r} : \A i \in Held(s) : i.id # c.id
    BY DEF KeyInv, InsertsFresh, Active
  <1>3. /\ \A n \in Members \ {c.id} : members'[n] = members[n]
        /\ members'[c.id] = [user |-> c.user, org |-> requests[r].org,
                             atype |-> c.atype, status |-> c.status,
                             akey |-> key]
    BY <1>1 DEF Insert, TypeInv, TablesOK
  <1>4. ConfirmedByConfirmation'
    <2>1. c.status \in Keyed => key # ""
      BY <1>2, KeyedFacts
    <2>2. members'[c.id].status = c.status /\ members'[c.id].akey = key
      BY ONLY <1>3
    <2> HIDE DEF c
    <2>3. \A n \in Members : members'[n] # None /\ members'[n].status \in Keyed
             => members'[n].akey # ""
      BY <1>3, <2>1, <2>2 DEF KeyInv, ConfirmedByConfirmation, Rows
    <2> QED
      BY <2>3 DEF ConfirmedByConfirmation, Rows, Keyed
  <1>5. /\ \A s \in Requests \ {r} : requests'[s] = requests[s]
        /\ requests'[r] = None
           \/ (requests'[r].cur = None /\ requests'[r].items = {})
    <2>1. CASE Done(r)
      BY <2>1 DEF TypeInv, RequestsOK, Done
    <2>2. CASE NextItem(r)
      <3> DEFINE q == [requests[r] EXCEPT !.cur = None,
                         !.pc = LoopStart(requests[r].op, requests[r].actor)]
      <3>1. requests' = [requests EXCEPT ![r] = q]
        BY <2>2 DEF NextItem
      <3>2. q.cur = None /\ q.items = {}
        BY <1>1, <1>2 DEF Request
      <3> HIDE DEF q
      <3> QED
        BY <3>1, <3>2 DEF TypeInv, RequestsOK
    <2> QED
      BY <2>1, <2>2
  <1>6. ASSUME NEW s \in Active'
        PROVE  \/ s = r /\ Held(s)' = {}
               \/ /\ s # r /\ s \in Active /\ requests'[s] = requests[s]
                  /\ \A i \in Held(s)' : i \in Held(s)
    <2>1. CASE s = r
      BY <1>5, <2>1 DEF Held, Active
    <2>2. CASE s # r
      BY <1>5, <2>2 DEF Active, Held
    <2> QED
      BY <2>1, <2>2
  <1>7. \A s \in Active \ {r} : \A i \in Held(s) :
          i.id # c.id /\ members'[i.id] = members[i.id]
    <2> SUFFICES ASSUME NEW s \in Active \ {r}, NEW i \in Held(s)
                 PROVE  i.id # c.id /\ members'[i.id] = members[i.id]
      OBVIOUS
    <2>1. i.id \in Members
      BY HeldType
    <2> QED
      BY <1>2, <1>3, <2>1
  <1>8. HeldKeyed'
    <2> SUFFICES ASSUME NEW s \in Active', NEW i \in Held(s)',
                        members'[i.id] # None, i.status \in Keyed
                 PROVE  members'[i.id].akey # ""
      BY DEF HeldKeyed, Keyed
    <2> QED
      BY <1>6, <1>7 DEF KeyInv, HeldKeyed
  <1>9. InsertsFresh'
    <2> SUFFICES ASSUME NEW s \in Active', requests'[s].op \in InsertOps
                 PROVE  /\ requests'[s].items = {}
                        /\ requests'[s].cur # None =>
                             /\ members'[requests'[s].cur.id] = None
                             /\ requests'[s].op # "create" =>
                                  requests'[s].cur.status
                                    \in {Invited, Accepted}
                             /\ \A t \in Active' \ {s} : \A i \in Held(t)' :
                                  i.id # requests'[s].cur.id
      BY DEF InsertsFresh, InsertOps, Invited, Accepted
    <2>1. CASE s = r
      BY <1>5, <2>1 DEF Active
    <2>2. CASE s # r
      <3>1. s \in Active /\ requests'[s] = requests[s]
        BY <1>6, <2>2
      <3>2. CASE requests[s].cur = None
        BY <3>1, <3>2 DEF KeyInv, InsertsFresh
      <3>3. CASE requests[s].cur # None
        <4>1. requests[s].cur \in Held(s)
          BY <3>3 DEF Held
        <4>2. members'[requests[s].cur.id] = None
          BY <1>7, <2>2, <3>1, <3>3, <4>1 DEF KeyInv, InsertsFresh
        <4>3. \A t \in Active \ {s} : \A i \in Held(t) :
                i.id # requests[s].cur.id
          BY <3>1, <3>3 DEF KeyInv, InsertsFresh
        <4>4. ASSUME NEW t \in Active', t # s, NEW i \in Held(t)'
              PROVE  i.id # requests'[s].cur.id
          BY <1>6, <3>1, <4>3, <4>4
        <4>5. /\ requests[s].items = {}
              /\ requests[s].op # "create" =>
                   requests[s].cur.status \in {Invited, Accepted}
          BY <3>1, <3>3 DEF KeyInv, InsertsFresh
        <4> QED
          BY <3>1, <4>2, <4>4, <4>5
      <3> QED
        BY <3>2, <3>3
    <2> QED
      BY <2>1, <2>2
  <1> QED
    BY <1>4, <1>8, <1>9 DEF KeyInv

(***************************************************************************)
(* The handlers                                                            *)
(***************************************************************************)
\* A step that keeps the keys and takes hold of nothing new.
LEMMA OrdinaryStep ==
    ASSUME TypeInv, KeyInv, KeysKept, ConfirmedByConfirmation', HoldsNoMore
    PROVE  KeyInv'
  BY HoldsKept DEF KeyInv

\* A step that only reads.
LEMMA ReadingStep ==
    ASSUME TypeInv, KeyInv, UNCHANGED tables, HoldsNoMore
    PROVE  KeyInv'
  BY MembersUnchanged, OrdinaryStep DEF tables

\* A request arrives with nothing in hand, or with a row it has just read.
LEMMA BeginHolds ==
    ASSUME TypeInv, NEW r \in Requests, NEW q, Begin(r, q), q.items = {},
           \/ q.cur = None
           \/ q.op \notin InsertOps /\ \E m \in Rows : q.cur = Snapshot(m)
    PROVE  HoldsNoMore
  <1>1. ReqHolds(r, q)
    BY DEF ReqHolds, Holdable
  <1> QED
    BY <1>1, PutHolds DEF Begin

\* The first statement of every handler.
LEMMA KeyArrive ==
    ASSUME TypeInv, KeyInv, NEW r \in Requests, Arrive(r)
    PROVE  KeyInv'
  <1>1. CASE BeginAdminRoute(r)
    <2>1. PICK u \in users, o \in orgs, op \in AdminOps \cup OwnerOps,
               t \in Types, p \in Policies, min \in Types :
                 requireMember(r, u, o, min, op, t, p)
      BY <1>1, InputAssumption, TypeFacts DEF BeginAdminRoute, Policies
    <2>2. PICK m \in findConfirmedMembership(u, o) :
            Begin(r, [NewRequest(op, AfterAuth(op, u, t), u, o) EXCEPT
                        !.asOwner = members[m].atype = Owner,
                        !.type = t, !.policy = p])
      BY <2>1 DEF requireMember
    <2>3. HoldsNoMore
      BY <2>2, BeginHolds DEF NewRequest
    <2> QED
      BY <2>1, <2>3, ReadingStep DEF requireMember
  <1>2. ASSUME NEW o \in Orgs, BeginImport(r, o)
        PROVE  KeyInv'
    <2>1. PICK op \in {"import", "revoke", "restore"} :
            Begin(r, [NewRequest(op, "target", None, o) EXCEPT
                        !.asOwner = TRUE])
      BY <1>2 DEF BeginImport
    <2>2. HoldsNoMore
      BY <2>1, BeginHolds DEF NewRequest
    <2> QED
      BY <1>2, <2>2, ReadingStep DEF BeginImport
  <1>3. ASSUME NEW u \in Users,
               LoginWithout2fa(r, u) \/ LoginWithRecoveryCode(r, u)
        PROVE  KeyInv'
    <2>1. /\ Begin(r, NewRequest("enforce", "policy", u, None))
          /\ UNCHANGED members
      BY <1>3 DEF LoginWithout2fa, LoginWithRecoveryCode, tables
    <2>2. HoldsNoMore
      BY <2>1, BeginHolds DEF NewRequest
    <2> QED
      BY <2>1, <2>2, MembersUnchanged, OrdinaryStep
  <1>4. ASSUME NEW u \in Users, NEW m \in Members, AcceptRead(r, u, m)
        PROVE  KeyInv'
    <2>1. /\ m \in Rows /\ UNCHANGED tables
          /\ Begin(r, [NewRequest("accept", "check2fa", u, members[m].org)
                         EXCEPT !.cur = Snapshot(m)])
      BY <1>4 DEF AcceptRead
    <2>2. HoldsNoMore
      BY <2>1, BeginHolds DEF NewRequest, InsertOps
    <2> QED
      BY <2>1, <2>2, ReadingStep
  <1>5. ASSUME NEW u \in Users, NEW m \in Members, LeaveRead(r, u, m)
        PROVE  KeyInv'
    <2>1. /\ m \in Rows /\ UNCHANGED tables
          /\ Begin(r, [NewRequest("leave", LastOwnerCheck(m), u,
                                  members[m].org) EXCEPT !.cur = Snapshot(m)])
      BY <1>5 DEF LeaveRead
    <2>2. HoldsNoMore
      BY <2>1, BeginHolds DEF NewRequest, InsertOps
    <2> QED
      BY <2>1, <2>2, ReadingStep
  <1>6. ASSUME NEW u \in Users, NEW m \in Members, NEW o \in Orgs,
               CreateOrg(r, u, o, m)
        PROVE  KeyInv'
    <2> DEFINE i == [id |-> m, user |-> u, atype |-> Owner,
                     status |-> Confirmed]
               q == [NewRequest("create", "write", u, o) EXCEPT !.cur = i]
    <2>1. i \in Item /\ i # None /\ i.id = m
      BY TypeFacts, StatusFacts, NoneFacts DEF Item
    <2>2. /\ q \in Request /\ q.op = "create" /\ q.items = {}
          /\ q.cur = i
      BY <2>1, TypeFacts DEF NewRequest, Request, AllOps, Policies
    <2>3. /\ requests' = [requests EXCEPT ![r] = q] /\ UNCHANGED members
          /\ FreshMember(m)
      BY <1>6 DEF CreateOrg, Begin
    <2> HIDE DEF i, q
    <2> QED
      BY <2>1, <2>2, <2>3, FreshHeld DEF InsertOps
  <1>7. ASSUME NEW m \in Members, NEW t \in InputTypes, AdminTypeRead(r, m, t)
        PROVE  KeyInv'
    <2>1. /\ m \in Rows /\ UNCHANGED tables
          /\ \E pc : Begin(r, [NewRequest("adminType", pc, None,
                                 members[m].org) EXCEPT
                                 !.type = t, !.cur = Snapshot(m)])
      BY <1>7 DEF AdminTypeRead
    <2>2. HoldsNoMore
      BY <2>1, BeginHolds DEF NewRequest, InsertOps
    <2> QED
      BY <2>1, <2>2, ReadingStep
  <1> QED
    BY <1>1, <1>2, <1>3, <1>4, <1>5, <1>6, <1>7 DEF Arrive

\* The statements of a handler that read.
LEMMA KeyReads ==
    ASSUME TypeInv, KeyInv, NEW r \in Requests,
           \/ SkipItem(r) \/ EndRequest(r) \/ CountOwners(r)
           \/ AcceptCheck2fa(r) \/ AcceptCheckSingleOrg(r)
           \/ \E m \in Members :
                \/ ConfirmRead(r, m) \/ EditRead(r, m) \/ RemoveRead(r, m)
                \/ RevokeRead(r, m) \/ RestoreRead(r, m)
    PROVE  KeyInv'
  <1>1. CASE \/ SkipItem(r) \/ EndRequest(r) \/ CountOwners(r)
             \/ AcceptCheck2fa(r) \/ AcceptCheckSingleOrg(r)
    <2>1. /\ requests[r] # None /\ UNCHANGED tables
          /\ Done(r) \/ NextItem(r) \/ \E pc : Goto(r, pc)
      BY <1>1 DEF SkipItem, EndRequest, CountOwners, AcceptCheck2fa,
                  AcceptCheckSingleOrg, At
    <2> QED
      BY <2>1, ReleaseHolds, ReadingStep
  <1>2. ASSUME NEW m \in Members,
               \/ ConfirmRead(r, m) \/ EditRead(r, m) \/ RemoveRead(r, m)
               \/ RevokeRead(r, m) \/ RestoreRead(r, m)
        PROVE  KeyInv'
    <2>1. /\ requests[r] # None /\ requests[r].op \notin InsertOps
          /\ m \in Rows /\ UNCHANGED tables
          /\ \E pc : Read(r, Snapshot(m), pc)
      BY <1>2 DEF ConfirmRead, EditRead, RemoveRead, RevokeRead, RestoreRead,
                  At, InsertOps
    <2> QED
      BY <2>1, ReadHolds, ReadingStep
  <1> QED
    BY <1>1, <1>2

\* The second look at the actor's own membership.
LEMMA KeyReadActor ==
    ASSUME TypeInv, KeyInv, NEW r \in Requests, ReadActor(r)
    PROVE  KeyInv'
  <1>1. requests[r] # None /\ requests[r] \in Request /\ UNCHANGED tables
    BY RequestType DEF TypeInv, ReadActor
  <1>2. PICK owner, pc : requests' = [requests EXCEPT ![r].asOwner = owner,
                                                      ![r].pc = pc]
    BY DEF ReadActor
  <1> DEFINE q == [requests[r] EXCEPT !.asOwner = owner, !.pc = pc]
  <1>3. ReqHolds(r, requests[r])
    BY <1>1 DEF ReqHolds, Holdable, Held, KeyInv, InsertsFresh, Active
  <1>4. ReqHolds(r, q)
    BY <1>1, <1>3 DEF ReqHolds, Request
  <1>5. requests' = [requests EXCEPT ![r] = q]
    BY <1>2
  <1> QED
    BY <1>1, <1>4, <1>5, PutHolds, ReadingStep

\* The lookup of an invited or imported email.
LEMMA KeyReadInvitee ==
    ASSUME TypeInv, KeyInv, NEW r \in Requests, NEW op \in {"invite", "import"},
           NEW u \in Users, NEW m \in Members, NEW t \in Types,
           NEW s \in {Invited, Accepted}, ReadInvitee(r, op, u, m, t, s)
    PROVE  KeyInv'
  <1> DEFINE i == [id |-> m, user |-> u, atype |-> t, status |-> s]
             q == [requests[r] EXCEPT !.cur = i, !.pc = "write"]
  <1>1. /\ requests[r] # None /\ requests[r] \in Request
        /\ requests[r].op = op
    BY RequestType DEF TypeInv, ReadInvitee, At
  <1>2. requests[r].items = {}
    BY <1>1 DEF KeyInv, InsertsFresh, Active, InsertOps
  <1>3. i \in Item /\ i # None /\ i.id = m /\ i.status = s
    BY StatusFacts, NoneFacts DEF Item
  <1>4. q \in Request /\ q.op = op /\ q.items = {} /\ q.cur = i
    BY <1>1, <1>2, <1>3 DEF Request
  <1>5. /\ requests' = [requests EXCEPT ![r] = q] /\ UNCHANGED members
        /\ FreshMember(m)
    BY DEF ReadInvitee, Read
  <1> HIDE DEF i, q
  <1> QED
    BY <1>3, <1>4, <1>5, FreshHeld DEF InsertOps

\* The member lists of the policy sweep and of the enforcement at login, and
\* the row the sweep takes from its list.
LEMMA KeySweeps ==
    ASSUME TypeInv, KeyInv, NEW r \in Requests,
           \/ PolicyReadMembers(r) \/ EnforceRead(r)
           \/ \E i \in requests[r].items : PolicyCheckMember(r, i)
    PROVE  KeyInv'
  <1>1. /\ requests[r] # None /\ requests[r] \in Request
        /\ requests[r].op \notin InsertOps /\ UNCHANGED tables
    BY RequestType DEF TypeInv, PolicyReadMembers, EnforceRead,
                       PolicyCheckMember, At, InsertOps
  <1>2. CASE PolicyReadMembers(r) \/ EnforceRead(r)
    <2>1. PICK M \in SUBSET Rows, pc \in {"sweep", "write"} :
            requests' = [requests EXCEPT
              ![r].items = {i \in {Snapshot(m) : m \in M} : Sweepable(i)},
              ![r].pc = pc]
      <3>1. CASE PolicyReadMembers(r)
        BY <3>1 DEF PolicyReadMembers
      <3>2. CASE EnforceRead(r)
        BY <3>2 DEF EnforceRead
      <3> QED
        BY <1>2, <3>1, <3>2
    <2> DEFINE S == {i \in {Snapshot(m) : m \in M} : Sweepable(i)}
               q == [requests[r] EXCEPT !.items = S, !.pc = pc]
    <2>2. \A i \in S : \E m \in Rows : i = Snapshot(m)
      OBVIOUS
    <2>3. requests' = [requests EXCEPT ![r] = q]
      BY <2>1
    <2> HIDE DEF S
    <2>4. ReqHolds(r, q)
      BY <1>1, <2>2 DEF ReqHolds, Holdable, Held, Request
    <2> QED
      BY <1>1, <2>3, <2>4, PutHolds, ReadingStep
  <1>3. ASSUME NEW i \in requests[r].items, PolicyCheckMember(r, i)
        PROVE  KeyInv'
    <2>1. PICK c \in {None, i}, pc \in {"sweep", "write"} :
            requests' = [requests EXCEPT ![r].items = @ \ {i}, ![r].cur = c,
                                         ![r].pc = pc]
      BY <1>3 DEF PolicyCheckMember
    <2> DEFINE q == [requests[r] EXCEPT !.items = requests[r].items \ {i},
                       !.cur = c, !.pc = pc]
    <2>2. ReqHolds(r, q)
      BY <1>1, <2>1 DEF ReqHolds, Holdable, Held, Request
    <2>3. requests' = [requests EXCEPT ![r] = q]
      BY <2>1
    <2> QED
      BY <1>1, <2>2, <2>3, PutHolds, ReadingStep
  <1> QED
    BY <1>2, <1>3

\* The status writes: accept and the enforcement at login write a status that
\* needs no key, the others one that was keyed when the row was read.
LEMMA KeyStatusWrites ==
    ASSUME TypeInv, KeyInv, NEW r \in Requests,
           \/ AcceptWrite(r) \/ RevokeWrite(r) \/ RestoreWrite(r)
           \/ PolicyRevokeMember(r)
    PROVE  KeyInv'
  <1> DEFINE c == requests[r].cur
  <1>1. requests[r] # None /\ requests[r].pc = "write" /\ requests[r].op # "enforce"
    BY DEF AcceptWrite, RevokeWrite, RestoreWrite, PolicyRevokeMember, At
  <1>2. /\ c # None /\ c.id \in Members /\ c.status \in Statuses
        /\ ItemFor(requests[r].op, c)
    BY <1>1, CurType DEF TypeInv
  <1>3. c.status \in Keyed /\ members[c.id] # None => members[c.id].akey # ""
    BY <1>1, <1>2 DEF KeyInv, HeldKeyed, Active, Held
  <1>4. PICK s : /\ SetStatus(c.id, s)
                 /\ s \in Keyed => c.status \in Keyed
    <2>1. CASE AcceptWrite(r)
      BY <2>1, KeyedFacts DEF AcceptWrite
    <2>2. CASE RevokeWrite(r)
      BY <2>2, <1>2, KeyedFacts DEF RevokeWrite
    <2>3. CASE RestoreWrite(r)
      BY <2>3, <1>2, KeyedFacts DEF RestoreWrite, At, ItemFor
    <2>4. CASE PolicyRevokeMember(r)
      BY <2>4, <1>2, KeyedFacts DEF PolicyRevokeMember
    <2> QED
      BY <2>1, <2>2, <2>3, <2>4
  <1>5. KeysKept /\ ConfirmedByConfirmation'
    BY <1>2, <1>3, <1>4, StatusKeeps
  <1>6. Done(r) \/ NextItem(r) \/ \E pc : Read(r, None, pc)
    BY DEF AcceptWrite, RevokeWrite, RestoreWrite, PolicyRevokeMember
  <1>7. HoldsNoMore
    BY <1>1, <1>6, ReleaseHolds
  <1> QED
    BY <1>5, <1>7, OrdinaryStep

\* enforce2faPolicy writes the bare Revoked.
LEMMA KeyEnforce ==
    ASSUME TypeInv, KeyInv, NEW r \in Requests, NEW i \in requests[r].items,
           EnforceRevoke(r, i)
    PROVE  KeyInv'
  <1>1. /\ requests[r] # None /\ requests[r] \in Request
        /\ requests[r].op = "enforce"
    BY RequestType DEF TypeInv, EnforceRevoke, At
  <1>2. i.id \in Members
    BY <1>1 DEF Request, Item
  <1>3. KeysKept /\ ConfirmedByConfirmation'
    BY <1>2, StatusKeeps, KeyedFacts DEF EnforceRevoke
  <1> DEFINE q == [requests[r] EXCEPT !.items = requests[r].items \ {i}]
  <1>4. ReqHolds(r, q)
    BY <1>1 DEF ReqHolds, Holdable, Held, Request, InsertOps
  <1>5. requests' = [requests EXCEPT ![r] = q]
    BY DEF EnforceRevoke
  <1> QED
    BY <1>3, <1>4, <1>5, PutHolds, OrdinaryStep

\* The remaining writes of a handler.
LEMMA KeyWrites ==
    ASSUME TypeInv, KeyInv, NEW r \in Requests,
           \/ EditWrite(r) \/ AdminTypeWrite(r) \/ RemoveWrite(r)
           \/ LeaveWrite(r) \/ PolicyEnable(r) \/ PolicyDisable(r)
           \/ DeleteOrg(r)
    PROVE  KeyInv'
  <1>1. requests[r] # None /\ (Done(r) \/ NextItem(r))
    BY DEF EditWrite, AdminTypeWrite, SetType, RemoveWrite, LeaveWrite,
           PolicyEnable, PolicyDisable, DeleteOrg, At
  <1>2. HoldsNoMore
    BY <1>1, ReleaseHolds
  <1>3. CASE EditWrite(r) \/ AdminTypeWrite(r)
    BY <1>2, <1>3, TypeKeeps, OrdinaryStep DEF EditWrite, AdminTypeWrite
  <1>4. CASE RemoveWrite(r) \/ LeaveWrite(r)
    <2>1. \A m \in Members : members'[m] \in {None, members[m]}
      BY <1>4 DEF RemoveWrite, LeaveWrite, Delete, TypeInv, TablesOK
    <2> QED
      BY <1>2, <2>1, DeletionKeeps, OrdinaryStep
  <1>5. CASE PolicyEnable(r) \/ PolicyDisable(r)
    BY <1>2, <1>5, MembersUnchanged, OrdinaryStep
       DEF PolicyEnable, PolicyDisable
  <1>6. CASE DeleteOrg(r)
    <2>1. \A m \in Members : members'[m] \in {None, members[m]}
      BY <1>6 DEF DeleteOrg
    <2> QED
      BY <1>2, <2>1, DeletionKeeps, OrdinaryStep
  <1> QED
    BY <1>3, <1>4, <1>5, <1>6

\* Every statement of a handler after its first.
LEMMA KeyContinue ==
    ASSUME TypeInv, KeyInv, NEW r \in Requests, Continue(r)
    PROVE  KeyInv'
  <1>1. CASE CreateOwner(r) \/ InviteWrite(r) \/ ImportInsert(r)
    <2>1. /\ requests[r] # None /\ requests[r].cur # None
          /\ requests[r].op \in InsertOps
      BY <1>1, CurType
         DEF CreateOwner, InviteWrite, ImportInsert, At, InsertOps, TypeInv
    <2>2. /\ Done(r) \/ NextItem(r)
          /\ \E key : Insert(r, key) /\ (requests[r].op = "create" => key # "")
      <3>1. CASE CreateOwner(r)
        <4>1. Done(r) /\ Insert(r, "key") /\ "key" # ""
          BY <3>1 DEF CreateOwner
        <4> QED
          BY <4>1
      <3>2. CASE InviteWrite(r) \/ ImportInsert(r)
        <4>1. /\ NextItem(r) /\ Insert(r, "")
              /\ requests[r].op # "create"
          BY <3>2 DEF InviteWrite, ImportInsert, At
        <4> QED
          BY <4>1
      <3> QED
        BY <1>1, <3>1, <3>2
    <2> QED
      BY <2>1, <2>2, InsertKeeps
  <1>2. ASSUME NEW key \in ConfirmKeys, ConfirmWrite(r, key)
        PROVE  KeyInv'
    <2>1. KeysKept /\ ConfirmedByConfirmation'
      BY <1>2, ConfirmKeeps
    <2>2. HoldsNoMore
      BY <1>2, ReleaseHolds DEF ConfirmWrite, At
    <2> QED
      BY <2>1, <2>2, OrdinaryStep
  <1>3. ASSUME NEW u \in Users, NEW m \in Members,
               InviteRead(r, u, m) \/ ImportNew(r, u, m)
        PROVE  KeyInv'
    <2>1. CASE InviteRead(r, u, m)
      <3>1. requests[r].type \in Types
        BY <2>1, RequestType DEF InviteRead, ReadInvitee, At, Request, TypeInv
      <3>2. \E s \in {Invited, Accepted} :
              ReadInvitee(r, "invite", u, m, requests[r].type, s)
        BY <2>1 DEF InviteRead
      <3> QED
        BY <3>1, <3>2, KeyReadInvitee
    <2>2. CASE ImportNew(r, u, m)
      BY <2>2, KeyReadInvitee, TypeFacts DEF ImportNew
    <2> QED
      BY <1>3, <2>1, <2>2
  <1> QED
    BY <1>1, <1>2, <1>3, KeyReads, KeyReadActor, KeySweeps, KeyStatusWrites,
       KeyEnforce, KeyWrites DEF Continue

\* Handlers with one statement: a registration accepts, a deletion cascades.
LEMMA KeyInstant ==
    ASSUME TypeInv, KeyInv, Instant
    PROVE  KeyInv'
  <1>1. PICK u \in Users :
          \/ AcceptOpenInvitations(u) \/ ActivateTwofactor(u)
          \/ DisableTwofactor(u) \/ DeleteAccount(u) \/ RegisterAccount(u)
    BY DEF Instant
  <1>2. HoldsNoMore
    BY <1>1 DEF HoldsNoMore, AcceptOpenInvitations, ActivateTwofactor,
                DisableTwofactor, DeleteAccount, RegisterAccount
  <1>3. CASE AcceptOpenInvitations(u)
    <2>1. \A m \in Members :
            \/ members'[m] = members[m]
            \/ /\ members[m] # None
               /\ members'[m] = [members[m] EXCEPT !.status = Accepted]
      BY <1>3 DEF AcceptOpenInvitations, Rows
    <2>2. ASSUME NEW m \in Members, members[m] # None
          PROVE  LET n == [members[m] EXCEPT !.status = Accepted]
                 IN  n.akey = members[m].akey /\ n.status = Accepted
      BY <2>2 DEF TypeInv, TablesOK, Row
    <2>3. KeysKept
      BY <2>1, <2>2 DEF KeysKept
    <2>4. ConfirmedByConfirmation'
      BY <2>1, <2>2, KeyedFacts DEF KeyInv, ConfirmedByConfirmation, Rows, Keyed
    <2> QED
      BY <1>2, <2>3, <2>4, OrdinaryStep
  <1>4. CASE DeleteAccount(u)
    <2>1. \A m \in Members : members'[m] \in {None, members[m]}
      BY <1>4 DEF DeleteAccount
    <2> QED
      BY <1>2, <2>1, DeletionKeeps, OrdinaryStep
  <1>5. CASE ActivateTwofactor(u) \/ DisableTwofactor(u) \/ RegisterAccount(u)
    BY <1>2, <1>5, MembersUnchanged, OrdinaryStep
       DEF ActivateTwofactor, DisableTwofactor, RegisterAccount
  <1> QED
    BY <1>1, <1>3, <1>4, <1>5

\* KeyInv is inductive, given the type invariant.
LEMMA KeyInvStep ==
    ASSUME TypeInv, KeyInv, [Next]_vars
    PROVE  KeyInv'
  <1>1. CASE Instant
    BY <1>1, KeyInstant
  <1>2. ASSUME NEW r \in Requests, Arrive(r) \/ Continue(r)
        PROVE  KeyInv'
    BY <1>2, KeyArrive, KeyContinue
  <1>3. CASE UNCHANGED vars
    <2>1. HoldsNoMore /\ UNCHANGED members
      BY <1>3 DEF vars, HoldsNoMore
    <2> QED
      BY <2>1, MembersUnchanged, OrdinaryStep
  <1> QED
    BY <1>1, <1>2, <1>3 DEF Next

\* Whatever requests overlap and whatever key a confirmation carries, blank or
\* missing ones included, nobody counts as confirmed, or would after a
\* restore, whom confirmMember has not confirmed.
THEOREM ConfirmedOnlyByConfirming == Spec => []ConfirmedByConfirmation
  <1>1. Init => KeyInv
    BY DEF Init, KeyInv, ConfirmedByConfirmation, HeldKeyed, InsertsFresh, Rows, Active
  <1>2. TypeInv /\ KeyInv /\ [Next]_vars => KeyInv'
    BY KeyInvStep
  <1>3. KeyInv => ConfirmedByConfirmation
    BY DEF KeyInv
  <1> QED
    BY <1>1, <1>2, <1>3, TypeInvInit, TypeInvStep, PTL DEF Spec

----------------------------------------------------------------------------
(***************************************************************************)
(* What a handler has checked of the rows it holds.  These are facts about *)
(* the request alone: they stay true however stale the row becomes.        *)
(***************************************************************************)
Passed(q, i) ==
    /\ q.op = "accept" => i.status = Invited
    /\ q.op = "confirm" =>
         /\ i.status = Accepted
         /\ q.pc = "write" /\ i.atype = Owner => q.asOwner
    /\ q.op = "edit" /\ Owner \in {q.type, i.atype} => q.asOwner
    /\ q.op \in {"remove", "revoke"} /\ i.atype = Owner => q.asOwner
    /\ q.op = "invite" => i.atype = q.type
    /\ q.op = "import" => i.atype = User
    /\ q.op \in InsertOps => i.status \in ActiveStatuses
    /\ q.op = "enablePolicy" => Sweepable(i)

CountedOps == {"edit", "adminType", "remove", "revoke", "leave"}
ReadAgainOps == {"invite", "confirm", "remove", "revoke", "restore"}

Checked(q) ==
    /\ q.cur # None => Passed(q, q.cur)
    /\ \A i \in q.items : Sweepable(i) /\ q.op \in {"enablePolicy", "enforce"}
    /\ q.op = "invite" /\ q.type = Owner /\ q.pc # "actor" => q.asOwner
    /\ q.pc \in {"target", "sweep"} => q.cur = None
    /\ q.pc = "actor" => /\ q.op \in ReadAgainOps
                         /\ q.op # "confirm" => q.cur = None
    /\ q.pc = "count" => q.op \in CountedOps
    /\ q.op = "enforce" => q.cur = None

ChecksPassed ==
    \A r \in Requests : requests[r] # None => Checked(requests[r])

\* One handler's step leaves what the others have checked alone.
LEMMA PutChecked ==
    ASSUME RequestsOK, ChecksPassed, NEW r \in Requests, NEW q,
           q = None \/ Checked(q), requests' = [requests EXCEPT ![r] = q]
    PROVE  ChecksPassed'
  BY DEF RequestsOK, ChecksPassed

\* A step that touches no request.
LEMMA IdleChecked ==
    ASSUME ChecksPassed, UNCHANGED requests
    PROVE  ChecksPassed'
  BY DEF ChecksPassed

\* A request in flight has passed its checks.
LEMMA CheckedRequest ==
    ASSUME RequestsOK, ChecksPassed, NEW r \in Requests, requests[r] # None
    PROVE  /\ requests[r] \in Request
           /\ Checked(requests[r])
           /\ requests[r].cur # None => requests[r].cur \in Item
  <1>1. requests[r] \in Request /\ Checked(requests[r])
    BY RequestType DEF ChecksPassed
  <1> QED
    BY <1>1 DEF Request

\* A handler that returns, throws or goes on with its next id.
LEMMA ReleaseChecked ==
    ASSUME RequestsOK, ChecksPassed, NEW r \in Requests, requests[r] # None,
           \/ Done(r)
           \/ NextItem(r) /\ requests[r].pc # "actor"
           \/ NextItem(r) /\ requests[r].cur # None
    PROVE  ChecksPassed'
  <1>1. CASE Done(r)
    BY <1>1, PutChecked DEF Done
  <1>2. CASE NextItem(r) /\ (requests[r].pc # "actor" \/ requests[r].cur # None)
    <2> DEFINE q == [requests[r] EXCEPT !.cur = None,
                       !.pc = LoopStart(requests[r].op, requests[r].actor)]
    <2>1. requests[r] \in Request /\ Checked(requests[r])
      BY CheckedRequest
    <2>2. Checked(q)
      BY <1>1, <1>2, <2>1 DEF Checked, Request, LoopStart, ReadAgainOps
    <2>3. requests' = [requests EXCEPT ![r] = q]
      BY <1>2 DEF NextItem
    <2> QED
      BY <2>2, <2>3, PutChecked
  <1> QED
    BY <1>1, <1>2

\* A check that passed.
LEMMA GotoChecked ==
    ASSUME RequestsOK, ChecksPassed, NEW r \in Requests, requests[r] # None,
           \/ CountOwners(r) \/ AcceptCheck2fa(r) \/ AcceptCheckSingleOrg(r)
    PROVE  ChecksPassed'
  <1>1. /\ requests[r] \in Request /\ Checked(requests[r])
        /\ requests[r].op \in CountedOps \cup {"accept"}
    BY CheckedRequest DEF Checked, CountOwners, AcceptCheck2fa,
                          AcceptCheckSingleOrg, At
  <1>2. PICK pc \in {"write", "checkSingle"} : Goto(r, pc)
    BY DEF CountOwners, AcceptCheck2fa, AcceptCheckSingleOrg
  <1> DEFINE q == [requests[r] EXCEPT !.pc = pc]
  <1>3. Checked(q)
    BY <1>1 DEF Checked, Passed, Request, CountedOps
  <1>4. requests' = [requests EXCEPT ![r] = q]
    BY <1>2 DEF Goto
  <1> QED
    BY <1>3, <1>4, PutChecked

\* The row reads of confirm, edit, remove, revoke and restore.
LEMMA ReadsChecked ==
    ASSUME TypeInv, ChecksPassed, NEW r \in Requests, NEW m \in Members,
           \/ ConfirmRead(r, m) \/ EditRead(r, m) \/ RemoveRead(r, m)
           \/ RevokeRead(r, m) \/ RestoreRead(r, m)
    PROVE  ChecksPassed'
  <1> DEFINE i == Snapshot(m)
  <1>1. /\ m \in Rows /\ requests[r] # None
        /\ requests[r].op \in {"confirm", "edit", "remove", "revoke", "restore"}
        /\ requests[r].pc = "target"
    BY DEF ConfirmRead, EditRead, RemoveRead, RevokeRead, RestoreRead, At
  <1>2. /\ i \in Item /\ i # None /\ i.status = members[m].status
        /\ i.atype = members[m].atype
    BY <1>1, SnapshotType DEF TypeInv, Snapshot
  <1>3. requests[r] \in Request /\ Checked(requests[r])
    BY <1>1, CheckedRequest DEF TypeInv
  <1>4. PICK pc \in {"actor", "count", "write"} :
          /\ Read(r, i, pc)
          /\ pc = "actor" => requests[r].op = "confirm"
          /\ pc = "count" => requests[r].op \in CountedOps
          /\ requests[r].op = "confirm" =>
               i.status = Accepted /\ (i.atype = Owner => pc = "actor")
          /\ requests[r].op = "edit" /\ Owner \in {requests[r].type, i.atype}
               => requests[r].asOwner
          /\ requests[r].op \in {"remove", "revoke"} /\ i.atype = Owner
               => requests[r].asOwner
    BY <1>2 DEF ConfirmRead, EditRead, RemoveRead, RevokeRead, RestoreRead, At,
                LastOwnerCheck, CountedOps
  <1> HIDE DEF i
  <1> DEFINE q == [requests[r] EXCEPT !.cur = i, !.pc = pc]
  <1>5. /\ q.cur = i /\ q.pc = pc /\ q.op = requests[r].op
        /\ q.type = requests[r].type /\ q.asOwner = requests[r].asOwner
        /\ q.items = requests[r].items
    BY <1>3 DEF Request
  <1>6. requests' = [requests EXCEPT ![r] = q]
    BY <1>4 DEF Read
  <1> HIDE DEF q
  <1>7. Passed(q, q.cur)
    BY <1>1, <1>4, <1>5 DEF Passed, InsertOps
  <1>8. Checked(q)
    BY <1>1, <1>3, <1>4, <1>5, <1>7 DEF Checked, ReadAgainOps, CountedOps
  <1> QED
    BY <1>6, <1>8, PutChecked DEF TypeInv

\* The lookup of an invited or imported email.
LEMMA ReadInviteeChecked ==
    ASSUME TypeInv, ChecksPassed, NEW r \in Requests,
           NEW u \in Users, NEW m \in Members,
           InviteRead(r, u, m) \/ ImportNew(r, u, m)
    PROVE  ChecksPassed'
  <1>1. PICK t \in Types, s \in {Invited, Accepted} :
          /\ requests[r] # None /\ requests[r].pc = "target"
          /\ requests[r].op \in {"invite", "import"}
          /\ requests[r].op = "invite" => t = requests[r].type
          /\ requests[r].op = "import" => t = User
          /\ Read(r, [id |-> m, user |-> u, atype |-> t, status |-> s], "write")
    <2>1. CASE InviteRead(r, u, m)
      <3>1. requests[r].type \in Types
        BY <2>1, RequestType DEF InviteRead, ReadInvitee, At, Request, TypeInv
      <3> WITNESS requests[r].type \in Types,
                  (IF MailEnabled THEN Invited ELSE Accepted)
                    \in {Invited, Accepted}
      <3> QED
        BY <2>1 DEF InviteRead, ReadInvitee, At
    <2>2. CASE ImportNew(r, u, m)
      <3>1. PICK s \in {Invited, Accepted} :
              ReadInvitee(r, "import", u, m, User, s)
        BY <2>2 DEF ImportNew
      <3> QED
        BY <3>1, TypeFacts DEF ReadInvitee, At
    <2> QED
      BY <2>1, <2>2
  <1> DEFINE i == [id |-> m, user |-> u, atype |-> t, status |-> s]
             q == [requests[r] EXCEPT !.cur = i, !.pc = "write"]
  <1>2. requests[r] \in Request /\ Checked(requests[r])
    BY <1>1, CheckedRequest DEF TypeInv
  <1>3. Checked(q)
    BY <1>1, <1>2 DEF Checked, Passed, Request, ActiveStatuses
  <1>4. requests' = [requests EXCEPT ![r] = q]
    BY <1>1 DEF Read
  <1> QED
    BY <1>3, <1>4, PutChecked DEF TypeInv

\* The second look at the actor's own membership.
LEMMA ReadActorChecked ==
    ASSUME TypeInv, ChecksPassed, NEW r \in Requests, ReadActor(r)
    PROVE  ChecksPassed'
  <1>1. requests[r] \in Request /\ Checked(requests[r])
    BY CheckedRequest DEF TypeInv, ReadActor
  <1>2. \E owner :
          /\ requests[r].op \in {"invite", "confirm"} => owner
          /\ requests' = [requests EXCEPT
               ![r].asOwner = owner,
               ![r].pc = IF requests[r].op = "confirm" THEN "write"
                         ELSE "target"]
    BY Zenon DEF ReadActor
  <1>3. PICK owner :
          /\ requests[r].op \in {"invite", "confirm"} => owner
          /\ requests' = [requests EXCEPT
               ![r].asOwner = owner,
               ![r].pc = IF requests[r].op = "confirm" THEN "write"
                         ELSE "target"]
    BY <1>2
  <1> DEFINE q == [requests[r] EXCEPT !.asOwner = owner,
                     !.pc = IF requests[r].op = "confirm" THEN "write"
                            ELSE "target"]
  <1>4. requests' = [requests EXCEPT ![r] = q]
    BY <1>3
  <1>5. /\ q.pc = IF requests[r].op = "confirm" THEN "write" ELSE "target"
        /\ q.op = requests[r].op /\ q.type = requests[r].type
        /\ q.items = requests[r].items /\ q.cur = requests[r].cur
    BY <1>1 DEF Request
  <1>6. q.op \in {"invite", "confirm"} => q.asOwner
    BY <1>1, <1>3, <1>5 DEF Request
  <1>7. requests[r].pc = "actor"
    BY DEF ReadActor
  <1> HIDE DEF q
  <1>8. q.op \in ReadAgainOps /\ (q.op # "confirm" => q.cur = None)
    BY <1>1, <1>5, <1>7 DEF Checked
  <1>9. q.cur # None => Passed(q, q.cur)
    BY <1>1, <1>5, <1>6, <1>8 DEF Passed, Checked, InsertOps
  <1>10. Checked(q)
    BY <1>1, <1>5, <1>6, <1>8, <1>9 DEF Checked, ReadAgainOps
  <1> QED
    BY <1>4, <1>10, PutChecked DEF TypeInv

\* A sweep goes on: it keeps rows it had filtered, and is about to write one
\* of them or none.
LEMMA PutSweep ==
    ASSUME TypeInv, ChecksPassed, NEW r \in Requests, requests[r] # None,
           requests[r].op \in {"enablePolicy", "enforce"},
           NEW S, NEW c, NEW pc \in {"sweep", "write"},
           requests' = [requests EXCEPT ![r] =
             [requests[r] EXCEPT !.items = S, !.cur = c, !.pc = pc]],
           \A i \in S : Sweepable(i),
           c # None => /\ Sweepable(c) /\ requests[r].op = "enablePolicy"
                       /\ pc = "write"
    PROVE  ChecksPassed'
  <1> DEFINE q == [requests[r] EXCEPT !.items = S, !.cur = c, !.pc = pc]
  <1>1. requests[r] \in Request /\ Checked(requests[r])
    BY CheckedRequest DEF TypeInv
  <1>2. q.items = S /\ q.cur = c /\ q.pc = pc /\ q.op = requests[r].op
    BY <1>1 DEF Request
  <1> HIDE DEF q
  <1>3. Checked(q)
    BY <1>1, <1>2 DEF Checked, Passed, InsertOps
  <1> QED
    BY <1>3, PutChecked DEF q, TypeInv

\* The member lists of putPolicyHandler and enforce2faPolicy are filtered as
\* they are read.
LEMMA SweepReadsChecked ==
    ASSUME TypeInv, ChecksPassed, NEW r \in Requests,
           PolicyReadMembers(r) \/ EnforceRead(r)
    PROVE  ChecksPassed'
  <1>1. /\ requests[r] # None /\ requests[r].op \in {"enablePolicy", "enforce"}
        /\ requests[r] \in Request /\ Checked(requests[r])
    BY CheckedRequest DEF PolicyReadMembers, EnforceRead, At, TypeInv
  <1>2. requests[r].cur = None
    BY <1>1 DEF Checked, PolicyReadMembers, EnforceRead, At
  <1>3. PICK M \in SUBSET Rows, pc \in {"sweep", "write"} :
          requests' = [requests EXCEPT
            ![r].items = {i \in {Snapshot(m) : m \in M} : Sweepable(i)},
            ![r].pc = pc]
    <2>1. CASE PolicyReadMembers(r)
      <3> WITNESS {n \in Rows : members[n].org = requests[r].org}
                    \in SUBSET Rows, "sweep" \in {"sweep", "write"}
      <3> QED BY <2>1 DEF PolicyReadMembers
    <2>2. CASE EnforceRead(r)
      <3> WITNESS {m \in Rows : /\ members[m].user = requests[r].actor
                                /\ <<members[m].org, "TwoFactor">> \in policies}
                    \in SUBSET Rows, "write" \in {"sweep", "write"}
      <3> QED BY <2>2 DEF EnforceRead
    <2> QED
      BY <2>1, <2>2
  <1> DEFINE S == {i \in {Snapshot(m) : m \in M} : Sweepable(i)}
  <1>4. \A i \in S : Sweepable(i)
    OBVIOUS
  <1>5. requests' = [requests EXCEPT ![r].items = S, ![r].pc = pc]
    BY <1>3
  <1> HIDE DEF S
  <1>6. requests' = [requests EXCEPT ![r] =
          [requests[r] EXCEPT !.items = S, !.cur = None, !.pc = pc]]
    BY <1>1, <1>2, <1>5 DEF Request
  <1> QED
    BY <1>1, <1>4, <1>6, PutSweep

\* The steps of the two sweeps.
LEMMA SweepsChecked ==
    ASSUME TypeInv, ChecksPassed, NEW r \in Requests, requests[r] # None,
           \/ PolicyRevokeMember(r)
           \/ \E i \in requests[r].items :
                PolicyCheckMember(r, i) \/ EnforceRevoke(r, i)
    PROVE  ChecksPassed'
  <1>1. /\ requests[r].op \in {"enablePolicy", "enforce"}
        /\ requests[r] \in Request /\ Checked(requests[r])
    BY CheckedRequest
       DEF PolicyRevokeMember, PolicyCheckMember, EnforceRevoke, At, TypeInv
  <1>2. \A i \in requests[r].items : Sweepable(i)
    BY <1>1 DEF Checked
  <1>3. CASE PolicyRevokeMember(r)
    <2>1. requests' = [requests EXCEPT ![r] =
            [requests[r] EXCEPT !.items = requests[r].items, !.cur = None,
                                !.pc = "sweep"]]
      BY <1>1, <1>3 DEF PolicyRevokeMember, Read, Request
    <2> QED
      BY <1>1, <1>2, <2>1, PutSweep
  <1>4. ASSUME NEW i \in requests[r].items, PolicyCheckMember(r, i)
        PROVE  ChecksPassed'
    <2> DEFINE ok == Complies(i, requests[r].org, requests[r].policy)
               S == requests[r].items \ {i}
    <2>1. requests[r].op = "enablePolicy"
      BY <1>4 DEF PolicyCheckMember, At
    <2>2. requests' = [requests EXCEPT ![r].items = S,
            ![r].cur = IF ok THEN None ELSE i,
            ![r].pc = IF ok THEN "sweep" ELSE "write"]
      BY <1>4 DEF PolicyCheckMember
    <2>s. \A j \in S : Sweepable(j)
      BY <1>2
    <2> HIDE DEF ok, S
    <2>3. CASE ok
      <3>1. requests' = [requests EXCEPT ![r] =
              [requests[r] EXCEPT !.items = S, !.cur = None, !.pc = "sweep"]]
        BY <1>1, <2>2, <2>3
      <3> QED
        BY <1>1, <2>s, <3>1, PutSweep
    <2>4. CASE ~ok
      <3>1. requests' = [requests EXCEPT ![r] =
              [requests[r] EXCEPT !.items = S, !.cur = i, !.pc = "write"]]
        BY <1>1, <2>2, <2>4
      <3> QED
        BY <1>1, <1>2, <2>1, <2>s, <3>1, PutSweep
    <2> QED
      BY <2>3, <2>4
  <1>5. ASSUME NEW i \in requests[r].items, EnforceRevoke(r, i)
        PROVE  ChecksPassed'
    <2> DEFINE S == requests[r].items \ {i}
    <2>1. requests[r].cur = None /\ requests[r].pc = "write"
      BY <1>1, <1>5 DEF EnforceRevoke, At, Checked
    <2>2. requests' = [requests EXCEPT ![r].items = S]
      BY <1>5 DEF EnforceRevoke
    <2>s. \A j \in S : Sweepable(j)
      BY <1>2
    <2> HIDE DEF S
    <2>3. requests' = [requests EXCEPT ![r] =
            [requests[r] EXCEPT !.items = S, !.cur = None, !.pc = "write"]]
      BY <1>1, <2>1, <2>2 DEF Request
    <2> QED
      BY <1>1, <2>s, <2>3, PutSweep
  <1> QED
    BY <1>3, <1>4, <1>5

\* The first statement of a handler.
LEMMA ArriveChecked ==
    ASSUME TypeInv, ChecksPassed, NEW r \in Requests, Arrive(r)
    PROVE  ChecksPassed'
  <1>1. CASE BeginAdminRoute(r)
    <2>1. PICK u \in users, o \in orgs, op \in AdminOps \cup OwnerOps,
               t \in Types, p \in Policies, min \in Types :
                 requireMember(r, u, o, min, op, t, p)
      BY <1>1, InputAssumption, TypeFacts DEF BeginAdminRoute, Policies
    <2>2. PICK owner :
            Begin(r, [NewRequest(op, AfterAuth(op, u, t), u, o) EXCEPT
                        !.asOwner = owner, !.type = t, !.policy = p])
      BY <2>1 DEF requireMember
    <2> DEFINE q == [NewRequest(op, AfterAuth(op, u, t), u, o) EXCEPT
                       !.asOwner = owner, !.type = t, !.policy = p]
    <2>3. Checked(q)
      BY DEF NewRequest, AfterAuth, LoopStart, Checked, ReadAgainOps
    <2> QED
      BY <2>2, <2>3, PutChecked DEF Begin, TypeInv
  <1>2. ASSUME NEW o \in Orgs, BeginImport(r, o)
        PROVE  ChecksPassed'
    <2>1. PICK op \in {"import", "revoke", "restore"} :
            Begin(r, [NewRequest(op, "target", None, o) EXCEPT
                        !.asOwner = TRUE])
      BY <1>2 DEF BeginImport
    <2> DEFINE q == [NewRequest(op, "target", None, o) EXCEPT !.asOwner = TRUE]
    <2>2. Checked(q)
      BY DEF NewRequest, Checked
    <2> QED
      BY <2>1, <2>2, PutChecked DEF Begin, TypeInv
  <1>3. ASSUME NEW u \in Users, LoginWithout2fa(r, u) \/ LoginWithRecoveryCode(r, u)
        PROVE  ChecksPassed'
    <2> DEFINE q == NewRequest("enforce", "policy", u, None)
    <2>1. Checked(q)
      BY DEF NewRequest, Checked
    <2> QED
      BY <1>3, <2>1, PutChecked
         DEF Begin, LoginWithout2fa, LoginWithRecoveryCode, TypeInv
  <1>4. ASSUME NEW u \in Users, NEW m \in Members, AcceptRead(r, u, m)
        PROVE  ChecksPassed'
    <2> DEFINE q == [NewRequest("accept", "check2fa", u, members[m].org) EXCEPT
                       !.cur = Snapshot(m)]
    <2>1. Checked(q)
      BY <1>4 DEF NewRequest, Checked, Passed, AcceptRead, Snapshot, InsertOps
    <2> QED
      BY <1>4, <2>1, PutChecked DEF Begin, AcceptRead, TypeInv
  <1>5. ASSUME NEW u \in Users, NEW m \in Members, LeaveRead(r, u, m)
        PROVE  ChecksPassed'
    <2> DEFINE q == [NewRequest("leave", LastOwnerCheck(m), u, members[m].org)
                       EXCEPT !.cur = Snapshot(m)]
    <2>1. Checked(q)
      BY DEF NewRequest, Checked, Passed, LastOwnerCheck, InsertOps, CountedOps
    <2> QED
      BY <1>5, <2>1, PutChecked DEF Begin, LeaveRead, TypeInv
  <1>6. ASSUME NEW u \in Users, NEW m \in Members, NEW o \in Orgs,
               CreateOrg(r, u, o, m)
        PROVE  ChecksPassed'
    <2> DEFINE i == [id |-> m, user |-> u, atype |-> Owner,
                     status |-> Confirmed]
               q == [NewRequest("create", "write", u, o) EXCEPT !.cur = i]
    <2>1. Checked(q)
      BY DEF NewRequest, Checked, Passed, InsertOps, ActiveStatuses
    <2> QED
      BY <1>6, <2>1, PutChecked DEF Begin, CreateOrg, TypeInv
  <1>7. ASSUME NEW m \in Members, NEW t \in InputTypes, AdminTypeRead(r, m, t)
        PROVE  ChecksPassed'
    <2> DEFINE pc == IF members[m].atype = Owner /\ t # Owner
                     THEN "count" ELSE "write"
               q == [NewRequest("adminType", pc, None, members[m].org) EXCEPT
                       !.type = t, !.cur = Snapshot(m)]
    <2>1. Checked(q)
      BY DEF NewRequest, Checked, Passed, InsertOps, CountedOps
    <2> QED
      BY <1>7, <2>1, PutChecked DEF Begin, AdminTypeRead, TypeInv
  <1> QED
    BY <1>1, <1>2, <1>3, <1>4, <1>5, <1>6, <1>7 DEF Arrive

\* The writes that end a handler or its turn for one id.
LEMMA WritesChecked ==
    ASSUME TypeInv, ChecksPassed, NEW r \in Requests,
           \/ EndRequest(r) \/ SkipItem(r) \/ CreateOwner(r) \/ InviteWrite(r)
           \/ ImportInsert(r) \/ AcceptWrite(r) \/ EditWrite(r)
           \/ AdminTypeWrite(r) \/ RemoveWrite(r) \/ LeaveWrite(r)
           \/ RevokeWrite(r) \/ RestoreWrite(r) \/ PolicyEnable(r)
           \/ PolicyDisable(r) \/ DeleteOrg(r)
           \/ \E key \in ConfirmKeys : ConfirmWrite(r, key)
    PROVE  ChecksPassed'
  <1>1. /\ requests[r] # None
        /\ \/ Done(r)
           \/ NextItem(r) /\ requests[r].pc # "actor"
           \/ NextItem(r) /\ requests[r].cur # None
    BY DEF EndRequest, SkipItem, CreateOwner, InviteWrite, ImportInsert,
           AcceptWrite, EditWrite, AdminTypeWrite, SetType, RemoveWrite,
           LeaveWrite, RevokeWrite, RestoreWrite, PolicyEnable, PolicyDisable,
           DeleteOrg, ConfirmWrite, At
  <1> QED
    BY <1>1, ReleaseChecked DEF TypeInv

\* ChecksPassed is inductive.
LEMMA ChecksPassedStep ==
    ASSUME TypeInv, ChecksPassed, [Next]_vars
    PROVE  ChecksPassed'
  <1>1. CASE Instant
    BY <1>1, IdleChecked
       DEF Instant, AcceptOpenInvitations, ActivateTwofactor, DisableTwofactor,
           DeleteAccount, RegisterAccount
  <1>2. ASSUME NEW r \in Requests, Arrive(r)
        PROVE  ChecksPassed'
    BY <1>2, ArriveChecked
  <1>3. ASSUME NEW r \in Requests, Continue(r)
        PROVE  ChecksPassed'
    <2>1. requests[r] # None
      BY <1>3 DEF Continue, EndRequest, SkipItem, ReadActor, CountOwners,
           CreateOwner, InviteWrite, ImportInsert, AcceptCheck2fa,
           AcceptCheckSingleOrg, AcceptWrite, EditWrite, AdminTypeWrite,
           SetType, RemoveWrite, LeaveWrite, RevokeWrite, RestoreWrite,
           PolicyReadMembers, PolicyRevokeMember, PolicyEnable, PolicyDisable,
           EnforceRead, DeleteOrg, ConfirmWrite, ConfirmRead, EditRead,
           RemoveRead, RevokeRead, RestoreRead, InviteRead, ImportNew,
           ReadInvitee, At
    <2>2. CASE CountOwners(r) \/ AcceptCheck2fa(r) \/ AcceptCheckSingleOrg(r)
      BY <2>1, <2>2, GotoChecked DEF TypeInv
    <2>3. CASE \E m \in Members :
                 \/ ConfirmRead(r, m) \/ EditRead(r, m) \/ RemoveRead(r, m)
                 \/ RevokeRead(r, m) \/ RestoreRead(r, m)
      BY <2>3, ReadsChecked
    <2>4. CASE \E m \in Members, u \in Users :
                 InviteRead(r, u, m) \/ ImportNew(r, u, m)
      BY <2>4, ReadInviteeChecked
    <2>5. CASE \/ PolicyRevokeMember(r)
               \/ \E i \in requests[r].items :
                    PolicyCheckMember(r, i) \/ EnforceRevoke(r, i)
      BY <2>1, <2>5, SweepsChecked
    <2> QED
      BY <1>3, <2>2, <2>3, <2>4, <2>5, ReadActorChecked, SweepReadsChecked,
         WritesChecked DEF Continue
  <1>4. CASE UNCHANGED vars
    BY <1>4, IdleChecked DEF vars
  <1> QED
    BY <1>1, <1>2, <1>3, <1>4 DEF Next

\* No request has read anything yet.
LEMMA ChecksPassedInit == Init => ChecksPassed
  BY DEF Init, ChecksPassed

(***************************************************************************)
(* Who makes an Owner                                                      *)
(***************************************************************************)
\* b is the same membership as a, in the same role.
SameMember(a, b) ==
    a # None /\ b.user = a.user /\ b.org = a.org /\ b.atype = a.atype

\* No row appears, and a row that stays keeps its user, organization and role.
Kept ==
    \A m \in Members : members'[m] = None \/ SameMember(members[m], members'[m])

\* A step that leaves the membership table alone.
LEMMA UnchangedKept ==
    ASSUME UNCHANGED members
    PROVE  Kept
  BY DEF Kept, SameMember

\* UPDATE users_organizations SET status = ? changes the status of one row.
LEMMA SetStatusRows ==
    ASSUME TablesOK, NEW m \in Members, NEW s, SetStatus(m, s)
    PROVE  /\ \A n \in Members \ {m} : members'[n] = members[n]
           /\ members[m] = None => members'[m] = None
           /\ members[m] # None =>
                /\ members'[m] = [members[m] EXCEPT !.status = s]
                /\ members'[m].status = s
                /\ SameMember(members[m], members'[m])
  <1>1. CASE members[m] = None
    BY <1>1 DEF SetStatus, TablesOK
  <1>2. CASE members[m] # None
    <2>1. members' = [members EXCEPT ![m] = [members[m] EXCEPT !.status = s]]
      BY <1>2 DEF SetStatus
    <2>2. members[m] \in Row /\ members \in [Members -> Row \cup {None}]
      BY <1>2 DEF TablesOK
    <2>3. members'[m] = [members[m] EXCEPT !.status = s]
      BY <2>1, <2>2
    <2>4. /\ members'[m].status = s /\ members'[m].user = members[m].user
          /\ members'[m].org = members[m].org
          /\ members'[m].atype = members[m].atype
      BY <2>2, <2>3 DEF Row
    <2> QED
      BY <1>2, <2>1, <2>2, <2>3, <2>4 DEF SameMember
  <1> QED
    BY <1>1, <1>2

\* confirmMember changes status and key of one row.
LEMMA ConfirmRows ==
    ASSUME TypeInv, NEW r \in Requests, NEW key, ConfirmWrite(r, key)
    PROVE  /\ requests[r].cur.id \in Members
           /\ \A n \in Members \ {requests[r].cur.id} : members'[n] = members[n]
           /\ members[requests[r].cur.id] = None =>
                members'[requests[r].cur.id] = None
           /\ members[requests[r].cur.id] # None =>
                /\ members'[requests[r].cur.id].status = Confirmed
                /\ SameMember(members[requests[r].cur.id],
                              members'[requests[r].cur.id])
  <1> DEFINE m == requests[r].cur.id
  <1>1. m \in Members
    BY CurType DEF TypeInv, ConfirmWrite, At
  <1>2. CASE members[m] = None
    BY <1>1, <1>2 DEF ConfirmWrite, TypeInv, TablesOK
  <1>3. CASE members[m] # None
    <2>1. members' = [members EXCEPT ![m] =
                        [members[m] EXCEPT !.status = Confirmed,
                                           !.akey = ConfirmedKey(@, key)]]
      BY <1>3 DEF ConfirmWrite
    <2>2. members[m] \in Row /\ members \in [Members -> Row \cup {None}]
      BY <1>1, <1>3 DEF TypeInv, TablesOK
    <2>3. members'[m] = [members[m] EXCEPT !.status = Confirmed,
                                           !.akey = ConfirmedKey(@, key)]
      BY <1>1, <2>1, <2>2
    <2>4. /\ members'[m].status = Confirmed
          /\ members'[m].user = members[m].user
          /\ members'[m].org = members[m].org
          /\ members'[m].atype = members[m].atype
      BY <2>2, <2>3 DEF Row
    <2>5. \A n \in Members \ {m} : members'[n] = members[n]
      BY <2>1, <2>2
    <2> QED
      BY <1>1, <1>3, <2>4, <2>5 DEF SameMember
  <1> QED
    BY <1>2, <1>3

\* Deletions and cascades take rows away and touch no other.
LEMMA DeletedKept ==
    ASSUME \A m \in Members : members'[m] \in {None, members[m]}
    PROVE  Kept
  BY DEF Kept, SameMember

\* A step other than an insert and a role change moves nobody to another
\* role, user or organization.
LEMMA InstantKept ==
    ASSUME TypeInv, Instant
    PROVE  Kept
  <1>1. PICK u \in Users :
          \/ AcceptOpenInvitations(u) \/ ActivateTwofactor(u)
          \/ DisableTwofactor(u) \/ DeleteAccount(u) \/ RegisterAccount(u)
    BY DEF Instant
  <1>2. CASE AcceptOpenInvitations(u)
    <2>1. ASSUME NEW m \in Members
          PROVE  members'[m] = None \/ SameMember(members[m], members'[m])
      <3>1. members[m] # None => members[m] \in Row
        BY DEF TypeInv, TablesOK
      <3>2. members'[m] = IF /\ m \in Rows /\ members[m].user = u
                             /\ members[m].status = Invited
                          THEN [members[m] EXCEPT !.status = Accepted]
                          ELSE members[m]
        BY <1>2 DEF AcceptOpenInvitations
      <3> QED
        BY <3>1, <3>2 DEF SameMember, Row, Rows
    <2> QED
      BY <2>1 DEF Kept
  <1>3. CASE DeleteAccount(u)
    BY <1>3, DeletedKept DEF DeleteAccount
  <1>4. CASE ActivateTwofactor(u) \/ DisableTwofactor(u) \/ RegisterAccount(u)
    BY <1>4, UnchangedKept DEF ActivateTwofactor, DisableTwofactor, RegisterAccount
  <1> QED
    BY <1>1, <1>2, <1>3, <1>4

\* The statuses that accept, setRevoked and the two sweeps write.
LEMMA StatusWritesKept ==
    ASSUME TypeInv, NEW r \in Requests,
           \/ AcceptWrite(r) \/ RevokeWrite(r) \/ RestoreWrite(r)
           \/ PolicyRevokeMember(r)
           \/ \E key \in ConfirmKeys : ConfirmWrite(r, key)
           \/ /\ requests[r] # None
              /\ \E i \in requests[r].items : EnforceRevoke(r, i)
    PROVE  Kept
  <1>1. CASE \/ AcceptWrite(r) \/ RevokeWrite(r) \/ RestoreWrite(r)
             \/ PolicyRevokeMember(r)
    <2>1. requests[r].cur.id \in Members /\ \E s : SetStatus(requests[r].cur.id, s)
      BY <1>1, CurType DEF AcceptWrite, RevokeWrite, RestoreWrite,
                           PolicyRevokeMember, At, TypeInv
    <2> QED
      BY <2>1, SetStatusRows DEF Kept, SameMember, TypeInv
  <1>2. CASE \E key \in ConfirmKeys : ConfirmWrite(r, key)
    BY <1>2, ConfirmRows DEF Kept, SameMember
  <1>3. ASSUME requests[r] # None, NEW i \in requests[r].items,
               EnforceRevoke(r, i)
        PROVE  Kept
    <2>1. i.id \in Members /\ SetStatus(i.id, Revoked)
      BY <1>3, RequestType DEF EnforceRevoke, TypeInv, Request, Item
    <2> QED
      BY <2>1, SetStatusRows DEF Kept, SameMember, TypeInv
  <1> QED
    BY <1>1, <1>2, <1>3

Grants(r) ==
    \/ CreateOwner(r) \/ InviteWrite(r) \/ ImportInsert(r)
    \/ EditWrite(r) \/ AdminTypeWrite(r)

\* A step that neither inserts a row nor writes a role keeps the roles.
LEMMA ContinueKept ==
    ASSUME TypeInv, NEW r \in Requests, Arrive(r) \/ Continue(r), ~Grants(r)
    PROVE  Kept
  <1>1. CASE Arrive(r)
    BY <1>1, UnchangedKept
       DEF Arrive, BeginAdminRoute, requireMember, BeginImport, LoginWithout2fa,
           LoginWithRecoveryCode, AcceptRead, LeaveRead, CreateOrg,
           AdminTypeRead, tables
  <1>2. CASE RemoveWrite(r) \/ LeaveWrite(r) \/ DeleteOrg(r)
    <2>1. \A m \in Members : members'[m] \in {None, members[m]}
      BY <1>2 DEF RemoveWrite, LeaveWrite, Delete, DeleteOrg, TypeInv, TablesOK
    <2> QED
      BY <2>1, DeletedKept
  <1>3. CASE \/ EndRequest(r) \/ SkipItem(r) \/ ReadActor(r) \/ CountOwners(r)
             \/ AcceptCheck2fa(r) \/ AcceptCheckSingleOrg(r)
             \/ PolicyReadMembers(r) \/ EnforceRead(r) \/ PolicyEnable(r)
             \/ PolicyDisable(r)
    BY <1>3, UnchangedKept
       DEF EndRequest, SkipItem, ReadActor, CountOwners, AcceptCheck2fa,
           AcceptCheckSingleOrg, PolicyReadMembers, EnforceRead, PolicyEnable,
           PolicyDisable, tables
  <1>4. CASE \E m \in Members :
               \/ ConfirmRead(r, m) \/ EditRead(r, m) \/ RemoveRead(r, m)
               \/ RevokeRead(r, m) \/ RestoreRead(r, m)
               \/ \E u \in Users : InviteRead(r, u, m) \/ ImportNew(r, u, m)
    BY <1>4, UnchangedKept
       DEF ConfirmRead, EditRead, RemoveRead, RevokeRead, RestoreRead,
           InviteRead, ImportNew, ReadInvitee, tables
  <1>5. CASE \E i \in requests[r].items : PolicyCheckMember(r, i)
    BY <1>5, UnchangedKept DEF PolicyCheckMember, tables
  <1> QED
    BY <1>1, <1>2, <1>3, <1>4, <1>5, StatusWritesKept DEF Continue, Grants

\* A role written by an edit, an invite, an import or the admin panel is an
\* Owner's only if the request was an Owner's, the admin panel's or the one
\* that created the organization.
LEMMA GrantWrites ==
    ASSUME TypeInv, ChecksPassed, NEW r \in Requests, Grants(r),
           NEW m \in Members, members'[m] # members[m], members'[m] # None,
           members'[m].atype = Owner
    PROVE  requests[r].asOwner \/ requests[r].op \in {"create", "adminType"}
  <1> DEFINE q == requests[r]
  <1>1. q # None /\ q.pc = "write" /\ q.op # "enforce"
    BY DEF Grants, CreateOwner, InviteWrite, ImportInsert, EditWrite,
           AdminTypeWrite, SetType, At
  <1>2. q \in Request /\ Checked(q) /\ q.cur # None /\ q.cur.id \in Members
    BY <1>1, CurType, CheckedRequest DEF TypeInv
  <1>3. CASE CreateOwner(r) \/ AdminTypeWrite(r)
    BY <1>3 DEF CreateOwner, AdminTypeWrite, SetType, At
  <1>4. CASE InviteWrite(r) \/ ImportInsert(r)
    <2>1. members' = [members EXCEPT ![q.cur.id] =
             [user |-> q.cur.user, org |-> q.org, atype |-> q.cur.atype,
              status |-> q.cur.status, akey |-> ""]]
      BY <1>4 DEF InviteWrite, ImportInsert, Insert
    <2>2. members'[m].atype = q.cur.atype
      BY <1>2, <2>1 DEF TypeInv, TablesOK
    <2>3. q.cur.atype = Owner /\ q.op \in {"invite", "import"}
      BY <1>4, <2>2 DEF InviteWrite, ImportInsert, At
    <2> QED
      BY <1>1, <1>2, <2>3 DEF Checked, Passed, User, Owner
  <1>5. CASE EditWrite(r)
    <2>1. q.op = "edit" /\ members[q.cur.id] # None
          /\ members' = [members EXCEPT ![q.cur.id] =
                           [members[q.cur.id] EXCEPT !.atype = q.type]]
      BY <1>5 DEF EditWrite, SetType, At
    <2>2. members[q.cur.id] \in Row
      BY <1>2, <2>1 DEF TypeInv, TablesOK
    <2>3. m = q.cur.id
      BY <2>1 DEF TypeInv, TablesOK
    <2>4. members'[m].atype = q.type
      BY <1>2, <2>1, <2>2, <2>3 DEF TypeInv, TablesOK, Row
    <2> QED
      BY <1>2, <2>1, <2>4 DEF Checked, Passed
  <1> QED
    BY <1>3, <1>4, <1>5 DEF Grants

\* A step of one request leaves the records of the others.
LEMMA OneMoves ==
    ASSUME TypeInv, NEW r \in Requests, Grants(r), NEW s \in Requests, s # r
    PROVE  requests'[s] = requests[s]
  BY DEF Grants, CreateOwner, InviteWrite, ImportInsert, EditWrite,
         AdminTypeWrite, SetType, Done, NextItem, TypeInv, RequestsOK

\* Whatever requests overlap, a membership becomes an Owner's only by the
\* request of someone the handler read as a confirmed Owner, by the admin
\* panel, or as the first member of a new organization.
THEOREM OwnersMakeOwners == Spec => OwnerGrantAuthorized
  <1> DEFINE Authorized ==
        \A m \in Members, r \in Active :
          /\ requests'[r] # requests[r]
          /\ members'[m] # members[m] /\ members'[m] # None
          /\ members'[m].atype = Owner
          /\ members[m] = None \/ members[m].atype # Owner
          => requests[r].asOwner \/ requests[r].op \in {"create", "adminType"}
  <1>1. TypeInv /\ ChecksPassed /\ [Next]_vars => [Authorized]_vars
    <2> SUFFICES ASSUME TypeInv, ChecksPassed, Next,
                        NEW m \in Members, NEW r \in Active,
                        requests'[r] # requests[r],
                        members'[m] # members[m], members'[m] # None,
                        members'[m].atype = Owner,
                        members[m] = None \/ members[m].atype # Owner
                 PROVE  \/ requests[r].asOwner
                        \/ requests[r].op \in {"create", "adminType"}
      OBVIOUS
    <2>1. ~Kept
      BY DEF Kept, SameMember
    <2>2. PICK s \in Requests : Grants(s)
      BY <2>1, InstantKept, ContinueKept DEF Next
    <2>3. s = r
      BY <2>2, OneMoves DEF Active
    <2> QED
      BY <2>2, <2>3, GrantWrites
  <1>2. Spec => [][Authorized]_vars
    BY <1>1, TypeInvInit, TypeInvStep, ChecksPassedInit, ChecksPassedStep, PTL
       DEF Spec
  <1> QED
    BY <1>2 DEF OwnerGrantAuthorized

----------------------------------------------------------------------------
(***************************************************************************)
(* Requests that do not overlap                                            *)
(*                                                                         *)
(* The hypothesis of every theorem below is OneAtATime: SerialSpec with a  *)
(* single request slot.  The argument rests on one invariant, SerialInv:   *)
(* what a handler has read is still so when it writes.  The row it holds   *)
(* is the row of the table (Fresh), the user it is about to insert has no  *)
(* row (Unlisted), a second confirmed Owner is there when one is about to  *)
(* go (OwnerLeft), the actor it took for an Owner is one (ActorIsOwner),   *)
(* and a policy sweep still has every member on its list that the policy   *)
(* must revoke (SweepHolds).  None of this survives a second request       *)
(* between two statements.                                                 *)
(***************************************************************************)
OneAtATime == \A r, s \in Requests : r = s

(***************************************************************************)
(* The queries of OrgMembership as operators on a membership table         *)
(***************************************************************************)
Present(mem) == {m \in Members : mem[m] # None}
Seen(mem, m) == [id |-> m, user |-> mem[m].user,
                 atype |-> mem[m].atype, status |-> mem[m].status]
Owners(mem, o) == {m \in Present(mem) : /\ mem[m].org = o
                                        /\ mem[m].atype = Owner
                                        /\ mem[m].status = Confirmed}
OwnersBy(mem, u, o) == {m \in Owners(mem, o) : mem[m].user = u}
Elsewhere(mem, u, o) ==
    \E m \in Present(mem) : /\ mem[m].user = u /\ mem[m].org # o
                            /\ mem[m].status >= Accepted
CompliesIn(mem, tf, u, o, p) ==
    IF p = "TwoFactor" THEN u \in tf ELSE ~Elsewhere(mem, u, o)

(***************************************************************************)
(* The invariant                                                           *)
(***************************************************************************)
\* The row still is what the handler read.
Fresh(q, mem, i) ==
    /\ i.id \in Members /\ mem[i.id] # None /\ i = Seen(mem, i.id)
    /\ q.op # "enforce" => mem[i.id].org = q.org

\* The row to be inserted is new, and so is its user in the organization.
Unlisted(q, mem) ==
    /\ mem[q.cur.id] = None
    /\ \A m \in Present(mem) :
         ~(mem[m].user = q.cur.user /\ mem[m].org = q.org)

HoldsFresh(q, mem) ==
    /\ q.cur # None => IF q.op \in InsertOps THEN Unlisted(q, mem)
                       ELSE Fresh(q, mem, q.cur)
    /\ \A i \in q.items : /\ Fresh(q, mem, i)
                          /\ q.cur # None => i.id # q.cur.id

\* The write takes a confirmed Owner from the organization.
TakesOwner(op, type, i) ==
    /\ i.atype = Owner /\ i.status = Confirmed
    /\ \/ op \in {"remove", "leave", "revoke"}
       \/ op \in {"edit", "adminType"} /\ type # Owner

OwnerLeft(q, mem) ==
    q.cur # None /\ q.pc = "write" /\ TakesOwner(q.op, q.type, q.cur) =>
      \E n \in Owners(mem, q.org) : n # q.cur.id

\* A session's handler that took its actor for an Owner was right.
SessionOps == {"invite", "confirm", "edit", "remove", "revoke"}
ActorIsOwner(q, mem) ==
    /\ q.op \in SessionOps /\ q.actor # None /\ q.asOwner
    /\ q.op \in {"remove", "revoke"} => q.pc # "actor"
    => OwnersBy(mem, q.actor, q.org) # {}

\* The sweep has yet to come to every member that breaks the policy.
SweepHolds(q, mem, tf) ==
    q.op = "enablePolicy" /\ q.pc # "target" =>
      \A m \in Present(mem) :
        /\ mem[m].org = q.org /\ Sweepable(Seen(mem, m))
        /\ ~CompliesIn(mem, tf, mem[m].user, q.org, q.policy)
        => Seen(mem, m) \in q.items \cup {q.cur}

CurrentIn(q, mem, tf) ==
    /\ HoldsFresh(q, mem) /\ OwnerLeft(q, mem)
    /\ ActorIsOwner(q, mem) /\ SweepHolds(q, mem, tf)

RequestsCurrent ==
    \A r \in Requests :
      requests[r] # None => CurrentIn(requests[r], members, twofactor)

\* Foreign keys, and one membership per user and organization.
Linked == \A m \in Rows : members[m].user \in users /\ members[m].org \in orgs

SerialInv == TypeInv /\ ChecksPassed /\ Linked /\ UniqueMembership
               /\ RequestsCurrent

(***************************************************************************)
(* Steps of the one request                                                *)
(***************************************************************************)
\* The request that moved is the only one there is.
LEMMA PutCurrent ==
    ASSUME RequestsOK, OneAtATime, NEW r \in Requests, NEW q,
           q = None \/ CurrentIn(q, members', twofactor'),
           requests' = [requests EXCEPT ![r] = q]
    PROVE  RequestsCurrent'
  <1>1. ASSUME NEW s \in Requests
        PROVE  requests'[s] = q
    BY DEF OneAtATime, RequestsOK
  <1> QED
    BY <1>1 DEF RequestsCurrent

\* A handler that returns or throws.
LEMMA DoneCurrent ==
    ASSUME RequestsOK, OneAtATime, NEW r \in Requests, Done(r)
    PROVE  RequestsCurrent'
  BY PutCurrent DEF Done

\* The request in flight: well-formed, checked and up to date.
LEMMA TheRequest ==
    ASSUME SerialInv, NEW r \in Requests, requests[r] # None
    PROVE  /\ requests[r] \in Request /\ ReqOK(requests[r])
           /\ Checked(requests[r])
           /\ CurrentIn(requests[r], members, twofactor)
  BY RequestType DEF SerialInv, TypeInv, ChecksPassed, RequestsCurrent

\* Every confirmed Owner of the table still is one.
OwnersStay ==
    \A m \in Members :
      /\ members[m] # None
      /\ members[m].atype = Owner /\ members[m].status = Confirmed
      => /\ members'[m] # None /\ SameMember(members[m], members'[m])
         /\ members'[m].status = Confirmed

\* As long as confirmed Owners stay, an actor that was one still is.
LEMMA OwnersStayBy ==
    ASSUME OwnersStay, NEW u, NEW o, OwnersBy(members, u, o) # {}
    PROVE  OwnersBy(members', u, o) # {}
  BY DEF OwnersStay, OwnersBy, Owners, Present, SameMember

\* A bulk route goes on with its next id: it holds nothing, and an invite and
\* a confirmation have taken no Owner away.
LEMMA NextItemCurrent ==
    ASSUME SerialInv, OneAtATime, NEW r \in Requests, requests[r] # None,
           requests[r].op \in Loops, NextItem(r),
           requests[r].op \in {"invite", "confirm"} => OwnersStay
    PROVE  RequestsCurrent'
  <1> DEFINE p == requests[r]
             q == [p EXCEPT !.cur = None, !.pc = LoopStart(p.op, p.actor)]
  <1>1. /\ p \in Request /\ Checked(p) /\ CurrentIn(p, members, twofactor)
    BY TheRequest
  <1>2. /\ q.cur = None /\ q.pc = LoopStart(p.op, p.actor) /\ q.op = p.op
        /\ q.items = p.items /\ q.actor = p.actor /\ q.org = p.org
        /\ q.asOwner = p.asOwner
    BY <1>1 DEF Request
  <1>3. requests' = [requests EXCEPT ![r] = q]
    BY DEF NextItem
  <1> HIDE DEF q
  <1>4. q.items = {}
    BY <1>1, <1>2 DEF Checked, Loops
  <1>5. HoldsFresh(q, members') /\ OwnerLeft(q, members')
        /\ SweepHolds(q, members', twofactor')
    BY <1>2, <1>4 DEF HoldsFresh, OwnerLeft, SweepHolds, Loops
  <1>6. ActorIsOwner(q, members')
    <2> SUFFICES ASSUME q.op \in SessionOps, q.actor # None, q.asOwner,
                        q.op \in {"remove", "revoke"} => q.pc # "actor"
                 PROVE  OwnersBy(members', q.actor, q.org) # {}
      BY DEF ActorIsOwner
    <2>1. p.op \in {"invite", "confirm"}
      BY <1>2 DEF LoopStart, Loops, SessionOps
    <2>2. OwnersBy(members, q.actor, q.org) # {}
      BY <1>1, <1>2, <2>1 DEF CurrentIn, ActorIsOwner, SessionOps
    <2> QED
      BY <2>1, <2>2, OwnersStayBy
  <1> QED
    BY <1>3, <1>5, <1>6, PutCurrent DEF CurrentIn, SerialInv, TypeInv

\* More than one confirmed Owner: another one stays when one goes.
LEMMA AnotherOwner ==
    ASSUME NEW S, Cardinality(S) > 1, NEW x
    PROVE  \E n \in S : n # x
  <1> SUFFICES ASSUME S \subseteq {x}
               PROVE  FALSE
    OBVIOUS
  <1>1. S = {} \/ S = {x}
    OBVIOUS
  <1>2. Cardinality({}) = 0 /\ Cardinality({x}) = 1
    BY FS_EmptySet, FS_Singleton
  <1> QED
    BY <1>1, <1>2

\* A check that passed: the row is as it was, and a count found a second
\* confirmed Owner.
LEMMA ChecksCurrent ==
    ASSUME SerialInv, OneAtATime, NEW r \in Requests,
           \/ CountOwners(r) \/ AcceptCheck2fa(r) \/ AcceptCheckSingleOrg(r)
    PROVE  RequestsCurrent'
  <1> DEFINE p == requests[r]
  <1>0. p # None /\ UNCHANGED <<members, twofactor>>
    BY DEF CountOwners, AcceptCheck2fa, AcceptCheckSingleOrg, At, tables
  <1>1. /\ p \in Request /\ Checked(p) /\ CurrentIn(p, members, twofactor)
    BY <1>0, TheRequest
  <1>2. PICK pc \in {"write", "checkSingle"} :
          /\ Goto(r, pc)
          /\ p.op = "accept" \/ Cardinality(Owners(members, p.org)) > 1
          /\ p.op \in CountedOps \cup {"accept"} /\ p.pc # "actor"
    BY <1>1 DEF CountOwners, AcceptCheck2fa, AcceptCheckSingleOrg, At, Checked,
                confirmedOwnerCount, confirmedOwners, Owners, Present, Rows
  <1> DEFINE q == [p EXCEPT !.pc = pc]
  <1>3. /\ q.cur = p.cur /\ q.pc = pc /\ q.op = p.op /\ q.type = p.type
        /\ q.items = p.items /\ q.actor = p.actor /\ q.org = p.org
        /\ q.asOwner = p.asOwner
    BY <1>1 DEF Request
  <1>4. requests' = [requests EXCEPT ![r] = q]
    BY <1>2 DEF Goto
  <1> HIDE DEF q
  <1>5. HoldsFresh(q, members)
    BY <1>1, <1>3 DEF CurrentIn, HoldsFresh, Unlisted, Fresh
  <1>6. OwnerLeft(q, members)
    <2> SUFFICES ASSUME TakesOwner(q.op, q.type, q.cur)
                 PROVE  \E n \in Owners(members, q.org) : n # q.cur.id
      BY DEF OwnerLeft
    <2>1. q.op # "accept"
      BY DEF TakesOwner
    <2>2. Cardinality(Owners(members, q.org)) > 1
      BY <1>2, <1>3, <2>1
    <2> QED
      BY <2>2, AnotherOwner
  <1>7. ActorIsOwner(q, members)
    BY <1>1, <1>2, <1>3 DEF CurrentIn, ActorIsOwner
  <1>8. SweepHolds(q, members, twofactor)
    BY <1>2, <1>3 DEF SweepHolds, CountedOps
  <1> QED
    BY <1>0, <1>4, <1>5, <1>6, <1>7, <1>8, PutCurrent
       DEF CurrentIn, SerialInv, TypeInv

\* The row reads of confirm, edit, remove, revoke and restore.
LEMMA ReadsCurrent ==
    ASSUME SerialInv, OneAtATime, NEW r \in Requests, NEW m \in Members,
           \/ ConfirmRead(r, m) \/ EditRead(r, m) \/ RemoveRead(r, m)
           \/ RevokeRead(r, m) \/ RestoreRead(r, m)
    PROVE  RequestsCurrent'
  <1> DEFINE p == requests[r]
             i == Snapshot(m)
  <1>0. /\ p # None /\ UNCHANGED <<members, twofactor>> /\ m \in Rows
        /\ members[m].org = p.org /\ p.pc = "target"
        /\ p.op \in {"confirm", "edit", "remove", "revoke", "restore"}
    BY DEF ConfirmRead, EditRead, RemoveRead, RevokeRead, RestoreRead, At, tables
  <1>1. /\ p \in Request /\ Checked(p) /\ CurrentIn(p, members, twofactor)
    BY <1>0, TheRequest
  <1>2. PICK pc :
          /\ Read(r, i, pc)
          /\ pc = "write" => ~TakesOwner(p.op, p.type, i)
    BY DEF ConfirmRead, EditRead, RemoveRead, RevokeRead, RestoreRead, At,
           LastOwnerCheck, TakesOwner, Snapshot
  <1>i. /\ i = Seen(members, m) /\ i.id = m
    BY DEF Snapshot, Seen
  <1> HIDE DEF i
  <1> DEFINE q == [p EXCEPT !.cur = i, !.pc = pc]
  <1>3. /\ q.cur = i /\ q.pc = pc /\ q.op = p.op /\ q.type = p.type
        /\ q.items = p.items /\ q.actor = p.actor /\ q.org = p.org
        /\ q.asOwner = p.asOwner
    BY <1>1 DEF Request
  <1>4. requests' = [requests EXCEPT ![r] = q]
    BY <1>2 DEF Read
  <1> HIDE DEF q
  <1>t. q.items = {}
    BY <1>0, <1>1, <1>3 DEF Checked
  <1>5. HoldsFresh(q, members)
    BY <1>0, <1>3, <1>i, <1>t DEF HoldsFresh, Fresh, InsertOps, Rows
  <1>6. OwnerLeft(q, members)
    BY <1>2, <1>3 DEF OwnerLeft
  <1>7. ActorIsOwner(q, members)
    BY <1>0, <1>1, <1>3 DEF CurrentIn, ActorIsOwner
  <1>8. SweepHolds(q, members, twofactor)
    BY <1>0, <1>3 DEF SweepHolds
  <1> QED
    BY <1>0, <1>4, <1>5, <1>6, <1>7, <1>8, PutCurrent
       DEF CurrentIn, SerialInv, TypeInv

\* The lookup of an invited or imported email: the user has no row in the
\* organization, or no account at all and hence no row anywhere.
LEMMA ReadInviteeCurrent ==
    ASSUME SerialInv, OneAtATime, NEW r \in Requests,
           NEW u \in Users, NEW m \in Members,
           InviteRead(r, u, m) \/ ImportNew(r, u, m)
    PROVE  RequestsCurrent'
  <1> DEFINE p == requests[r]
  <1>0. PICK t, s :
          ReadInvitee(r, p.op, u, m, t, s) /\ p.op \in {"invite", "import"}
    BY DEF InviteRead, ImportNew, ReadInvitee, At
  <1> DEFINE i == [id |-> m, user |-> u, atype |-> t, status |-> s]
             q == [p EXCEPT !.cur = i, !.pc = "write"]
  <1>1. /\ p # None /\ UNCHANGED <<members, twofactor>> /\ p.pc = "target"
        /\ requests' = [requests EXCEPT ![r] = q]
    BY <1>0 DEF ReadInvitee, At, Read
  <1>2. /\ p \in Request /\ Checked(p) /\ CurrentIn(p, members, twofactor)
    BY <1>1, TheRequest
  <1>3. /\ q.cur = i /\ q.pc = "write" /\ q.op = p.op /\ q.type = p.type
        /\ q.items = p.items /\ q.actor = p.actor /\ q.org = p.org
        /\ q.asOwner = p.asOwner
    BY <1>2 DEF Request
  <1>4. i.id = m /\ i.user = u
    OBVIOUS
  <1> HIDE DEF q, i
  <1>5. Unlisted(q, members)
    BY <1>0, <1>3, <1>4
       DEF Unlisted, Present, ReadInvitee, FreshMember, FreshUser, RowsOf, Rows,
           SerialInv, Linked
  <1>6. HoldsFresh(q, members)
    BY <1>0, <1>2, <1>3, <1>5 DEF HoldsFresh, Checked, InsertOps
  <1>7. OwnerLeft(q, members) /\ SweepHolds(q, members, twofactor)
    BY <1>0, <1>3 DEF OwnerLeft, TakesOwner, SweepHolds
  <1>8. ActorIsOwner(q, members)
    BY <1>0, <1>1, <1>2, <1>3 DEF CurrentIn, ActorIsOwner
  <1> QED
    BY <1>1, <1>6, <1>7, <1>8, PutCurrent DEF CurrentIn, SerialInv, TypeInv

\* The second look at the actor's membership finds whether it is an Owner's.
LEMMA ReadActorCurrent ==
    ASSUME SerialInv, OneAtATime, NEW r \in Requests, ReadActor(r)
    PROVE  RequestsCurrent'
  <1> DEFINE p == requests[r]
             found == findConfirmedMembership(p.actor, p.org)
             Roles == IF found = {} THEN {FALSE}
                      ELSE {members[m].atype = Owner : m \in found}
             next == IF p.op = "confirm" THEN "write" ELSE "target"
  <1>1. PICK owner \in Roles :
          requests' = [requests EXCEPT ![r].asOwner = owner, ![r].pc = next]
    BY DEF ReadActor
  <1>2. owner => OwnersBy(members, p.actor, p.org) # {}
    BY <1>1 DEF OwnersBy, Owners, Present, findConfirmedMembership, RowsOf, Rows
  <1>b. owner \in BOOLEAN
    BY <1>1, Zenon
  <1> HIDE DEF found, Roles
  <1>3. p # None /\ p.pc = "actor" /\ UNCHANGED <<members, twofactor>>
    BY DEF ReadActor, tables
  <1>4. /\ p \in Request /\ Checked(p) /\ CurrentIn(p, members, twofactor)
    BY <1>3, TheRequest
  <1> DEFINE q == [p EXCEPT !.asOwner = owner, !.pc = next]
  <1>5. /\ q.cur = p.cur /\ q.op = p.op /\ q.type = p.type
        /\ q.items = p.items /\ q.actor = p.actor /\ q.org = p.org
        /\ q.asOwner = owner
    BY <1>4, <1>b DEF Request
  <1>6. requests' = [requests EXCEPT ![r] = q]
    BY <1>1
  <1> HIDE DEF q, next
  <1>7. p.op \in ReadAgainOps /\ q.items = {} /\ (q.op # "confirm" => q.cur = None)
    BY <1>3, <1>4, <1>5 DEF Checked, ReadAgainOps
  <1>8. HoldsFresh(q, members)
    BY <1>4, <1>5, <1>7 DEF CurrentIn, HoldsFresh, Fresh, InsertOps
  <1>9. OwnerLeft(q, members) /\ SweepHolds(q, members, twofactor)
    BY <1>5, <1>7 DEF OwnerLeft, TakesOwner, SweepHolds, ReadAgainOps
  <1>10. ActorIsOwner(q, members)
    BY <1>2, <1>5 DEF ActorIsOwner
  <1> QED
    BY <1>3, <1>6, <1>8, <1>9, <1>10, PutCurrent
       DEF CurrentIn, SerialInv, TypeInv

\* putPolicyHandler lists every member the policy may revoke.
LEMMA PolicyReadCurrent ==
    ASSUME SerialInv, OneAtATime, NEW r \in Requests, PolicyReadMembers(r)
    PROVE  RequestsCurrent'
  <1> DEFINE p == requests[r]
             S == {i \in {Snapshot(m) : m \in {n \in Rows :
                          members[n].org = p.org}} : Sweepable(i)}
             q == [p EXCEPT !.items = S, !.pc = "sweep"]
  <1>1. /\ p # None /\ p.op = "enablePolicy" /\ p.pc = "target"
        /\ UNCHANGED <<members, twofactor>>
        /\ requests' = [requests EXCEPT ![r] = q]
    BY DEF PolicyReadMembers, At, tables
  <1>2. p \in Request /\ Checked(p)
    BY <1>1, TheRequest
  <1>3. /\ q.cur = None /\ q.pc = "sweep" /\ q.op = p.op /\ q.items = S
        /\ q.org = p.org /\ q.policy = p.policy
    BY <1>1, <1>2 DEF Checked, Request
  <1>4. \A i \in S : Fresh(q, members, i)
    <2> SUFFICES ASSUME NEW m \in Rows, members[m].org = p.org
                 PROVE  Fresh(q, members, Snapshot(m))
      OBVIOUS
    <2>1. Snapshot(m).id = m /\ Snapshot(m) = Seen(members, m)
      BY DEF Snapshot, Seen
    <2> QED
      BY <1>3, <2>1 DEF Fresh, Rows
  <1>5. \A m \in Present(members) :
          members[m].org = p.org /\ Sweepable(Seen(members, m))
            => Seen(members, m) \in S
    BY DEF Present, Rows, Seen, Snapshot
  <1> HIDE DEF q, S
  <1>6. HoldsFresh(q, members) /\ OwnerLeft(q, members)
        /\ ActorIsOwner(q, members)
    BY <1>1, <1>3, <1>4 DEF HoldsFresh, OwnerLeft, ActorIsOwner, SessionOps
  <1>7. SweepHolds(q, members, twofactor)
    BY <1>3, <1>5 DEF SweepHolds
  <1> QED
    BY <1>1, <1>6, <1>7, PutCurrent DEF CurrentIn, SerialInv, TypeInv

\* The sweep drops a row from its list only when its user complies.
LEMMA PolicyCheckCurrent ==
    ASSUME SerialInv, OneAtATime, NEW r \in Requests, requests[r] # None,
           NEW i \in requests[r].items, PolicyCheckMember(r, i)
    PROVE  RequestsCurrent'
  <1> DEFINE p == requests[r]
             ok == Complies(i, p.org, p.policy)
             S == p.items \ {i}
             q == [p EXCEPT !.items = S, !.cur = IF ok THEN None ELSE i,
                     !.pc = IF ok THEN "sweep" ELSE "write"]
  <1>1. /\ p.op = "enablePolicy" /\ p.pc = "sweep"
        /\ UNCHANGED <<members, twofactor>>
        /\ requests' = [requests EXCEPT ![r] = q]
    BY DEF PolicyCheckMember, At, tables
  <1>2. p \in Request /\ Checked(p) /\ CurrentIn(p, members, twofactor)
    BY TheRequest
  <1>3. p.cur = None /\ Fresh(p, members, i)
    BY <1>1, <1>2 DEF Checked, CurrentIn, HoldsFresh
  <1>4. ok => CompliesIn(members, twofactor, members[i.id].user, p.org, p.policy)
    <2>1. i.user = members[i.id].user
      BY <1>3 DEF Fresh, Seen
    <2> QED
      BY <2>1 DEF Complies, CompliesIn, InAnotherOrg, Elsewhere, Present, Rows
  <1> HIDE DEF ok, S
  <1>5. /\ q.cur = (IF ok THEN None ELSE i) /\ q.op = p.op /\ q.items = S
        /\ q.org = p.org /\ q.policy = p.policy
    BY <1>2 DEF Request
  <1> HIDE DEF q
  <1>6. HoldsFresh(q, members)
    <2>1. \A j \in S : Fresh(q, members, j) /\ j.id # i.id
      BY <1>2, <1>3, <1>5 DEF CurrentIn, HoldsFresh, Fresh, S
    <2>2. Fresh(q, members, i)
      BY <1>3, <1>5 DEF Fresh
    <2> QED
      BY <1>1, <1>5, <2>1, <2>2 DEF HoldsFresh, InsertOps
  <1>7. OwnerLeft(q, members) /\ ActorIsOwner(q, members)
    BY <1>1, <1>5 DEF OwnerLeft, TakesOwner, ActorIsOwner, SessionOps
  <1>8. SweepHolds(q, members, twofactor)
    <2> SUFFICES ASSUME NEW m \in Present(members), members[m].org = q.org,
                        Sweepable(Seen(members, m)),
                        ~CompliesIn(members, twofactor, members[m].user, q.org,
                                    q.policy)
                 PROVE  Seen(members, m) \in q.items \cup {q.cur}
      BY DEF SweepHolds
    <2>1. Seen(members, m) \in p.items \cup {None}
      BY <1>1, <1>2, <1>3, <1>5 DEF CurrentIn, SweepHolds
    <2>2. Seen(members, m) # None
      BY NoneFacts DEF Present, Seen, SerialInv, TypeInv, TablesOK, Row, Item
    <2>3. CASE Seen(members, m) = i
      <3>1. m = i.id
        BY <2>3 DEF Seen
      <3> QED
        BY <1>4, <1>5, <2>3, <3>1
    <2>4. CASE Seen(members, m) # i
      BY <1>5, <2>1, <2>2, <2>4 DEF S
    <2> QED
      BY <2>3, <2>4
  <1> QED
    BY <1>1, <1>6, <1>7, <1>8, PutCurrent DEF CurrentIn, SerialInv, TypeInv

\* The status that a revocation writes is below every active one.
LEMMA RevokedFacts ==
    /\ \A s \in Statuses : ~(s - RevokedOffset >= Accepted)
    /\ ~(Revoked >= Accepted)
  BY DEF Statuses, ActiveStatuses, Invited, Accepted, Confirmed, Revoked,
         RevokedOffset

\* The write of the sweep touches the one row it holds: the rows still on
\* the list are as they were, and revoking a member of this organization
\* makes nobody break a policy that complied with it.
LEMMA PolicyRevokeCurrent ==
    ASSUME SerialInv, OneAtATime, NEW r \in Requests, PolicyRevokeMember(r)
    PROVE  RequestsCurrent'
  <1> DEFINE p == requests[r]
             c == p.cur
             q == [p EXCEPT !.cur = None, !.pc = "sweep"]
  <1>1. /\ p # None /\ p.op = "enablePolicy" /\ p.pc = "write"
        /\ SetStatus(c.id, c.status - RevokedOffset) /\ UNCHANGED twofactor
        /\ requests' = [requests EXCEPT ![r] = q]
    BY DEF PolicyRevokeMember, At, Read
  <1>2. /\ p \in Request /\ Checked(p) /\ CurrentIn(p, members, twofactor)
        /\ c # None /\ c.id \in Members /\ c.status \in Statuses
    BY <1>1, TheRequest, CurType DEF SerialInv, TypeInv
  <1>3. Fresh(p, members, c)
    BY <1>1, <1>2 DEF CurrentIn, HoldsFresh, InsertOps
  <1>4. /\ \A n \in Members \ {c.id} : members'[n] = members[n]
        /\ members[c.id] # None /\ SameMember(members[c.id], members'[c.id])
        /\ members'[c.id].status = c.status - RevokedOffset
    BY <1>1, <1>2, <1>3, SetStatusRows DEF Fresh, SerialInv, TypeInv
  <1>5. /\ q.cur = None /\ q.pc = "sweep" /\ q.op = p.op /\ q.items = p.items
        /\ q.org = p.org /\ q.policy = p.policy
    BY <1>2 DEF Request
  <1> HIDE DEF q
  <1>6. ~(members'[c.id].status >= Accepted)
    BY <1>2, <1>4, RevokedFacts
  <1>7. HoldsFresh(q, members')
    <2> SUFFICES ASSUME NEW i \in p.items
                 PROVE  Fresh(q, members', i)
      BY <1>5 DEF HoldsFresh
    <2>1. Fresh(p, members, i) /\ i.id # c.id
      BY <1>2 DEF CurrentIn, HoldsFresh
    <2> QED
      BY <1>4, <1>5, <2>1 DEF Fresh, Seen
  <1>8. OwnerLeft(q, members') /\ ActorIsOwner(q, members')
    BY <1>1, <1>5 DEF OwnerLeft, ActorIsOwner, SessionOps
  <1>9. SweepHolds(q, members', twofactor')
    <2> SUFFICES ASSUME NEW m \in Present(members'), members'[m].org = q.org,
                        Sweepable(Seen(members', m)),
                        ~CompliesIn(members', twofactor', members'[m].user,
                                    q.org, q.policy)
                 PROVE  Seen(members', m) \in q.items \cup {q.cur}
      BY DEF SweepHolds
    <2>1. m # c.id
      BY <1>6 DEF Sweepable, Seen
    <2>2. /\ m \in Present(members) /\ members'[m] = members[m]
          /\ Seen(members', m) = Seen(members, m)
      BY <1>4, <2>1 DEF Present, Seen
    <2>3. Elsewhere(members', members[m].user, p.org)
            => Elsewhere(members, members[m].user, p.org)
      <3> SUFFICES ASSUME NEW n \in Present(members'),
                          members'[n].user = members[m].user,
                          members'[n].org # p.org,
                          members'[n].status >= Accepted
                   PROVE  Elsewhere(members, members[m].user, p.org)
        BY DEF Elsewhere
      <3>1. n # c.id
        BY <1>6
      <3> QED
        BY <1>4, <3>1 DEF Elsewhere, Present
    <2>4. ~CompliesIn(members, twofactor, members[m].user, p.org, p.policy)
      BY <1>1, <1>5, <2>2, <2>3 DEF CompliesIn
    <2>5. Seen(members, m) \in p.items \cup {c}
      BY <1>1, <1>2, <1>5, <2>2, <2>4 DEF CurrentIn, SweepHolds
    <2>6. Seen(members, m) # c
      BY <2>1 DEF Seen
    <2> QED
      BY <1>5, <2>2, <2>5, <2>6
  <1> QED
    BY <1>1, <1>7, <1>8, <1>9, PutCurrent DEF CurrentIn, SerialInv, TypeInv

\* The list of enforce2faPolicy is current as well.
LEMMA EnforceCurrent ==
    ASSUME SerialInv, OneAtATime, NEW r \in Requests, requests[r] # None,
           \/ EnforceRead(r)
           \/ \E i \in requests[r].items : EnforceRevoke(r, i)
    PROVE  RequestsCurrent'
  <1> DEFINE p == requests[r]
  <1>1. /\ p \in Request /\ Checked(p) /\ CurrentIn(p, members, twofactor)
        /\ p.op = "enforce" /\ p.cur = None
    BY TheRequest DEF EnforceRead, EnforceRevoke, At, Checked
  <1>2. CASE EnforceRead(r)
    <2> DEFINE S == {i \in {Snapshot(m) : m \in {n \in Rows :
                       /\ members[n].user = requests[r].actor
                       /\ <<members[n].org, "TwoFactor">> \in policies}} :
                     Sweepable(i)}
               q == [p EXCEPT !.items = S, !.pc = "write"]
    <2>1. requests' = [requests EXCEPT ![r] = q] /\ UNCHANGED members
      BY <1>2 DEF EnforceRead, tables
    <2>2. q.cur = None /\ q.op = "enforce" /\ q.items = S
      BY <1>1 DEF Request
    <2>3. \A i \in S : Fresh(q, members, i)
      <3> SUFFICES ASSUME NEW m \in Rows
                   PROVE  Fresh(q, members, Snapshot(m))
        OBVIOUS
      <3>1. Snapshot(m).id = m /\ Snapshot(m) = Seen(members, m)
        BY DEF Snapshot, Seen
      <3> QED
        BY <2>2, <3>1 DEF Fresh, Rows
    <2> HIDE DEF q, S
    <2>4. CurrentIn(q, members, twofactor')
      BY <2>2, <2>3 DEF CurrentIn, HoldsFresh, OwnerLeft, ActorIsOwner,
                        SweepHolds, SessionOps
    <2> QED
      BY <2>1, <2>4, PutCurrent DEF SerialInv, TypeInv
  <1>3. ASSUME NEW i \in p.items, EnforceRevoke(r, i)
        PROVE  RequestsCurrent'
    <2> DEFINE q == [p EXCEPT !.items = p.items \ {i}]
    <2>1. requests' = [requests EXCEPT ![r] = q] /\ SetStatus(i.id, Revoked)
      BY <1>3 DEF EnforceRevoke
    <2>2. q.cur = None /\ q.op = "enforce" /\ q.items = p.items \ {i}
      BY <1>1 DEF Request
    <2>3. \A j \in p.items : Fresh(p, members, j)
      BY <1>1 DEF CurrentIn, HoldsFresh
    <2>4. \A n \in Members \ {i.id} : members'[n] = members[n]
      BY <2>1, <2>3, SetStatusRows DEF Fresh, SerialInv, TypeInv
    <2> HIDE DEF q
    <2>5. \A j \in q.items : Fresh(q, members', j)
      <3> SUFFICES ASSUME NEW j \in p.items, j # i
                   PROVE  Fresh(q, members', j)
        BY <2>2
      <3>1. j.id # i.id
        BY <2>3 DEF Fresh
      <3> QED
        BY <1>1, <2>2, <2>3, <2>4, <3>1 DEF Fresh, Seen
    <2>6. CurrentIn(q, members', twofactor')
      BY <2>2, <2>5 DEF CurrentIn, HoldsFresh, OwnerLeft, ActorIsOwner,
                        SweepHolds, SessionOps
    <2> QED
      BY <2>1, <2>6, PutCurrent DEF SerialInv, TypeInv
  <1> QED
    BY <1>2, <1>3

\* The writes of the bulk routes, and the ends of the others.
LEMMA WritesCurrent ==
    ASSUME SerialInv, OneAtATime, NEW r \in Requests,
           \/ EndRequest(r) \/ SkipItem(r) \/ CreateOwner(r) \/ InviteWrite(r)
           \/ ImportInsert(r) \/ AcceptWrite(r) \/ EditWrite(r)
           \/ AdminTypeWrite(r) \/ RemoveWrite(r) \/ LeaveWrite(r)
           \/ RevokeWrite(r) \/ RestoreWrite(r) \/ PolicyEnable(r)
           \/ PolicyDisable(r) \/ DeleteOrg(r)
           \/ \E key \in ConfirmKeys : ConfirmWrite(r, key)
    PROVE  RequestsCurrent'
  <1>1. CASE Done(r)
    BY <1>1, DoneCurrent DEF SerialInv, TypeInv
  <1>2. CASE ~Done(r)
    <2>1. /\ requests[r] # None /\ requests[r].op \in Loops /\ NextItem(r)
      BY <1>2
         DEF EndRequest, SkipItem, CreateOwner, InviteWrite, ImportInsert,
             AcceptWrite, EditWrite, AdminTypeWrite, SetType, RemoveWrite,
             LeaveWrite, RevokeWrite, RestoreWrite, PolicyEnable, PolicyDisable,
             DeleteOrg, ConfirmWrite, At, Loops
    <2>2. requests[r].op \in {"invite", "confirm"} => OwnersStay
      <3>1. CASE SkipItem(r)
        BY <3>1 DEF SkipItem, tables, OwnersStay, SameMember
      <3>2. CASE InviteWrite(r)
        <4>1. CurrentIn(requests[r], members, twofactor) /\ requests[r].cur # None
          BY <3>2, CurType, TheRequest DEF InviteWrite, At, SerialInv, TypeInv
        <4>2. members[requests[r].cur.id] = None
          BY <3>2, <4>1 DEF CurrentIn, HoldsFresh, InsertOps, Unlisted,
                            InviteWrite, At
        <4> QED
          BY <3>2, <4>2 DEF InviteWrite, Insert, OwnersStay, SameMember,
                            SerialInv, TypeInv, TablesOK
      <3>3. ASSUME NEW key \in ConfirmKeys, ConfirmWrite(r, key)
            PROVE  OwnersStay
        <4> DEFINE m == requests[r].cur.id
        <4>1. /\ m \in Members
              /\ \A n \in Members \ {m} : members'[n] = members[n]
              /\ members[m] # None => /\ members'[m].status = Confirmed
                                      /\ SameMember(members[m], members'[m])
          BY <3>3, ConfirmRows DEF SerialInv
        <4>2. members[m] # None => members'[m] # None
          <5> SUFFICES ASSUME members[m] # None
                       PROVE  [members[m] EXCEPT !.status = Confirmed,
                                      !.akey = ConfirmedKey(@, key)] \in Row
            BY <3>3, <4>1, NoneFacts
               DEF ConfirmWrite, SerialInv, TypeInv, TablesOK
          <5>1. members[m] \in Row /\ Confirmed \in Statuses
            BY <4>1, StatusFacts DEF SerialInv, TypeInv, TablesOK
          <5>2. ConfirmedKey(members[m].akey, key) \in Keys
            BY <5>1, ConfirmedKeyFacts DEF Row
          <5> QED
            BY <5>1, <5>2 DEF Row
        <4> QED
          BY <4>1, <4>2 DEF OwnersStay, SameMember
      <3> QED
        BY <1>2, <3>1, <3>2, <3>3
           DEF EndRequest, CreateOwner, AcceptWrite, EditWrite, AdminTypeWrite,
               SetType, LeaveWrite, PolicyEnable, PolicyDisable, DeleteOrg,
               ImportInsert, RemoveWrite, RevokeWrite, RestoreWrite, At
    <2> QED
      BY <2>1, <2>2, NextItemCurrent
  <1> QED
    BY <1>1, <1>2

\* The first statement of a handler reads the tables as they are.
LEMMA ArriveCurrent ==
    ASSUME SerialInv, OneAtATime, NEW r \in Requests, Arrive(r)
    PROVE  RequestsCurrent'
  <1>0. UNCHANGED members
    BY DEF Arrive, BeginAdminRoute, requireMember, BeginImport, LoginWithout2fa,
           LoginWithRecoveryCode, AcceptRead, LeaveRead, CreateOrg,
           AdminTypeRead, tables
  <1> USE DEF CurrentIn, HoldsFresh, OwnerLeft, ActorIsOwner, SweepHolds
  <1>1. CASE BeginAdminRoute(r)
    <2>1. PICK u \in users, o \in orgs, op \in AdminOps \cup OwnerOps,
               t \in Types, p \in Policies, min \in Types :
                 requireMember(r, u, o, min, op, t, p)
      BY <1>1, InputAssumption, TypeFacts DEF BeginAdminRoute, Policies
    <2>2. PICK m \in findConfirmedMembership(u, o) :
            Begin(r, [NewRequest(op, AfterAuth(op, u, t), u, o) EXCEPT
                        !.asOwner = members[m].atype = Owner,
                        !.type = t, !.policy = p])
      BY <2>1 DEF requireMember
    <2> DEFINE owner == members[m].atype = Owner
    <2>3. owner => OwnersBy(members, u, o) # {}
      BY <2>2 DEF OwnersBy, Owners, Present, findConfirmedMembership, RowsOf, Rows
    <2> HIDE DEF owner
    <2> DEFINE q == [NewRequest(op, AfterAuth(op, u, t), u, o) EXCEPT
                       !.asOwner = owner, !.type = t, !.policy = p]
    <2>4. /\ q.cur = None /\ q.items = {} /\ q.op = op /\ q.actor = u
          /\ q.org = o /\ q.asOwner = owner /\ q.pc \in {"actor", "target"}
          /\ op = "enablePolicy" => q.pc = "target"
      BY DEF NewRequest, AfterAuth, LoopStart
    <2>5. requests' = [requests EXCEPT ![r] = q]
      BY <2>2 DEF Begin, owner
    <2> HIDE DEF q
    <2>6. CurrentIn(q, members', twofactor')
      BY <1>0, <2>3, <2>4
    <2> QED
      BY <2>5, <2>6, PutCurrent DEF SerialInv, TypeInv
  <1>2. ASSUME NEW o \in Orgs, BeginImport(r, o)
        PROVE  RequestsCurrent'
    <2>1. PICK op \in {"import", "revoke", "restore"} :
            Begin(r, [NewRequest(op, "target", None, o) EXCEPT
                        !.asOwner = TRUE])
      BY <1>2 DEF BeginImport
    <2> DEFINE q == [NewRequest(op, "target", None, o) EXCEPT !.asOwner = TRUE]
    <2>2. CurrentIn(q, members', twofactor')
      BY DEF NewRequest
    <2> QED
      BY <2>1, <2>2, PutCurrent DEF Begin, SerialInv, TypeInv
  <1>3. ASSUME NEW u \in Users, LoginWithout2fa(r, u) \/ LoginWithRecoveryCode(r, u)
        PROVE  RequestsCurrent'
    <2> DEFINE q == NewRequest("enforce", "policy", u, None)
    <2>1. CurrentIn(q, members', twofactor')
      BY DEF NewRequest, SessionOps
    <2> QED
      BY <1>3, <2>1, PutCurrent
         DEF Begin, LoginWithout2fa, LoginWithRecoveryCode, SerialInv, TypeInv
  <1>4. ASSUME NEW m \in Rows, NEW q, q.cur = Snapshot(m), q.items = {},
               q.op \in {"accept", "leave", "adminType"},
               q.org = members[m].org,
               q.pc = "write" => ~TakesOwner(q.op, q.type, q.cur),
               requests' = [requests EXCEPT ![r] = q]
        PROVE  RequestsCurrent'
    <2>1. q.cur.id = m /\ q.cur = Seen(members, m)
      BY <1>4 DEF Snapshot, Seen
    <2>2. Fresh(q, members', q.cur)
      BY <1>0, <1>4, <2>1 DEF Fresh, Rows
    <2>3. CurrentIn(q, members', twofactor')
      BY <1>4, <2>2 DEF InsertOps, SessionOps
    <2> QED
      BY <1>4, <2>3, PutCurrent DEF SerialInv, TypeInv
  <1>5. ASSUME NEW u \in Users, NEW m \in Members, AcceptRead(r, u, m)
        PROVE  RequestsCurrent'
    <2> DEFINE i == Snapshot(m)
               q == [NewRequest("accept", "check2fa", u, members[m].org) EXCEPT
                       !.cur = i]
    <2>1. m \in Rows /\ requests' = [requests EXCEPT ![r] = q]
      BY <1>5 DEF AcceptRead, Begin
    <2> HIDE DEF i
    <2>2. /\ q.cur = i /\ q.items = {} /\ q.op = "accept"
          /\ q.org = members[m].org /\ q.pc = "check2fa"
      BY DEF NewRequest
    <2> HIDE DEF q
    <2> QED
      BY <1>4, <2>1, <2>2 DEF i
  <1>6. ASSUME NEW u \in Users, NEW m \in Members, LeaveRead(r, u, m)
        PROVE  RequestsCurrent'
    <2> DEFINE i == Snapshot(m)
               pc == LastOwnerCheck(m)
               q == [NewRequest("leave", pc, u, members[m].org) EXCEPT !.cur = i]
    <2>1. m \in Rows /\ requests' = [requests EXCEPT ![r] = q]
      BY <1>6 DEF LeaveRead, Begin
    <2>2. pc = "write" => ~TakesOwner("leave", User, i)
      BY DEF LastOwnerCheck, TakesOwner, Snapshot
    <2> HIDE DEF i, pc
    <2>3. /\ q.cur = i /\ q.items = {} /\ q.op = "leave" /\ q.type = User
          /\ q.org = members[m].org /\ q.pc = pc
      BY DEF NewRequest
    <2> HIDE DEF q
    <2> QED
      BY <1>4, <2>1, <2>2, <2>3 DEF i
  <1>7. ASSUME NEW m \in Members, NEW t \in InputTypes, AdminTypeRead(r, m, t)
        PROVE  RequestsCurrent'
    <2> DEFINE i == Snapshot(m)
               pc == IF members[m].atype = Owner /\ t # Owner
                     THEN "count" ELSE "write"
               q == [NewRequest("adminType", pc, None, members[m].org) EXCEPT
                       !.type = t, !.cur = i]
    <2>1. m \in Rows /\ requests' = [requests EXCEPT ![r] = q]
      BY <1>7 DEF AdminTypeRead, Begin
    <2>2. pc = "write" => ~TakesOwner("adminType", t, i)
      BY DEF TakesOwner, Snapshot
    <2> HIDE DEF i, pc
    <2>3. /\ q.cur = i /\ q.items = {} /\ q.op = "adminType" /\ q.type = t
          /\ q.org = members[m].org /\ q.pc = pc
      BY DEF NewRequest
    <2> HIDE DEF q
    <2> QED
      BY <1>4, <2>1, <2>2, <2>3 DEF i
  <1>8. ASSUME NEW u \in Users, NEW m \in Members, NEW o \in Orgs,
               CreateOrg(r, u, o, m)
        PROVE  RequestsCurrent'
    <2> DEFINE i == [id |-> m, user |-> u, atype |-> Owner,
                     status |-> Confirmed]
               q == [NewRequest("create", "write", u, o) EXCEPT !.cur = i]
    <2>1. i.id = m
      OBVIOUS
    <2> HIDE DEF i
    <2>2. /\ q.cur = i /\ q.items = {} /\ q.op = "create" /\ q.org = o
      BY DEF NewRequest
    <2> HIDE DEF q
    <2>3. Unlisted(q, members')
      BY <1>0, <1>8, <2>1, <2>2
         DEF Unlisted, Present, CreateOrg, FreshOrg, FreshMember, Rows, Linked,
             SerialInv
    <2>4. CurrentIn(q, members', twofactor')
      BY <2>2, <2>3 DEF InsertOps, SessionOps, TakesOwner
    <2>5. requests' = [requests EXCEPT ![r] = q]
      BY <1>8 DEF CreateOrg, Begin, q, i
    <2> QED
      BY <2>4, <2>5, PutCurrent DEF SerialInv, TypeInv
  <1> QED
    BY <1>1, <1>2, <1>3, <1>5, <1>6, <1>7, <1>8 DEF Arrive

\* Every statement of the one request leaves it up to date.
LEMMA ContinueCurrent ==
    ASSUME SerialInv, OneAtATime, NEW r \in Requests, Continue(r)
    PROVE  RequestsCurrent'
  <1>1. CASE CountOwners(r) \/ AcceptCheck2fa(r) \/ AcceptCheckSingleOrg(r)
    BY <1>1, ChecksCurrent
  <1>2. CASE \E m \in Members :
               \/ ConfirmRead(r, m) \/ EditRead(r, m) \/ RemoveRead(r, m)
               \/ RevokeRead(r, m) \/ RestoreRead(r, m)
    BY <1>2, ReadsCurrent
  <1>3. CASE \E m \in Members, u \in Users :
               InviteRead(r, u, m) \/ ImportNew(r, u, m)
    BY <1>3, ReadInviteeCurrent
  <1>4. CASE /\ requests[r] # None
             /\ \E i \in requests[r].items : PolicyCheckMember(r, i)
    BY <1>4, PolicyCheckCurrent
  <1>5. CASE \/ EnforceRead(r)
             \/ /\ requests[r] # None
                /\ \E i \in requests[r].items : EnforceRevoke(r, i)
    <2>1. requests[r] # None
      BY <1>5 DEF EnforceRead, At
    <2> QED
      BY <1>5, <2>1, EnforceCurrent
  <1> QED
    BY <1>1, <1>2, <1>3, <1>4, <1>5, ReadActorCurrent, PolicyReadCurrent,
       PolicyRevokeCurrent, WritesCurrent DEF Continue

(***************************************************************************)
(* One membership per user and organization                                *)
(***************************************************************************)
\* A role written by an edit or by the admin panel: same user, same
\* organization, same status.
LEMMA SetTypeRows ==
    ASSUME TypeInv, NEW r \in Requests, EditWrite(r) \/ AdminTypeWrite(r)
    PROVE  LET m == requests[r].cur.id
           IN  /\ m \in Members
               /\ \A n \in Members \ {m} : members'[n] = members[n]
               /\ members[m] = None => members'[m] = None
               /\ members[m] # None =>
                    /\ members'[m].user = members[m].user
                    /\ members'[m].org = members[m].org
                    /\ members'[m].atype = requests[r].type
                    /\ members'[m].status = members[m].status
  <1> DEFINE m == requests[r].cur.id
  <1>1. m \in Members
    BY CurType DEF EditWrite, AdminTypeWrite, SetType, At, TypeInv
  <1>2. CASE members[m] = None
    BY <1>1, <1>2 DEF EditWrite, AdminTypeWrite, SetType, TypeInv, TablesOK
  <1>3. CASE members[m] # None
    <2>1. members' = [members EXCEPT ![m] =
                        [members[m] EXCEPT !.atype = requests[r].type]]
      BY <1>3 DEF EditWrite, AdminTypeWrite, SetType
    <2>2. members[m] \in Row /\ members \in [Members -> Row \cup {None}]
      BY <1>1, <1>3 DEF TypeInv, TablesOK
    <2>3. members'[m] = [members[m] EXCEPT !.atype = requests[r].type]
      BY <1>1, <2>1, <2>2
    <2>4. \A n \in Members \ {m} : members'[n] = members[n]
      BY <2>1, <2>2
    <2>5. /\ members'[m].user = members[m].user
          /\ members'[m].org = members[m].org
          /\ members'[m].atype = requests[r].type
          /\ members'[m].status = members[m].status
      BY <2>2, <2>3 DEF Row
    <2> QED
      BY <1>1, <1>3, <2>4, <2>5
  <1> QED
    BY <1>1, <1>2, <1>3

\* No row changes hands, and none refers to a deleted account or organization.
StaysPut ==
    \A m \in Members :
      \/ members'[m] = None
      \/ /\ members[m] # None
         /\ members'[m].user = members[m].user
         /\ members'[m].org = members[m].org
         /\ members[m].user \in users' /\ members[m].org \in orgs'

\* Such a step breaks no foreign key and makes no second membership.
LEMMA StaysPutLinked ==
    ASSUME Linked, UniqueMembership, StaysPut
    PROVE  Linked' /\ UniqueMembership'
  BY DEF Linked, UniqueMembership, StaysPut, Rows

\* Without a cascade the accounts and organizations only grow.
LEMMA KeptStaysPut ==
    ASSUME Linked, Kept, users \subseteq users', orgs \subseteq orgs'
    PROVE  StaysPut
  BY DEF Linked, Kept, StaysPut, SameMember, Rows

\* An insert adds the only row of its user in the organization.
LEMMA InsertUnique ==
    ASSUME SerialInv, NEW r \in Requests,
           CreateOwner(r) \/ InviteWrite(r) \/ ImportInsert(r)
    PROVE  Linked' /\ UniqueMembership'
  <1> DEFINE q == requests[r]
             c == q.cur
  <1>1. /\ q # None /\ q.op \in InsertOps /\ c # None /\ c.id \in Members
    BY CurType DEF CreateOwner, InviteWrite, ImportInsert, At, InsertOps,
                   SerialInv, TypeInv
  <1>2. Unlisted(q, members)
    BY <1>1, TheRequest DEF CurrentIn, HoldsFresh
  <1>3. PICK key :
          /\ members' = [members EXCEPT ![c.id] =
               [user |-> c.user, org |-> q.org, atype |-> c.atype,
                status |-> c.status, akey |-> key]]
          /\ c.user \in users /\ q.org \in orgs
          /\ UNCHANGED <<users, orgs>>
    BY DEF CreateOwner, InviteWrite, ImportInsert, Insert
  <1>4. /\ \A n \in Members \ {c.id} : members'[n] = members[n]
        /\ members'[c.id].user = c.user /\ members'[c.id].org = q.org
    BY <1>1, <1>3 DEF SerialInv, TypeInv, TablesOK
  <1>5. Linked'
    BY <1>3, <1>4 DEF Linked, Rows, SerialInv
  <1>6. UniqueMembership'
    BY <1>2, <1>4 DEF UniqueMembership, Rows, SerialInv, Unlisted, Present
  <1> QED
    BY <1>5, <1>6

\* No step of a serial behaviour breaks a foreign key or gives a user a
\* second membership.
LEMMA LinkedStep ==
    ASSUME SerialInv, [SerialNext]_vars
    PROVE  Linked' /\ UniqueMembership'
  <1> USE DEF SerialInv
  <1>1. CASE UNCHANGED vars
    BY <1>1 DEF vars, Linked, UniqueMembership, Rows
  <1>2. CASE Instant
    <2>1. ASSUME NEW u \in Users, DeleteAccount(u)
          PROVE  StaysPut
      BY <2>1 DEF StaysPut, DeleteAccount, Linked, Rows
    <2>2. CASE \E u \in Users : \/ AcceptOpenInvitations(u)
                                \/ ActivateTwofactor(u) \/ DisableTwofactor(u)
                                \/ RegisterAccount(u)
      <3>1. users \subseteq users' /\ orgs \subseteq orgs'
        BY <2>2 DEF AcceptOpenInvitations, ActivateTwofactor, DisableTwofactor,
                    RegisterAccount
      <3> QED
        BY <1>2, <3>1, InstantKept, KeptStaysPut, StaysPutLinked
    <2> QED
      BY <1>2, <2>1, <2>2, StaysPutLinked DEF Instant
  <1>3. ASSUME NEW r \in Requests, Arrive(r) \/ Continue(r)
        PROVE  Linked' /\ UniqueMembership'
    <2>1. CASE CreateOwner(r) \/ InviteWrite(r) \/ ImportInsert(r)
      BY <2>1, InsertUnique
    <2>2. CASE EditWrite(r) \/ AdminTypeWrite(r)
      <3>1. UNCHANGED <<users, orgs>>
        BY <2>2 DEF EditWrite, AdminTypeWrite, SetType
      <3>2. StaysPut
        BY <2>2, <3>1, SetTypeRows DEF StaysPut, Linked, Rows
      <3> QED
        BY <3>2, StaysPutLinked
    <2>3. CASE DeleteOrg(r)
      <3>1. StaysPut
        BY <2>3 DEF StaysPut, DeleteOrg, Linked, Rows
      <3> QED
        BY <3>1, StaysPutLinked
    <2>4. CASE ~Grants(r) /\ ~DeleteOrg(r)
      <3>1. users \subseteq users' /\ orgs \subseteq orgs'
        <4>1. CASE Arrive(r)
          BY <4>1
             DEF Arrive, BeginAdminRoute, requireMember, BeginImport,
                 LoginWithout2fa, LoginWithRecoveryCode, AcceptRead, LeaveRead,
                 CreateOrg, AdminTypeRead, tables
        <4>2. CASE Continue(r)
          BY <2>4, <4>2
             DEF Continue, Grants, EndRequest, SkipItem, ReadActor, CountOwners,
                 AcceptCheck2fa, AcceptCheckSingleOrg, AcceptWrite, RemoveWrite,
                 LeaveWrite, Delete, RevokeWrite, RestoreWrite,
                 PolicyReadMembers, PolicyRevokeMember, PolicyEnable,
                 PolicyDisable, EnforceRead, ConfirmWrite, ConfirmRead, EditRead,
                 RemoveRead, RevokeRead, RestoreRead, InviteRead, ImportNew,
                 ReadInvitee, PolicyCheckMember, EnforceRevoke, tables
        <4> QED
          BY <1>3, <4>1, <4>2
      <3> QED
        BY <1>3, <2>4, <3>1, ContinueKept, KeptStaysPut, StaysPutLinked
    <2> QED
      BY <2>1, <2>2, <2>3, <2>4 DEF Grants
  <1> QED
    BY <1>1, <1>2, <1>3 DEF SerialNext

\* SerialInv is inductive when there is one request at a time.
LEMMA SerialInvStep ==
    ASSUME OneAtATime, SerialInv, [SerialNext]_vars
    PROVE  SerialInv'
  <1>1. [Next]_vars
    BY DEF SerialNext, Next
  <1>2. TypeInv' /\ ChecksPassed' /\ Linked' /\ UniqueMembership'
    BY <1>1, TypeInvStep, ChecksPassedStep, LinkedStep DEF SerialInv
  <1>3. RequestsCurrent'
    <2>1. CASE UNCHANGED vars
      BY <2>1 DEF vars, SerialInv, RequestsCurrent
    <2>2. CASE Active = {} /\ Instant
      <3>1. UNCHANGED requests
        BY <2>2 DEF Instant, AcceptOpenInvitations, ActivateTwofactor,
                    DisableTwofactor, DeleteAccount, RegisterAccount
      <3> QED
        BY <2>2, <3>1 DEF RequestsCurrent, Active
    <2> QED
      BY <2>1, <2>2, ArriveCurrent, ContinueCurrent DEF SerialNext
  <1> QED
    BY <1>2, <1>3 DEF SerialInv

\* The empty database satisfies it.
LEMMA SerialInvInit == Init => SerialInv
  BY TypeInvInit, ChecksPassedInit
     DEF Init, SerialInv, Linked, UniqueMembership, RequestsCurrent, Rows

\* One request at a time, whatever the organization has gone through: no user
\* ever has two memberships of one organization, although nothing in the
\* schema of users_organizations says so.
THEOREM OneMembershipEach ==
    ASSUME OneAtATime
    PROVE  SerialSpec => []UniqueMembership
  <1>1. SerialInv /\ [SerialNext]_vars => SerialInv'
    BY SerialInvStep
  <1>2. SerialInv => UniqueMembership
    BY DEF SerialInv
  <1> QED
    BY <1>1, <1>2, SerialInvInit, PTL DEF SerialSpec

(***************************************************************************)
(* The last confirmed Owner                                                *)
(***************************************************************************)
\* The handler that writes one row of the table, and finds it as it read it.
LEMMA HeldRow ==
    ASSUME SerialInv, NEW r \in Requests, requests[r] # None,
           requests[r].pc = "write", requests[r].op \notin InsertOps,
           requests[r].op # "enforce"
    PROVE  LET q == requests[r]
           IN  /\ q \in Request /\ Checked(q) /\ ReqOK(q)
               /\ CurrentIn(q, members, twofactor)
               /\ q.cur # None /\ q.cur.id \in Members
               /\ members[q.cur.id] \in Row /\ members[q.cur.id] # None
               /\ members[q.cur.id].org = q.org
               /\ members[q.cur.id].user = q.cur.user
               /\ members[q.cur.id].atype = q.cur.atype
               /\ members[q.cur.id].status = q.cur.status
  <1> DEFINE q == requests[r]
  <1>1. /\ q \in Request /\ Checked(q) /\ ReqOK(q)
        /\ CurrentIn(q, members, twofactor)
        /\ q.cur # None /\ q.cur.id \in Members
    BY TheRequest, CurType DEF SerialInv, TypeInv
  <1>2. Fresh(q, members, q.cur)
    BY <1>1 DEF CurrentIn, HoldsFresh
  <1>3. q.cur = Seen(members, q.cur.id)
    BY <1>2 DEF Fresh
  <1>4. /\ q.cur.user = members[q.cur.id].user
        /\ q.cur.atype = members[q.cur.id].atype
        /\ q.cur.status = members[q.cur.id].status
    BY <1>3 DEF Seen
  <1> QED
    BY <1>1, <1>2, <1>4 DEF Fresh, SerialInv, TypeInv, TablesOK

\* A write to one row leaves an organization its Owner unless the row was the
\* only one.
LEMMA OneRowOwners ==
    ASSUME NEW m \in Members, NEW o,
           \A n \in Members \ {m} : members'[n] = members[n],
           m \in Owners(members, o) =>
             \/ m \in Owners(members', o)
             \/ \E n \in Owners(members, o) : n # m,
           Owners(members, o) # {}
    PROVE  Owners(members', o) # {}
  BY DEF Owners, Present

\* The rows that edit, remove, leave and revoke write.
LEMMA TakingWrites ==
    ASSUME SerialInv, NEW r \in Requests,
           \/ EditWrite(r) \/ AdminTypeWrite(r) \/ RemoveWrite(r)
           \/ LeaveWrite(r) \/ RevokeWrite(r),
           NEW o, Owners(members, o) # {}
    PROVE  Owners(members', o) # {}
  <1> DEFINE q == requests[r]
             m == q.cur.id
  <1>1. /\ q # None /\ q.pc = "write"
        /\ q.op \in {"edit", "adminType", "remove", "leave", "revoke"}
    BY DEF EditWrite, AdminTypeWrite, SetType, RemoveWrite, LeaveWrite,
           RevokeWrite, At
  <1>2. /\ CurrentIn(q, members, twofactor) /\ q.cur # None /\ m \in Members
        /\ members[m] # None /\ members[m].org = q.org
        /\ members[m].atype = q.cur.atype /\ members[m].status = q.cur.status
    BY <1>1, HeldRow DEF InsertOps
  <1>3. \A n \in Members \ {m} : members'[n] = members[n]
    <2>1. CASE EditWrite(r) \/ AdminTypeWrite(r)
      BY <2>1, SetTypeRows DEF SerialInv
    <2>2. CASE RemoveWrite(r) \/ LeaveWrite(r)
      BY <2>2 DEF RemoveWrite, LeaveWrite, Delete, SerialInv, TypeInv, TablesOK
    <2>3. CASE RevokeWrite(r)
      BY <1>2, <2>3, SetStatusRows DEF RevokeWrite, SerialInv, TypeInv
    <2> QED
      BY <2>1, <2>2, <2>3
  <1>4. ASSUME m \in Owners(members, o)
        PROVE  \/ m \in Owners(members', o)
               \/ \E n \in Owners(members, o) : n # m
    <2>1. o = q.org /\ q.cur.atype = Owner /\ q.cur.status = Confirmed
      BY <1>2, <1>4 DEF Owners
    <2>2. CASE TakesOwner(q.op, q.type, q.cur)
      BY <1>1, <1>2, <2>1, <2>2 DEF CurrentIn, OwnerLeft
    <2>3. CASE ~TakesOwner(q.op, q.type, q.cur)
      <3>1. q.op \in {"edit", "adminType"} /\ q.type = Owner
        BY <1>1, <2>1, <2>3 DEF TakesOwner
      <3>2. EditWrite(r) \/ AdminTypeWrite(r)
        BY <3>1 DEF RemoveWrite, LeaveWrite, RevokeWrite, At
      <3>3. /\ members'[m].org = members[m].org
            /\ members'[m].atype = Owner
            /\ members'[m].status = members[m].status
        BY <1>2, <3>1, <3>2, SetTypeRows DEF SerialInv
      <3>4. members'[m] # None
        <4>1. TypeInv'
          BY <3>2, SetTypeOK DEF EditWrite, AdminTypeWrite, SerialInv
        <4>2. members' = [members EXCEPT ![m] =
                            [members[m] EXCEPT !.atype = q.type]]
          BY <1>2, <3>2 DEF EditWrite, AdminTypeWrite, SetType
        <4>3. [members[m] EXCEPT !.atype = q.type] \in Row
          BY <1>2, <3>1, TypeFacts DEF SerialInv, TypeInv, TablesOK, Row
        <4> QED
          BY <1>2, <4>2, <4>3, NoneFacts DEF SerialInv, TypeInv, TablesOK
      <3> QED
        BY <1>2, <1>4, <3>3, <3>4 DEF Owners, Present
    <2> QED
      BY <2>2, <2>3
  <1> QED
    BY <1>2, <1>3, <1>4, OneRowOwners

\* Owner and Confirmed are none of the values that the other writes look for.
LEMMA OwnerFacts ==
    /\ \A i : i.atype = Owner => ~Sweepable(i)
    /\ Invited # Confirmed /\ Accepted # Confirmed /\ ~(Confirmed < Invited)
  <1>1. isAtLeast(Owner, Admin)
    <2>1. membershipRank(Owner) = 3 /\ membershipRank(Admin) = 2
      BY DEF membershipRank, Owner, Admin, Manager
    <2> QED
      BY <2>1 DEF isAtLeast
  <1> QED
    BY <1>1 DEF Sweepable, Invited, Accepted, Confirmed

\* The rows that accept, confirm, restore and the two sweeps write are not a
\* confirmed Owner's.
LEMMA OtherStatusWrites ==
    ASSUME SerialInv, NEW r \in Requests,
           \/ AcceptWrite(r) \/ RestoreWrite(r) \/ PolicyRevokeMember(r)
           \/ \E key \in ConfirmKeys : ConfirmWrite(r, key)
           \/ /\ requests[r] # None
              /\ \E i \in requests[r].items : EnforceRevoke(r, i),
           NEW o, Owners(members, o) # {}
    PROVE  Owners(members', o) # {}
  <1> DEFINE q == requests[r]
  <1>1. CASE ~(\E i \in requests[r].items : EnforceRevoke(r, i))
    <2>1. /\ q # None /\ q.pc = "write"
          /\ q.op \in {"accept", "restore", "enablePolicy", "confirm"}
      BY <1>1 DEF AcceptWrite, RestoreWrite, PolicyRevokeMember, ConfirmWrite, At
    <2>2. /\ Checked(q) /\ ReqOK(q) /\ q.cur # None /\ q.cur.id \in Members
          /\ members[q.cur.id] # None /\ q \in Request
          /\ members[q.cur.id].atype = q.cur.atype
          /\ members[q.cur.id].status = q.cur.status
      BY <2>1, HeldRow DEF InsertOps
    <2>3. \A n \in Members \ {q.cur.id} : members'[n] = members[n]
      <3>1. CASE \E key \in ConfirmKeys : ConfirmWrite(r, key)
        BY <3>1, ConfirmRows DEF SerialInv
      <3>2. CASE AcceptWrite(r) \/ RestoreWrite(r) \/ PolicyRevokeMember(r)
        BY <2>2, <3>2, SetStatusRows
           DEF AcceptWrite, RestoreWrite, PolicyRevokeMember, SerialInv, TypeInv
      <3> QED
        BY <1>1, <3>1, <3>2
    <2>4. ~(q.cur.atype = Owner /\ q.cur.status = Confirmed)
      BY <2>1, <2>2, OwnerFacts DEF Checked, Passed, ReqOK
    <2> QED
      BY <2>2, <2>3, <2>4, OneRowOwners DEF Owners
  <1>2. ASSUME q # None, NEW i \in q.items, EnforceRevoke(r, i)
        PROVE  Owners(members', o) # {}
    <2>1. Checked(q) /\ CurrentIn(q, members, twofactor)
      BY <1>2, TheRequest
    <2>2. Sweepable(i) /\ Fresh(q, members, i)
      BY <2>1 DEF Checked, CurrentIn, HoldsFresh
    <2>3. i.id \in Members /\ i.atype = members[i.id].atype
      BY <2>2 DEF Fresh, Seen
    <2>4. \A n \in Members \ {i.id} : members'[n] = members[n]
      BY <1>2, <2>3, SetStatusRows DEF EnforceRevoke, SerialInv, TypeInv
    <2> QED
      BY <2>2, <2>3, <2>4, OwnerFacts, OneRowOwners DEF Owners
  <1>3. (\E i \in q.items : EnforceRevoke(r, i)) => q # None
    BY DEF EnforceRevoke, At
  <1> QED
    BY <1>1, <1>2, <1>3

\* Every other step leaves the rows alone or adds to them.
LEMMA OwnersStayNonempty ==
    ASSUME OwnersStay, NEW o, Owners(members, o) # {}
    PROVE  Owners(members', o) # {}
  BY DEF OwnersStay, Owners, Present, SameMember

\* The inserts and the acceptance of open invitations.
LEMMA AddingWrites ==
    ASSUME SerialInv, NEW r \in Requests,
           CreateOwner(r) \/ InviteWrite(r) \/ ImportInsert(r)
    PROVE  OwnersStay
  <1>1. /\ requests[r] # None /\ requests[r].op \in InsertOps
        /\ requests[r].cur # None
    BY CurType DEF CreateOwner, InviteWrite, ImportInsert, At, InsertOps,
                   SerialInv, TypeInv
  <1>2. members[requests[r].cur.id] = None
    BY <1>1, TheRequest DEF CurrentIn, HoldsFresh, Unlisted
  <1> QED
    BY <1>2 DEF CreateOwner, InviteWrite, ImportInsert, Insert, OwnersStay,
                SameMember, SerialInv, TypeInv, TablesOK

\* One statement of the one request.
LEMMA OwnerKeptStep ==
    ASSUME SerialInv, NEW r \in Requests, Arrive(r) \/ Continue(r),
           ~DeleteOrg(r), NEW o, Owners(members, o) # {}
    PROVE  Owners(members', o) # {}
  <1>1. CASE \/ EditWrite(r) \/ AdminTypeWrite(r) \/ RemoveWrite(r)
             \/ LeaveWrite(r) \/ RevokeWrite(r)
    BY <1>1, TakingWrites
  <1>2. CASE \/ AcceptWrite(r) \/ RestoreWrite(r) \/ PolicyRevokeMember(r)
             \/ \E key \in ConfirmKeys : ConfirmWrite(r, key)
             \/ /\ requests[r] # None
                /\ \E i \in requests[r].items : EnforceRevoke(r, i)
    BY <1>2, OtherStatusWrites
  <1>3. CASE CreateOwner(r) \/ InviteWrite(r) \/ ImportInsert(r)
    BY <1>3, AddingWrites, OwnersStayNonempty
  <1>4. CASE UNCHANGED members
    BY <1>4
  <1>5. CASE Arrive(r)
    BY <1>4, <1>5
       DEF Arrive, BeginAdminRoute, requireMember, BeginImport, LoginWithout2fa,
           LoginWithRecoveryCode, AcceptRead, LeaveRead, CreateOrg,
           AdminTypeRead, tables
  <1>6. CASE \/ EndRequest(r) \/ SkipItem(r) \/ ReadActor(r) \/ CountOwners(r)
             \/ AcceptCheck2fa(r) \/ AcceptCheckSingleOrg(r)
             \/ PolicyReadMembers(r) \/ EnforceRead(r) \/ PolicyEnable(r)
             \/ PolicyDisable(r)
             \/ \E m \in Members :
                  \/ ConfirmRead(r, m) \/ EditRead(r, m) \/ RemoveRead(r, m)
                  \/ RevokeRead(r, m) \/ RestoreRead(r, m)
                  \/ \E u \in Users : InviteRead(r, u, m) \/ ImportNew(r, u, m)
             \/ \E i \in requests[r].items : PolicyCheckMember(r, i)
    BY <1>4, <1>6
       DEF EndRequest, SkipItem, ReadActor, CountOwners, AcceptCheck2fa,
           AcceptCheckSingleOrg, PolicyReadMembers, EnforceRead, PolicyEnable,
           PolicyDisable, ConfirmRead, EditRead, RemoveRead, RevokeRead,
           RestoreRead, InviteRead, ImportNew, ReadInvitee, PolicyCheckMember,
           tables
  <1> QED
    BY <1>1, <1>2, <1>3, <1>5, <1>6 DEF Continue

\* One request at a time, an organization loses its last confirmed Owner only
\* with the organization itself or with that Owner's account: the counts of
\* editMember, removeMember, setRevoked, leave and the admin panel are enough,
\* and no sweep, acceptance or restore gets around them.
THEOREM LastOwnerStays ==
    ASSUME OneAtATime
    PROVE  SerialSpec => LastOwnerKept
  <1> DEFINE A == \A o \in orgs \cap orgs' :
                    confirmedOwners(o) # {} /\ users' = users
                      => confirmedOwners(o)' # {}
  <1>1. SerialInv /\ [SerialNext]_vars => [A]_vars
    <2> SUFFICES ASSUME SerialInv, SerialNext, NEW o \in orgs \cap orgs',
                        confirmedOwners(o) # {}, users' = users
                 PROVE  confirmedOwners(o)' # {}
      OBVIOUS
    <2>0. /\ confirmedOwners(o) = Owners(members, o)
          /\ confirmedOwners(o)' = Owners(members', o)
      BY DEF confirmedOwners, Owners, Rows, Present
    <2>1. CASE Instant
      <3>1. PICK u \in Users :
              \/ AcceptOpenInvitations(u) \/ ActivateTwofactor(u)
              \/ DisableTwofactor(u) \/ DeleteAccount(u) \/ RegisterAccount(u)
        BY <2>1 DEF Instant
      <3>2. ~DeleteAccount(u)
        BY DEF DeleteAccount
      <3>3. CASE AcceptOpenInvitations(u)
        <4>1. OwnersStay
          BY <3>3, OwnerFacts DEF AcceptOpenInvitations, OwnersStay, SameMember
        <4> QED
          BY <2>0, <4>1, OwnersStayNonempty
      <3>4. CASE ~AcceptOpenInvitations(u)
        <4>1. UNCHANGED members
          BY <3>1, <3>2, <3>4 DEF ActivateTwofactor, DisableTwofactor,
                                  RegisterAccount
        <4> QED
          BY <2>0, <4>1
      <3> QED
        BY <3>3, <3>4
    <2>2. ASSUME NEW r \in Requests, Arrive(r) \/ Continue(r)
          PROVE  confirmedOwners(o)' # {}
      <3>1. CASE DeleteOrg(r)
        <4>1. Owners(members, o) # {} /\ o # requests[r].org
          BY <2>0, <3>1 DEF DeleteOrg
        <4>2. \A m \in Owners(members, o) : members'[m] = members[m]
          BY <3>1, <4>1 DEF DeleteOrg, Owners, Present
        <4> QED
          BY <2>0, <4>1, <4>2 DEF Owners, Present
      <3> QED
        BY <2>0, <2>2, <3>1, OwnerKeptStep
    <2> QED
      BY <2>1, <2>2 DEF SerialNext
  <1>2. SerialInv /\ [SerialNext]_vars => SerialInv'
    BY SerialInvStep
  <1>3. SerialSpec => [][A]_vars
    BY <1>1, <1>2, SerialInvInit, PTL DEF SerialSpec
  <1> QED
    BY <1>3 DEF LastOwnerKept

(***************************************************************************)
(* Who touches an Owner                                                    *)
(***************************************************************************)
\* A session's write to an Owner's row, or one that makes an Owner, follows a
\* check of the actor that still holds.
LEMMA TouchWrites ==
    ASSUME SerialInv, NEW r \in Requests, Continue(r),
           requests[r].op \in SessionOps, requests[r].actor # None,
           NEW m \in Members, members'[m] # members[m],
           \/ members[m] # None /\ members[m].atype = Owner
           \/ members'[m] # None /\ members'[m].atype = Owner
    PROVE  OwnersBy(members, requests[r].actor, requests[r].org) # {}
  <1> DEFINE q == requests[r]
             c == q.cur
  <1>1. \/ InviteWrite(r) \/ EditWrite(r) \/ RemoveWrite(r) \/ RevokeWrite(r)
        \/ \E key \in ConfirmKeys : ConfirmWrite(r, key)
    BY DEF Continue, SessionOps, EndRequest, SkipItem, ReadActor, CountOwners,
           CreateOwner, ImportInsert, AcceptCheck2fa, AcceptCheckSingleOrg,
           AcceptWrite, AdminTypeWrite, SetType, LeaveWrite, RestoreWrite,
           PolicyReadMembers, PolicyRevokeMember, PolicyEnable, PolicyDisable,
           EnforceRead, DeleteOrg, ConfirmRead, EditRead, RemoveRead,
           RevokeRead, RestoreRead, InviteRead, ImportNew, ReadInvitee,
           PolicyCheckMember, EnforceRevoke, At, tables
  <1>2. q # None /\ q.pc = "write" /\ q.op # "enforce"
    BY <1>1 DEF InviteWrite, EditWrite, SetType, RemoveWrite, RevokeWrite,
                ConfirmWrite, At
  <1>3. /\ Checked(q) /\ CurrentIn(q, members, twofactor) /\ q \in Request
        /\ c # None /\ c.id \in Members
    BY <1>2, TheRequest, CurType DEF SerialInv, TypeInv
  <1>4. q.asOwner
    <2>1. CASE InviteWrite(r)
      <3>1. q.op = "invite" /\ members' = [members EXCEPT ![c.id] =
               [user |-> c.user, org |-> q.org, atype |-> c.atype,
                status |-> c.status, akey |-> ""]]
        BY <2>1 DEF InviteWrite, Insert, At
      <3>2. members[c.id] = None
        BY <1>3, <3>1 DEF CurrentIn, HoldsFresh, Unlisted, InsertOps
      <3>3. m = c.id /\ members'[m].atype = c.atype
        BY <1>3, <3>1 DEF SerialInv, TypeInv, TablesOK
      <3>4. c.atype = Owner
        BY <3>2, <3>3
      <3> QED
        BY <1>2, <1>3, <3>1, <3>4 DEF Checked, Passed
    <2>2. CASE EditWrite(r)
      <3>1. /\ q.op = "edit" /\ m = c.id /\ members[m] # None
            /\ members'[m].atype = q.type
        BY <1>3, <2>2, SetTypeRows DEF EditWrite, SetType, At, SerialInv
      <3>2. members[m].atype = c.atype
        BY <1>2, <3>1, HeldRow DEF InsertOps
      <3> QED
        BY <1>3, <3>1, <3>2 DEF Checked, Passed
    <2>3. CASE RemoveWrite(r)
      <3>1. q.op = "remove" /\ m = c.id /\ members'[m] = None
        BY <1>3, <2>3
           DEF RemoveWrite, Delete, At, SerialInv, TypeInv, TablesOK
      <3>2. members[m].atype = c.atype
        BY <1>2, <3>1, HeldRow DEF InsertOps
      <3> QED
        BY <1>3, <3>1, <3>2 DEF Checked, Passed
    <2>4. CASE RevokeWrite(r)
      <3>1. /\ q.op = "revoke" /\ m = c.id /\ members[m] # None
            /\ members'[m].atype = members[m].atype
        BY <1>3, <2>4, SetStatusRows
           DEF RevokeWrite, At, SerialInv, TypeInv, SameMember
      <3>2. members[m].atype = c.atype
        BY <1>2, <3>1, HeldRow DEF InsertOps
      <3> QED
        BY <1>3, <3>1, <3>2 DEF Checked, Passed
    <2>5. ASSUME NEW key \in ConfirmKeys, ConfirmWrite(r, key)
          PROVE  q.asOwner
      <3>1. /\ q.op = "confirm" /\ m = c.id /\ members[m] # None
            /\ members'[m].atype = members[m].atype
        BY <1>3, <2>5, ConfirmRows DEF ConfirmWrite, At, SerialInv, SameMember
      <3>2. members[m].atype = c.atype
        BY <1>2, <3>1, HeldRow DEF InsertOps
      <3> QED
        BY <1>2, <1>3, <3>1, <3>2 DEF Checked, Passed
    <2> QED
      BY <1>1, <2>1, <2>2, <2>3, <2>4, <2>5
  <1> QED
    BY <1>2, <1>3, <1>4 DEF CurrentIn, ActorIsOwner

\* One request at a time, a session that invites, confirms, edits, removes or
\* revokes an Owner belongs to somebody who is a confirmed Owner when the
\* write happens, also in the middle of a bulk route that has just removed or
\* demoted others.
THEOREM OwnersTouchOwners ==
    ASSUME OneAtATime
    PROVE  SerialSpec => OwnerTouchedByOwner
  <1> DEFINE A ==
        \A m \in Members, r \in Active :
          LET q == requests[r]
              touches(row) == row # None /\ row.atype = Owner
          IN  /\ requests'[r] # q /\ members'[m] # members[m]
              /\ q.op \in {"invite", "confirm", "edit", "remove", "revoke"}
              /\ q.actor # None
              /\ touches(members[m]) \/ touches(members'[m])
              => \E n \in findConfirmedMembership(q.actor, q.org) :
                   members[n].atype = Owner
  <1>1. SerialInv /\ [SerialNext]_vars => [A]_vars
    <2> SUFFICES ASSUME SerialInv, SerialNext, NEW m \in Members,
                        NEW r \in Active, requests'[r] # requests[r],
                        members'[m] # members[m],
                        requests[r].op \in SessionOps,
                        requests[r].actor # None,
                        \/ members[m] # None /\ members[m].atype = Owner
                        \/ members'[m] # None /\ members'[m].atype = Owner
                 PROVE  \E n \in findConfirmedMembership(requests[r].actor,
                                                         requests[r].org) :
                          members[n].atype = Owner
      BY DEF SessionOps
    <2>1. PICK s \in Requests : Arrive(s) \/ Continue(s)
      BY DEF SerialNext, Active
    <2>2. s = r
      BY OneAtATime DEF OneAtATime, Active
    <2>3. ~Arrive(s)
      BY <2>2
         DEF Arrive, BeginAdminRoute, requireMember, BeginImport,
             LoginWithout2fa, LoginWithRecoveryCode, AcceptRead, LeaveRead,
             CreateOrg, AdminTypeRead, Begin, Active
    <2>4. OwnersBy(members, requests[r].actor, requests[r].org) # {}
      BY <2>1, <2>2, <2>3, TouchWrites
    <2> QED
      BY <2>4 DEF OwnersBy, Owners, Present, findConfirmedMembership, RowsOf, Rows
  <1>2. SerialInv /\ [SerialNext]_vars => SerialInv'
    BY SerialInvStep
  <1>3. SerialSpec => [][A]_vars
    BY <1>1, <1>2, SerialInvInit, PTL DEF SerialSpec
  <1> QED
    BY <1>3 DEF OwnerTouchedByOwner

(***************************************************************************)
(* What a policy finds when it takes effect                                *)
(***************************************************************************)
\* Only putPolicyHandler turns a policy on.
LEMMA PoliciesGrow ==
    ASSUME SerialNext, NEW p \in policies' \ policies
    PROVE  \E r \in Requests : PolicyEnable(r)
  <1>1. CASE Instant
    BY <1>1 DEF Instant, AcceptOpenInvitations, ActivateTwofactor,
                DisableTwofactor, DeleteAccount, RegisterAccount
  <1>2. ASSUME NEW r \in Requests, Arrive(r)
        PROVE  FALSE
    BY <1>2
       DEF Arrive, BeginAdminRoute, requireMember, BeginImport, LoginWithout2fa,
           LoginWithRecoveryCode, AcceptRead, LeaveRead, CreateOrg,
           AdminTypeRead, tables
  <1>3. ASSUME NEW r \in Requests, Continue(r), ~PolicyEnable(r)
        PROVE  FALSE
    BY <1>3
       DEF Continue, EndRequest, SkipItem, ReadActor, CountOwners, CreateOwner,
           InviteWrite, ImportInsert, Insert, AcceptCheck2fa,
           AcceptCheckSingleOrg, AcceptWrite, EditWrite, AdminTypeWrite,
           SetType, RemoveWrite, LeaveWrite, Delete, RevokeWrite, RestoreWrite,
           PolicyReadMembers, PolicyRevokeMember, PolicyDisable, EnforceRead,
           DeleteOrg, ConfirmWrite, ConfirmRead, EditRead, RemoveRead,
           RevokeRead, RestoreRead, InviteRead, ImportNew, ReadInvitee,
           PolicyCheckMember, EnforceRevoke, tables
  <1> QED
    BY <1>1, <1>2, <1>3 DEF SerialNext

\* One request at a time, when putPolicyHandler stores a policy as enabled no
\* accepted or confirmed member below Admin is left in the organization that
\* breaks it: the sweep listed every one and revoked those that do not comply.
THEOREM SweptByPolicy ==
    ASSUME OneAtATime
    PROVE  SerialSpec => SweptWhenEnabled
  <1> DEFINE A ==
        \A p \in policies' \ policies :
          \A m \in {n \in Rows : members[n].org = p[1]} :
            /\ ~isAtLeast(members[m].atype, Admin)
            /\ members[m].status >= Accepted
            => Complies(Snapshot(m), p[1], p[2])
  <1>1. SerialInv /\ [SerialNext]_vars => [A]_vars
    <2> SUFFICES ASSUME SerialInv, SerialNext, NEW p \in policies' \ policies,
                        NEW m \in Rows, members[m].org = p[1],
                        ~isAtLeast(members[m].atype, Admin),
                        members[m].status >= Accepted
                 PROVE  Complies(Snapshot(m), p[1], p[2])
      OBVIOUS
    <2>1. PICK r \in Requests : PolicyEnable(r)
      BY PoliciesGrow
    <2> DEFINE q == requests[r]
    <2>2. /\ q # None /\ q.op = "enablePolicy" /\ q.pc = "sweep"
          /\ q.items = {} /\ p = <<q.org, q.policy>>
      BY <2>1 DEF PolicyEnable, At
    <2>3. Checked(q) /\ CurrentIn(q, members, twofactor)
      BY <2>2, TheRequest
    <2>4. q.items \cup {q.cur} = {None}
      BY <2>2, <2>3 DEF Checked
    <2>5. Seen(members, m) # None
      BY NoneFacts DEF Rows, Seen, SerialInv, TypeInv, TablesOK, Row, Item
    <2>6. Sweepable(Seen(members, m))
      BY DEF Sweepable, Seen
    <2>7. CompliesIn(members, twofactor, members[m].user, q.org, q.policy)
      BY <2>2, <2>3, <2>4, <2>5, <2>6
         DEF CurrentIn, SweepHolds, Present, Rows
    <2>8. Snapshot(m).user = members[m].user
      BY DEF Snapshot
    <2> QED
      BY <2>2, <2>7, <2>8
         DEF Complies, CompliesIn, InAnotherOrg, Elsewhere, Present, Rows
  <1>2. SerialInv /\ [SerialNext]_vars => SerialInv'
    BY SerialInvStep
  <1>3. SerialSpec => [][A]_vars
    BY <1>1, <1>2, SerialInvInit, PTL DEF SerialSpec
  <1> QED
    BY <1>3, PTL DEF SweptWhenEnabled

(***************************************************************************)
(* The handlers implement MemberLifecycle                                  *)
(***************************************************************************)
\* How one statement may change the status of a row.
StatusMoves(s, t) ==
    \/ t = s
    \/ s = Invited /\ t = Accepted
    \/ s = Accepted /\ t = Confirmed
    \/ s >= Invited /\ t = s - RevokedOffset
    \/ s < Invited /\ t = s + RevokedOffset
    \/ s >= Accepted /\ t = Revoked

RowMoves(a, b) ==
    \/ b = None
    \/ a = None /\ b.status \in ActiveStatuses
    \/ a # None /\ b # None /\ StatusMoves(a.status, b.status)

\* The moves of MemberLifecycle between two lives.
Standing(stage) == [stage |-> stage, revoked |-> FALSE]
Suspended(stage) == [stage |-> stage, revoked |-> TRUE]
LifeMoves(a, b) ==
    \/ b = a \/ b = Standing("none")
    \/ \E s \in {"invited", "accepted", "confirmed"} :
         \/ a = Standing("none") /\ b = Standing(s)
         \/ a = Standing(s) /\ b = Suspended(s)
         \/ a = Suspended(s) /\ b = Standing(s)
    \/ a = Standing("invited") /\ b = Standing("accepted")
    \/ a = Standing("accepted") /\ b = Standing("confirmed")
    \/ /\ \E s \in {"accepted", "confirmed", "limbo"} : a = Standing(s)
       /\ b = Standing("dropped")
    \/ a = Standing("dropped") /\ b = Standing("limbo")

\* The eight values of the column, read back as stages.
LEMMA LifeOfStatus ==
    ASSUME NEW row \in Row
    PROVE  /\ row.status \in {0, 1, 2, -128, -127, -126, -1, 127}
           /\ row.status = 0    => LifeOf(row) = Standing("invited")
           /\ row.status = 1    => LifeOf(row) = Standing("accepted")
           /\ row.status = 2    => LifeOf(row) = Standing("confirmed")
           /\ row.status = -128 => LifeOf(row) = Suspended("invited")
           /\ row.status = -127 => LifeOf(row) = Suspended("accepted")
           /\ row.status = -126 => LifeOf(row) = Suspended("confirmed")
           /\ row.status = -1   => LifeOf(row) = Standing("dropped")
           /\ row.status = 127  => LifeOf(row) = Standing("limbo")
  <1> DEFINE Off == {s - RevokedOffset : s \in ActiveStatuses}
  <1>0. row # None
    BY NoneFacts
  <1>1. row.status \in {0, 1, 2, -128, -127, -126, -1, 127}
    BY DEF Row, Statuses, ActiveStatuses, Invited, Accepted, Confirmed, Revoked,
           RevokedOffset
  <1>2. Off = {-128, -127, -126}
    BY DEF ActiveStatuses, Invited, Accepted, Confirmed, RevokedOffset
  <1>3. /\ row.status \in Off =>
             LifeOf(row) = Suspended(StageOf(row.status + RevokedOffset))
        /\ row.status \notin Off =>
             LifeOf(row) = Standing(StageOf(row.status))
    BY <1>0 DEF LifeOf, Standing, Suspended
  <1>4. \A x : /\ x = 0 => StageOf(x) = "invited"
               /\ x = 1 => StageOf(x) = "accepted"
               /\ x = 2 => StageOf(x) = "confirmed"
               /\ x = -1 => StageOf(x) = "dropped"
               /\ x = 127 => StageOf(x) = "limbo"
    BY DEF StageOf, Invited, Accepted, Confirmed, Revoked, RevokedOffset
  <1>5. /\ row.status = -128 => row.status + RevokedOffset = 0
        /\ row.status = -127 => row.status + RevokedOffset = 1
        /\ row.status = -126 => row.status + RevokedOffset = 2
    BY DEF RevokedOffset
  <1>6. /\ row.status \in {0, 1, 2, -1, 127} => row.status \notin Off
        /\ row.status \in {-128, -127, -126} => row.status \in Off
    BY <1>2
  <1> DEFINE t == row.status
             u == row.status + RevokedOffset
  <1>7. /\ t \in Off => LifeOf(row) = Suspended(StageOf(u))
        /\ t \notin Off => LifeOf(row) = Standing(StageOf(t))
    BY <1>3
  <1>8. /\ t \in {0, 1, 2, -1, 127} => t \notin Off
        /\ t \in {-128, -127, -126} => t \in Off
        /\ t = -128 => u = 0
        /\ t = -127 => u = 1
        /\ t = -126 => u = 2
    BY <1>5, <1>6
  <1> HIDE DEF Off, t, u
  <1>a. t = 0 => LifeOf(row) = Standing("invited")
    BY <1>4, <1>7, <1>8
  <1>b. t = 1 => LifeOf(row) = Standing("accepted")
    BY <1>4, <1>7, <1>8
  <1>c. t = 2 => LifeOf(row) = Standing("confirmed")
    BY <1>4, <1>7, <1>8
  <1>d. t = -128 => LifeOf(row) = Suspended("invited")
    BY <1>4, <1>7, <1>8
  <1>e. t = -127 => LifeOf(row) = Suspended("accepted")
    BY <1>4, <1>7, <1>8
  <1>f. t = -126 => LifeOf(row) = Suspended("confirmed")
    BY <1>4, <1>7, <1>8
  <1>g. t = -1 => LifeOf(row) = Standing("dropped")
    BY <1>4, <1>7, <1>8
  <1>h. t = 127 => LifeOf(row) = Standing("limbo")
    BY <1>4, <1>7, <1>8
  <1> QED
    BY <1>1, <1>a, <1>b, <1>c, <1>d, <1>e, <1>f, <1>g, <1>h DEF t

\* What a statement does to a status, it does to the life of the membership.
LEMMA RowLives ==
    ASSUME NEW a \in Row \cup {None}, NEW b \in Row \cup {None}, RowMoves(a, b)
    PROVE  LifeMoves(LifeOf(a), LifeOf(b))
  <1>0. LifeOf(None) = Standing("none")
    BY DEF LifeOf, Standing, Suspended
  <1>1. CASE b = None
    BY <1>0, <1>1 DEF LifeMoves
  <1>2. CASE a = None /\ b # None
    <2>1. b \in Row /\ b.status \in {0, 1, 2}
      BY <1>2 DEF RowMoves, ActiveStatuses, Invited, Accepted, Confirmed
    <2>2. \/ LifeOf(b) = Standing("invited")
          \/ LifeOf(b) = Standing("accepted")
          \/ LifeOf(b) = Standing("confirmed")
      BY <2>1, LifeOfStatus
    <2> QED
      BY <1>0, <1>2, <2>2 DEF LifeMoves
  <1>3. CASE a # None /\ b # None
    <2>1. /\ a \in Row /\ b \in Row /\ StatusMoves(a.status, b.status)
      BY <1>3 DEF RowMoves
    <2> DEFINE s == a.status
               t == b.status
    <2>2. /\ s \in {0, 1, 2, -128, -127, -126, -1, 127}
          /\ t \in {0, 1, 2, -128, -127, -126, -1, 127}
      BY <2>1, LifeOfStatus
    <2>4. /\ s = 0 => LifeOf(a) = Standing("invited")
          /\ s = 1 => LifeOf(a) = Standing("accepted")
          /\ s = 2 => LifeOf(a) = Standing("confirmed")
          /\ s = -128 => LifeOf(a) = Suspended("invited")
          /\ s = -127 => LifeOf(a) = Suspended("accepted")
          /\ s = -126 => LifeOf(a) = Suspended("confirmed")
          /\ s = -1 => LifeOf(a) = Standing("dropped")
          /\ s = 127 => LifeOf(a) = Standing("limbo")
      BY <2>1, LifeOfStatus
    <2>5. /\ t = 0 => LifeOf(b) = Standing("invited")
          /\ t = 1 => LifeOf(b) = Standing("accepted")
          /\ t = 2 => LifeOf(b) = Standing("confirmed")
          /\ t = -128 => LifeOf(b) = Suspended("invited")
          /\ t = -127 => LifeOf(b) = Suspended("accepted")
          /\ t = -126 => LifeOf(b) = Suspended("confirmed")
          /\ t = -1 => LifeOf(b) = Standing("dropped")
          /\ t = 127 => LifeOf(b) = Standing("limbo")
      BY <2>1, LifeOfStatus
    <2>6. StatusMoves(s, t)
      BY <2>1
    <2> HIDE DEF s, t
    <2>3. \/ s = t
          \/ s = 0 /\ t \in {1, -128}
          \/ s = 1 /\ t \in {2, -127, -1}
          \/ s = 2 /\ t \in {-126, -1}
          \/ s = -128 /\ t = 0
          \/ s = -127 /\ t = 1
          \/ s = -126 /\ t = 2
          \/ s = 127 /\ t = -1
          \/ s = -1 /\ t = 127
      BY <2>2, <2>6 DEF StatusMoves, Invited, Accepted, Confirmed, Revoked,
                        RevokedOffset
    <2>7. CASE s = t
      <3>1. LifeOf(a) = LifeOf(b)
        BY <2>2, <2>4, <2>5, <2>7
      <3> QED
        BY <3>1 DEF LifeMoves
    <2>8. CASE s # t /\ s \in {0, 1, 2}
      BY <2>3, <2>4, <2>5, <2>8 DEF LifeMoves
    <2>9. CASE s # t /\ s \in {-128, -127, -126}
      BY <2>3, <2>4, <2>5, <2>9 DEF LifeMoves
    <2>10. CASE s # t /\ s \in {127, -1}
      BY <2>3, <2>4, <2>5, <2>10 DEF LifeMoves
    <2> QED
      BY <2>2, <2>7, <2>8, <2>9, <2>10
  <1> QED
    BY <1>1, <1>2, <1>3

\* A step whose rows move like this is a step of MemberLifecycle.
LEMMA LifeStep ==
    ASSUME members \in [Members -> Row \cup {None}],
           members' \in [Members -> Row \cup {None}],
           \A m \in Members :
             members'[m] = members[m] \/ RowMoves(members[m], members'[m])
    PROVE  Lifecycle!Next
  <1> DEFINE life == [m \in Members |-> LifeOf(members[m])]
  <1>1. ASSUME NEW m \in Members
        PROVE  \/ life'[m] = life[m] \/ Lifecycle!Enter(m) \/ Lifecycle!Accept(m)
               \/ Lifecycle!Confirm(m) \/ Lifecycle!Revoke(m)
               \/ Lifecycle!Restore(m) \/ Lifecycle!Drop(m)
               \/ Lifecycle!Misplace(m) \/ Lifecycle!Remove(m)
    <2>1. LifeMoves(LifeOf(members[m]), LifeOf(members'[m]))
      BY RowLives DEF LifeMoves
    <2>2. life[m] = LifeOf(members[m]) /\ life'[m] = LifeOf(members'[m])
      OBVIOUS
    <2>3. \A s : /\ Lifecycle!At(s) = Standing(s)
                 /\ Lifecycle!RevokedAt(s) = Suspended(s)
      BY DEF Lifecycle!At, Lifecycle!RevokedAt, Standing, Suspended
    <2> QED
      BY <2>1, <2>2, <2>3
         DEF LifeMoves, Lifecycle!Enter, Lifecycle!Accept, Lifecycle!Confirm,
             Lifecycle!Revoke, Lifecycle!Restore, Lifecycle!Drop,
             Lifecycle!Misplace, Lifecycle!Remove, Lifecycle!Stages
  <1> QED
    BY <1>1 DEF Lifecycle!Next

\* Every row of the table that changes makes one of the moves above.
RowsMove ==
    \A m \in Members :
      members'[m] = members[m] \/ RowMoves(members[m], members'[m])

\* The requests that change the status of the row they hold.
LEMMA HeldStatusMoves ==
    ASSUME SerialInv, NEW r \in Requests,
           \/ AcceptWrite(r) \/ RevokeWrite(r) \/ RestoreWrite(r)
           \/ PolicyRevokeMember(r)
    PROVE  RowsMove
  <1> DEFINE q == requests[r]
             m == q.cur.id
  <1>1. /\ q # None /\ q.pc = "write"
        /\ q.op \in {"accept", "revoke", "restore", "enablePolicy"}
    BY DEF AcceptWrite, RevokeWrite, RestoreWrite, PolicyRevokeMember, At
  <1>2. /\ Checked(q) /\ ReqOK(q) /\ m \in Members /\ members[m] # None
        /\ q.cur # None /\ members[m].status = q.cur.status
    BY <1>1, HeldRow DEF InsertOps
  <1>3. PICK s : SetStatus(m, s) /\ StatusMoves(members[m].status, s)
    <2>1. CASE AcceptWrite(r)
      <3>1. q.op = "accept" /\ SetStatus(m, Accepted)
        BY <2>1 DEF AcceptWrite, At
      <3>2. members[m].status = Invited
        BY <1>2, <3>1 DEF Checked, Passed
      <3> QED
        BY <3>1, <3>2 DEF StatusMoves
    <2>2. CASE RevokeWrite(r) \/ PolicyRevokeMember(r)
      <3>1. /\ q.op \in {"revoke", "enablePolicy"}
            /\ SetStatus(m, members[m].status - RevokedOffset)
        BY <1>2, <2>2 DEF RevokeWrite, PolicyRevokeMember, At
      <3>2. members[m].status >= Invited
        BY <1>2, <3>1, StatusFacts DEF ReqOK, Invited, Accepted, SerialInv,
           TypeInv, TablesOK, Row
      <3> QED
        BY <3>1, <3>2 DEF StatusMoves
    <2>3. CASE RestoreWrite(r)
      <3>1. /\ q.op = "restore"
            /\ SetStatus(m, members[m].status + RevokedOffset)
        BY <1>2, <2>3 DEF RestoreWrite, At
      <3>2. members[m].status < Invited
        BY <1>2, <3>1 DEF ReqOK
      <3> QED
        BY <3>1, <3>2 DEF StatusMoves
    <2> QED
      BY <2>1, <2>2, <2>3
  <1> QED
    BY <1>2, <1>3, SetStatusRows DEF RowsMove, RowMoves, SerialInv, TypeInv

\* The enforcement at login drops a member that was accepted or confirmed.
LEMMA EnforceMoves ==
    ASSUME SerialInv, NEW r \in Requests, requests[r] # None,
           NEW i \in requests[r].items, EnforceRevoke(r, i)
    PROVE  RowsMove
  <1> DEFINE q == requests[r]
  <1>1. q.op = "enforce" /\ SetStatus(i.id, Revoked)
    BY DEF EnforceRevoke, At
  <1>2. Checked(q) /\ CurrentIn(q, members, twofactor)
    BY TheRequest
  <1>3. /\ i.id \in Members /\ members[i.id] # None
        /\ members[i.id].status = i.status
    BY <1>2 DEF CurrentIn, HoldsFresh, Fresh, Seen
  <1>4. members[i.id].status >= Accepted
    BY <1>2, <1>3 DEF Checked, Sweepable
  <1>5. /\ \A n \in Members \ {i.id} : members'[n] = members[n]
        /\ members'[i.id].status = Revoked
    BY <1>1, <1>3, SetStatusRows DEF SerialInv, TypeInv
  <1>6. RowMoves(members[i.id], members'[i.id])
    BY <1>3, <1>4, <1>5 DEF RowMoves, StatusMoves
  <1> QED
    BY <1>5, <1>6 DEF RowsMove

\* A confirmation and the two role changes.
LEMMA HeldWritesMove ==
    ASSUME SerialInv, NEW r \in Requests,
           \/ \E key \in ConfirmKeys : ConfirmWrite(r, key)
           \/ EditWrite(r) \/ AdminTypeWrite(r)
    PROVE  RowsMove
  <1> DEFINE q == requests[r]
             m == q.cur.id
  <1>1. /\ q # None /\ q.pc = "write" /\ q.op \in {"confirm", "edit", "adminType"}
    BY DEF ConfirmWrite, EditWrite, AdminTypeWrite, SetType, At
  <1>2. /\ Checked(q) /\ m \in Members /\ members[m] # None
        /\ q.cur # None /\ members[m].status = q.cur.status
    BY <1>1, HeldRow DEF InsertOps
  <1>3. CASE \E key \in ConfirmKeys : ConfirmWrite(r, key)
    <2>1. q.op = "confirm"
      BY <1>3 DEF ConfirmWrite, At
    <2>2. members[m].status = Accepted
      BY <1>2, <2>1 DEF Checked, Passed
    <2> QED
      BY <1>2, <1>3, <2>2, ConfirmRows DEF RowsMove, RowMoves, StatusMoves, SerialInv
  <1>4. CASE EditWrite(r) \/ AdminTypeWrite(r)
    BY <1>2, <1>4, SetTypeRows DEF RowsMove, RowMoves, StatusMoves, SerialInv
  <1> QED
    BY <1>3, <1>4

\* A new row stands for a new membership with an active status.
LEMMA InsertMoves ==
    ASSUME SerialInv, NEW r \in Requests,
           CreateOwner(r) \/ InviteWrite(r) \/ ImportInsert(r)
    PROVE  RowsMove
  <1> DEFINE q == requests[r]
             c == q.cur
  <1>1. /\ q # None /\ q.op \in InsertOps /\ c # None /\ c.id \in Members
    BY CurType DEF CreateOwner, InviteWrite, ImportInsert, At, InsertOps,
                   SerialInv, TypeInv
  <1>2. members[c.id] = None /\ c.status \in ActiveStatuses
    BY <1>1, TheRequest DEF CurrentIn, HoldsFresh, Unlisted, Checked, Passed
  <1>3. PICK key :
          members' = [members EXCEPT ![c.id] =
            [user |-> c.user, org |-> q.org, atype |-> c.atype,
             status |-> c.status, akey |-> key]]
    BY DEF CreateOwner, InviteWrite, ImportInsert, Insert
  <1>4. /\ \A n \in Members \ {c.id} : members'[n] = members[n]
        /\ members'[c.id].status = c.status
    BY <1>1, <1>3 DEF SerialInv, TypeInv, TablesOK
  <1> QED
    BY <1>2, <1>4 DEF RowsMove, RowMoves

\* Deletes, cascades and the acceptance of a user's open invitations.
LEMMA OtherWritesMove ==
    ASSUME SerialInv,
           \/ \E r \in Requests : RemoveWrite(r) \/ LeaveWrite(r) \/ DeleteOrg(r)
           \/ Instant
    PROVE  RowsMove
  <1>0. members \in [Members -> Row \cup {None}]
    BY DEF SerialInv, TypeInv, TablesOK
  <1>1. ASSUME NEW r \in Requests, RemoveWrite(r) \/ LeaveWrite(r)
        PROVE  RowsMove
    BY <1>0, <1>1 DEF RemoveWrite, LeaveWrite, Delete, RowsMove, RowMoves
  <1>2. ASSUME NEW r \in Requests, DeleteOrg(r)
        PROVE  RowsMove
    BY <1>0, <1>2 DEF DeleteOrg, RowsMove, RowMoves
  <1>3. ASSUME NEW u \in Users,
               \/ ActivateTwofactor(u) \/ DisableTwofactor(u)
               \/ DeleteAccount(u) \/ RegisterAccount(u)
        PROVE  RowsMove
    BY <1>0, <1>3 DEF ActivateTwofactor, DisableTwofactor, DeleteAccount,
                      RegisterAccount, RowsMove, RowMoves
  <1>4. ASSUME NEW u \in Users, AcceptOpenInvitations(u), NEW m \in Members
        PROVE  members'[m] = members[m] \/ RowMoves(members[m], members'[m])
    <2>1. CASE /\ m \in Rows /\ members[m].user = u
               /\ members[m].status = Invited
      <3>1. members'[m] = [members[m] EXCEPT !.status = Accepted]
        BY <1>4, <2>1 DEF AcceptOpenInvitations
      <3>2. members[m] \in Row /\ members[m] # None
        BY <1>0, <2>1 DEF Rows
      <3>3. members'[m].status = Accepted
        BY <3>1, <3>2 DEF Row
      <3> QED
        BY <2>1, <3>2, <3>3 DEF RowMoves, StatusMoves
    <2>2. CASE ~(/\ m \in Rows /\ members[m].user = u
                 /\ members[m].status = Invited)
      BY <1>4, <2>2 DEF AcceptOpenInvitations
    <2> QED
      BY <2>1, <2>2
  <1> QED
    BY <1>1, <1>2, <1>3, <1>4 DEF Instant, RowsMove

\* Every step of SerialNext moves the rows this way, or not at all.
LEMMA SerialRowsMove ==
    ASSUME SerialInv, SerialNext
    PROVE  RowsMove
  <1>1. CASE UNCHANGED members
    BY <1>1 DEF RowsMove
  <1>2. ASSUME NEW r \in Requests, Arrive(r)
        PROVE  RowsMove
    BY <1>1, <1>2
       DEF Arrive, BeginAdminRoute, requireMember, BeginImport, LoginWithout2fa,
           LoginWithRecoveryCode, AcceptRead, LeaveRead, CreateOrg,
           AdminTypeRead, tables
  <1>3. ASSUME NEW r \in Requests,
               \/ EndRequest(r) \/ SkipItem(r) \/ ReadActor(r) \/ CountOwners(r)
               \/ AcceptCheck2fa(r) \/ AcceptCheckSingleOrg(r)
               \/ PolicyReadMembers(r) \/ EnforceRead(r) \/ PolicyEnable(r)
               \/ PolicyDisable(r)
               \/ \E m \in Members :
                    \/ ConfirmRead(r, m) \/ EditRead(r, m) \/ RemoveRead(r, m)
                    \/ RevokeRead(r, m) \/ RestoreRead(r, m)
                    \/ \E u \in Users : InviteRead(r, u, m) \/ ImportNew(r, u, m)
               \/ \E i \in requests[r].items : PolicyCheckMember(r, i)
        PROVE  RowsMove
    BY <1>1, <1>3
       DEF EndRequest, SkipItem, ReadActor, CountOwners, AcceptCheck2fa,
           AcceptCheckSingleOrg, PolicyReadMembers, EnforceRead, PolicyEnable,
           PolicyDisable, ConfirmRead, EditRead, RemoveRead, RevokeRead,
           RestoreRead, InviteRead, ImportNew, ReadInvitee, PolicyCheckMember,
           tables
  <1>4. ASSUME NEW r \in Requests, Continue(r)
        PROVE  RowsMove
    BY <1>3, <1>4, HeldStatusMoves, EnforceMoves, HeldWritesMove, InsertMoves,
       OtherWritesMove DEF Continue
  <1> QED
    BY <1>2, <1>4, OtherWritesMove DEF SerialNext

\* One request at a time, the handlers implement MemberLifecycle: a membership
\* is invited, accepted and confirmed in this order, whichever handlers write
\* it, and a restore undoes exactly what the revoke did.
THEOREM HandlersFollowLifecycle ==
    ASSUME OneAtATime
    PROVE  SerialSpec => ImplementsLifecycle
  <1> DEFINE life == [m \in Members |-> LifeOf(members[m])]
  <1>1. Init => Lifecycle!Init
    BY DEF Init, LifeOf, Lifecycle!Init, Lifecycle!At
  <1>2. SerialInv /\ SerialInv' /\ [SerialNext]_vars => Lifecycle!Next \/ UNCHANGED life
    <2>1. CASE UNCHANGED vars
      BY <2>1 DEF vars
    <2>2. ASSUME SerialInv, SerialInv', SerialNext
          PROVE  Lifecycle!Next
      <3>1. RowsMove
        BY <2>2, SerialRowsMove
      <3> QED
        BY <2>2, <3>1, LifeStep DEF RowsMove, SerialInv, TypeInv, TablesOK
    <2> QED
      BY <2>1, <2>2
  <1>3. SerialInv /\ [SerialNext]_vars => SerialInv'
    BY SerialInvStep
  <1> QED
    BY <1>1, <1>2, <1>3, SerialInvInit, PTL
       DEF SerialSpec, ImplementsLifecycle, Lifecycle!Spec
=============================================================================
