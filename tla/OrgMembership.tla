--------------------------- MODULE OrgMembership ---------------------------
(***************************************************************************)
(* The life of an organization membership: invite, accept, confirm, edit,  *)
(* revoke, restore, remove and leave (api/org-members.ts,                  *)
(* api/organizations.ts), the directory import (api/public.ts), the admin  *)
(* panel's role change (api/admin.ts), the policy handler and the login-   *)
(* time enforcement of the two-factor policy (services/twofactor.ts).      *)
(*                                                                         *)
(* A handler is a sequence of awaited D1 statements.  Each statement is    *)
(* atomic, nothing makes two of them so, and every await lets the          *)
(* statements of other requests in.  A request is therefore a record that  *)
(* carries what the handler has read so far and the point it has reached,  *)
(* and each action below is one statement together with the checks that    *)
(* the code makes on its result.                                           *)
(***************************************************************************)
EXTENDS Integers, FiniteSets

CONSTANTS
    Users,          \* accounts
    Orgs,           \* organizations
    Members,        \* uuids of users_organizations rows
    Requests,       \* requests in flight at the same time
    None,           \* no row, no request
    MailEnabled,    \* createMailer(...).enabled
    InputTypes,     \* roles an invite or an edit may ask for
    ConfirmKeys,    \* keys a confirmation may carry
    Ops             \* the handlers this instance lets clients call

(***************************************************************************)
(* shared/constants.ts: MembershipStatus and MembershipType                *)
(***************************************************************************)
Revoked   == -1
Invited   == 0
Accepted  == 1
Confirmed == 2

Owner   == 0
Admin   == 1
User    == 2
Manager == 3

Types == {Owner, Admin, User, Manager}

\* membershipRank and isAtLeast: the order of the roles is not the order of
\* their wire values.
membershipRank(t) == CASE t = Owner   -> 3
                       [] t = Admin   -> 2
                       [] t = Manager -> 1
                       [] OTHER       -> 0
isAtLeast(t, min) == membershipRank(t) >= membershipRank(min)

\* A revoked row remembers what it was: its status minus 128.
RevokedOffset == 128

ActiveStatuses == {Invited, Accepted, Confirmed}

\* Every value the column can hold: the three active statuses, their revoked
\* forms, the bare Revoked of enforce2faPolicy and what a restore makes of it.
Statuses == ActiveStatuses \cup {s - RevokedOffset : s \in ActiveStatuses}
              \cup {Revoked, Revoked + RevokedOffset}

Policies == {"TwoFactor", "SingleOrg"}

\* akey starts blank.  "blank" is the same empty column once the bulk route
\* confirmed its row: it takes entries whose key is blank, which is stored, or
\* missing, which leaves the column alone.  Its sibling for a single member
\* refuses both ("key cannot be blank").
Keys == {"", "blank", "key"}
AllConfirmKeys == {"blank", "missing", "key"}

AdminOps == {"invite", "confirm", "edit", "remove", "revoke", "restore",
             "enablePolicy", "disablePolicy"}
OwnerOps == {"deleteOrg"}
AllOps == AdminOps \cup OwnerOps
            \cup {"create", "accept", "register", "leave", "import",
                  "adminType", "enforce", "deleteAccount"}

Row  == [user : Users, org : Orgs, atype : Types, status : Statuses,
         akey : Keys]
\* The columns of a row a handler keeps across an await.
Item == [id : Members, user : Users, atype : Types, status : Statuses]
Request == [op : AllOps,
            pc : {"actor", "target", "count", "check2fa", "checkSingle",
                  "write", "sweep", "policy"},
            actor : Users \cup {None}, org : Orgs \cup {None},
            asOwner : BOOLEAN, type : Types, policy : Policies,
            cur : Item \cup {None}, items : SUBSET Item]

ASSUME NoneAssumption ==
    None \notin Users \cup Orgs \cup Members \cup Row \cup Item \cup Request
ASSUME InputAssumption ==
    /\ InputTypes \subseteq Types
    /\ ConfirmKeys \subseteq AllConfirmKeys
    /\ Ops \subseteq AllOps
    /\ MailEnabled \in BOOLEAN

VARIABLES
    users,      \* the users table
    orgs,       \* the organizations table
    members,    \* the users_organizations table
    twofactor,  \* users with at least one row in the twofactor table
    policies,   \* enabled org_policies rows, as <<org, policy>>
    requests    \* what each request in flight has read, and where it is

tables == <<users, orgs, members, twofactor, policies>>
vars == <<users, orgs, members, twofactor, policies, requests>>

----------------------------------------------------------------------------
(***************************************************************************)
(* Queries                                                                 *)
(***************************************************************************)
Rows == {m \in Members : members[m] # None}
RowsOf(u, o) == {m \in Rows : members[m].user = u /\ members[m].org = o}

\* findConfirmedMembership filters on user, org and status; nothing makes the
\* pair unique, so it returns any of these.
findConfirmedMembership(u, o) ==
    {m \in RowsOf(u, o) : members[m].status = Confirmed}

confirmedOwners(o) ==
    {m \in Rows : /\ members[m].org = o
                  /\ members[m].atype = Owner
                  /\ members[m].status = Confirmed}
confirmedOwnerCount(o) == Cardinality(confirmedOwners(o))

\* Some membership of u outside o is accepted or confirmed.
InAnotherOrg(u, o) ==
    \E m \in Rows : /\ members[m].user = u
                    /\ members[m].org # o
                    /\ members[m].status >= Accepted

Snapshot(m) == [id |-> m, user |-> members[m].user,
                atype |-> members[m].atype, status |-> members[m].status]

(***************************************************************************)
(* uuid() never repeats.  An identifier may stand for a new row once no    *)
(* table and no request in flight holds it, which keeps the instance       *)
(* finite without ending its behaviours.                                   *)
(***************************************************************************)
Active == {r \in Requests : requests[r] # None}
Held(r) == requests[r].items \cup ({requests[r].cur} \ {None})
FreshMember(m) ==
    /\ members[m] = None
    /\ \A r \in Active : \A i \in Held(r) : i.id # m
FreshUser(u) ==
    /\ u \notin users
    /\ \A r \in Active : /\ requests[r].actor # u
                         /\ \A i \in Held(r) : i.user # u
FreshOrg(o) == o \notin orgs /\ \A r \in Active : requests[r].org # o

\* An UPDATE ... WHERE uuid = ? touches nothing when the row is gone.
SetStatus(m, s) ==
    members' = IF members[m] = None THEN members
               ELSE [members EXCEPT ![m].status = s]

----------------------------------------------------------------------------
(***************************************************************************)
(* Requests                                                                *)
(***************************************************************************)
NewRequest(op, pc, u, o) ==
    [op |-> op, pc |-> pc, actor |-> u, org |-> o, asOwner |-> FALSE,
     type |-> User, policy |-> "TwoFactor", cur |-> None, items |-> {}]

Begin(r, req) == /\ requests[r] = None
                 /\ requests' = [requests EXCEPT ![r] = req]
At(r, op, pc) == /\ requests[r] # None
                 /\ requests[r].op = op
                 /\ requests[r].pc = pc
Goto(r, pc) == requests' = [requests EXCEPT ![r].pc = pc]
Read(r, item, pc) ==
    requests' = [requests EXCEPT ![r].cur = item, ![r].pc = pc]
Done(r) == requests' = [requests EXCEPT ![r] = None]

\* The bulk routes authorize once and then handle one id after the other; an
\* invite does the same with its emails and an import with its members.  For
\* each id removeMember and setRevoked read the actor's membership again.
Loops == {"invite", "confirm", "remove", "revoke", "restore", "import"}
LoopStart(op, u) ==
    IF op \in {"remove", "revoke", "restore"} /\ u # None THEN "actor"
    ELSE "target"
NextItem(r) ==
    requests' = [requests EXCEPT
      ![r].cur = None,
      ![r].pc = LoopStart(requests[r].op, requests[r].actor)]

\* An invite of Owners reads the actor's membership once, before its loop.
AfterAuth(op, u, t) ==
    IF op = "invite" /\ t = Owner THEN "actor" ELSE LoopStart(op, u)

\* The handler throws, runs out of items, or its Worker is evicted.
EndRequest(r) == requests[r] # None /\ Done(r) /\ UNCHANGED tables

\* A bulk route catches the error of one id and goes on with the next.
SkipItem(r) ==
    /\ requests[r] # None
    /\ requests[r].op \in Loops
    /\ requests[r].cur # None
    /\ NextItem(r)
    /\ UNCHANGED tables

\* requireMember(c, orgId, min), the first statement of every admin route.
requireMember(r, u, o, min, op, t, p) ==
    /\ op \in Ops
    /\ \E m \in findConfirmedMembership(u, o) :
         /\ isAtLeast(members[m].atype, min)
         /\ Begin(r, [NewRequest(op, AfterAuth(op, u, t), u, o) EXCEPT
                        !.asOwner = members[m].atype = Owner,
                        !.type = t, !.policy = p])
    /\ UNCHANGED tables

BeginAdminRoute(r) ==
    \E u \in users, o \in orgs, op \in AdminOps \cup OwnerOps :
      \E t \in (IF op \in {"invite", "edit"} THEN InputTypes ELSE {User}),
         p \in (IF op \in {"enablePolicy", "disablePolicy"} THEN Policies
                ELSE {"TwoFactor"}) :
        requireMember(r, u, o, IF op \in OwnerOps THEN Owner ELSE Admin,
                      op, t, p)

\* Mutant: the role that was read is not looked at.
ReadActorUnchecked(r) ==
    LET q == requests[r]
    IN  /\ q # None /\ q.pc = "actor"
        /\ requests' = [requests EXCEPT
             ![r].pc = IF q.op = "confirm" THEN "write" ELSE "target"]
        /\ UNCHANGED tables

\* actorMember = findConfirmedMembership(...) once more, later in a handler.
ReadActor(r) ==
    LET q == requests[r]
        found == findConfirmedMembership(q.actor, q.org)
    IN  /\ q # None /\ q.pc = "actor"
        /\ \E owner \in (IF found = {} THEN {FALSE}
                         ELSE {members[m].atype = Owner : m \in found}) :
             /\ q.op \in {"invite", "confirm"} => owner
             /\ requests' = [requests EXCEPT
                  ![r].asOwner = owner,
                  ![r].pc = IF q.op = "confirm" THEN "write" ELSE "target"]
        /\ UNCHANGED tables

\* Mutant: off by one, the member itself is enough.
CountOwnersOffByOne(r) ==
    /\ requests[r] # None /\ requests[r].pc = "count"
    /\ confirmedOwnerCount(requests[r].org) >= 1
    /\ Goto(r, "write")
    /\ UNCHANGED tables

\* await confirmedOwnerCount(db, orgId): more than one, or the handler fails.
CountOwners(r) ==
    /\ requests[r] # None /\ requests[r].pc = "count"
    /\ confirmedOwnerCount(requests[r].org) > 1
    /\ Goto(r, "write")
    /\ UNCHANGED tables

----------------------------------------------------------------------------
(***************************************************************************)
(* POST /organizations: the organization row, then its first Owner.        *)
(***************************************************************************)
CreateOrg(r, u, o, m) ==
    /\ "create" \in Ops
    /\ u \in users /\ FreshOrg(o) /\ FreshMember(m)
    /\ orgs' = orgs \cup {o}
    /\ Begin(r, [NewRequest("create", "write", u, o) EXCEPT
                   !.cur = [id |-> m, user |-> u, atype |-> Owner,
                            status |-> Confirmed]])
    /\ UNCHANGED <<users, members, twofactor, policies>>

\* An INSERT fails when a foreign key does not resolve any more.
Insert(r, key) ==
    LET q == requests[r]
    IN  /\ q.cur.user \in users /\ q.org \in orgs
        /\ members' = [members EXCEPT ![q.cur.id] =
             [user |-> q.cur.user, org |-> q.org, atype |-> q.cur.atype,
              status |-> q.cur.status, akey |-> key]]
        /\ UNCHANGED <<users, orgs, twofactor, policies>>

CreateOwner(r) ==
    /\ At(r, "create", "write")
    /\ Insert(r, "key")
    /\ Done(r)

(***************************************************************************)
(* POST .../users/invite and the new members of a directory import.  An    *)
(* unknown email gets an account shell; a known one must have no row.      *)
(***************************************************************************)
\* Mutant: a known email is not looked up in the organization.
ReadInviteeUnchecked(r, op, u, m, t, s) ==
    /\ At(r, op, "target")
    /\ FreshMember(m) /\ u \in users
    /\ Read(r, [id |-> m, user |-> u, atype |-> t, status |-> s], "write")
    /\ UNCHANGED tables

ReadInvitee(r, op, u, m, t, s) ==
    /\ At(r, op, "target")
    /\ FreshMember(m)
    /\ \/ u \in users /\ RowsOf(u, requests[r].org) = {} /\ UNCHANGED users
       \/ FreshUser(u) /\ users' = users \cup {u}
    /\ Read(r, [id |-> m, user |-> u, atype |-> t, status |-> s], "write")
    /\ UNCHANGED <<orgs, members, twofactor, policies>>

\* Without mail an invited user is accepted at once.
InviteRead(r, u, m) ==
    ReadInvitee(r, "invite", u, m, requests[r].type,
                IF MailEnabled THEN Invited ELSE Accepted)
InviteWrite(r) ==
    /\ At(r, "invite", "write")
    /\ Insert(r, "")
    /\ NextItem(r)

\* An import leaves an account shell Invited even without mail.
ImportNew(r, u, m) ==
    \E s \in (IF MailEnabled THEN {Invited} ELSE {Invited, Accepted}) :
      ReadInvitee(r, "import", u, m, User, s)
ImportInsert(r) ==
    /\ At(r, "import", "write")
    /\ Insert(r, "")
    /\ NextItem(r)

(***************************************************************************)
(* POST .../users/:memberId/accept by the invited user                     *)
(***************************************************************************)
AcceptRead(r, u, m) ==
    /\ "accept" \in Ops
    /\ u \in users /\ m \in Rows
    /\ members[m].user = u /\ members[m].status = Invited
    /\ Begin(r, [NewRequest("accept", "check2fa", u, members[m].org) EXCEPT
                   !.cur = Snapshot(m)])
    /\ UNCHANGED tables

AcceptCheck2fa(r) ==
    LET q == requests[r]
    IN  /\ At(r, "accept", "check2fa")
        /\ \/ q.actor \in twofactor
           \/ <<q.org, "TwoFactor">> \notin policies
           \/ isAtLeast(q.cur.atype, Admin)
        /\ Goto(r, "checkSingle")
        /\ UNCHANGED tables

AcceptCheckSingleOrg(r) ==
    LET q == requests[r]
    IN  /\ At(r, "accept", "checkSingle")
        /\ \/ <<q.org, "SingleOrg">> \notin policies
           \/ isAtLeast(q.cur.atype, Admin)
           \/ ~InAnotherOrg(q.actor, q.org)
        /\ Goto(r, "write")
        /\ UNCHANGED tables

AcceptWrite(r) ==
    /\ At(r, "accept", "write")
    /\ SetStatus(requests[r].cur.id, Accepted)
    /\ Done(r)
    /\ UNCHANGED <<users, orgs, twofactor, policies>>

\* Registering through an invitation row, or setting the first password after
\* an SSO login, accepts every open invitation of the user in one UPDATE.
AcceptOpenInvitations(u) ==
    /\ "register" \in Ops
    /\ u \in users
    /\ members' = [m \in Members |->
         IF m \in Rows /\ members[m].user = u /\ members[m].status = Invited
         THEN [members[m] EXCEPT !.status = Accepted] ELSE members[m]]
    /\ UNCHANGED <<users, orgs, twofactor, policies, requests>>

(***************************************************************************)
(* confirmMember                                                           *)
(***************************************************************************)
ConfirmRead(r, m) ==
    /\ At(r, "confirm", "target")
    /\ m \in Rows /\ members[m].org = requests[r].org
    /\ members[m].status = Accepted
    /\ Read(r, Snapshot(m),
            IF members[m].atype = Owner THEN "actor" ELSE "write")
    /\ UNCHANGED tables

\* Mutant: the key is forgotten.
ConfirmWriteKeyless(r, key) ==
    /\ At(r, "confirm", "write")
    /\ SetStatus(requests[r].cur.id, Confirmed)
    /\ NextItem(r)
    /\ UNCHANGED <<users, orgs, twofactor, policies>>

ConfirmedKey(old, key) ==
    IF key # "missing" THEN key ELSE IF old = "" THEN "blank" ELSE old

ConfirmWrite(r, key) ==
    LET m == requests[r].cur.id
    IN  /\ At(r, "confirm", "write")
        /\ members' = IF members[m] = None THEN members
                      ELSE [members EXCEPT ![m].status = Confirmed,
                                           ![m].akey = ConfirmedKey(@, key)]
        /\ NextItem(r)
        /\ UNCHANGED <<users, orgs, twofactor, policies>>

(***************************************************************************)
(* editMember, and the admin panel's POST /users/org_type                  *)
(***************************************************************************)
EditRead(r, m) ==
    LET q == requests[r]
    IN  /\ At(r, "edit", "target")
        /\ m \in Rows /\ members[m].org = q.org
        /\ (q.type = Owner \/ members[m].atype = Owner) => q.asOwner
        /\ Read(r, Snapshot(m),
                IF /\ members[m].atype = Owner /\ q.type # Owner
                   /\ members[m].status = Confirmed
                THEN "count" ELSE "write")
        /\ UNCHANGED tables

AdminTypeRead(r, m, t) ==
    /\ "adminType" \in Ops
    /\ m \in Rows
    /\ Begin(r, [NewRequest("adminType",
                   IF members[m].atype = Owner /\ t # Owner
                   THEN "count" ELSE "write", None, members[m].org) EXCEPT
                   !.type = t, !.cur = Snapshot(m)])
    /\ UNCHANGED tables

SetType(r, op) ==
    LET m == requests[r].cur.id
    IN  /\ At(r, op, "write")
        /\ members' = IF members[m] = None THEN members
                      ELSE [members EXCEPT ![m].atype = requests[r].type]
        /\ Done(r)
        /\ UNCHANGED <<users, orgs, twofactor, policies>>
EditWrite(r) == SetType(r, "edit")
AdminTypeWrite(r) == SetType(r, "adminType")

(***************************************************************************)
(* removeMember, and POST /organizations/:orgId/leave                      *)
(***************************************************************************)
LastOwnerCheck(m) ==
    IF members[m].atype = Owner /\ members[m].status = Confirmed
    THEN "count" ELSE "write"

\* Mutant: an Admin may remove an Owner.
RemoveReadByAdmin(r, m) ==
    /\ At(r, "remove", "target")
    /\ m \in Rows /\ members[m].org = requests[r].org
    /\ Read(r, Snapshot(m), LastOwnerCheck(m))
    /\ UNCHANGED tables

RemoveRead(r, m) ==
    /\ At(r, "remove", "target")
    /\ m \in Rows /\ members[m].org = requests[r].org
    /\ members[m].atype = Owner => requests[r].asOwner
    /\ Read(r, Snapshot(m), LastOwnerCheck(m))
    /\ UNCHANGED tables

Delete(r) == /\ members' = [members EXCEPT ![requests[r].cur.id] = None]
             /\ UNCHANGED <<users, orgs, twofactor, policies>>

RemoveWrite(r) == At(r, "remove", "write") /\ Delete(r) /\ NextItem(r)

LeaveRead(r, u, m) ==
    /\ "leave" \in Ops
    /\ u \in users /\ m \in Rows /\ members[m].user = u
    /\ Begin(r, [NewRequest("leave", LastOwnerCheck(m), u, members[m].org)
                   EXCEPT !.cur = Snapshot(m)])
    /\ UNCHANGED tables

LeaveWrite(r) == At(r, "leave", "write") /\ Delete(r) /\ Done(r)

(***************************************************************************)
(* setRevoked.  A directory import revokes and restores the same way, with *)
(* the organization's API key in place of an Owner's session.              *)
(***************************************************************************)
RevokeRead(r, m) ==
    /\ At(r, "revoke", "target")
    /\ m \in Rows /\ members[m].org = requests[r].org
    /\ members[m].status >= Invited
    /\ members[m].atype = Owner => requests[r].asOwner
    /\ Read(r, Snapshot(m), LastOwnerCheck(m))
    /\ UNCHANGED tables

RevokeWrite(r) ==
    /\ At(r, "revoke", "write")
    /\ SetStatus(requests[r].cur.id, requests[r].cur.status - RevokedOffset)
    /\ NextItem(r)
    /\ UNCHANGED <<users, orgs, twofactor, policies>>

\* Mutant: a member that is not revoked is restored all the same.
RestoreReadUnchecked(r, m) ==
    /\ At(r, "restore", "target")
    /\ m \in Rows /\ members[m].org = requests[r].org
    /\ Read(r, Snapshot(m), "write")
    /\ UNCHANGED tables

RestoreRead(r, m) ==
    /\ At(r, "restore", "target")
    /\ m \in Rows /\ members[m].org = requests[r].org
    /\ members[m].status < Invited
    /\ Read(r, Snapshot(m), "write")
    /\ UNCHANGED tables

\* Mutant: a restore confirms instead of going back.
RestoreWriteConfirms(r) ==
    /\ At(r, "restore", "write")
    /\ SetStatus(requests[r].cur.id, Confirmed)
    /\ NextItem(r)
    /\ UNCHANGED <<users, orgs, twofactor, policies>>

RestoreWrite(r) ==
    /\ At(r, "restore", "write")
    /\ SetStatus(requests[r].cur.id, requests[r].cur.status + RevokedOffset)
    /\ NextItem(r)
    /\ UNCHANGED <<users, orgs, twofactor, policies>>

----------------------------------------------------------------------------
(***************************************************************************)
(* putPolicyHandler.  Enabling a policy reads the members once, revokes    *)
(* the ones that do not comply, each with the status it was read with, and *)
(* stores the policy last.                                                 *)
(***************************************************************************)
\* Mutant: accepted members are passed over.
SweepableConfirmedOnly(i) == ~isAtLeast(i.atype, Admin) /\ i.status = Confirmed

Sweepable(i) == ~isAtLeast(i.atype, Admin) /\ i.status >= Accepted

PolicyReadMembers(r) ==
    LET q == requests[r]
        read == {Snapshot(m) : m \in {n \in Rows : members[n].org = q.org}}
    IN  /\ At(r, "enablePolicy", "target")
        /\ requests' = [requests EXCEPT
             ![r].items = {i \in read : Sweepable(i)}, ![r].pc = "sweep"]
        /\ UNCHANGED tables

Complies(i, o, p) ==
    IF p = "TwoFactor" THEN i.user \in twofactor
    ELSE ~InAnotherOrg(i.user, o)

PolicyCheckMember(r, i) ==
    LET q == requests[r]
    IN  /\ At(r, "enablePolicy", "sweep")
        /\ i \in q.items
        /\ requests' = [requests EXCEPT
             ![r].items = @ \ {i},
             ![r].cur = IF Complies(i, q.org, q.policy) THEN None ELSE i,
             ![r].pc = IF Complies(i, q.org, q.policy) THEN "sweep"
                       ELSE "write"]
        /\ UNCHANGED tables

PolicyRevokeMember(r) ==
    /\ At(r, "enablePolicy", "write")
    /\ SetStatus(requests[r].cur.id, requests[r].cur.status - RevokedOffset)
    /\ Read(r, None, "sweep")
    /\ UNCHANGED <<users, orgs, twofactor, policies>>

PolicyEnable(r) ==
    LET q == requests[r]
    IN  /\ At(r, "enablePolicy", "sweep")
        /\ q.items = {} /\ q.org \in orgs
        /\ policies' = policies \cup {<<q.org, q.policy>>}
        /\ Done(r)
        /\ UNCHANGED <<users, orgs, members, twofactor>>

PolicyDisable(r) ==
    LET q == requests[r]
    IN  /\ At(r, "disablePolicy", "target")
        /\ policies' = policies \ {<<q.org, q.policy>>}
        /\ Done(r)
        /\ UNCHANGED <<users, orgs, members, twofactor>>

(***************************************************************************)
(* enforce2faPolicy, reached by a login without a second factor and by one *)
(* that spends the recovery code.                                          *)
(***************************************************************************)
LoginWithout2fa(r, u) ==
    /\ "enforce" \in Ops
    /\ u \in users /\ u \notin twofactor
    /\ Begin(r, NewRequest("enforce", "policy", u, None))
    /\ UNCHANGED tables

LoginWithRecoveryCode(r, u) ==
    /\ "enforce" \in Ops
    /\ u \in twofactor
    /\ twofactor' = twofactor \ {u}
    /\ Begin(r, NewRequest("enforce", "policy", u, None))
    /\ UNCHANGED <<users, orgs, members, policies>>

EnforceRead(r) ==
    LET joined == {m \in Rows : /\ members[m].user = requests[r].actor
                                /\ <<members[m].org, "TwoFactor">> \in policies}
    IN  /\ At(r, "enforce", "policy")
        /\ requests' = [requests EXCEPT
             ![r].items = {i \in {Snapshot(m) : m \in joined} : Sweepable(i)},
             ![r].pc = "write"]
        /\ UNCHANGED tables

EnforceRevoke(r, i) ==
    /\ At(r, "enforce", "write")
    /\ i \in requests[r].items
    /\ SetStatus(i.id, Revoked)
    /\ requests' = [requests EXCEPT ![r].items = @ \ {i}]
    /\ UNCHANGED <<users, orgs, twofactor, policies>>

----------------------------------------------------------------------------
(***************************************************************************)
(* Handlers with a single statement that matters here                      *)
(***************************************************************************)
\* POST /two-factor/authenticator and its siblings.
ActivateTwofactor(u) ==
    /\ "enforce" \in Ops
    /\ u \in users
    /\ twofactor' = twofactor \cup {u}
    /\ UNCHANGED <<users, orgs, members, policies, requests>>

\* PUT /two-factor/disable, the admin panel's remove-2fa, a takeover: none of
\* them looks at the policies of the user's organizations.
DisableTwofactor(u) ==
    /\ "enforce" \in Ops
    /\ twofactor' = twofactor \ {u}
    /\ UNCHANGED <<users, orgs, members, policies, requests>>

\* DELETE /accounts and the admin panel's delete: memberships cascade.
DeleteAccount(u) ==
    /\ "deleteAccount" \in Ops
    /\ u \in users
    /\ users' = users \ {u}
    /\ twofactor' = twofactor \ {u}
    /\ members' = [m \in Members |->
         IF m \in Rows /\ members[m].user = u THEN None ELSE members[m]]
    /\ UNCHANGED <<orgs, policies, requests>>

\* POST /accounts/register of an email without an account.
RegisterAccount(u) ==
    /\ FreshUser(u)
    /\ users' = users \cup {u}
    /\ UNCHANGED <<orgs, members, twofactor, policies, requests>>

\* DELETE /organizations/:orgId after an Owner's password was verified:
\* memberships and policies cascade.
DeleteOrg(r) ==
    LET o == requests[r].org
    IN  /\ At(r, "deleteOrg", "target")
        /\ orgs' = orgs \ {o}
        /\ members' = [m \in Members |->
             IF m \in Rows /\ members[m].org = o THEN None ELSE members[m]]
        /\ policies' = {p \in policies : p[1] # o}
        /\ Done(r)
        /\ UNCHANGED <<users, twofactor>>

\* POST /public/organization/import with the organization's API key.
BeginImport(r, o) ==
    /\ "import" \in Ops
    /\ o \in orgs
    /\ \E op \in {"import", "revoke", "restore"} :
         Begin(r, [NewRequest(op, "target", None, o) EXCEPT !.asOwner = TRUE])
    /\ UNCHANGED tables

----------------------------------------------------------------------------
Init ==
    /\ users = Users
    /\ orgs = {}
    /\ members = [m \in Members |-> None]
    /\ twofactor = {}
    /\ policies = {}
    /\ requests = [r \in Requests |-> None]

\* A request arrives: its first statement.
Arrive(r) ==
    \/ BeginAdminRoute(r)
    \/ \E o \in Orgs : BeginImport(r, o)
    \/ \E u \in Users :
         \/ LoginWithout2fa(r, u)
         \/ LoginWithRecoveryCode(r, u)
         \/ \E m \in Members :
              \/ AcceptRead(r, u, m)
              \/ LeaveRead(r, u, m)
              \/ \E o \in Orgs : CreateOrg(r, u, o, m)
    \/ \E m \in Members, t \in InputTypes : AdminTypeRead(r, m, t)

\* A request in flight takes its next step.
Continue(r) ==
    \/ EndRequest(r) \/ SkipItem(r) \/ ReadActor(r) \/ CountOwners(r)
    \/ CreateOwner(r) \/ InviteWrite(r) \/ ImportInsert(r)
    \/ AcceptCheck2fa(r) \/ AcceptCheckSingleOrg(r) \/ AcceptWrite(r)
    \/ EditWrite(r) \/ AdminTypeWrite(r) \/ RemoveWrite(r) \/ LeaveWrite(r)
    \/ RevokeWrite(r) \/ RestoreWrite(r)
    \/ PolicyReadMembers(r) \/ PolicyRevokeMember(r) \/ PolicyEnable(r)
    \/ PolicyDisable(r) \/ EnforceRead(r) \/ DeleteOrg(r)
    \/ \E key \in ConfirmKeys : ConfirmWrite(r, key)
    \/ \E m \in Members :
         \/ ConfirmRead(r, m) \/ EditRead(r, m) \/ RemoveRead(r, m)
         \/ RevokeRead(r, m) \/ RestoreRead(r, m)
         \/ \E u \in Users : InviteRead(r, u, m) \/ ImportNew(r, u, m)
    \/ /\ requests[r] # None
       /\ \E i \in requests[r].items :
            PolicyCheckMember(r, i) \/ EnforceRevoke(r, i)

\* A handler with one statement.
Instant ==
    \E u \in Users :
      \/ AcceptOpenInvitations(u) \/ ActivateTwofactor(u)
      \/ DisableTwofactor(u) \/ DeleteAccount(u) \/ RegisterAccount(u)

Next == Instant \/ \E r \in Requests : Arrive(r) \/ Continue(r)

Spec == Init /\ [][Next]_vars

\* The same handlers, one request at a time: with a single slot in Requests
\* nothing else runs between the statements of a request.
SerialNext ==
    \/ Active = {} /\ Instant
    \/ \E r \in Requests : Arrive(r) \/ Continue(r)

SerialSpec == Init /\ [][SerialNext]_vars

----------------------------------------------------------------------------
TypeOK ==
    /\ users \subseteq Users
    /\ orgs \subseteq Orgs
    /\ members \in [Members -> Row \cup {None}]
    /\ twofactor \subseteq Users
    /\ policies \subseteq Orgs \X Policies
    /\ requests \in [Requests -> Request \cup {None}]

\* Whoever counts as confirmed, or would after a restore, was confirmed by
\* confirmMember (or created the organization): it stores the status together
\* with the key, or with the blank it was given, and no later write, however
\* stale the row it was computed from, makes a member confirmed who never was.
Keyed == {Confirmed, Confirmed - RevokedOffset}
ConfirmedByConfirmation ==
    \A m \in Rows : members[m].status \in Keyed => members[m].akey # ""

\* Under every interleaving a row becomes an Owner's only by the request of
\* someone who was read as a confirmed Owner, by the admin panel, or as the
\* first member of a new organization ("Only Owners can invite Owners",
\* "Only Owners can grant and remove Owner privileges").
OwnerGrantAuthorized ==
    [][\A m \in Members, r \in Active :
         /\ requests'[r] # requests[r]
         /\ members'[m] # members[m] /\ members'[m] # None
         /\ members'[m].atype = Owner
         /\ members[m] = None \/ members[m].atype # Owner
         => requests[r].asOwner \/ requests[r].op \in {"create", "adminType"}
      ]_vars

(***************************************************************************)
(* What holds when requests do not overlap                                 *)
(***************************************************************************)
\* A user has one membership per organization ("User already in
\* organization"): invites, imports and creations look before they insert.
UniqueMembership ==
    \A m, n \in Rows :
      /\ members[m].user = members[n].user
      /\ members[m].org = members[n].org
      => m = n

\* An organization loses its last confirmed Owner only by its own deletion or
\* by the deletion of that Owner's account ("Organization must have at least
\* one confirmed owner").
LastOwnerKept ==
    [][\A o \in orgs \cap orgs' :
         confirmedOwners(o) # {} /\ users' = users
           => confirmedOwners(o)' # {}]_vars

\* A session that invites, confirms, edits, removes or revokes an Owner is, at
\* the moment of the write, a confirmed Owner's.
OwnerTouchedByOwner ==
    [][\A m \in Members, r \in Active :
         LET q == requests[r]
             touches(row) == row # None /\ row.atype = Owner
         IN  /\ requests'[r] # q /\ members'[m] # members[m]
             /\ q.op \in {"invite", "confirm", "edit", "remove", "revoke"}
             /\ q.actor # None
             /\ touches(members[m]) \/ touches(members'[m])
             => \E n \in findConfirmedMembership(q.actor, q.org) :
                  members[n].atype = Owner]_vars

\* When a policy takes effect no accepted or confirmed member below Admin is
\* left that breaks it.
SweptWhenEnabled ==
    [][\A p \in policies' \ policies :
         \A m \in {n \in Rows : members[n].org = p[1]} :
           /\ ~isAtLeast(members[m].atype, Admin)
           /\ members[m].status >= Accepted
           => Complies(Snapshot(m), p[1], p[2])]_vars

\* The integer status read back as a stage of MemberLifecycle.
StageOf(s) == CASE s = Invited   -> "invited"
                [] s = Accepted  -> "accepted"
                [] s = Confirmed -> "confirmed"
                [] s = Revoked   -> "dropped"
                [] s = Revoked + RevokedOffset -> "limbo"
LifeOf(row) ==
    IF row = None THEN [stage |-> "none", revoked |-> FALSE]
    ELSE IF row.status \in {s - RevokedOffset : s \in ActiveStatuses}
    THEN [stage |-> StageOf(row.status + RevokedOffset), revoked |-> TRUE]
    ELSE [stage |-> StageOf(row.status), revoked |-> FALSE]

Lifecycle == INSTANCE MemberLifecycle
               WITH life <- [m \in Members |-> LifeOf(members[m])]

\* One request at a time, the handlers implement MemberLifecycle: a membership
\* is invited, accepted and confirmed in this order, and a restore undoes
\* exactly what the revoke did.
ImplementsLifecycle == Lifecycle!Spec
=============================================================================
