-------------------------- MODULE EmergencyAccess --------------------------
(***************************************************************************)
(* Emergency access (api/emergency-access.ts): a grantor names a contact,  *)
(* who may later ask for the grantor's vault and, once the grantor has     *)
(* approved, view it or take the account over.  With it, the handlers of   *)
(* other files it meets: registration, which accepts open invitations, and *)
(* the first sign-in by SSO, which does not (api/identity.ts); the first   *)
(* password of such an account and the rotation of keys (api/accounts.ts). *)
(*                                                                         *)
(* As in OrgMembership a handler is a sequence of awaited statements, each *)
(* atomic, and a request is a record of what its handler has read.  Every  *)
(* handler checks the row it has read and then updates by uuid alone.      *)
(*                                                                         *)
(* A user stands for an account and for its address.  Keys are versions:   *)
(* a rotation makes a new one, and one item stands for the whole vault     *)
(* that is encrypted under it.                                             *)
(***************************************************************************)
EXTENDS Integers, FiniteSets

CONSTANTS
    Users,          \* addresses, and the accounts they may have
    Grants,         \* uuids of emergency_access rows
    Requests,       \* requests in flight at the same time
    None,           \* no row, no request, no user
    MailEnabled,    \* createMailer(...).enabled
    MaxKey,         \* bound: versions of a user's key
    Ops             \* the handlers this instance lets clients call

(***************************************************************************)
(* shared/constants.ts: EmergencyAccessStatus and EmergencyAccessType      *)
(***************************************************************************)
Invited           == 0
Accepted          == 1
Confirmed         == 2
RecoveryInitiated == 3
RecoveryApproved  == 4

View     == 0
Takeover == 1

Statuses == Invited .. RecoveryApproved
Types    == {View, Takeover}
Keys     == 1 .. MaxKey
NoKey    == 0

\* recoveryInitiatedAt against waitTimeDays: not set, set, set long enough ago.
Waits == {"null", "waiting", "elapsed"}

Row == [grantor : Users, grantee : Users \cup {None}, email : Users \cup {None},
        keyEncrypted : Keys \cup {NoKey}, atype : Types, status : Statuses,
        recoveryInitiatedAt : Waits]

\* The routes that hand the grantor's data to the grantee.
AccessOps == {"view", "takeover", "password"}
RowOps == {"update", "accept", "confirm", "initiate", "approve", "reject"}
AllOps == AccessOps \cup RowOps
            \cup {"invite", "delete", "register", "shell", "setPassword",
                  "rotate", "twofactor", "deleteAccount", "fail"}

Request == [op : AllOps, pc : {"write", "twofactor", "sweep", "vault", "keys"},
            actor : Users, grant : Grants \cup {None},
            other : Users \cup {None}, found : BOOLEAN, type : Types,
            ver : Keys \cup {NoKey}, left : SUBSET Grants]

ASSUME NoneAssumption == None \notin Users \cup Grants \cup Row \cup Request
ASSUME BoundAssumption == MaxKey \in Nat \ {0}
ASSUME InputAssumption == MailEnabled \in BOOLEAN /\ Ops \subseteq AllOps

VARIABLES
    users,      \* the users table
    shells,     \* accounts whose passwordHash is still empty
    registered, \* history: accounts that a registration has completed
    secret,     \* who set the master password of an account last
    akey,       \* the key version users.akey wraps
    vault,      \* the key version the user's items are encrypted under
    twofactor,  \* users with a second factor
    grants,     \* the emergency_access table
    invited,    \* the address an invitation, and its mailed token, names
    consent,    \* history: <<grantor, contact>> of an approved recovery
    requests    \* what each request in flight has read, and where it is

stages == <<shells, registered>>
accounts == <<users, shells, registered, secret, akey, vault, twofactor>>
table == <<grants, invited, consent>>
vars == <<users, shells, registered, secret, akey, vault, twofactor,
          grants, invited, consent, requests>>

----------------------------------------------------------------------------
Rows == {e \in Grants : grants[e] # None}
Active == {r \in Requests : requests[r] # None}

(***************************************************************************)
(* uuid() never repeats: an identifier stands for a new row, and an        *)
(* address for a new account, only once no request in flight holds the     *)
(* old one.  An invitation to an address without an account holds no user. *)
(***************************************************************************)
FreshGrant(e) ==
    /\ grants[e] = None
    /\ \A r \in Active : e # requests[r].grant /\ e \notin requests[r].left
FreshUser(u) ==
    /\ u \notin users
    /\ \A r \in Active :
         /\ requests[r].actor # u
         /\ requests[r].other = u =>
              requests[r].op = "invite" /\ ~requests[r].found

NewRequest(op, pc, u, e) ==
    [op |-> op, pc |-> pc, actor |-> u, grant |-> e, other |-> None,
     found |-> FALSE, type |-> View, ver |-> NoKey, left |-> {}]

Begin(r, q) == /\ requests[r] = None
               /\ q.op \in Ops
               /\ q.actor \in users
               /\ requests' = [requests EXCEPT ![r] = q]
At(r, op, pc) == /\ requests[r] # None
                 /\ requests[r].op = op
                 /\ requests[r].pc = pc
GoTo(r, pc) == requests' = [requests EXCEPT ![r].pc = pc]
Done(r) == requests' = [requests EXCEPT ![r] = None]

\* UPDATE emergency_access ... WHERE uuid = e: no row, no effect.
Update(e, row) == grants' = IF e \in Rows THEN [grants EXCEPT ![e] = row]
                                          ELSE grants

loadForGrantor(u, e) == e \in Rows /\ grants[e].grantor = u
loadForGrantee(u, e) == e \in Rows /\ grants[e].grantee = u

----------------------------------------------------------------------------
(***************************************************************************)
(* Invite, update, delete                                                  *)
(***************************************************************************)
InviteRead(r, u, c, t, e) ==
    /\ c # u
    /\ FreshGrant(e)
    /\ Begin(r, [NewRequest("invite", "write", u, e) EXCEPT
                   !.other = c, !.found = (c \in users), !.type = t])
    /\ UNCHANGED <<accounts, table>>

\* Without mail an existing account is accepted on the spot.  The insert
\* fails when an account it refers to is gone.
InviteWrite(r) ==
    LET q == requests[r]
        e == q.grant
    IN  /\ At(r, "invite", "write")
        /\ q.actor \in users /\ (q.found => q.other \in users)
        /\ grants' = [grants EXCEPT ![e] =
             [grantor |-> q.actor,
              grantee |-> IF q.found THEN q.other ELSE None,
              email |-> IF q.found THEN None ELSE q.other,
              keyEncrypted |-> NoKey, atype |-> q.type,
              status |-> IF ~MailEnabled /\ q.found THEN Accepted ELSE Invited,
              recoveryInitiatedAt |-> "null"]]
        /\ invited' = [invited EXCEPT ![e] = q.other]
        /\ consent' = [consent EXCEPT ![e] = None]
        /\ Done(r)
        /\ UNCHANGED accounts

UpdateRead(r, u, e, t) ==
    /\ loadForGrantor(u, e)
    /\ Begin(r, [NewRequest("update", "write", u, e) EXCEPT !.type = t])
    /\ UNCHANGED <<accounts, table>>

UpdateWrite(r) ==
    LET q == requests[r]
    IN  /\ At(r, "update", "write")
        /\ Update(q.grant, [grants[q.grant] EXCEPT !.atype = q.type])
        /\ Done(r)
        /\ UNCHANGED <<accounts, invited, consent>>

\* Either party, one statement.
deleteEa(u, e) ==
    /\ "delete" \in Ops
    /\ u \in users
    /\ loadForGrantor(u, e) \/ loadForGrantee(u, e)
    /\ grants' = [grants EXCEPT ![e] = None]
    /\ UNCHANGED <<accounts, invited, consent, requests>>

----------------------------------------------------------------------------
(***************************************************************************)
(* Accept and confirm                                                      *)
(***************************************************************************)
\* Mutant: whoever knows the uuid may accept.
InvitationMatchesAnybody(u, e) == TRUE

\* With mail the token names the address; without it the row does, if it
\* still has one.
InvitationMatches(u, e) ==
    IF MailEnabled THEN invited[e] = u
                   ELSE grants[e].email \in {None, u}

AcceptRead(r, u, e) ==
    /\ e \in Rows
    /\ grants[e].status = Invited
    /\ InvitationMatches(u, e)
    /\ Begin(r, NewRequest("accept", "write", u, e))
    /\ UNCHANGED <<accounts, table>>

AcceptWrite(r) ==
    LET q == requests[r]
    IN  /\ At(r, "accept", "write")
        /\ q.actor \in users
        /\ Update(q.grant, [grants[q.grant] EXCEPT
             !.grantee = q.actor, !.email = None, !.status = Accepted])
        /\ Done(r)
        /\ UNCHANGED <<accounts, invited, consent>>

\* The client wraps the key it has unlocked for the grantee; a shell has none.
ConfirmRead(r, u, e) ==
    /\ loadForGrantor(u, e) /\ u \notin shells
    /\ grants[e].status = Accepted
    /\ Begin(r, [NewRequest("confirm", "write", u, e) EXCEPT !.ver = akey[u]])
    /\ UNCHANGED <<accounts, table>>

\* Mutant: the status without the key.
ConfirmWriteKeyless(r) ==
    LET q == requests[r]
    IN  /\ At(r, "confirm", "write")
        /\ Update(q.grant, [grants[q.grant] EXCEPT !.status = Confirmed])
        /\ Done(r)
        /\ UNCHANGED <<accounts, invited, consent>>

ConfirmWrite(r) ==
    LET q == requests[r]
    IN  /\ At(r, "confirm", "write")
        /\ Update(q.grant, [grants[q.grant] EXCEPT
             !.keyEncrypted = q.ver, !.status = Confirmed])
        /\ Done(r)
        /\ UNCHANGED <<accounts, invited, consent>>

----------------------------------------------------------------------------
(***************************************************************************)
(* The recovery: initiate, approve, reject                                 *)
(***************************************************************************)
InitiateRead(r, u, e) ==
    /\ loadForGrantee(u, e)
    /\ grants[e].status = Confirmed
    /\ Begin(r, NewRequest("initiate", "write", u, e))
    /\ UNCHANGED <<accounts, table>>

InitiateWrite(r) ==
    LET q == requests[r]
    IN  /\ At(r, "initiate", "write")
        /\ Update(q.grant, [grants[q.grant] EXCEPT
             !.status = RecoveryInitiated, !.recoveryInitiatedAt = "waiting"])
        /\ Done(r)
        /\ UNCHANGED <<accounts, invited, consent>>

\* Mutant: the status is not looked at.
ApproveReadUnchecked(r, u, e) ==
    /\ loadForGrantor(u, e)
    /\ Begin(r, NewRequest("approve", "write", u, e))
    /\ UNCHANGED <<accounts, table>>

ApproveRead(r, u, e) ==
    /\ loadForGrantor(u, e)
    /\ grants[e].status = RecoveryInitiated
    /\ Begin(r, NewRequest("approve", "write", u, e))
    /\ UNCHANGED <<accounts, table>>

ApproveWrite(r) ==
    LET q == requests[r]
    IN  /\ At(r, "approve", "write")
        /\ Update(q.grant, [grants[q.grant] EXCEPT !.status = RecoveryApproved])
        /\ consent' = IF q.grant \in Rows
             THEN [consent EXCEPT ![q.grant] = <<q.actor, invited[q.grant]>>]
             ELSE consent
        /\ Done(r)
        /\ UNCHANGED <<accounts, invited>>

RejectRead(r, u, e) ==
    /\ loadForGrantor(u, e)
    /\ grants[e].status \in {RecoveryInitiated, RecoveryApproved}
    /\ Begin(r, NewRequest("reject", "write", u, e))
    /\ UNCHANGED <<accounts, table>>

RejectWrite(r) ==
    LET q == requests[r]
    IN  /\ At(r, "reject", "write")
        /\ Update(q.grant, [grants[q.grant] EXCEPT
             !.status = Confirmed, !.recoveryInitiatedAt = "null"])
        /\ Done(r)
        /\ UNCHANGED <<accounts, invited, consent>>

----------------------------------------------------------------------------
(***************************************************************************)
(* View, takeover, password                                                *)
(***************************************************************************)
\* Mutant: the type and the grantee, but not the approval.
isValidRequestUnapproved(e, u, type) ==
    grants[e].grantee = u /\ grants[e].atype = type

isValidRequest(e, u, type) ==
    /\ grants[e].grantee = u
    /\ grants[e].status = RecoveryApproved
    /\ grants[e].atype = type

\* The three routes load the row, check it and keep ea.grantorUuid and
\* ea.keyEncrypted; what follows never looks at the row again.
AccessRead(r, op, u, e) ==
    /\ op \in AccessOps
    /\ loadForGrantee(u, e)
    /\ isValidRequest(e, u, IF op = "view" THEN View ELSE Takeover)
    /\ Begin(r, [NewRequest(op, "write", u, e) EXCEPT
                   !.other = grants[e].grantor,
                   !.ver = grants[e].keyEncrypted])
    /\ UNCHANGED <<accounts, table>>

\* The grantor's ciphers, or the parameters of a takeover, are read and sent.
AccessAnswer(r) ==
    /\ At(r, "view", "write") \/ At(r, "takeover", "write")
    /\ Done(r)
    /\ UNCHANGED <<accounts, table>>

\* The new password's hash is computed between the check and this UPDATE.
PasswordWrite(r) ==
    LET q == requests[r]
    IN  /\ At(r, "password", "write")
        /\ secret' = IF q.other \in users
             THEN [secret EXCEPT ![q.other] = q.actor] ELSE secret
        /\ akey' = IF q.other \in users
             THEN [akey EXCEPT ![q.other] = q.ver] ELSE akey
        /\ shells' = shells \ {q.other}
        /\ GoTo(r, "twofactor")
        /\ UNCHANGED <<users, registered, vault, twofactor, table>>

PasswordDropTwofactor(r) ==
    /\ At(r, "password", "twofactor")
    /\ twofactor' = twofactor \ {requests[r].other}
    /\ Done(r)
    /\ UNCHANGED <<users, stages, secret, akey, vault, table>>

----------------------------------------------------------------------------
(***************************************************************************)
(* Registration, key rotation, and what happens around the grants          *)
(***************************************************************************)
\* A new account: an address, and no master password yet.  It has encrypted
\* nothing; version 1 is the key that its client will draw.
Shell(u) ==
    /\ FreshUser(u)
    /\ users' = users \cup {u}
    /\ shells' = shells \cup {u}
    /\ secret' = [secret EXCEPT ![u] = u]
    /\ akey' = [akey EXCEPT ![u] = 1]
    /\ vault' = [vault EXCEPT ![u] = 1]
    /\ UNCHANGED <<registered, twofactor>>

\* The first sign-in by SSO, or an organization's invitation: a shell that no
\* registration has asked for.  No row of emergency_access is looked at.
CreateShell(u) ==
    /\ "shell" \in Ops
    /\ Shell(u)
    /\ UNCHANGED <<table, requests>>

\* POST /accounts/set-password, for an account without a key pair (Accounts
\* follows that column): its client wraps the key that it has.  Invitations
\* to organizations are accepted, those of emergency_access are not.
SetPasswordRead(r, u) ==
    /\ Begin(r, [NewRequest("setPassword", "write", u, None) EXCEPT
                   !.ver = akey[u]])
    /\ UNCHANGED <<accounts, table>>

SetPasswordWrite(r) ==
    LET q == requests[r]
    IN  /\ At(r, "setPassword", "write")
        /\ IF q.actor \in users
           THEN /\ secret' = [secret EXCEPT ![q.actor] = q.actor]
                /\ akey' = [akey EXCEPT ![q.actor] = q.ver]
           ELSE UNCHANGED <<secret, akey>>
        /\ shells' = shells \ {q.actor}
        /\ Done(r)
        /\ UNCHANGED <<users, registered, vault, twofactor, table>>

\* POST /accounts/register of an address without an account inserts a shell,
\* before the KDF is validated; with a shell it goes on where that one stands.
RegisterRead(r, u) ==
    /\ requests[r] = None
    /\ "register" \in Ops
    /\ IF u \in shells THEN UNCHANGED accounts ELSE Shell(u)
    /\ requests' = [requests EXCEPT ![r] =
         NewRequest("register", "write", u, None)]
    /\ UNCHANGED table

\* validateKdf throws; the shell, if it is new, stays.
RegisterRefused(r) ==
    /\ At(r, "register", "write")
    /\ Done(r)
    /\ UNCHANGED <<accounts, table>>

\* One UPDATE completes the account.  With mail the invitations wait for the
\* links that were mailed.
RegisterWrite(r) ==
    LET u == requests[r].actor
    IN  /\ At(r, "register", "write")
        /\ IF u \in users
           THEN /\ secret' = [secret EXCEPT ![u] = u]
                /\ akey' = [akey EXCEPT ![u] = 1]
                /\ registered' = registered \cup {u}
           ELSE UNCHANGED <<secret, akey, registered>>
        /\ shells' = shells \ {u}
        /\ IF MailEnabled THEN Done(r) ELSE GoTo(r, "sweep")
        /\ UNCHANGED <<users, vault, twofactor, table>>

\* Mutant: open invitations are left alone.
RegisterSweepNothing(r) ==
    /\ At(r, "register", "sweep")
    /\ Done(r)
    /\ UNCHANGED <<accounts, table>>

\* Without mail: every row that carries the new account's address.
RegisterSweep(r) ==
    LET u == requests[r].actor
    IN  /\ At(r, "register", "sweep")
        /\ u \in users
        /\ grants' = [e \in Grants |->
             IF e \in Rows /\ grants[e].email = u
             THEN [grants[e] EXCEPT !.grantee = u, !.email = None,
                                    !.status = Accepted]
             ELSE grants[e]]
        /\ Done(r)
        /\ UNCHANGED <<accounts, invited, consent>>

\* The client sends its vault and the keys of its confirmed grants, all under
\* a key version nobody has used yet.
RotateRead(r, u, v) ==
    /\ u \notin shells
    /\ \A w \in {akey[u], vault[u]} \cup {requests[q].ver : q \in Active} : v > w
    /\ Begin(r, [NewRequest("rotate", "vault", u, None) EXCEPT
         !.ver = v,
         !.left = {e \in Rows : /\ grants[e].grantor = u
                                /\ grants[e].status >= Confirmed}])
    /\ UNCHANGED <<accounts, table>>

RotateVault(r) ==
    LET q == requests[r]
    IN  /\ At(r, "rotate", "vault")
        /\ vault' = IF q.actor \in users
             THEN [vault EXCEPT ![q.actor] = q.ver] ELSE vault
        /\ GoTo(r, "keys")
        /\ UNCHANGED <<users, stages, secret, akey, twofactor, table>>

\* Mutant: the grants' keys stay as they were.
RotateGrantNothing(r, e) ==
    /\ At(r, "rotate", "keys")
    /\ e \in requests[r].left
    /\ requests' = [requests EXCEPT ![r].left = @ \ {e}]
    /\ UNCHANGED <<accounts, table>>

RotateGrant(r, e) ==
    LET q == requests[r]
    IN  /\ At(r, "rotate", "keys")
        /\ e \in q.left
        /\ IF loadForGrantor(q.actor, e)
           THEN Update(e, [grants[e] EXCEPT !.keyEncrypted = q.ver])
           ELSE UNCHANGED grants
        /\ requests' = [requests EXCEPT ![r].left = @ \ {e}]
        /\ UNCHANGED <<accounts, invited, consent>>

RotateWrite(r) ==
    LET q == requests[r]
    IN  /\ At(r, "rotate", "keys")
        /\ q.left = {}
        /\ IF q.actor \in users
           THEN /\ secret' = [secret EXCEPT ![q.actor] = q.actor]
                /\ akey' = [akey EXCEPT ![q.actor] = q.ver]
           ELSE UNCHANGED <<secret, akey>>
        /\ Done(r)
        /\ UNCHANGED <<users, stages, vault, twofactor, table>>

\* An error ends a request between two of its statements: the D1 binding
\* failed, the Worker was evicted, a foreign key does not hold any more.
Fail(r) ==
    LET q == requests[r]
        dangling == \/ /\ q.op \in {"invite", "accept", "register"}
                       /\ q.actor \notin users
                    \/ q.op = "invite" /\ q.found /\ q.other \notin users
    IN  /\ requests[r] # None
        /\ "fail" \in Ops \/ dangling
        /\ Done(r)
        /\ UNCHANGED <<accounts, table>>

ActivateTwofactor(u) ==
    /\ "twofactor" \in Ops
    /\ u \in users
    /\ twofactor' = twofactor \cup {u}
    /\ UNCHANGED <<users, stages, secret, akey, vault, table, requests>>

\* Both foreign keys of emergency_access cascade.
DeleteAccount(u) ==
    /\ "deleteAccount" \in Ops
    /\ u \in users
    /\ users' = users \ {u}
    /\ shells' = shells \ {u}
    /\ registered' = registered \ {u}
    /\ twofactor' = twofactor \ {u}
    /\ grants' = [e \in Grants |->
         IF e \in Rows /\ u \in {grants[e].grantor, grants[e].grantee}
         THEN None ELSE grants[e]]
    /\ UNCHANGED <<secret, akey, vault, invited, consent, requests>>

\* The wait time of every pending recovery runs out.  The scheduled jobs run
\* as well, and none of them looks at emergency_access.
runScheduledJobs ==
    /\ grants' = [e \in Grants |->
         IF e \in Rows /\ grants[e].recoveryInitiatedAt = "waiting"
         THEN [grants[e] EXCEPT !.recoveryInitiatedAt = "elapsed"]
         ELSE grants[e]]
    /\ grants' # grants
    /\ UNCHANGED <<accounts, invited, consent, requests>>

----------------------------------------------------------------------------
Init ==
    /\ users = Users
    /\ shells = {}
    /\ registered = Users
    /\ secret = [u \in Users |-> u]
    /\ akey = [u \in Users |-> 1]
    /\ vault = [u \in Users |-> 1]
    /\ twofactor = {}
    /\ grants = [e \in Grants |-> None]
    /\ invited = [e \in Grants |-> None]
    /\ consent = [e \in Grants |-> None]
    /\ requests = [r \in Requests |-> None]

\* A request arrives: its first statement.
Arrive(r) ==
    \E u \in Users :
      \/ RegisterRead(r, u)
      \/ SetPasswordRead(r, u)
      \/ \E v \in Keys : RotateRead(r, u, v)
      \/ \E e \in Grants :
           \/ \E c \in Users, t \in Types : InviteRead(r, u, c, t, e)
           \/ AcceptRead(r, u, e) \/ ConfirmRead(r, u, e)
           \/ InitiateRead(r, u, e) \/ ApproveRead(r, u, e)
           \/ RejectRead(r, u, e)
           \/ \E t \in Types : UpdateRead(r, u, e, t)
           \/ \E op \in AccessOps : AccessRead(r, op, u, e)

\* A request in flight takes its next step.
Continue(r) ==
    \/ UpdateWrite(r) \/ AcceptWrite(r) \/ ConfirmWrite(r)
    \/ InitiateWrite(r) \/ ApproveWrite(r) \/ RejectWrite(r)
    \/ AccessAnswer(r) \/ PasswordWrite(r) \/ PasswordDropTwofactor(r)
    \/ RegisterRefused(r) \/ RegisterWrite(r) \/ RegisterSweep(r)
    \/ SetPasswordWrite(r) \/ RotateVault(r) \/ RotateWrite(r) \/ Fail(r)
    \/ InviteWrite(r)
    \/ \E e \in Grants : RotateGrant(r, e)

\* A handler with one statement, and the passing of time.
Instant ==
    \/ runScheduledJobs
    \/ \E u \in Users :
         \/ CreateShell(u) \/ ActivateTwofactor(u) \/ DeleteAccount(u)
         \/ \E e \in Grants : deleteEa(u, e)

Next == Instant \/ \E r \in Requests : Arrive(r) \/ Continue(r)

Spec == Init /\ [][Next]_vars

\* One request at a time: one slot in Requests, and nothing beside it.
SerialNext ==
    \/ Active = {} /\ Instant
    \/ \E r \in Requests : Arrive(r) \/ Continue(r)

SerialSpec == Init /\ [][SerialNext]_vars

----------------------------------------------------------------------------
TypeOK ==
    /\ users \subseteq Users
    /\ shells \subseteq users
    /\ registered \subseteq users
    /\ secret \in [Users -> Users]
    /\ akey \in [Users -> Keys]
    /\ vault \in [Users -> Keys]
    /\ twofactor \subseteq Users
    /\ grants \in [Grants -> Row \cup {None}]
    /\ invited \in [Grants -> Users \cup {None}]
    /\ consent \in [Grants -> (Users \X Users) \cup {None}]
    /\ requests \in [Requests -> Request \cup {None}]

(***************************************************************************)
(* What holds however requests overlap                                     *)
(***************************************************************************)
\* A grantor's vault, keys or password are handed out (view, takeover and
\* password) only by a grant that this grantor has approved at some time, and
\* only to the contact whose address the grantor gave in the invitation.
AccessWasApproved ==
    \A r \in Active :
      LET q == requests[r]
      IN  q.op \in AccessOps => consent[q.grant] = <<q.other, q.actor>>

\* A grant that can be recovered from has a key to recover with and somebody
\* to hold it, also when an accept, a confirm or a reject that was read long
\* ago is written late.
GrantHasKey ==
    \A e \in Rows : grants[e].status >= Confirmed =>
      grants[e].keyEncrypted # NoKey /\ grants[e].grantee # None

(***************************************************************************)
(* What holds when requests do not overlap                                 *)
(***************************************************************************)
\* The master password of an account is replaced by somebody else only while
\* a takeover of it stands approved ("Emergency access not valid." otherwise).
TakeoverWhileApproved ==
    [][\A u \in Users :
         secret'[u] \notin {secret[u], u} =>
           \E e \in Rows : /\ grants[e].grantor = u
                           /\ grants[e].grantee = secret'[u]
                           /\ grants[e].status = RecoveryApproved
                           /\ grants[e].atype = Takeover]_vars

\* Between requests one key opens everything: users.akey wraps the key the
\* vault is encrypted under, and so does every grant that may be used, after
\* any sequence of rotations, confirmations and takeovers.
OneKeyOpensAll ==
    Active = {} =>
      /\ \A u \in users : akey[u] = vault[u]
      /\ \A e \in Rows : grants[e].status >= Confirmed =>
           grants[e].keyEncrypted = vault[grants[e].grantor]

\* Without mail nothing but the registration of its address settles an
\* invitation: between requests none is left open to somebody who registered,
\* whichever came first, and also when the account was there already, as the
\* shell of a sign-in by SSO or of a registration that was refused.  (An
\* account completed by set-password keeps its open ones.)
InvitationsFollowRegistration ==
    Active = {} /\ ~MailEnabled =>
      \A e \in Rows : grants[e].email \notin registered

StageOf(e) ==
    IF e \notin Rows THEN "none"
    ELSE CASE grants[e].status = Invited           -> "invited"
           [] grants[e].status = Accepted          -> "accepted"
           [] grants[e].status = Confirmed         -> "confirmed"
           [] grants[e].status = RecoveryInitiated -> "initiated"
           [] grants[e].status = RecoveryApproved  -> "approved"
HolderOf(e) ==
    IF e \notin Rows THEN None
    ELSE IF grants[e].status = Invited THEN None ELSE grants[e].grantee

Grant == INSTANCE RecoveryGrant
           WITH stage <- [e \in Grants |-> StageOf(e)],
                holder <- [e \in Grants |-> HolderOf(e)]

\* One request at a time, the handlers implement RecoveryGrant: a contact is
\* settled by the acceptance, and only a confirmed contact that has asked for
\* it is approved.
ImplementsGrant == Grant!Spec
=============================================================================
