------------------------------ MODULE Sessions ------------------------------
(***************************************************************************)
(* Who is let in (api/identity.ts, api/accounts.ts, auth/, services/       *)
(* devices.ts, api/admin.ts): the logins of one account on its devices,    *)
(* the access and refresh tokens they hand out, and the security stamp     *)
(* that ends them.                                                         *)
(*                                                                         *)
(* Random values - stamps and refresh tokens - are numbers drawn in order: *)
(* a later one is larger, none comes twice.  A step is an awaited          *)
(* statement; requireAuth, whose reads write nothing, is one step with the *)
(* first read of the handler it guards.                                    *)
(***************************************************************************)
EXTENDS Integers, FiniteSets

CONSTANTS
    Devices,        \* device identifiers, chosen by the clients
    Requests,       \* requests in flight at the same time
    None,           \* no account, no request
    ExceptionTime,  \* the 90 seconds a stamp exception lives
    MaxNumber,      \* bound: stamps and refresh tokens drawn
    Failures        \* may a statement fail, or a Worker be evicted, in between?

\* The columns of the account; exception.left = 0 is no stamp exception.
User == [enabled : BOOLEAN, stamp : Nat,
         exception : [stamp : Nat, left : 0 .. ExceptionTime]]
Token == [device : Devices, stamp : Nat]
\* 0: no row.  A row is known by its refresh token.
NoDevice == 0
\* number: the number drawn last when a deauthorization began.
Request == [pc : {"find", "insert", "issue", "refresh",
                  "password", "setPassword", "stamp", "device", "devices",
                  "rotate", "delete"},
            device : Devices \cup {None}, stamp : Nat, number : Nat,
            disable : BOOLEAN]

ASSUME NoneAssumption == None \notin User \cup Devices \cup Request
ASSUME BoundAssumption ==
    /\ {ExceptionTime, MaxNumber} \subseteq Nat \ {0}
    /\ Failures \in BOOLEAN

VARIABLES
    user,        \* the row of the account
    devices,     \* its rows of the devices table
    tokens,      \* access tokens handed out
    number,      \* the number drawn last
    floor,       \* history: number at the start of the last deauthorization done
    disturbed,   \* history: did requests ever overlap, or one fail?
    requests     \* what each request in flight has read, and where it is

vars == <<user, devices, tokens, number, floor, disturbed, requests>>

----------------------------------------------------------------------------
Active == {r \in Requests : requests[r] # None}
Begin(r, q) == /\ requests[r] = None
               /\ requests' = [requests EXCEPT ![r] = q]
               /\ disturbed' = (disturbed \/ Active # {})
At(r, pc) == requests[r] # None /\ requests[r].pc = pc
Continue(r, q) == /\ requests' = [requests EXCEPT ![r] = q]
                  /\ UNCHANGED disturbed
GoTo(r, pc) == Continue(r, [requests[r] EXCEPT !.pc = pc])
Done(r) == Continue(r, None)

NewRequest(pc, d, stamp) ==
    [pc |-> pc, device |-> d, stamp |-> stamp, number |-> 0,
     disable |-> FALSE]

Deauthorization(disable) ==
    [NewRequest("devices", None, 0) EXCEPT !.number = number, !.disable = disable]

Draw == number < MaxNumber /\ number' = number + 1
larger(a, b) == IF a > b THEN a ELSE b

\* The stamp of the token is the account's, or the excepted one on the route
\* excepted; then the device must still be there.
requireAuth(t, route) ==
    /\ user # None
    /\ user.enabled
    /\ \/ user.stamp = t.stamp
       \/ /\ route = "rotate"
          /\ user.exception.left > 0
          /\ user.exception.stamp = t.stamp
    /\ devices[t.device] # NoDevice

----------------------------------------------------------------------------
(***************************************************************************)
(* Logins                                                                  *)
(***************************************************************************)
\* Mutant: whether the account is enabled is not looked at.
LoginDisabled(r, d) ==
    /\ user # None
    /\ Begin(r, NewRequest("find", d, user.stamp))
    /\ UNCHANGED <<user, devices, tokens, number, floor>>

\* passwordLogin up to the check of the password, or of the access code of an
\* auth request.
LoginRight(r, d) ==
    /\ user # None
    /\ user.enabled
    /\ Begin(r, NewRequest("find", d, user.stamp))
    /\ UNCHANGED <<user, devices, tokens, number, floor>>

\* client_credentials: no count of failures.  That the account has an API key
\* and the client knows it is the client's input.
ApiKeyLogin(r, d) ==
    /\ user # None
    /\ user.enabled
    /\ Begin(r, NewRequest("find", d, user.stamp))
    /\ UNCHANGED <<user, devices, tokens, number, floor>>

\* getOrCreateDevice
FindDevice(r) ==
    /\ At(r, "find")
    /\ GoTo(r, IF devices[requests[r].device] = NoDevice THEN "insert"
                                                         ELSE "issue")
    /\ UNCHANGED <<user, devices, tokens, number, floor>>

\* The primary key and the foreign key hold.
InsertDevice(r) ==
    /\ At(r, "insert")
    /\ user # None
    /\ devices[requests[r].device] = NoDevice
    /\ Draw
    /\ devices' = [devices EXCEPT ![requests[r].device] = number']
    /\ GoTo(r, "issue")
    /\ UNCHANGED <<user, tokens, floor>>

InsertConflict(r) ==
    /\ At(r, "insert")
    /\ user = None \/ devices[requests[r].device] # NoDevice
    /\ Done(r)
    /\ UNCHANGED <<user, devices, tokens, number, floor>>

\* createAuthTokens: the stamp is the one the login has read.
Issue(r) ==
    /\ At(r, "issue")
    /\ tokens' = tokens \cup {[device |-> requests[r].device,
                               stamp |-> requests[r].stamp]}
    /\ Done(r)
    /\ UNCHANGED <<user, devices, number, floor>>

\* twofactorAuth throws: the device stays.
TwoFactorRefuses(r) ==
    /\ At(r, "issue")
    /\ Done(r)
    /\ UNCHANGED <<user, devices, tokens, number, floor>>

\* findDeviceByRefreshToken
RefreshRead(r, d) ==
    /\ devices[d] # NoDevice
    /\ Begin(r, NewRequest("refresh", d, 0))
    /\ UNCHANGED <<user, devices, tokens, number, floor>>

\* The stamp is the account's of now, whatever it was when the token was made.
RefreshIssue(r) ==
    /\ At(r, "refresh")
    /\ user # None
    /\ user.enabled
    /\ tokens' = tokens \cup {[device |-> requests[r].device,
                               stamp |-> user.stamp]}
    /\ Done(r)
    /\ UNCHANGED <<user, devices, number, floor>>

RefreshRefused(r) ==
    /\ At(r, "refresh")
    /\ user # None => ~user.enabled
    /\ Done(r)
    /\ UNCHANGED <<user, devices, tokens, number, floor>>

----------------------------------------------------------------------------
(***************************************************************************)
(* What ends sessions                                                      *)
(***************************************************************************)
\* A handler behind requireAuth that goes on at pc: /devices/:id, the deletion
\* of the account, and, as "stamp", kdf and email.
Authenticated(r, t, pc, d) ==
    /\ requireAuth(t, "other")
    /\ Begin(r, NewRequest(pc, d, 0))
    /\ UNCHANGED <<user, devices, tokens, number, floor>>

\* /accounts/password and set-password keep the stamp that they have read.
PasswordRoute(r, t, pc) ==
    /\ requireAuth(t, "other")
    /\ Begin(r, NewRequest(pc, None, user.stamp))
    /\ UNCHANGED <<user, devices, tokens, number, floor>>

\* /accounts/security-stamp
DeauthorizeSelf(r, t) ==
    /\ requireAuth(t, "other")
    /\ Begin(r, Deauthorization(FALSE))
    /\ UNCHANGED <<user, devices, tokens, number, floor>>

KeyRotation(r, t) ==
    /\ requireAuth(t, "rotate")
    /\ Begin(r, NewRequest("stamp", None, 0))
    /\ UNCHANGED <<user, devices, tokens, number, floor>>

\* An emergency takeover, an organization's reset of the password, a
\* registration on the shell: all write a new stamp and leave the devices.
ResetByOthers(r) ==
    /\ user # None
    /\ Begin(r, NewRequest("stamp", None, 0))
    /\ UNCHANGED <<user, devices, tokens, number, floor>>

\* UPDATE users SET ...: no row, no effect.
UpdateUser(row) == user' = IF user = None THEN None ELSE row

stampException(stamp) == [stamp |-> stamp, left |-> ExceptionTime]

WritePassword(r) ==
    /\ At(r, "password")
    /\ Draw
    /\ UpdateUser([user EXCEPT !.stamp = number',
                               !.exception = stampException(requests[r].stamp)])
    /\ Done(r)
    /\ UNCHANGED <<devices, tokens, floor>>

\* The stamp stays.
WriteInitialPassword(r) ==
    /\ At(r, "setPassword")
    /\ UpdateUser([user EXCEPT !.exception = stampException(requests[r].stamp)])
    /\ Done(r)
    /\ UNCHANGED <<devices, tokens, number, floor>>

WriteStamp(r) ==
    /\ At(r, "stamp")
    /\ Draw
    /\ UpdateUser([user EXCEPT !.stamp = number'])
    /\ Done(r)
    /\ UNCHANGED <<devices, tokens, floor>>

DeleteDevice(r) ==
    /\ At(r, "device")
    /\ devices' = [devices EXCEPT ![requests[r].device] = NoDevice]
    /\ Done(r)
    /\ UNCHANGED <<user, tokens, number, floor>>

\* POST /admin/users/:uuid/deauth and disable: no row is read first.
AdminDeauthorize(r, disable) ==
    /\ Begin(r, Deauthorization(disable))
    /\ UNCHANGED <<user, devices, tokens, number, floor>>

\* Mutant: the rows of the devices are left to expire.
DeauthorizeKeepingDevices(r) ==
    /\ At(r, "devices")
    /\ GoTo(r, "rotate")
    /\ UNCHANGED <<user, devices, tokens, number, floor>>

DeleteDevices(r) ==
    /\ At(r, "devices")
    /\ devices' = [d \in Devices |-> NoDevice]
    /\ GoTo(r, "rotate")
    /\ UNCHANGED <<user, tokens, number, floor>>

\* The second statement of security-stamp, deauth and disable.
RotateStamp(r) ==
    /\ At(r, "rotate")
    /\ Draw
    /\ UpdateUser([user EXCEPT !.stamp = number',
                               !.enabled = @ /\ ~requests[r].disable])
    /\ floor' = larger(floor, requests[r].number)
    /\ Done(r)
    /\ UNCHANGED <<devices, tokens>>

AdminEnable ==
    /\ user # None
    /\ user' = [user EXCEPT !.enabled = TRUE]
    /\ disturbed' = (disturbed \/ Active # {})
    /\ UNCHANGED <<devices, tokens, number, floor, requests>>

\* Also by the administrator and by the mailed deletion token.
DeleteAccount(r) ==
    /\ At(r, "delete")
    /\ user' = None
    /\ devices' = [d \in Devices |-> NoDevice]
    /\ Done(r)
    /\ UNCHANGED <<tokens, number, floor>>

----------------------------------------------------------------------------
\* Time passes: the exception ends.
Tick ==
    /\ user # None
    /\ user.exception.left > 0
    /\ user' = [user EXCEPT !.exception.left = @ - 1]
    /\ UNCHANGED <<devices, tokens, number, floor, disturbed, requests>>

Fail(r) == /\ Failures
           /\ requests[r] # None
           /\ requests' = [requests EXCEPT ![r] = None]
           /\ disturbed' = TRUE
           /\ UNCHANGED <<user, devices, tokens, number, floor>>

Init ==
    /\ user = [enabled |-> TRUE, stamp |-> 1,
               exception |-> [stamp |-> 0, left |-> 0]]
    /\ devices = [d \in Devices |-> NoDevice]
    /\ tokens = {}
    /\ number = 1
    /\ floor = 0
    /\ disturbed = FALSE
    /\ requests = [r \in Requests |-> None]

Arrive(r) ==
    \/ ResetByOthers(r)
    \/ \E disable \in BOOLEAN : AdminDeauthorize(r, disable)
    \/ \E d \in Devices : LoginRight(r, d) \/ ApiKeyLogin(r, d) \/ RefreshRead(r, d)
    \/ \E t \in tokens :
         \/ KeyRotation(r, t)
         \/ DeauthorizeSelf(r, t)
         \/ \E pc \in {"password", "setPassword"} : PasswordRoute(r, t, pc)
         \/ \E pc \in {"stamp", "delete"} : Authenticated(r, t, pc, None)
         \/ \E d \in Devices : Authenticated(r, t, "device", d)

Proceed(r) ==
    \/ FindDevice(r) \/ InsertDevice(r) \/ InsertConflict(r)
    \/ Issue(r) \/ TwoFactorRefuses(r) \/ RefreshIssue(r) \/ RefreshRefused(r)
    \/ WritePassword(r) \/ WriteInitialPassword(r) \/ WriteStamp(r)
    \/ DeleteDevice(r) \/ DeleteDevices(r) \/ RotateStamp(r) \/ DeleteAccount(r)
    \/ Fail(r)

Next == Tick \/ AdminEnable \/ \E r \in Requests : Arrive(r) \/ Proceed(r)

Spec == Init /\ [][Next]_vars

----------------------------------------------------------------------------
\* Stamps and refresh tokens are numbers that were drawn, and every request in
\* flight holds what its handler needs.
TypeOK ==
    /\ user \in User \cup {None}
    /\ devices \in [Devices -> 0 .. MaxNumber]
    /\ tokens \subseteq Token
    /\ number \in 1 .. MaxNumber
    /\ floor \in 0 .. MaxNumber
    /\ disturbed \in BOOLEAN
    /\ requests \in [Requests -> Request \cup {None}]

\* A deauthorization - by the user, or by the administrator who deauthorizes
\* or disables the account - ends every session handed out before it began,
\* whatever is in flight beside it: no such refresh token finds its device, and
\* no such access token opens a route, but for the key rotation that a recent
\* change of the password excepts; not even once the device has logged in anew.
DeauthorizedStaysOut ==
    /\ \A d \in Devices : devices[d] # NoDevice => devices[d] > floor
    /\ \A t \in tokens : t.stamp <= floor => ~requireAuth(t, "other")

\* A disabled account keeps no device, so that nothing but a new login opens it
\* once it is enabled again, as long as no login disturbed the disabling.
DisabledHasNoSession ==
    ~disturbed /\ user # None /\ ~user.enabled =>
      \A d \in Devices : devices[d] = NoDevice
=============================================================================
