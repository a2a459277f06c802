--------------------------- MODULE SessionsProofs ---------------------------
(***************************************************************************)
(* A deauthorization ends all earlier sessions, for any number of devices  *)
(* and of overlapping requests.  Random values are numbers drawn in order, *)
(* so what matters is that a deauthorization draws its stamp after it has  *)
(* deleted the devices, and that what is in flight beside it writes only   *)
(* what is drawn later still.  And a disabled account has no device, as    *)
(* long as no two requests overlap and none fails.                         *)
(***************************************************************************)
EXTENDS Sessions, TLAPS

Rows == [Devices -> 0 .. MaxNumber]

\* The devices of t were inserted after the number n was drawn.
Later(t, n) == \A d \in Devices : t[d] # NoDevice => t[d] > n

\* The statements that name a device.
OfDevice == {"find", "insert", "issue", "refresh", "device"}

\* A deauthorization began in the past, and between its statements there is no
\* device from before.
Held(q, n, t) == /\ q.pc \in OfDevice => q.device \in Devices
                 /\ q.number <= n
                 /\ q.pc = "rotate" => Later(t, q.number)

HeldAll == \A r \in Requests : requests[r] # None => Held(requests[r], number, devices)

StampLater == user # None => user.stamp > floor

Inv == /\ TypeOK
       /\ floor <= number
       /\ StampLater
       /\ Later(devices, floor)
       /\ HeldAll

----------------------------------------------------------------------------
\* More numbers are drawn, and only later devices are inserted.
LEMMA HeldLater ==
    ASSUME NEW q \in Request, NEW t \in Rows, NEW u \in Rows,
           NEW m \in Nat, NEW n \in Nat, Held(q, m, t), m <= n,
           \A d \in Devices : u[d] = t[d] \/ u[d] = NoDevice \/ u[d] > m
    PROVE  Held(q, n, u)
<1>1. q.number \in Nat /\ q.number <= m
  BY DEF Request, Held
<1>2. q.number <= n
  BY <1>1
<1>3. ASSUME Later(t, q.number) PROVE Later(u, q.number)
  <2> SUFFICES ASSUME NEW d \in Devices, u[d] # NoDevice PROVE u[d] > q.number
    BY DEF Later
  <2>1. u[d] \in Nat /\ t[d] \in Nat
    BY BoundAssumption DEF Rows
  <2> QED
    BY <2>1, <1>1, <1>3 DEF Later
<1> QED
  BY <1>2, <1>3 DEF Held

\* A step of one request that ends no deauthorization: the account's stamp stays
\* or is drawn, and devices are deleted or inserted with what is drawn.
LEMMA RequestStep ==
    ASSUME Inv, NEW r \in Requests, NEW q \in Request \cup {None},
           TypeOK', floor' = floor, number <= number',
           q # None => Held(q, number', devices'),
           StampLater',
           \A d \in Devices : \/ devices'[d] = devices[d] \/ devices'[d] = NoDevice
                              \/ devices'[d] > number,
           requests' = [requests EXCEPT ![r] = q]
    PROVE  Inv'
<1>1. /\ number \in Nat /\ number' \in Nat /\ floor \in Nat /\ floor <= number
      /\ devices \in Rows /\ devices' \in Rows
      /\ requests \in [Requests -> Request \cup {None}]
  BY BoundAssumption DEF Inv, TypeOK, Rows
<1>2. floor' <= number'
  BY <1>1
<1>3. Later(devices, floor)'
  <2> SUFFICES ASSUME NEW d \in Devices, devices'[d] # NoDevice
               PROVE  devices'[d] > floor'
    BY DEF Later
  <2>1. devices'[d] \in Nat /\ devices[d] \in Nat
    BY <1>1, BoundAssumption DEF Rows
  <2> QED
    BY <1>1, <2>1 DEF Inv, Later
<1>4. HeldAll'
  <2> SUFFICES ASSUME NEW s \in Requests, requests'[s] # None
               PROVE  Held(requests'[s], number', devices')
    BY DEF HeldAll
  <2>1. CASE s = r
    BY <2>1, <1>1
  <2>2. CASE s # r
    <3>1. requests'[s] = requests[s] /\ requests[s] \in Request
      BY <2>2, <1>1
    <3>2. Held(requests[s], number, devices)
      BY <3>1 DEF Inv, HeldAll
    <3> QED
      BY <1>1, <3>1, <3>2, HeldLater
  <2> QED
    BY <2>1, <2>2
<1> QED
  BY <1>2, <1>3, <1>4 DEF Inv

\* A step that only gives a request something to hold, and may hand out a token.
LEMMA QuietStep ==
    ASSUME Inv, NEW r \in Requests, NEW q \in Request \cup {None},
           q # None => Held(q, number, devices),
           tokens' \subseteq Token,
           disturbed' \in BOOLEAN,
           requests' = [requests EXCEPT ![r] = q],
           UNCHANGED <<user, devices, number, floor>>
    PROVE  Inv'
<1>1. TypeOK'
  BY DEF Inv, TypeOK
<1>2. StampLater'
  BY DEF Inv, StampLater
<1>3. floor' = floor /\ number <= number' /\ devices' = devices
  BY BoundAssumption DEF Inv, TypeOK
<1>4. q # None => Held(q, number', devices')
  BY <1>3
<1> QED
  BY <1>1, <1>2, <1>3, <1>4, RequestStep

\* What a request holds when it begins.
LEMMA NewIsRequest ==
    ASSUME NEW pc \in {"find", "insert", "issue", "refresh", "password",
                       "setPassword", "stamp", "device", "devices", "delete"},
           NEW d \in Devices \cup {None}, NEW stamp \in Nat, Inv,
           pc \in OfDevice => d \in Devices
    PROVE  /\ NewRequest(pc, d, stamp) \in Request
           /\ Held(NewRequest(pc, d, stamp), number, devices)
BY BoundAssumption DEF NewRequest, Request, Held, Inv, TypeOK, OfDevice

LEMMA DeauthorizationIsRequest ==
    ASSUME NEW disable \in BOOLEAN, Inv
    PROVE  /\ Deauthorization(disable) \in Request
           /\ Held(Deauthorization(disable), number, devices)
<1>1. number \in Nat
  BY BoundAssumption DEF Inv, TypeOK
<1> DEFINE p == NewRequest("devices", None, 0)
<1>2. p \in Request /\ p.pc = "devices"
  BY DEF NewRequest, Request
<1>3. Deauthorization(disable) = [p EXCEPT !.number = number, !.disable = disable]
  BY DEF Deauthorization
<1> HIDE DEF p
<1>4. /\ [p EXCEPT !.number = number, !.disable = disable] \in Request
      /\ [p EXCEPT !.number = number, !.disable = disable].number = number
      /\ [p EXCEPT !.number = number, !.disable = disable].pc = "devices"
  BY <1>1, <1>2 DEF Request
<1> QED
  BY <1>1, <1>3, <1>4 DEF Held, OfDevice

\* A request that begins.
LEMMA BeginStep ==
    ASSUME Inv, NEW r \in Requests, NEW q \in Request,
           Held(q, number, devices), Begin(r, q),
           UNCHANGED <<user, devices, tokens, number, floor>>
    PROVE  Inv'
<1>1. disturbed' \in BOOLEAN
  BY DEF Begin, Inv, TypeOK
<1>2. tokens' \subseteq Token
  BY DEF Inv, TypeOK
<1>3. requests' = [requests EXCEPT ![r] = q]
  BY DEF Begin
<1> QED
  BY <1>1, <1>2, <1>3, QuietStep

\* A stamp that the account has is a number drawn.
LEMMA StampDrawn ==
    ASSUME Inv, user # None
    PROVE  user.stamp \in Nat
BY DEF Inv, TypeOK, User

----------------------------------------------------------------------------
LEMMA ArriveKeepsInv ==
    ASSUME Inv, NEW r \in Requests, Arrive(r)
    PROVE  Inv'
<1>1. CASE ResetByOthers(r)
  BY <1>1, NewIsRequest, BeginStep DEF OfDevice, ResetByOthers
<1>2. ASSUME NEW disable \in BOOLEAN, AdminDeauthorize(r, disable) PROVE Inv'
  BY <1>2, DeauthorizationIsRequest, BeginStep DEF AdminDeauthorize
<1>3. ASSUME NEW d \in Devices, LoginRight(r, d) \/ ApiKeyLogin(r, d) PROVE Inv'
  BY <1>3, StampDrawn, NewIsRequest, BeginStep DEF OfDevice, LoginRight, ApiKeyLogin
<1>4. ASSUME NEW d \in Devices, RefreshRead(r, d) PROVE Inv'
  BY <1>4, NewIsRequest, BeginStep DEF OfDevice, RefreshRead
<1>5. ASSUME NEW t \in tokens, KeyRotation(r, t) PROVE Inv'
  BY <1>5, NewIsRequest, BeginStep DEF OfDevice, KeyRotation
<1>6. ASSUME NEW t \in tokens, DeauthorizeSelf(r, t) PROVE Inv'
  BY <1>6, DeauthorizationIsRequest, BeginStep DEF DeauthorizeSelf
<1>7. ASSUME NEW t \in tokens, NEW pc \in {"password", "setPassword"},
             PasswordRoute(r, t, pc)
      PROVE  Inv'
  <2>1. user.stamp \in Nat
    BY <1>7, StampDrawn DEF PasswordRoute, requireAuth
  <2> QED
    BY <1>7, <2>1, NewIsRequest, BeginStep DEF OfDevice, PasswordRoute
<1>8. ASSUME NEW t \in tokens, NEW pc \in {"stamp", "delete", "device"},
             NEW d \in Devices \cup {None}, pc = "device" => d \in Devices,
             Authenticated(r, t, pc, d)
      PROVE  Inv'
  BY <1>8, NewIsRequest, BeginStep DEF OfDevice, Authenticated
<1> QED
  BY <1>1, <1>2, <1>3, <1>4, <1>5, <1>6, <1>7, <1>8 DEF Arrive

----------------------------------------------------------------------------
\* A handler that goes on with the request it has.
LEMMA GoToHeld ==
    ASSUME Inv, NEW r \in Requests, requests[r] # None,
           NEW pc \in {"insert", "issue", "rotate"},
           pc = "rotate" => Later(devices, requests[r].number),
           pc # "rotate" => requests[r].pc \in OfDevice
    PROVE  /\ [requests[r] EXCEPT !.pc = pc] \in Request
           /\ Held([requests[r] EXCEPT !.pc = pc], number, devices)
<1>1. requests[r] \in Request /\ Held(requests[r], number, devices)
  BY DEF Inv, TypeOK, HeldAll
<1> DEFINE q == [requests[r] EXCEPT !.pc = pc]
<1>2. q \in Request /\ q.pc = pc /\ q.number = requests[r].number
             /\ q.device = requests[r].device
  BY <1>1 DEF Request
<1> HIDE DEF q
<1> QED
  BY <1>1, <1>2 DEF Held, OfDevice, q

\* UPDATE users with a stamp that is later than the deauthorizations done.
LEMMA UserStep ==
    ASSUME Inv, NEW r \in Requests, user' \in User \cup {None},
           user' # None => user'.stamp > floor,
           number' \in 1 .. MaxNumber, number <= number',
           requests' = [requests EXCEPT ![r] = None],
           UNCHANGED <<devices, tokens, disturbed, floor>>
    PROVE  Inv'
<1>1. TypeOK'
  BY DEF Inv, TypeOK
<1>2. StampLater'
  BY DEF StampLater
<1>3. devices' = devices /\ floor' = floor
  OBVIOUS
<1> QED
  BY <1>1, <1>2, <1>3, RequestStep

\* The row of the account with another stamp, and with a stamp exception.
LEMMA StampedUser ==
    ASSUME NEW u \in User, NEW n \in Nat
    PROVE  [u EXCEPT !.stamp = n] \in User /\ [u EXCEPT !.stamp = n].stamp = n
BY DEF User

LEMMA StampedAndDisabledUser ==
    ASSUME NEW u \in User, NEW n \in Nat, NEW b \in BOOLEAN
    PROVE  /\ [u EXCEPT !.stamp = n, !.enabled = b] \in User
           /\ [u EXCEPT !.stamp = n, !.enabled = b].stamp = n
BY DEF User

LEMMA ExceptedUser ==
    ASSUME NEW u \in User, NEW m \in Nat
    PROVE  /\ [u EXCEPT !.exception = stampException(m)] \in User
           /\ [u EXCEPT !.exception = stampException(m)].stamp = u.stamp
<1>1. stampException(m) \in [stamp : Nat, left : 0 .. ExceptionTime]
  BY BoundAssumption DEF stampException
<1> QED
  BY <1>1 DEF User

\* The second statement of a deauthorization: between its number and the stamp
\* it draws there is none, and no device from before is left.
LEMMA RotateKeepsInv ==
    ASSUME Inv, NEW r \in Requests, RotateStamp(r)
    PROVE  Inv'
<1> DEFINE q == requests[r]
           b == user.enabled /\ ~q.disable
           u == [user EXCEPT !.stamp = number', !.enabled = b]
<1>1. /\ q # None /\ q \in Request /\ Held(q, number, devices) /\ q.pc = "rotate"
      /\ number \in 1 .. MaxNumber /\ number' \in 1 .. MaxNumber /\ number' = number + 1
      /\ MaxNumber \in Nat
      /\ floor \in Nat /\ floor <= number /\ devices \in Rows
      /\ UNCHANGED <<devices, tokens, disturbed>>
      /\ requests' = [requests EXCEPT ![r] = None]
  BY BoundAssumption
     DEF RotateStamp, At, Draw, Done, Continue, Inv, TypeOK, HeldAll, Rows
<1>2. q.number \in Nat /\ q.number <= number /\ Later(devices, q.number)
  BY <1>1 DEF Held, Request
<1>3. floor' \in {floor, q.number} /\ floor' \in Nat /\ floor' <= number
  BY <1>1, <1>2 DEF RotateStamp, larger
<1>4. user' = IF user = None THEN None ELSE u
  BY DEF RotateStamp, UpdateUser
<1>5. user # None => u \in User /\ u.stamp = number'
  <2> SUFFICES ASSUME user # None PROVE u \in User /\ u.stamp = number'
    OBVIOUS
  <2>1. user \in User /\ b \in BOOLEAN
    BY DEF Inv, TypeOK
  <2>2. number' \in Nat
    BY <1>1
  <2> HIDE DEF b
  <2> QED
    BY <2>1, <2>2, StampedAndDisabledUser
<1> HIDE DEF u
<1>6. TypeOK'
  BY <1>1, <1>3, <1>4, <1>5 DEF Inv, TypeOK
<1>7. StampLater'
  BY <1>1, <1>3, <1>4, <1>5 DEF StampLater
<1>8. Later(devices, floor)'
  BY <1>1, <1>2, <1>3 DEF Inv, Later
<1>9. HeldAll'
  <2> SUFFICES ASSUME NEW s \in Requests, requests'[s] # None
               PROVE  Held(requests'[s], number', devices')
    BY DEF HeldAll
  <2>1. requests'[s] = requests[s] /\ requests[s] \in Request
    BY <1>1 DEF Inv, TypeOK
  <2>2. Held(requests[s], number, devices)
    BY <2>1 DEF Inv, HeldAll
  <2> QED
    BY <1>1, <2>1, <2>2, HeldLater
<1> QED
  BY <1>1, <1>3, <1>6, <1>7, <1>8, <1>9 DEF Inv

LEMMA ProceedKeepsInv ==
    ASSUME Inv, NEW r \in Requests, Proceed(r)
    PROVE  Inv'
<1> DEFINE q == requests[r]
<1>0. /\ q # None => q \in Request /\ Held(q, number, devices)
      /\ number \in 1 .. MaxNumber /\ MaxNumber \in Nat /\ floor \in Nat /\ floor <= number
      /\ devices \in Rows
      /\ user # None => user \in User /\ user.stamp > floor
      /\ tokens \subseteq Token
      /\ disturbed \in BOOLEAN
      /\ TypeOK
  BY BoundAssumption DEF Inv, TypeOK, HeldAll, StampLater, Rows
<1>1. ASSUME Draw PROVE number' \in 1 .. MaxNumber /\ number' = number + 1
  BY <1>0, <1>1 DEF Draw
<1>a. CASE FindDevice(r)
  <2> DEFINE pc == IF devices[q.device] = NoDevice THEN "insert" ELSE "issue"
  <2>1. [q EXCEPT !.pc = pc] \in Request /\ Held([q EXCEPT !.pc = pc], number, devices)
    BY <1>a, GoToHeld DEF FindDevice, At, OfDevice
  <2> QED
    BY <1>0, <1>a, <2>1, QuietStep DEF FindDevice, GoTo, Continue
<1>b. CASE InsertDevice(r)
  <2> DEFINE p == [q EXCEPT !.pc = "issue"]
  <2>1. p \in Request /\ Held(p, number, devices)
    BY <1>b, GoToHeld DEF InsertDevice, At, OfDevice
  <2>a. q.device \in Devices /\ number' \in 1 .. MaxNumber /\ number' > number
    BY <1>0, <1>1, <1>b DEF InsertDevice, At, Held, OfDevice
  <2>b. devices' = [devices EXCEPT ![q.device] = number']
    BY <1>b DEF InsertDevice
  <2>2. devices' \in Rows /\ \A d \in Devices : devices'[d] = devices[d] \/ devices'[d] > number
    BY <1>0, <2>a, <2>b DEF Rows
  <2>3. requests' = [requests EXCEPT ![r] = p] /\ UNCHANGED <<user, tokens, floor, disturbed>>
    BY <1>b DEF InsertDevice, GoTo, Continue
  <2> HIDE DEF p
  <2>4. number' \in Nat /\ number \in Nat /\ number <= number'
    BY <1>0, <1>1, <1>b DEF InsertDevice
  <2>5. Held(p, number', devices')
    BY <1>0, <2>1, <2>2, <2>4, HeldLater
  <2>6. TypeOK'
    BY <1>0, <1>1, <1>b, <2>1, <2>2, <2>3 DEF InsertDevice, TypeOK, Rows
  <2>7. StampLater'
    BY <1>0, <2>3 DEF StampLater
  <2> QED
    BY <2>1, <2>2, <2>3, <2>4, <2>5, <2>6, <2>7, RequestStep
<1>c. CASE InsertConflict(r) \/ TwoFactorRefuses(r) \/ RefreshRefused(r)
  BY <1>0, <1>c, QuietStep DEF InsertConflict, TwoFactorRefuses, RefreshRefused, Done, Continue
<1>e. CASE Issue(r) \/ RefreshIssue(r)
  <2>1. q \in Request /\ q.device \in Devices /\ q.stamp \in Nat
    BY <1>0, <1>e DEF Issue, RefreshIssue, At, Request, Held, OfDevice
  <2>2. tokens' \subseteq Token
    <3>1. CASE Issue(r)
      BY <1>0, <2>1, <3>1 DEF Issue, Token
    <3>2. CASE RefreshIssue(r)
      BY <1>0, <2>1, <3>2, StampDrawn DEF RefreshIssue, Token
    <3> QED
      BY <1>e, <3>1, <3>2
  <2> QED
    BY <1>0, <1>e, <2>2, QuietStep DEF Issue, RefreshIssue, Done, Continue
<1>f. CASE WritePassword(r)
  <2> DEFINE v == [user EXCEPT !.stamp = number']
             u == [user EXCEPT !.stamp = number', !.exception = stampException(q.stamp)]
  <2>1. q.stamp \in Nat /\ number' \in Nat /\ number' > floor
    BY <1>0, <1>1, <1>f DEF WritePassword, At, Request
  <2>2. user' = (IF user = None THEN None ELSE u)
    BY <1>f DEF WritePassword, UpdateUser
  <2>3. user # None => u \in User /\ u.stamp = number'
    <3> SUFFICES ASSUME user # None PROVE u \in User /\ u.stamp = number'
      OBVIOUS
    <3>1. v \in User /\ v.stamp = number'
      BY <1>0, <2>1, StampedUser
    <3>2. u = [v EXCEPT !.exception = stampException(q.stamp)]
      BY <1>0 DEF User
    <3> HIDE DEF v, u
    <3> QED
      BY <2>1, <3>1, <3>2, ExceptedUser
  <2> HIDE DEF u
  <2>4. user' \in User \cup {None} /\ (user' # None => user'.stamp > floor)
    BY <2>1, <2>2, <2>3
  <2>5. /\ number' \in 1 .. MaxNumber /\ number <= number'
        /\ requests' = [requests EXCEPT ![r] = None]
        /\ UNCHANGED <<devices, tokens, disturbed, floor>>
    BY <1>0, <1>1, <1>f DEF WritePassword, Done, Continue
  <2> QED
    BY <2>4, <2>5, UserStep
<1>g. CASE WriteInitialPassword(r)
  <2> DEFINE u == [user EXCEPT !.exception = stampException(q.stamp)]
  <2>1. q.stamp \in Nat
    BY <1>0, <1>g DEF WriteInitialPassword, At, Request
  <2>2. user' = (IF user = None THEN None ELSE u)
    BY <1>g DEF WriteInitialPassword, UpdateUser
  <2>3. user # None => u \in User /\ u.stamp > floor
    BY <1>0, <2>1, ExceptedUser
  <2>4. /\ number' \in 1 .. MaxNumber /\ number <= number'
        /\ requests' = [requests EXCEPT ![r] = None]
        /\ UNCHANGED <<devices, tokens, disturbed, floor>>
    BY <1>0, <1>g DEF WriteInitialPassword, Done, Continue
  <2> HIDE DEF u
  <2>5. user' \in User \cup {None} /\ (user' # None => user'.stamp > floor)
    BY <2>2, <2>3
  <2> QED
    BY <2>4, <2>5, UserStep
<1>h. CASE WriteStamp(r)
  <2> DEFINE u == [user EXCEPT !.stamp = number']
  <2>1. number' \in Nat /\ number' > floor
    BY <1>0, <1>1, <1>h DEF WriteStamp
  <2>2. user' = (IF user = None THEN None ELSE u)
    BY <1>h DEF WriteStamp, UpdateUser
  <2>3. user # None => u \in User /\ u.stamp = number'
    BY <1>0, <2>1, StampedUser
  <2> HIDE DEF u
  <2>4. user' \in User \cup {None} /\ (user' # None => user'.stamp > floor)
    BY <2>1, <2>2, <2>3
  <2>5. /\ number' \in 1 .. MaxNumber /\ number <= number'
        /\ requests' = [requests EXCEPT ![r] = None]
        /\ UNCHANGED <<devices, tokens, disturbed, floor>>
    BY <1>0, <1>1, <1>h DEF WriteStamp, Done, Continue
  <2> QED
    BY <2>4, <2>5, UserStep
<1>i. CASE DeleteDevice(r) \/ DeleteAccount(r)
  <2>1. devices' \in Rows
        /\ \A d \in Devices : devices'[d] = devices[d] \/ devices'[d] = NoDevice
    BY <1>0, <1>i DEF DeleteDevice, DeleteAccount, Rows, NoDevice
  <2>2. user' \in {user, None} /\ requests' = [requests EXCEPT ![r] = None]
        /\ UNCHANGED <<tokens, number, floor, disturbed>>
    BY <1>i DEF DeleteDevice, DeleteAccount, Done, Continue
  <2>3. TypeOK'
    BY <1>0, <2>1, <2>2 DEF TypeOK, Rows
  <2>4. StampLater'
    BY <1>0, <2>2 DEF StampLater
  <2>5. floor' = floor /\ number <= number'
    BY <1>0, <2>2
  <2> QED
    BY <2>1, <2>2, <2>3, <2>4, <2>5, RequestStep
<1>j. CASE DeleteDevices(r)
  <2> DEFINE p == [q EXCEPT !.pc = "rotate"]
  <2>1. devices' = [d \in Devices |-> NoDevice] /\ devices' \in Rows
    BY <1>0, <1>j DEF DeleteDevices, Rows, NoDevice
  <2>2. requests' = [requests EXCEPT ![r] = p] /\ UNCHANGED <<user, tokens, number, floor, disturbed>>
    BY <1>j DEF DeleteDevices, GoTo, Continue
  <2>3. q \in Request /\ Held(q, number, devices)
    BY <1>0, <1>j DEF DeleteDevices, At
  <2>4. p \in Request /\ p.pc = "rotate" /\ p.number = q.number
    BY <2>3 DEF Request
  <2> HIDE DEF p
  <2>5. Held(p, number', devices')
    BY <2>1, <2>2, <2>3, <2>4 DEF Held, OfDevice, Later
  <2>6. TypeOK'
    BY <1>0, <2>1, <2>2, <2>4 DEF TypeOK, Rows
  <2>7. StampLater'
    BY <1>0, <2>2 DEF StampLater
  <2>8. floor' = floor /\ number <= number'
    BY <1>0, <2>2
  <2>9. \A d \in Devices : devices'[d] = NoDevice
    BY <2>1
  <2> QED
    BY <2>2, <2>4, <2>5, <2>6, <2>7, <2>8, <2>9, RequestStep
<1>k. CASE RotateStamp(r)
  BY <1>k, RotateKeepsInv
<1>l. CASE Fail(r)
  BY <1>0, <1>l, QuietStep DEF Fail
<1> QED
  BY <1>a, <1>b, <1>c, <1>e, <1>f, <1>g, <1>h, <1>i, <1>j, <1>k, <1>l DEF Proceed

LEMMA NextKeepsInv ==
    ASSUME Inv, [Next]_vars
    PROVE  Inv'
<1>1. CASE UNCHANGED vars
  BY <1>1 DEF vars, Inv, TypeOK, StampLater, HeldAll
<1>2. CASE Tick
  <2> DEFINE u == [user EXCEPT !.exception.left = @ - 1]
  <2>1. user \in User /\ user.exception.left \in 1 .. ExceptionTime /\ user # None
    BY <1>2, BoundAssumption DEF Tick, Inv, TypeOK, User
  <2>2. u \in User /\ u.stamp = user.stamp
    BY <2>1, BoundAssumption DEF User
  <2>3. user' = u /\ UNCHANGED <<devices, tokens, number, floor, disturbed, requests>>
    BY <1>2 DEF Tick
  <2> HIDE DEF u
  <2> QED
    BY <2>1, <2>2, <2>3 DEF Inv, TypeOK, StampLater, HeldAll
<1>3. CASE AdminEnable
  <2> DEFINE u == [user EXCEPT !.enabled = TRUE]
  <2>1. user \in User /\ user # None
    BY <1>3 DEF AdminEnable, Inv, TypeOK
  <2>2. u \in User /\ u.stamp = user.stamp
    BY <2>1 DEF User
  <2>3. user' = u /\ disturbed' \in BOOLEAN
        /\ UNCHANGED <<devices, tokens, number, floor, requests>>
    BY <1>3 DEF AdminEnable, Inv, TypeOK
  <2> HIDE DEF u
  <2> QED
    BY <2>1, <2>2, <2>3 DEF Inv, TypeOK, StampLater, HeldAll
<1>4. ASSUME NEW r \in Requests, Arrive(r) \/ Proceed(r) PROVE Inv'
  BY <1>4, ArriveKeepsInv, ProceedKeepsInv
<1> QED
  BY <1>1, <1>2, <1>3, <1>4 DEF Next

LEMMA InitInv == Init => Inv
<1> SUFFICES ASSUME Init PROVE Inv
  OBVIOUS
<1>1. user \in User /\ user.stamp = 1
  BY BoundAssumption DEF Init, User
<1>2. 1 \in 1 .. MaxNumber /\ 0 \in 0 .. MaxNumber
  BY BoundAssumption
<1>3. TypeOK
  BY <1>1, <1>2 DEF Init, TypeOK, NoDevice
<1> QED
  BY <1>1, <1>3 DEF Init, Inv, StampLater, Later, HeldAll, NoDevice

----------------------------------------------------------------------------
\* No later stamp equals that of a token from before.
LEMMA InvDeauthorizes == Inv => DeauthorizedStaysOut
<1> SUFFICES ASSUME Inv PROVE DeauthorizedStaysOut
  OBVIOUS
<1>1. ASSUME NEW t \in tokens, t.stamp <= floor PROVE ~requireAuth(t, "other")
  <2>1. t.stamp \in Nat /\ floor \in Nat
    BY BoundAssumption DEF Inv, TypeOK, Token
  <2>2. user # None => user.stamp \in Nat /\ user.stamp > floor
    BY DEF Inv, TypeOK, User, StampLater
  <2> QED
    BY <1>1, <2>1, <2>2 DEF requireAuth
<1> QED
  BY <1>1 DEF Inv, Later, DeauthorizedStaysOut

\* The columns of the account and what each request holds are what the code
\* keeps in them.
THEOREM SessionsTypeCorrect == Spec => []TypeOK
<1>1. Inv => TypeOK
  BY DEF Inv
<1> QED
  BY <1>1, InitInv, NextKeepsInv, PTL DEF Spec

\* Whatever is in flight beside it, a deauthorization ends every session handed
\* out before it began.
THEOREM DeauthorizationEndsSessions == Spec => []DeauthorizedStaysOut
BY InvDeauthorizes, InitInv, NextKeepsInv, PTL DEF Spec

----------------------------------------------------------------------------
(***************************************************************************)
(* Undisturbed: no two requests have overlapped, and none has failed       *)
(***************************************************************************)
Enabled == user # None => user.enabled
NoDevices == \A d \in Devices : devices[d] = NoDevice

\* A login goes on only for an account that was enabled when it was read and
\* still is, and a deauthorization that has begun has deleted every device.
Undisturbed ==
    /\ \A r, s \in Active : r = s
    /\ ~Enabled => NoDevices
    /\ \A r \in Active : /\ requests[r].pc \in {"find", "insert"} => Enabled
                         /\ requests[r].pc = "rotate" => NoDevices
CalmInv == Inv /\ (disturbed \/ Undisturbed)

\* A request that begins beside nothing.
LEMMA ArriveCalm ==
    ASSUME CalmInv, NEW r \in Requests, Arrive(r), ~disturbed'
    PROVE  Undisturbed'
<1>1. PICK q :
        /\ Begin(r, q) /\ q # None
        /\ UNCHANGED <<user, devices>>
        /\ q.pc # "rotate"
        /\ q.pc \in {"find", "insert"} => Enabled
  <2>1. ASSUME NEW pc \in {"find", "refresh", "password", "setPassword",
                           "stamp", "device", "delete"},
               NEW d \in Devices \cup {None}, NEW n \in Nat,
               pc \in OfDevice => d \in Devices
        PROVE  /\ NewRequest(pc, d, n) # None
               /\ NewRequest(pc, d, n).pc = pc
    BY <2>1, NewIsRequest, NoneAssumption DEF CalmInv, NewRequest
  <2>2. ASSUME NEW b \in BOOLEAN
        PROVE  Deauthorization(b) # None /\ Deauthorization(b).pc = "devices"
    BY DeauthorizationIsRequest, NoneAssumption
       DEF CalmInv, Deauthorization, NewRequest
  <2>3. user # None => user.stamp \in Nat
    BY StampDrawn DEF CalmInv
  <2>4. CASE ResetByOthers(r)
    BY <2>1, <2>4 DEF ResetByOthers, OfDevice
  <2>5. ASSUME NEW b \in BOOLEAN, AdminDeauthorize(r, b)
        PROVE  \E q : /\ Begin(r, q) /\ q # None
                      /\ UNCHANGED <<user, devices>>
                      /\ q.pc # "rotate"
                      /\ q.pc \in {"find", "insert"} => Enabled
    BY <2>2, <2>5 DEF AdminDeauthorize
  <2>6. ASSUME NEW d \in Devices,
               LoginRight(r, d) \/ ApiKeyLogin(r, d) \/ RefreshRead(r, d)
        PROVE  \E q : /\ Begin(r, q) /\ q # None
                      /\ UNCHANGED <<user, devices>>
                      /\ q.pc # "rotate"
                      /\ q.pc \in {"find", "insert"} => Enabled
    BY <2>1, <2>3, <2>6 DEF LoginRight, ApiKeyLogin, RefreshRead, Enabled, OfDevice
  <2>7. ASSUME NEW t \in tokens, KeyRotation(r, t) \/ DeauthorizeSelf(r, t)
        PROVE  \E q : /\ Begin(r, q) /\ q # None
                      /\ UNCHANGED <<user, devices>>
                      /\ q.pc # "rotate"
                      /\ q.pc \in {"find", "insert"} => Enabled
    BY <2>1, <2>2, <2>7 DEF KeyRotation, DeauthorizeSelf, OfDevice
  <2>8. ASSUME NEW t \in tokens, NEW pc \in {"password", "setPassword"},
               PasswordRoute(r, t, pc)
        PROVE  \E q : /\ Begin(r, q) /\ q # None
                      /\ UNCHANGED <<user, devices>>
                      /\ q.pc # "rotate"
                      /\ q.pc \in {"find", "insert"} => Enabled
    BY <2>1, <2>3, <2>8 DEF PasswordRoute, requireAuth, OfDevice
  <2>9. ASSUME NEW t \in tokens, NEW pc \in {"stamp", "delete", "device"},
               NEW d \in Devices \cup {None}, pc = "device" => d \in Devices,
               Authenticated(r, t, pc, d)
        PROVE  \E q : /\ Begin(r, q) /\ q # None
                      /\ UNCHANGED <<user, devices>>
                      /\ q.pc # "rotate"
                      /\ q.pc \in {"find", "insert"} => Enabled
    BY <2>1, <2>9 DEF Authenticated, OfDevice
  <2> QED
    BY <2>4, <2>5, <2>6, <2>7, <2>8, <2>9 DEF Arrive
<1>2. /\ disturbed = FALSE /\ Active = {} /\ Undisturbed
  BY <1>1 DEF Begin, CalmInv, Inv, TypeOK
<1>3. Active' = {r} /\ requests'[r] = q
  BY <1>1, <1>2 DEF Begin, Active, CalmInv, Inv, TypeOK
<1>4. Enabled' = Enabled /\ NoDevices' = NoDevices
  BY <1>1 DEF Enabled, NoDevices
<1> QED
  BY <1>1, <1>2, <1>3, <1>4 DEF Undisturbed

\* A request that goes on beside nothing.
LEMMA ProceedCalm ==
    ASSUME CalmInv, NEW r \in Requests, Proceed(r), ~disturbed'
    PROVE  Undisturbed'
<1> DEFINE q == requests[r]
<1>1. /\ q # None /\ q \in Request
      /\ requests \in [Requests -> Request \cup {None}]
      /\ devices \in [Devices -> 0 .. MaxNumber]
      /\ user # None => user \in User
      /\ Held(q, number, devices)
  BY DEF Proceed, FindDevice, InsertDevice, InsertConflict, Issue, RefreshIssue,
         TwoFactorRefuses, RefreshRefused, WritePassword, WriteInitialPassword,
         WriteStamp, DeleteDevice, DeleteDevices, RotateStamp, DeleteAccount,
         Fail, At, CalmInv, Inv, TypeOK, HeldAll
<1>2. PICK p : requests' = [requests EXCEPT ![r] = p] /\ ~disturbed /\ ~Fail(r)
  BY DEF Proceed, FindDevice, InsertDevice, InsertConflict, Issue, RefreshIssue,
         TwoFactorRefuses, RefreshRefused, WritePassword, WriteInitialPassword,
         WriteStamp, DeleteDevice, DeleteDevices, RotateStamp, DeleteAccount,
         Fail, GoTo, Done, Continue
<1>3. Undisturbed /\ Active = {r} /\ Active' \subseteq {r}
  BY <1>1, <1>2 DEF CalmInv, Undisturbed, Active
<1>4. CASE FindDevice(r)
  <2>1. /\ q.pc = "find" /\ UNCHANGED <<user, devices>>
        /\ requests'[r].pc \in {"insert", "issue"}
    BY <1>1, <1>4 DEF FindDevice, At, GoTo, Continue, Request
  <2> QED
    BY <1>3, <2>1 DEF Undisturbed, Enabled, NoDevices
<1>5. CASE InsertDevice(r)
  <2>1. q.pc = "insert" /\ user' = user /\ requests'[r].pc = "issue"
    BY <1>1, <1>5 DEF InsertDevice, At, GoTo, Continue, Request
  <2> QED
    BY <1>3, <2>1 DEF Undisturbed, Enabled
<1>6. CASE \/ InsertConflict(r) \/ Issue(r) \/ TwoFactorRefuses(r)
           \/ RefreshIssue(r) \/ RefreshRefused(r)
  <2>1. UNCHANGED <<user, devices>> /\ Active' = {}
    BY <1>1, <1>3, <1>6
       DEF InsertConflict, Issue, TwoFactorRefuses, RefreshIssue,
           RefreshRefused, Done, Continue, Active
  <2> QED
    BY <1>3, <2>1 DEF Undisturbed, Enabled, NoDevices
<1>7. CASE \/ WritePassword(r) \/ WriteInitialPassword(r) \/ WriteStamp(r)
  <2>1. UNCHANGED devices /\ Active' = {}
    BY <1>1, <1>3, <1>7
       DEF WritePassword, WriteInitialPassword, WriteStamp, Done, Continue,
           Active
  <2>2. Enabled => Enabled'
    BY <1>1, <1>7, NoneAssumption
       DEF WritePassword, WriteInitialPassword, WriteStamp, UpdateUser,
           Enabled, User
  <2> QED
    BY <1>3, <2>1, <2>2 DEF Undisturbed, NoDevices
<1>8. CASE DeleteDevice(r)
  <2>1. /\ user' = user /\ Active' = {}
        /\ NoDevices => NoDevices'
    BY <1>1, <1>3, <1>8 DEF DeleteDevice, Done, Continue, Active, NoDevices
  <2> QED
    BY <1>3, <2>1 DEF Undisturbed, Enabled
<1>9. CASE DeleteDevices(r)
  <2>1. NoDevices' /\ user' = user /\ requests'[r].pc = "rotate"
    BY <1>1, <1>9 DEF DeleteDevices, GoTo, Continue, NoDevices, Request
  <2> QED
    BY <1>3, <2>1 DEF Undisturbed
<1>10. CASE RotateStamp(r)
  <2>1. q.pc = "rotate" /\ UNCHANGED devices /\ Active' = {}
    BY <1>1, <1>3, <1>10 DEF RotateStamp, At, Done, Continue, Active
  <2> QED
    BY <1>3, <2>1 DEF Undisturbed, NoDevices
<1>11. CASE DeleteAccount(r)
  <2>1. Enabled' /\ Active' = {}
    BY <1>1, <1>3, <1>11 DEF DeleteAccount, Done, Continue, Active, Enabled
  <2> QED
    BY <2>1 DEF Undisturbed
<1> QED
  BY <1>2, <1>4, <1>5, <1>6, <1>7, <1>8, <1>9, <1>10, <1>11 DEF Proceed

\* While nothing overlaps or fails, the invariant stays.
LEMMA CalmStep ==
    ASSUME CalmInv, [Next]_vars
    PROVE  CalmInv'
<1>1. Inv'
  BY NextKeepsInv DEF CalmInv
<1>2. ASSUME ~disturbed'
      PROVE  Undisturbed'
  <2>1. CASE UNCHANGED vars
    BY <1>2, <2>1
       DEF CalmInv, Undisturbed, vars, Active, Enabled, NoDevices
  <2>2. CASE Tick
    <3>1. /\ UNCHANGED <<devices, disturbed, requests>>
          /\ user # None /\ user \in User
          /\ user' = [user EXCEPT !.exception.left = @ - 1]
      BY <2>2 DEF Tick, CalmInv, Inv, TypeOK
    <3>2. user'.enabled = user.enabled
      BY <3>1 DEF User
    <3>3. Enabled => Enabled'
      BY <3>1, <3>2 DEF Enabled
    <3> QED
      BY <1>2, <3>1, <3>3 DEF CalmInv, Undisturbed, Active, NoDevices
  <2>3. CASE AdminEnable
    <3>1. /\ UNCHANGED <<devices, requests>> /\ Enabled'
          /\ disturbed' = (disturbed \/ Active # {})
      BY <2>3, NoneAssumption DEF AdminEnable, Enabled, CalmInv, Inv, TypeOK, User
    <3>2. Active' = {}
      BY <1>2, <3>1 DEF Active
    <3> QED
      BY <3>1, <3>2 DEF Undisturbed
  <2>4. ASSUME NEW r \in Requests, Arrive(r) \/ Proceed(r)
        PROVE  Undisturbed'
    BY <1>2, <2>4, ArriveCalm, ProceedCalm
  <2> QED
    BY <2>1, <2>2, <2>3, <2>4 DEF Next
<1> QED
  BY <1>1, <1>2 DEF CalmInv

\* POST /admin/users/:uuid/disable deletes the devices before it clears the
\* flag, and a login looks at the flag before it inserts one: unless the two
\* overlap or the second statement is never reached, a disabled account has no
\* device, hence no session that comes back once it is enabled again.
THEOREM DisabledAccountHasNoSession == Spec => []DisabledHasNoSession
<1>1. Init => CalmInv
  <2>1. Init => Undisturbed
    BY DEF Init, Undisturbed, Active, Enabled
  <2> QED
    BY <2>1, InitInv DEF CalmInv
<1>2. CalmInv => DisabledHasNoSession
  BY DEF CalmInv, Undisturbed, Enabled, NoDevices, DisabledHasNoSession
<1> QED
  BY <1>1, <1>2, CalmStep, PTL DEF Spec
=============================================================================
