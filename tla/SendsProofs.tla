---------------------------- MODULE SendsProofs ----------------------------
(***************************************************************************)
(* Sends under any number of overlapping requests: a Send never counts     *)
(* more accesses than it has served, and none is kept for longer than the  *)
(* code allows, although rows read long ago are written back whole.  With  *)
(* one request or the job at a time, and statements that may fail: limits  *)
(* hold, files keep their rows, and files go only when they should.        *)
(***************************************************************************)
EXTENDS Sends, TLAPS

\* A row that is true to the accesses served, n, and to the time, c.
Good(row, n, c) == /\ row.accessCount <= n
                   /\ row.deletionDate <= c + Horizon

\* The handlers that are about to write a row hold one.
Holding == {"insert", "edit", "removePassword", "count"}

\* What a request holds of a Send served n times: rows of the past were good
\* then, and serving and time only go on.
HeldGood(q, n, c) == /\ q.pc \in Holding => q.row # None
                     /\ q.row # None => Good(q.row, n, c)

GoodRows == \A s \in Uuids : sends[s] # None => Good(sends[s], served[s], clock)
GoodHeld == \A r \in Requests : requests[r] # None =>
              HeldGood(requests[r], served[requests[r].send], clock)
Inv == TypeOK /\ GoodRows /\ GoodHeld

----------------------------------------------------------------------------
\* A good row stays good while accesses are served and time passes.
LEMMA GoodLater ==
    ASSUME NEW row \in Row, NEW n \in Nat, NEW c \in Nat, NEW m \in Nat,
           NEW d \in Nat, Good(row, n, c), n <= m, c <= d
    PROVE  Good(row, m, d)
BY BoundAssumption DEF Good, Row

\* A step that only gives a request something good to hold.
LEMMA RequestStep ==
    ASSUME Inv, NEW r \in Requests, NEW q \in Request \cup {None},
           q # None => HeldGood(q, served[q.send], clock),
           requests' = [requests EXCEPT ![r] = q],
           UNCHANGED <<env, sends, blobs, served, job>>
    PROVE  Inv'
<1>1. TypeOK'
  BY DEF Inv, TypeOK, env
<1>2. GoodRows'
  BY DEF Inv, GoodRows, env
<1>3. GoodHeld'
  BY DEF Inv, GoodHeld, TypeOK, env
<1> QED
  BY <1>1, <1>2, <1>3 DEF Inv

\* An inserted or updated row, written by a request that then holds q.
LEMMA WriteStep ==
    ASSUME Inv, NEW r \in Requests, NEW q \in Request \cup {None},
           NEW t \in [Uuids -> Row \cup {None}],
           q # None => HeldGood(q, served[q.send], clock),
           \A s \in Uuids : t[s] # None => Good(t[s], served[s], clock),
           sends' = t,
           requests' = [requests EXCEPT ![r] = q],
           UNCHANGED <<env, blobs, served, job>>
    PROVE  Inv'
<1>1. TypeOK'
  BY DEF Inv, TypeOK, env
<1>2. GoodRows'
  BY DEF Inv, GoodRows, env
<1>3. GoodHeld'
  BY DEF Inv, GoodHeld, TypeOK, env
<1> QED
  BY <1>1, <1>2, <1>3 DEF Inv

\* A table in which rows may have disappeared and nothing else has changed.
LEMMA RemovalStep ==
    ASSUME Inv, sends' \in [Uuids -> Row \cup {None}],
           \A s \in Uuids : sends'[s] \in {None, sends[s]},
           users' \subseteq Users, blobs' \subseteq Uuids,
           job' \in Job \cup {None},
           UNCHANGED <<restricted, clock, served, requests>>
    PROVE  Inv'
<1>1. TypeOK'
  BY DEF Inv, TypeOK
<1>2. GoodRows'
  BY DEF Inv, GoodRows
<1>3. GoodHeld'
  BY DEF Inv, GoodHeld
<1> QED
  BY <1>1, <1>2, <1>3 DEF Inv

----------------------------------------------------------------------------
\* What a client may put into a new Send is a good row that nobody accessed.
LEMMA NewSendGood ==
    ASSUME NEW u \in Users, NEW t \in SendTypes, NEW d \in SendData,
           NEW h \in BOOLEAN, NEW n \in Nat, DateAccepted(d)
    PROVE  /\ newSendFromData(u, t, d, h) \in Row
           /\ Good(newSendFromData(u, t, d, h), n, clock)
BY DEF newSendFromData, Row, Good, SendData, DateAccepted

\* An edit takes the count from the row it has read and an accepted date.
LEMMA EditedGood ==
    ASSUME NEW row \in Row, NEW d \in SendData, NEW n \in Nat,
           Good(row, n, clock), DateAccepted(d)
    PROVE  Edited(row, d) \in Row /\ Good(Edited(row, d), n, clock)
<1> DEFINE h == row.hasFile /\ row.atype = File
           p == IF d.password = None THEN row.passwordHash ELSE d.password
<1>1. h \in BOOLEAN
  OBVIOUS
<1>2. p \in Passwords \cup {None}
  BY DEF Row, SendData
<1>3. Edited(row, d) =
        [row EXCEPT !.hasFile = h, !.maxAccessCount = d.maxAccessCount,
                    !.passwordHash = p, !.expirationDate = d.expirationDate,
                    !.deletionDate = d.deletionDate, !.disabled = d.disabled]
  BY DEF Edited, Row
<1> HIDE DEF h, p
<1> QED
  BY <1>1, <1>2, <1>3 DEF Row, SendData, Good, DateAccepted

\* Creation and upload.
LEMMA CreateSteps ==
    ASSUME Inv, NEW r \in Requests,
           \/ \E u \in Users, s \in Uuids, t \in SendTypes, d \in Inputs,
                o \in BOOLEAN : CreateCheck(r, u, s, t, d, o)
           \/ CreateInsert(r)
           \/ \E u \in Users, s \in Uuids : UploadRead(r, u, s)
           \/ UploadPut(r)
    PROVE  Inv'
<1>1. ASSUME NEW u \in Users, NEW s \in Uuids, NEW t \in SendTypes,
             NEW d \in Inputs, NEW o \in BOOLEAN, CreateCheck(r, u, s, t, d, o)
      PROVE  Inv'
  <2> DEFINE row == newSendFromData(u, t, d, o \/ t = File)
             q == [pc |-> "insert", user |-> u, send |-> s, row |-> row,
                   oneShot |-> o]
  <2>1. row \in Row /\ Good(row, 0, clock)
    BY <1>1, NewSendGood, InputAssumption DEF CreateCheck
  <2> HIDE DEF row
  <2>2. q \in Request /\ requests' = [requests EXCEPT ![r] = q]
    <3>1. q \in Request
      BY <2>1 DEF Request
    <3>2. q = [NewRequest("insert", u, s, row) EXCEPT !.oneShot = o]
      BY DEF NewRequest
    <3> QED
      BY <1>1, <3>1, <3>2 DEF CreateCheck, Begin, row
  <2>3. HeldGood(q, 0, clock)
    BY <2>1, NoneAssumption DEF HeldGood, Holding
  <2>4. /\ \A x \in Requests : requests[x] # None => requests[x].send # s
        /\ sends[s] = None
    BY <1>1 DEF CreateCheck, Fresh, Active
  <2> HIDE DEF q
  <2>5. q # None /\ q.send = s
    BY <2>2, NoneAssumption DEF q
  <2>6. served' = [served EXCEPT ![s] = 0] /\ UNCHANGED <<env, sends, blobs, job>>
    BY <1>1 DEF CreateCheck
  <2>7. TypeOK'
    BY <2>2, <2>6, BoundAssumption DEF Inv, TypeOK, env
  <2>8. GoodRows'
    BY <2>4, <2>6 DEF Inv, GoodRows, TypeOK, env
  <2>9. GoodHeld'
    BY <2>2, <2>3, <2>4, <2>5, <2>6 DEF Inv, GoodHeld, TypeOK, env, Request
  <2> QED
    BY <2>7, <2>8, <2>9 DEF Inv
<1>2. CASE CreateInsert(r)
  <2> DEFINE q == requests[r]
             t == [sends EXCEPT ![q.send] = q.row]
             next == IF q.oneShot THEN [q EXCEPT !.pc = "put"] ELSE None
  <2>1. q \in Request /\ q.row \in Row /\ Good(q.row, served[q.send], clock)
    BY <1>2 DEF CreateInsert, At, Inv, TypeOK, GoodHeld, HeldGood, Holding, Request
  <2>2. /\ t \in [Uuids -> Row \cup {None}]
        /\ \A s \in Uuids : t[s] # None => Good(t[s], served[s], clock)
    BY <2>1 DEF Inv, TypeOK, GoodRows, Request
  <2>3. /\ next \in Request \cup {None}
        /\ next # None => HeldGood(next, served[next.send], clock)
    BY <2>1 DEF Request, HeldGood, Holding
  <2>4. /\ sends' = t /\ requests' = [requests EXCEPT ![r] = next]
        /\ UNCHANGED <<env, blobs, served, job>>
    BY <1>2, <2>1 DEF CreateInsert, GoTo, Done, Inv, TypeOK
  <2> HIDE DEF q, t, next
  <2> QED
    BY <2>2, <2>3, <2>4, WriteStep
<1>3. ASSUME NEW u \in Users, NEW s \in Uuids, UploadRead(r, u, s)
      PROVE  Inv'
  <2> DEFINE q == NewRequest("put", u, s, None)
  <2>1. q \in Request /\ HeldGood(q, served[q.send], clock)
    BY DEF NewRequest, Request, HeldGood, Holding
  <2>2. /\ requests' = [requests EXCEPT ![r] = q]
        /\ UNCHANGED <<env, sends, blobs, served, job>>
    BY <1>3 DEF UploadRead, Begin
  <2> HIDE DEF q
  <2> QED
    BY <2>1, <2>2, RequestStep
<1>4. CASE UploadPut(r)
  <2>1. requests[r] \in Request
    BY <1>4 DEF UploadPut, At, Inv, TypeOK
  <2>2. TypeOK'
    BY <1>4, <2>1 DEF UploadPut, Done, Inv, TypeOK, env, Request
  <2>3. GoodRows' /\ GoodHeld'
    BY <1>4 DEF UploadPut, Done, Inv, TypeOK, GoodRows, GoodHeld, env
  <2> QED
    BY <2>2, <2>3 DEF Inv
<1> QED
  BY <1>1, <1>2, <1>3, <1>4

\* An access holds a count that was true when it was read; the access it
\* serves makes room for the one it adds.
LEMMA AccessSteps ==
    ASSUME Inv, NEW r \in Requests,
           \/ \E s \in Uuids, p \in Passwords \cup {None} : AccessRead(r, s, p)
           \/ AccessCount(r)
    PROVE  Inv'
<1>1. ASSUME NEW s \in Uuids, NEW p \in Passwords \cup {None}, AccessRead(r, s, p)
      PROVE  Inv'
  <2> DEFINE q == NewRequest("count", None, s, sends[s])
  <2>1. sends[s] \in Row /\ sends[s] # None /\ Good(sends[s], served[s], clock)
    BY <1>1 DEF AccessRead, Rows, Inv, TypeOK, GoodRows
  <2>2. q \in Request /\ HeldGood(q, served[q.send], clock)
    BY <2>1 DEF NewRequest, Request, HeldGood, Holding
  <2>3. /\ requests' = [requests EXCEPT ![r] = q]
        /\ UNCHANGED <<env, sends, blobs, served, job>>
    BY <1>1 DEF AccessRead, Begin
  <2> HIDE DEF q
  <2> QED
    BY <2>2, <2>3, RequestStep
<1>2. CASE AccessCount(r)
  <2> DEFINE q == requests[r]
             s == q.send
  <2>1. /\ q \in Request /\ q.row \in Row /\ s \in Uuids
        /\ Good(q.row, served[s], clock)
    BY <1>2 DEF AccessCount, At, Inv, TypeOK, GoodHeld, HeldGood, Holding, Request
  <2>2. /\ served' = [served EXCEPT ![s] = served[s] + 1]
        /\ served[s] < MaxServed
        /\ Done(r)
        /\ UNCHANGED <<env, blobs, job>>
    BY <1>2 DEF AccessCount
  <2>3. sends' = IF sends[s] # None
                 THEN [sends EXCEPT ![s] = [sends[s] EXCEPT
                         !.accessCount = q.row.accessCount + 1]]
                 ELSE sends
    BY <1>2, <2>1 DEF AccessCount, Update, Rows
  <2> HIDE DEF q, s
  <2>4. /\ \A x \in Uuids : served'[x] \in Nat /\ served[x] <= served'[x]
        /\ served' \in [Uuids -> 0 .. MaxServed]
    BY <2>1, <2>2, BoundAssumption DEF Inv, TypeOK
  <2>5. TypeOK'
    BY <2>1, <2>2, <2>3, <2>4 DEF Inv, TypeOK, env, Done, Row
  <2>6. GoodRows'
    <3> SUFFICES ASSUME NEW x \in Uuids, sends'[x] # None
                 PROVE  Good(sends'[x], served'[x], clock)
      BY <2>2 DEF GoodRows, env
    <3>1. CASE x = s
      <4>1. sends[s] # None /\ sends[s] \in Row /\ Good(sends[s], served[s], clock)
        BY <2>1, <2>3, <3>1 DEF Inv, TypeOK, GoodRows
      <4>2. /\ sends'[x].accessCount = q.row.accessCount + 1
            /\ sends'[x].deletionDate = sends[s].deletionDate
        BY <2>1, <2>3, <3>1, <4>1 DEF Inv, TypeOK, Row
      <4> QED
        BY <2>1, <2>2, <3>1, <4>1, <4>2 DEF Good, Row, Inv, TypeOK
    <3>2. CASE x # s
      BY <2>1, <2>2, <2>3, <3>2 DEF Inv, TypeOK, GoodRows
    <3> QED
      BY <3>1, <3>2
  <2>7. GoodHeld'
    <3> SUFFICES ASSUME NEW x \in Requests, requests'[x] # None
                 PROVE  HeldGood(requests'[x], served'[requests'[x].send], clock)
      BY <2>2 DEF GoodHeld, env
    <3>1. requests'[x] = requests[x] /\ requests[x] \in Request
      BY <2>2 DEF Done, Inv, TypeOK
    <3>2. HeldGood(requests[x], served[requests[x].send], clock)
      BY <3>1 DEF Inv, GoodHeld
    <3>3. /\ served[requests[x].send] \in Nat
          /\ served'[requests[x].send] \in Nat
          /\ served[requests[x].send] <= served'[requests[x].send]
      BY <2>4, <3>1 DEF Request, Inv, TypeOK
    <3>4. clock \in Nat
      BY BoundAssumption DEF Inv, TypeOK
    <3> QED
      BY <3>1, <3>2, <3>3, <3>4, GoodLater DEF HeldGood, Request
  <2> QED
    BY <2>5, <2>6, <2>7 DEF Inv
<1> QED
  BY <1>1, <1>2

\* Edit, removal of the password and deletion.
LEMMA ManageSteps ==
    ASSUME Inv, NEW r \in Requests,
           \/ \E u \in Users, s \in Uuids : EditCheck(r, u, s)
           \/ \E d \in Inputs : EditRead(r, d)
           \/ EditRefused(r)
           \/ \E u \in Users, s \in Uuids : RemovePasswordRead(r, u, s)
           \/ WriteRow(r)
           \/ \E u \in Users, s \in Uuids : DeleteRead(r, u, s)
           \/ DeleteBlob(r)
           \/ DeleteRow(r)
           \/ Fail(r)
    PROVE  Inv'
<1>1. ASSUME NEW u \in Users, NEW s \in Uuids, EditCheck(r, u, s)
      PROVE  Inv'
  <2> DEFINE q == NewRequest("load", u, s, None)
  <2>1. q \in Request /\ HeldGood(q, served[q.send], clock)
    BY DEF NewRequest, Request, HeldGood, Holding
  <2>2. /\ requests' = [requests EXCEPT ![r] = q]
        /\ UNCHANGED <<env, sends, blobs, served, job>>
    BY <1>1 DEF EditCheck, Begin
  <2> HIDE DEF q
  <2> QED
    BY <2>1, <2>2, RequestStep
<1>2. ASSUME NEW d \in Inputs, EditRead(r, d)
      PROVE  Inv'
  <2> DEFINE o == requests[r]
             row == Edited(sends[o.send], d)
             q == NewRequest("edit", o.user, o.send, row)
  <2>1. o \in Request /\ o.send \in Uuids /\ o.user \in Users \cup {None}
    BY <1>2 DEF EditRead, At, Inv, TypeOK, Request
  <2>2. sends[o.send] \in Row /\ Good(sends[o.send], served[o.send], clock)
    BY <1>2, <2>1 DEF EditRead, loadOwnSend, Rows, Inv, TypeOK, GoodRows
  <2>3. served[o.send] \in Nat
    BY <2>1 DEF Inv, TypeOK
  <2>4. row \in Row /\ Good(row, served[o.send], clock)
    BY <1>2, <2>2, <2>3, EditedGood, InputAssumption DEF EditRead
  <2>5. /\ requests' = [requests EXCEPT ![r] = q]
        /\ UNCHANGED <<env, sends, blobs, served, job>>
    BY <1>2 DEF EditRead
  <2> HIDE DEF o, row
  <2>6. q \in Request /\ HeldGood(q, served[q.send], clock)
    BY <2>1, <2>4, NoneAssumption DEF NewRequest, Request, HeldGood
  <2> HIDE DEF q
  <2> QED
    BY <2>5, <2>6, RequestStep
<1>3. CASE EditRefused(r) \/ Fail(r)
  BY <1>3, RequestStep DEF EditRefused, Fail, Done
<1>4. ASSUME NEW u \in Users, NEW s \in Uuids, RemovePasswordRead(r, u, s)
      PROVE  Inv'
  <2> DEFINE row == [sends[s] EXCEPT !.passwordHash = None]
             q == NewRequest("removePassword", u, s, row)
  <2>1. sends[s] \in Row /\ Good(sends[s], served[s], clock)
    BY <1>4 DEF RemovePasswordRead, loadOwnSend, Rows, Inv, TypeOK, GoodRows
  <2>2. row \in Row /\ Good(row, served[s], clock)
    BY <2>1 DEF Row, Good
  <2>3. /\ requests' = [requests EXCEPT ![r] = q]
        /\ UNCHANGED <<env, sends, blobs, served, job>>
    BY <1>4 DEF RemovePasswordRead, Begin
  <2> HIDE DEF row
  <2>4. q \in Request /\ HeldGood(q, served[q.send], clock)
    BY <2>2, NoneAssumption DEF NewRequest, Request, HeldGood
  <2> HIDE DEF q
  <2> QED
    BY <2>3, <2>4, RequestStep
<1>5. CASE WriteRow(r)
  <2> DEFINE q == requests[r]
             t == IF q.send \in Rows THEN [sends EXCEPT ![q.send] = q.row]
                                     ELSE sends
  <2>1. q \in Request /\ q.row \in Row /\ Good(q.row, served[q.send], clock)
    BY <1>5 DEF WriteRow, At, Inv, TypeOK, GoodHeld, HeldGood, Holding, Request
  <2>2. /\ t \in [Uuids -> Row \cup {None}]
        /\ \A s \in Uuids : t[s] # None => Good(t[s], served[s], clock)
    BY <2>1 DEF Inv, TypeOK, GoodRows, Request
  <2>3. /\ sends' = t /\ requests' = [requests EXCEPT ![r] = None]
        /\ UNCHANGED <<env, blobs, served, job>>
    BY <1>5 DEF WriteRow, Update, Done
  <2> HIDE DEF q, t
  <2> QED
    BY <2>2, <2>3, WriteStep
<1>6. ASSUME NEW u \in Users, NEW s \in Uuids, DeleteRead(r, u, s)
      PROVE  Inv'
  <2> DEFINE pc == IF sends[s].atype = File /\ sends[s].hasFile THEN "blob" ELSE "row"
             q == NewRequest(pc, u, s, None)
  <2>1. pc \in {"blob", "row"}
    OBVIOUS
  <2>2. /\ requests' = [requests EXCEPT ![r] = q]
        /\ UNCHANGED <<env, sends, blobs, served, job>>
    BY <1>6 DEF DeleteRead, Begin
  <2> HIDE DEF pc
  <2>3. q \in Request /\ HeldGood(q, served[q.send], clock)
    BY <2>1 DEF NewRequest, Request, HeldGood, Holding
  <2> HIDE DEF q
  <2> QED
    BY <2>2, <2>3, RequestStep
<1>7. CASE DeleteBlob(r)
  <2>1. requests[r] \in Request /\ HeldGood(requests[r], served[requests[r].send], clock)
    BY <1>7 DEF DeleteBlob, At, Inv, TypeOK, GoodHeld
  <2>2. TypeOK'
    BY <1>7, <2>1 DEF DeleteBlob, GoTo, Inv, TypeOK, env, Request
  <2>3. GoodRows'
    BY <1>7 DEF DeleteBlob, Inv, GoodRows, env
  <2>4. GoodHeld'
    BY <1>7, <2>1 DEF DeleteBlob, GoTo, Inv, TypeOK, GoodHeld, HeldGood,
                      Holding, env, Request
  <2> QED
    BY <2>2, <2>3, <2>4 DEF Inv
<1>8. CASE DeleteRow(r)
  <2> DEFINE t == [sends EXCEPT ![requests[r].send] = None]
  <2>1. /\ t \in [Uuids -> Row \cup {None}]
        /\ \A s \in Uuids : t[s] # None => Good(t[s], served[s], clock)
    BY DEF Inv, TypeOK, GoodRows
  <2>2. /\ sends' = t /\ requests' = [requests EXCEPT ![r] = None]
        /\ UNCHANGED <<env, blobs, served, job>>
    BY <1>8 DEF DeleteRow, Done
  <2> HIDE DEF t
  <2> QED
    BY <2>1, <2>2, WriteStep
<1> QED
  BY <1>1, <1>2, <1>3, <1>4, <1>5, <1>6, <1>7, <1>8

\* The job, and what goes on around the requests.
LEMMA OtherSteps ==
    ASSUME Inv,
           \/ PurgeRead \/ Purge \/ FailJob \/ Tick \/ Around
    PROVE  Inv'
<1>1. CASE PurgeRead
  BY <1>1, RemovalStep, BoundAssumption DEF PurgeRead, env, Inv, TypeOK, Job
<1>2. CASE PurgeRows
  BY <1>2, RemovalStep DEF PurgeRows, env, Inv, TypeOK
<1>3. ASSUME NEW s \in Uuids, PurgeFile(s)
      PROVE  Inv'
  <2>1. job' \in Job
    BY <1>3 DEF PurgeFile, Inv, TypeOK, Job
  <2> QED
    BY <1>3, <2>1, RemovalStep DEF PurgeFile, env, Inv, TypeOK
<1>4. CASE FailJob
  BY <1>4, RemovalStep DEF FailJob, env, Inv, TypeOK
<1>5. CASE Tick
  <2>1. /\ clock \in Nat /\ clock' \in Nat /\ clock <= clock'
        /\ clock' \in 0 .. MaxTime
    BY <1>5, BoundAssumption DEF Tick, Inv, TypeOK
  <2>2. TypeOK'
    BY <1>5, <2>1 DEF Tick, Inv, TypeOK
  <2>3. GoodRows'
    BY <1>5, <2>1, GoodLater DEF Tick, Inv, TypeOK, GoodRows
  <2>4. GoodHeld'
    BY <1>5, <2>1, GoodLater DEF Tick, Inv, TypeOK, GoodHeld, HeldGood, Request
  <2> QED
    BY <2>2, <2>3, <2>4 DEF Inv
<1>6. ASSUME NEW u \in Users, DeleteAccount(u) \/ Register(u) \/ PolicyChanges(u)
      PROVE  Inv'
  <2>1. CASE DeleteAccount(u)
    BY <2>1, RemovalStep DEF DeleteAccount, Inv, TypeOK
  <2>2. CASE Register(u)
    BY <2>2, RemovalStep DEF Register, Inv, TypeOK
  <2>3. CASE PolicyChanges(u)
    <3>1. restricted' \subseteq Users
      BY <2>3 DEF PolicyChanges, Inv, TypeOK
    <3> QED
      BY <2>3, <3>1 DEF PolicyChanges, Inv, TypeOK, GoodRows, GoodHeld
  <2> QED
    BY <1>6, <2>1, <2>2, <2>3
<1> QED
  BY <1>1, <1>2, <1>3, <1>4, <1>5, <1>6 DEF Purge, Around

\* Every step keeps the invariant.
LEMMA InvStep ==
    ASSUME Inv, [Next]_vars
    PROVE  Inv'
<1>1. CASE UNCHANGED vars
  BY <1>1 DEF vars, Inv, TypeOK, GoodRows, GoodHeld
<1>2. ASSUME NEW r \in Requests, Arrive(r)
      PROVE  Inv'
  BY <1>2, AccessSteps, CreateSteps, ManageSteps DEF Arrive
<1>3. ASSUME NEW r \in Requests, Continue(r)
      PROVE  Inv'
  BY <1>3, AccessSteps, CreateSteps, ManageSteps DEF Continue
<1> QED
  BY <1>1, <1>2, <1>3, OtherSteps DEF Next

\* The invariant holds of every state.
LEMMA InvAlways == Spec => []Inv
<1>1. Init => Inv
  BY BoundAssumption DEF Init, Inv, TypeOK, GoodRows, GoodHeld
<1> QED
  BY <1>1, InvStep, PTL DEF Spec

\* sends.ts: rows read before an await and written back whole, counts
\* included, stay well-formed, and an access still in flight when its Send is
\* deleted stores nothing.
THEOREM SendsTypeCorrect == Spec => []TypeOK
BY InvAlways, PTL DEF Inv

\* The access routes of sends.ts (lines 211-275) never count more accesses of
\* a Send than they serve, however many accesses and edits overlap.
THEOREM CountNeverAhead == Spec => []NeverOvercounts
<1>1. Inv => NeverOvercounts
  BY DEF Inv, GoodRows, Good, NeverOvercounts, Rows
<1> QED
  BY <1>1, InvAlways, PTL

\* The 31 days that newSendFromData and PUT /sends/:id allow hold for every
\* Send stored, whichever of several overlapping writes comes last.
THEOREM LifetimeAlwaysBounded == Spec => []LifetimeBounded
<1>1. Inv => LifetimeBounded
  BY DEF Inv, GoodRows, Good, LifetimeBounded, Rows
<1> QED
  BY <1>1, InvAlways, PTL

----------------------------------------------------------------------------
(***************************************************************************)
(* One request, or the job, at a time                                      *)
(*                                                                         *)
(* Then what a handler has read is still so when it writes, whichever of   *)
(* its statements failed and whatever a request before it left behind.     *)
(***************************************************************************)
\* A row counts what was served, and a file Send names its file.
Exact(row, n) == /\ row.accessCount = n
                 /\ row.atype = File => row.hasFile
ExactRows == \A s \in Uuids : sends[s] # None => Exact(sends[s], served[s])

\* What a request knows of the row it has read, when it goes on.
Current(q, row, n, bl) ==
    /\ q.pc = "insert" => row = None /\ q.send \notin bl /\ Exact(q.row, n)
    /\ q.pc \in {"put", "edit", "removePassword", "count"} => row # None
    /\ q.pc \in {"edit", "removePassword"} =>
         Exact(q.row, n) /\ q.row.atype = row.atype
    /\ q.pc = "count" =>
         /\ q.row = row
         /\ row.maxAccessCount # None => row.accessCount < row.maxAccessCount
    /\ q.pc = "row" => row # None /\ (row.atype = File => q.send \notin bl)
    /\ q.pc = "blob" => row # None

\* What the job knows: the Sends it has left to clear are past their date, and
\* of the files that are, it has cleared the others.
CurrentJob(j, table, bl, c) ==
    /\ j.now <= c
    /\ \A s \in j.left : table[s] # None /\ table[s].deletionDate < j.now
    /\ \A s \in Uuids :
         /\ table[s] # None /\ table[s].deletionDate < j.now
         /\ table[s].atype = File
         => s \in j.left \/ s \notin bl

Alone == /\ \A r, x \in Active : r = x
         /\ job # None => Active = {}
Known == /\ \A r \in Active :
              LET s == requests[r].send
              IN  Current(requests[r], sends[s], served[s], blobs)
         /\ job # None => CurrentJob(job, sends, blobs, clock)
SerialInv == Inv /\ Alone /\ ExactRows /\ Known

\* The steps of a request are the whole of what goes on.
LEMMA GoOn ==
    ASSUME SerialInv, NEW r \in Requests, requests[r] # None,
           NEW q, requests' = [requests EXCEPT ![r] = q],
           UNCHANGED job, ExactRows',
           q # None =>
             Current(q, sends'[q.send], served'[q.send], blobs')
    PROVE  Alone' /\ ExactRows' /\ Known'
<1>1. job = None /\ Active = {r}
  BY DEF SerialInv, Alone, Active
<1>2. Active' \subseteq {r} /\ (q # None => requests'[r] = q)
      /\ (q = None => Active' = {})
  BY <1>1 DEF Active, SerialInv, Inv, TypeOK
<1> QED
  BY <1>1, <1>2 DEF Alone, Known

\* A request arrives where nothing is going on.
LEMMA BeginStep ==
    ASSUME SerialInv, Idle, NEW r \in Requests, NEW q,
           requests' = [requests EXCEPT ![r] = q], q # None,
           UNCHANGED <<env, sends, blobs, job>>,
           \A s \in Rows : served'[s] = served[s],
           Current(q, sends[q.send], served'[q.send], blobs)
    PROVE  Alone' /\ ExactRows' /\ Known'
<1>1. Active' = {r} /\ job' = None /\ requests'[r] = q
  BY DEF Idle, Active, SerialInv, Inv, TypeOK
<1>2. ExactRows'
  BY DEF SerialInv, ExactRows, Rows
<1> QED
  BY <1>1, <1>2 DEF Alone, Known

\* Something else happens where no request is going on.
LEMMA QuietStep ==
    ASSUME SerialInv, Active = {}, UNCHANGED <<served, requests>>,
           \A s \in Uuids : sends'[s] \in {None, sends[s]},
           job' # None => CurrentJob(job', sends', blobs', clock')
    PROVE  Alone' /\ ExactRows' /\ Known'
<1>1. Active' = {}
  BY DEF Active
<1>2. ExactRows'
  BY DEF SerialInv, ExactRows
<1> QED
  BY <1>1, <1>2 DEF Alone, Known

\* The request in flight reads and writes rows that are as it expects.
LEMMA InFlight ==
    ASSUME SerialInv, NEW r \in Requests, requests[r] # None
    PROVE  LET q == requests[r]
               s == q.send
           IN  /\ q \in Request /\ s \in Uuids /\ served[s] \in Nat
               /\ sends[s] \in Row \cup {None}
               /\ sends[s] # None => sends[s] \in Row /\ Exact(sends[s], served[s])
               /\ Current(q, sends[s], served[s], blobs)
               /\ q.pc \in Holding => q.row \in Row
BY DEF SerialInv, Inv, TypeOK, Known, ExactRows, Active, Request, GoodHeld,
       HeldGood

\* A request of the user begins on rows that are exact.
LEMMA ArriveSerial ==
    ASSUME SerialInv, Idle, NEW r \in Requests, Arrive(r)
    PROVE  Alone' /\ ExactRows' /\ Known'
<1>1. ASSUME NEW s \in Uuids, NEW p \in Passwords \cup {None},
             AccessRead(r, s, p)
      PROVE  Alone' /\ ExactRows' /\ Known'
  <2> DEFINE q == NewRequest("count", None, s, sends[s])
  <2>1. /\ requests' = [requests EXCEPT ![r] = q]
        /\ UNCHANGED <<env, sends, blobs, served, job>>
    BY <1>1 DEF AccessRead, Begin
  <2>2. sends[s] # None /\ checkAccessible(sends[s])
    BY <1>1 DEF AccessRead, Rows
  <2>3. /\ q.pc = "count" /\ q.send = s /\ q.row = sends[s]
        /\ q \in Request
    BY <2>2 DEF NewRequest, Request, SerialInv, Inv, TypeOK
  <2> HIDE DEF q
  <2>4. q # None
    BY <2>3, NoneAssumption
  <2>5. Current(q, sends[s], served'[s], blobs)
    BY <2>2, <2>3 DEF Current, checkAccessible
  <2> QED
    BY <2>1, <2>3, <2>4, <2>5, BeginStep
<1>2. ASSUME NEW s \in Uuids, NEW u \in Users, NEW d \in Inputs,
             NEW t \in SendTypes, NEW o \in BOOLEAN,
             CreateCheck(r, u, s, t, d, o)
      PROVE  Alone' /\ ExactRows' /\ Known'
  <2> DEFINE row == newSendFromData(u, t, d, o \/ t = File)
             q == [NewRequest("insert", u, s, row) EXCEPT !.oneShot = o]
  <2>1. /\ requests' = [requests EXCEPT ![r] = q]
        /\ served' = [served EXCEPT ![s] = 0]
        /\ UNCHANGED <<env, sends, blobs, job>>
    BY <1>2 DEF CreateCheck, Begin
  <2>2. /\ row.accessCount = 0
        /\ row.atype = File => row.hasFile
    BY DEF newSendFromData
  <2>3. row \in Row
    BY <1>2, NewSendGood, InputAssumption DEF CreateCheck
  <2> HIDE DEF row
  <2>4. q.pc = "insert" /\ q.send = s /\ q.row = row /\ q \in Request
    BY <2>3 DEF NewRequest, Request
  <2>5. sends[s] = None /\ s \notin blobs
    BY <1>2 DEF CreateCheck, Fresh
  <2> HIDE DEF q
  <2>6. q # None
    BY <2>4, NoneAssumption
  <2>7. served'[s] = 0 /\ \A x \in Rows : served'[x] = served[x]
    BY <2>1, <2>5 DEF SerialInv, Inv, TypeOK, Rows
  <2>8. Current(q, sends[s], served'[s], blobs)
    BY <2>2, <2>4, <2>5, <2>7 DEF Current, Exact
  <2> QED
    BY <2>1, <2>4, <2>6, <2>7, <2>8, BeginStep
<1>3. ASSUME NEW s \in Uuids, NEW u \in Users,
             \/ UploadRead(r, u, s) \/ EditCheck(r, u, s)
             \/ DeleteRead(r, u, s)
      PROVE  Alone' /\ ExactRows' /\ Known'
  <2>1. PICK pc \in {"put", "load", "blob", "row"} :
          /\ Begin(r, NewRequest(pc, u, s, None))
          /\ UNCHANGED <<env, sends, blobs, served, job>>
          /\ s \in Rows
          /\ pc = "row" => ~(sends[s].atype = File /\ sends[s].hasFile)
    BY <1>3 DEF UploadRead, EditCheck, DeleteRead, loadOwnSend
  <2> DEFINE q == NewRequest(pc, u, s, None)
  <2>2. q.pc = pc /\ q.send = s /\ q \in Request
    BY DEF NewRequest, Request
  <2>3. requests' = [requests EXCEPT ![r] = q]
    BY <2>1 DEF Begin
  <2> HIDE DEF q
  <2>4. q # None
    BY <2>2, NoneAssumption
  <2>5. Current(q, sends[s], served'[s], blobs)
    BY <2>1, <2>2 DEF Current, Rows, SerialInv, ExactRows, Exact
  <2> QED
    BY <2>1, <2>2, <2>3, <2>4, <2>5, BeginStep
<1>4. ASSUME NEW s \in Uuids, NEW u \in Users, RemovePasswordRead(r, u, s)
      PROVE  Alone' /\ ExactRows' /\ Known'
  <2> DEFINE row == [sends[s] EXCEPT !.passwordHash = None]
             q == NewRequest("removePassword", u, s, row)
  <2>1. /\ requests' = [requests EXCEPT ![r] = q]
        /\ UNCHANGED <<env, sends, blobs, served, job>>
        /\ s \in Rows
    BY <1>4 DEF RemovePasswordRead, Begin, loadOwnSend
  <2>2. sends[s] \in Row /\ Exact(sends[s], served[s])
    BY <2>1 DEF Rows, SerialInv, ExactRows, Inv, TypeOK
  <2>3. row \in Row /\ Exact(row, served[s]) /\ row.atype = sends[s].atype
    BY <2>2 DEF Row, Exact
  <2> HIDE DEF row
  <2>4. q.pc = "removePassword" /\ q.send = s /\ q.row = row /\ q \in Request
    BY <2>3 DEF NewRequest, Request
  <2> HIDE DEF q
  <2>5. q # None
    BY <2>4, NoneAssumption
  <2>6. Current(q, sends[s], served'[s], blobs)
    BY <2>1, <2>3, <2>4 DEF Current, Rows
  <2> QED
    BY <2>1, <2>4, <2>5, <2>6, BeginStep
<1> QED
  BY <1>1, <1>2, <1>3, <1>4 DEF Arrive

\* A request goes on with the rows it knows.
LEMMA ContinueSerial ==
    ASSUME SerialInv, NEW r \in Requests, Continue(r)
    PROVE  Alone' /\ ExactRows' /\ Known'
<1> DEFINE q == requests[r]
           s == q.send
<1>0. /\ q # None /\ q \in Request /\ s \in Uuids /\ served[s] \in Nat
      /\ sends[s] \in Row \cup {None}
      /\ sends[s] # None => sends[s] \in Row /\ Exact(sends[s], served[s])
      /\ Current(q, sends[s], served[s], blobs)
      /\ q.pc \in Holding => q.row \in Row
  <2>1. q # None
    BY DEF Continue, CreateInsert, UploadPut, AccessCount, EditRead,
           EditRefused, WriteRow, DeleteBlob, DeleteRow, Fail, At
  <2> QED
    BY <2>1, InFlight
<1>1. /\ None \notin Row /\ None \notin Request
      /\ sends \in [Uuids -> Row \cup {None}] /\ ExactRows
      /\ served \in [Uuids -> 0 .. MaxServed]
  BY NoneAssumption DEF SerialInv, Inv, TypeOK
<1>2. CASE CreateInsert(r)
  <2> DEFINE next == IF q.oneShot THEN [q EXCEPT !.pc = "put"] ELSE None
  <2>1. /\ q.pc = "insert"
        /\ sends' = [sends EXCEPT ![s] = q.row]
        /\ requests' = [requests EXCEPT ![r] = next]
        /\ UNCHANGED <<env, blobs, served, job>>
    BY <1>0, <1>2 DEF CreateInsert, GoTo, Done, At, SerialInv, Inv, TypeOK
  <2>2. q.row # None /\ Exact(q.row, served[s])
    BY <1>0, <1>1, <2>1 DEF Current, Holding
  <2>3. ExactRows'
    BY <1>0, <1>1, <2>1, <2>2 DEF ExactRows
  <2>4. next # None => next.pc = "put" /\ next.send = s
    BY <1>0 DEF Request
  <2>5. sends'[s] # None
    BY <1>0, <1>1, <2>1, <2>2
  <2> HIDE DEF next
  <2>6. next # None => Current(next, sends'[s], served'[s], blobs')
    BY <2>4, <2>5 DEF Current
  <2> QED
    BY <1>0, <2>1, <2>3, <2>4, <2>6, GoOn
<1>3. CASE UploadPut(r) \/ EditRefused(r) \/ Fail(r)
  <2>1. /\ requests' = [requests EXCEPT ![r] = None]
        /\ UNCHANGED <<env, sends, served, job>>
    BY <1>3 DEF UploadPut, EditRefused, Fail, Done
  <2> QED
    BY <1>0, <1>1, <2>1, GoOn DEF ExactRows
<1>4. CASE AccessCount(r)
  <2> DEFINE n == served[s]
             row == [sends[s] EXCEPT !.accessCount = n + 1]
  <2>1. q.pc = "count" /\ q.row = sends[s] /\ sends[s] # None
    BY <1>0, <1>4 DEF AccessCount, At, Current
  <2>2. q.row.accessCount = n
    BY <1>0, <2>1 DEF Exact
  <2>3. /\ sends' = [sends EXCEPT ![s] = row]
        /\ served' = [served EXCEPT ![s] = n + 1]
        /\ requests' = [requests EXCEPT ![r] = None]
        /\ UNCHANGED <<env, blobs, job>>
    BY <1>0, <1>4, <2>1, <2>2 DEF AccessCount, Update, Done, Rows
  <2>4. Exact(row, n + 1)
    BY <1>0, <2>1 DEF Exact, Row
  <2> HIDE DEF row
  <2>5. ExactRows'
    BY <1>0, <1>1, <2>3, <2>4 DEF ExactRows
  <2> QED
    BY <1>0, <2>3, <2>5, GoOn
<1>5. ASSUME NEW d \in Inputs, EditRead(r, d)
      PROVE  Alone' /\ ExactRows' /\ Known'
  <2> DEFINE row == Edited(sends[s], d)
             new == NewRequest("edit", q.user, s, row)
  <2>1. /\ requests' = [requests EXCEPT ![r] = new]
        /\ UNCHANGED <<env, sends, blobs, served, job>>
        /\ sends[s] # None
    BY <1>5 DEF EditRead, loadOwnSend, Rows
  <2>2. /\ row.accessCount = sends[s].accessCount
        /\ row.atype = sends[s].atype
        /\ row.atype = File => row.hasFile = sends[s].hasFile
    BY <1>0, <2>1 DEF Edited, Row
  <2>3. new.pc = "edit" /\ new.send = s /\ new.row = row
    BY DEF NewRequest
  <2> HIDE DEF row, new
  <2>4. Current(new, sends[s], served[s], blobs)
    BY <1>0, <2>1, <2>2, <2>3 DEF Current, Exact
  <2>5. ExactRows'
    BY <1>1, <2>1 DEF ExactRows
  <2> QED
    BY <1>0, <2>1, <2>3, <2>4, <2>5, GoOn
<1>6. CASE WriteRow(r)
  <2>1. /\ Exact(q.row, served[s]) /\ sends[s] # None
    BY <1>0, <1>6 DEF WriteRow, At, Current
  <2>2. /\ sends' = [sends EXCEPT ![s] = q.row]
        /\ requests' = [requests EXCEPT ![r] = None]
        /\ UNCHANGED <<env, blobs, served, job>>
    BY <1>0, <1>6, <2>1 DEF WriteRow, Update, Rows, Done
  <2>3. ExactRows'
    BY <1>0, <1>1, <2>1, <2>2 DEF ExactRows
  <2> QED
    BY <1>0, <2>2, <2>3, GoOn
<1>7. CASE DeleteBlob(r)
  <2> DEFINE next == [q EXCEPT !.pc = "row"]
  <2>1. /\ q.pc = "blob" /\ blobs' = blobs \ {s}
        /\ requests' = [requests EXCEPT ![r] = next]
        /\ UNCHANGED <<env, sends, served, job>>
    BY <1>0, <1>7 DEF DeleteBlob, GoTo, At, SerialInv, Inv, TypeOK
  <2>2. next.pc = "row" /\ next.send = s
    BY <1>0 DEF Request
  <2>3. sends[s] # None
    BY <1>0, <2>1 DEF Current
  <2> HIDE DEF next
  <2>4. Current(next, sends'[s], served'[s], blobs')
    BY <2>1, <2>2, <2>3 DEF Current
  <2>5. ExactRows'
    BY <1>1, <2>1 DEF ExactRows
  <2> QED
    BY <1>0, <2>1, <2>2, <2>4, <2>5, GoOn
<1>8. CASE DeleteRow(r)
  <2>1. /\ sends' = [sends EXCEPT ![s] = None]
        /\ requests' = [requests EXCEPT ![r] = None]
        /\ UNCHANGED <<env, blobs, served, job>>
    BY <1>8 DEF DeleteRow, Done
  <2>2. ExactRows'
    BY <1>0, <1>1, <2>1 DEF ExactRows
  <2> QED
    BY <1>0, <2>1, <2>2, GoOn
<1> QED
  BY <1>2, <1>3, <1>4, <1>5, <1>6, <1>7, <1>8 DEF Continue

\* The job, and what goes on where nothing else does.
LEMMA OtherSerial ==
    ASSUME SerialInv,
           \/ Tick \/ Purge \/ FailJob
           \/ Idle /\ Around
           \/ Idle /\ PurgeRead
    PROVE  Alone' /\ ExactRows' /\ Known'
<1>0. /\ sends \in [Uuids -> Row \cup {None}] /\ clock \in Nat /\ None \notin Row
      /\ job \in Job \cup {None} /\ None \notin Job
      /\ job # None => Active = {} /\ CurrentJob(job, sends, blobs, clock)
  BY NoneAssumption, BoundAssumption DEF SerialInv, Inv, TypeOK, Alone, Known
<1>1. CASE Tick
  <2>1. /\ clock' = clock + 1
        /\ UNCHANGED <<sends, blobs, served, requests, job>>
    BY <1>1 DEF Tick
  <2>2. job # None => CurrentJob(job, sends, blobs, clock')
    <3>1. job # None => job.now <= clock'
      BY <1>0, <2>1 DEF CurrentJob, Job
    <3> QED
      BY <1>0, <3>1 DEF CurrentJob
  <2> QED
    BY <2>1, <2>2 DEF SerialInv, Alone, Active, ExactRows, Known
<1>2. ASSUME NEW s \in Uuids, PurgeFile(s)
      PROVE  Alone' /\ ExactRows' /\ Known'
  <2> DEFINE j == [job EXCEPT !.left = job.left \ {s}]
             bl == blobs \ {s}
  <2>1. /\ job # None /\ job' = j /\ blobs' = bl
        /\ UNCHANGED <<env, sends, served, requests>>
    BY <1>2 DEF PurgeFile
  <2>2. j.now = job.now /\ j.left = job.left \ {s}
    BY <1>0, <2>1 DEF Job
  <2> HIDE DEF j
  <2>3. CurrentJob(j, sends, bl, clock)
    BY <1>0, <2>1, <2>2 DEF CurrentJob
  <2> QED
    BY <1>0, <2>1, <2>3, QuietStep DEF env
<1>3. CASE PurgeRows
  BY <1>0, <1>3, QuietStep DEF PurgeRows
<1>4. CASE FailJob
  BY <1>0, <1>4, QuietStep DEF FailJob
<1>5. ASSUME Idle, NEW u \in Users, DeleteAccount(u)
      PROVE  Alone' /\ ExactRows' /\ Known'
  BY <1>5, QuietStep DEF Idle, DeleteAccount
<1>6. ASSUME Idle, NEW u \in Users, Register(u) \/ PolicyChanges(u)
      PROVE  Alone' /\ ExactRows' /\ Known'
  BY <1>6, QuietStep DEF Idle, Register, PolicyChanges
<1>7. CASE Idle /\ PurgeRead
  <2> DEFINE due == {s \in Uuids : Purgeable(s, clock) /\ sends[s].atype = File}
             j == [now |-> clock, left |-> due]
  <2>1. /\ job' = j /\ Active = {}
        /\ UNCHANGED <<env, sends, blobs, served, requests>>
    BY <1>7 DEF PurgeRead, Idle
  <2>2. CurrentJob(j, sends, blobs, clock)
    BY <1>0 DEF CurrentJob, Purgeable, Rows
  <2> HIDE DEF j
  <2> QED
    BY <2>1, <2>2, QuietStep DEF env
<1> QED
  BY <1>1, <1>2, <1>3, <1>4, <1>5, <1>6, <1>7 DEF Purge, Around

\* Without overlap, what is read stays true until it is used.
LEMMA SerialStep ==
    ASSUME SerialInv, [SerialNext]_vars
    PROVE  SerialInv'
<1>1. CASE UNCHANGED vars
  BY <1>1 DEF vars, SerialInv, Inv, TypeOK, GoodRows, GoodHeld, Alone, Active,
              ExactRows, Known
<1>2. CASE SerialNext
  <2>1. Inv'
    BY <1>2, InvStep DEF SerialInv, SerialNext, Next
  <2>2. Alone' /\ ExactRows' /\ Known'
    BY <1>2, ArriveSerial, ContinueSerial, OtherSerial DEF SerialNext
  <2> QED
    BY <2>1, <2>2 DEF SerialInv
<1> QED
  BY <1>1, <1>2

\* The invariant holds of every state in which nothing overlaps.
LEMMA SerialInvAlways == SerialSpec => []SerialInv
<1>1. Init => SerialInv
  BY BoundAssumption DEF Init, SerialInv, Inv, TypeOK, GoodRows, GoodHeld, Alone,
     Active, ExactRows, Known
<1> QED
  BY <1>1, SerialStep, PTL DEF SerialSpec

----------------------------------------------------------------------------
\* The access routes of sends.ts: without overlap the check of the limit holds
\* until the access is counted, so no access beyond the limit is served,
\* through edits that raise or lower it and statements that fail.
THEOREM LimitKept == SerialSpec => ServedWithinLimit
<1> DEFINE Within == \A s \in Rows : /\ served'[s] > served[s]
                                     /\ sends[s].maxAccessCount # None
                                     => served[s] < sends[s].maxAccessCount
<1>1. ASSUME SerialInv, SerialNext
      PROVE  Within
  <2>1. served \in [Uuids -> 0 .. MaxServed]
    BY <1>1 DEF SerialInv, Inv, TypeOK
  <2>2. ASSUME NEW r \in Requests, AccessCount(r)
        PROVE  Within
    <3> DEFINE s == requests[r].send
    <3>1. /\ requests[r] # None /\ requests[r].pc = "count"
          /\ served' = [served EXCEPT ![s] = served[s] + 1]
      BY <2>2 DEF AccessCount, At
    <3>2. /\ Current(requests[r], sends[s], served[s], blobs)
          /\ sends[s] # None => Exact(sends[s], served[s])
      BY <1>1, <3>1, InFlight
    <3>3. sends[s] # None /\ sends[s].maxAccessCount # None
          => served[s] < sends[s].maxAccessCount
      BY <3>1, <3>2 DEF Current, Exact
    <3> HIDE DEF s
    <3> QED
      BY <2>1, <3>1, <3>3, BoundAssumption DEF Rows
  <2>3. ASSUME NEW r \in Requests, NEW s \in Uuids, NEW u \in Users,
               NEW t \in SendTypes, NEW d \in Inputs, NEW o \in BOOLEAN,
               CreateCheck(r, u, s, t, d, o)
        PROVE  Within
    BY <2>1, <2>3 DEF CreateCheck, Fresh, Rows
  <2>4. CASE UNCHANGED served
    BY <2>1, <2>4 DEF Rows
  <2> HIDE DEF Within
  <2>5. ASSUME NEW r \in Requests, Arrive(r)
        PROVE  Within
    BY <2>3, <2>4, <2>5
       DEF Arrive, AccessRead, UploadRead, EditCheck, RemovePasswordRead,
           DeleteRead
  <2>6. ASSUME NEW r \in Requests, Continue(r)
        PROVE  Within
    BY <2>2, <2>4, <2>6
       DEF Continue, CreateInsert, UploadPut, EditRead, EditRefused, WriteRow,
           DeleteBlob, DeleteRow, Fail
  <2> QED
    BY <1>1, <2>4, <2>5, <2>6
       DEF SerialNext, Tick, Purge, PurgeFile, PurgeRows, PurgeRead, FailJob,
           Around, DeleteAccount, Register, PolicyChanges
<1>2. ASSUME SerialInv, [SerialNext]_vars
      PROVE  [Within]_vars
  BY <1>1, <1>2
<1> HIDE DEF Within
<1>3. SerialSpec => [][Within]_vars
  BY <1>2, SerialInvAlways, PTL DEF SerialSpec
<1> QED
  BY <1>3, PTL DEF ServedWithinLimit, Within

\* DELETE /sends/:id clears the file before the row and the purge all due
\* files before their rows: wherever one of them stops, no file of a file Send
\* is left without its row.
THEOREM FilesHaveRows == SerialSpec => NoOrphanFile
<1> DEFINE Covered == \A s \in Uuids : s \in blobs' /\ sends'[s] = None =>
                        IF s \in Rows
                        THEN sends[s].atype = Text \/ users' # users
                        ELSE s \in blobs
<1>1. ASSUME SerialInv, SerialNext
      PROVE  Covered
  <2>0. /\ \A s \in Rows : sends[s] \in Row /\ sends[s].atype \in {Text, File}
        /\ sends \in [Uuids -> Row \cup {None}] /\ None \notin Row
    BY <1>1, NoneAssumption DEF SerialInv, Inv, TypeOK, Rows, Row, SendTypes
  <2>1. ASSUME NEW r \in Requests, UploadPut(r)
        PROVE  Covered
    <3>1. requests[r] # None /\ requests[r].pc = "put"
      BY <2>1 DEF UploadPut, At
    <3>2. sends[requests[r].send] # None
      BY <1>1, <3>1, InFlight DEF Current
    <3> QED
      BY <2>1, <3>2 DEF UploadPut, Rows
  <2>2. ASSUME NEW r \in Requests, DeleteRow(r)
        PROVE  Covered
    <3>1. requests[r] # None /\ requests[r].pc = "row"
      BY <2>2 DEF DeleteRow, At
    <3>2. /\ sends[requests[r].send].atype = File
             => requests[r].send \notin blobs
      BY <1>1, <3>1, InFlight DEF Current
    <3> QED
      BY <2>0, <2>2, <3>2 DEF DeleteRow, Rows
  <2>3. CASE PurgeRows
    <3>1. \A s \in Uuids :
            s \in Rows /\ sends[s].deletionDate < job.now /\ sends[s].atype = File
            => s \notin blobs
      BY <1>1, <2>3 DEF PurgeRows, SerialInv, Known, CurrentJob, Rows
    <3> QED
      BY <2>0, <2>3, <3>1 DEF PurgeRows, Purgeable, Rows
  <2>4. ASSUME NEW u \in Users, DeleteAccount(u)
        PROVE  Covered
    BY <2>4 DEF DeleteAccount, Rows
  <2>5. CASE /\ blobs' \subseteq blobs
             /\ \A s \in Uuids : sends'[s] = None => sends[s] = None
    BY <2>5 DEF Rows
  <2>6. ASSUME NEW r \in Requests, CreateInsert(r) \/ WriteRow(r) \/ AccessCount(r)
        PROVE  /\ blobs' \subseteq blobs
               /\ \A s \in Uuids : sends'[s] = None => sends[s] = None
    <3> DEFINE q == requests[r]
               s == q.send
    <3>1. /\ q # None /\ UNCHANGED blobs
          /\ q.pc \in {"insert", "edit", "removePassword", "count"}
      BY <2>6 DEF CreateInsert, WriteRow, AccessCount, At
    <3>2. q.row \in Row /\ s \in Uuids
      BY <1>1, <3>1, InFlight DEF Holding
    <3>3. CASE CreateInsert(r) \/ WriteRow(r)
      BY <2>0, <3>1, <3>2, <3>3 DEF CreateInsert, WriteRow, Update
    <3>4. CASE AccessCount(r)
      <4> DEFINE row == [sends[s] EXCEPT !.accessCount = q.row.accessCount + 1]
      <4>1. sends' = IF s \in Rows THEN [sends EXCEPT ![s] = row] ELSE sends
        BY <3>4 DEF AccessCount, Update
      <4>2. s \in Rows => row \in Row
        BY <2>0, <3>2 DEF Row
      <4> HIDE DEF row
      <4> QED
        BY <2>0, <3>1, <4>1, <4>2
    <3> QED
      BY <2>6, <3>3, <3>4
  <2> HIDE DEF Covered
  <2>7. ASSUME NEW r \in Requests, Arrive(r) \/ Continue(r)
        PROVE  Covered
    <3>1. ASSUME UNCHANGED <<sends, blobs>>
          PROVE  Covered
      BY <2>5, <3>1
    <3>2. CASE DeleteBlob(r)
      BY <2>5, <3>2 DEF DeleteBlob
    <3> QED
      BY <2>1, <2>2, <2>5, <2>6, <2>7, <3>1, <3>2
         DEF Arrive, AccessRead, CreateCheck, UploadRead, EditCheck,
             RemovePasswordRead, DeleteRead, Continue, EditRead, EditRefused,
             Fail
  <2> QED
    BY <1>1, <2>3, <2>4, <2>5, <2>7
       DEF SerialNext, Tick, Purge, PurgeFile, PurgeRead, FailJob, Around,
           Register, PolicyChanges
<1>2. ASSUME SerialInv, [SerialNext]_vars
      PROVE  [Covered]_vars
  BY <1>1, <1>2
<1> HIDE DEF Covered
<1>3. SerialSpec => [][Covered]_vars
  BY <1>2, SerialInvAlways, PTL DEF SerialSpec
<1> QED
  BY <1>3, PTL DEF NoOrphanFile, Covered

\* A file leaves the store with a deletion of its Send, or by a purge that
\* began after its date: the job clears what it has found due, and no edit
\* comes between.
THEOREM FilesKept == SerialSpec => FileKept
<1> DEFINE Kept == \A s \in blobs \ blobs' :
                     \/ s \in Rows /\ sends[s].deletionDate < clock
                     \/ \E r \in Requests : At(r, "blob") /\ requests[r].send = s
<1>1. ASSUME SerialInv, SerialNext
      PROVE  Kept
  <2>1. ASSUME NEW s \in Uuids, PurgeFile(s)
        PROVE  Kept
    <3>1. /\ job # None /\ s \in job.left /\ blobs' = blobs \ {s}
          /\ CurrentJob(job, sends, blobs, clock)
      BY <1>1, <2>1 DEF PurgeFile, SerialInv, Known
    <3>2. s \in Rows /\ sends[s] \in Row /\ job \in Job /\ clock \in Nat
      BY <1>1, <3>1, BoundAssumption
         DEF CurrentJob, Rows, SerialInv, Inv, TypeOK
    <3>3. sends[s].deletionDate < clock
      BY <3>1, <3>2 DEF CurrentJob, Row, Job
    <3> QED
      BY <3>1, <3>2, <3>3
  <2>2. ASSUME NEW r \in Requests, DeleteBlob(r)
        PROVE  Kept
    BY <2>2 DEF DeleteBlob
  <2>3. CASE blobs \subseteq blobs'
    BY <2>3
  <2> HIDE DEF Kept
  <2>4. ASSUME NEW r \in Requests, Arrive(r)
        PROVE  Kept
    BY <2>3, <2>4
       DEF Arrive, AccessRead, CreateCheck, UploadRead, EditCheck,
           RemovePasswordRead, DeleteRead
  <2>5. ASSUME NEW r \in Requests, Continue(r)
        PROVE  Kept
    BY <2>2, <2>3, <2>5
       DEF Continue, CreateInsert, UploadPut, AccessCount, EditRead,
           EditRefused, WriteRow, DeleteRow, Fail
  <2> QED
    BY <1>1, <2>1, <2>3, <2>4, <2>5
       DEF SerialNext, Tick, Purge, PurgeRows, PurgeRead, FailJob,
           Around, DeleteAccount, Register, PolicyChanges
<1>2. ASSUME SerialInv, [SerialNext]_vars
      PROVE  [Kept]_vars
  BY <1>1, <1>2
<1> HIDE DEF Kept
<1>3. SerialSpec => [][Kept]_vars
  BY <1>2, SerialInvAlways, PTL DEF SerialSpec
<1> QED
  BY <1>3, PTL DEF FileKept, Kept
=============================================================================
