------------------------------- MODULE Sends -------------------------------
(***************************************************************************)
(* Sends (api/sends.ts): a user shares a text or a file by a link, with a  *)
(* limit on the accesses, a password and dates, and a scheduled job purges *)
(* what has expired (jobs/scheduled.ts).  The row is in D1, the file in a  *)
(* blob store (services/storage.ts) under the uuid of the row; the two are *)
(* written and deleted by separate awaited calls.                          *)
(*                                                                         *)
(* A request is a record of what its handler has read.  An edit and the    *)
(* removal of a password write back the whole row they have read; an       *)
(* access writes the count it has read plus one.                           *)
(***************************************************************************)
EXTENDS Integers, FiniteSets

CONSTANTS
    Users,       \* accounts
    Uuids,       \* uuids of Sends
    Requests,    \* requests in flight at the same time
    None,        \* no row, no request, no limit, no password, no date
    Passwords,   \* passwords of Sends
    Inputs,      \* what clients put into a Send (SendData)
    Horizon,     \* the 31 days a deletion date may be ahead
    MaxTime,     \* bound: the clock
    MaxServed,   \* bound: accesses served of one Send
    Failures     \* may a statement fail, or a Worker be evicted, in between?

(***************************************************************************)
(* shared/constants.ts, db/schema.ts                                       *)
(***************************************************************************)
Text == 0
File == 1
SendTypes == {Text, File}

\* The columns that a condition reads.  hasFile: data names a file.
Row == [user : Users, atype : SendTypes, hasFile : BOOLEAN,
        maxAccessCount : Nat \cup {None}, accessCount : Nat,
        passwordHash : Passwords \cup {None},
        expirationDate : Nat \cup {None}, deletionDate : Nat,
        disabled : BOOLEAN]

SendData == [maxAccessCount : Nat \cup {None}, password : Passwords \cup {None},
             expirationDate : Nat \cup {None}, deletionDate : Nat,
             disabled : BOOLEAN]

Request == [pc : {"insert", "put", "load", "edit", "removePassword", "count",
                  "blob", "row"},
            user : Users \cup {None}, send : Uuids, row : Row \cup {None},
            oneShot : BOOLEAN]
Job == [now : Nat, left : SUBSET Uuids]

ASSUME NoneAssumption ==
    None \notin Nat \cup Users \cup Passwords \cup Row \cup Request \cup Job
ASSUME InputAssumption == Inputs \subseteq SendData /\ Failures \in BOOLEAN
ASSUME BoundAssumption == {Horizon, MaxTime, MaxServed} \subseteq Nat

VARIABLES
    users,       \* the users table
    restricted,  \* users whom a DisableSend policy applies to
    clock,       \* Date.now()
    sends,       \* the sends table
    blobs,       \* Sends whose file is in the blob store
    served,      \* history: accesses answered with the content of a Send
    requests,    \* what each request in flight has read, and where it is
    job          \* the scheduled job in flight

env == <<users, restricted, clock>>
vars == <<users, restricted, clock, sends, blobs, served, requests, job>>

----------------------------------------------------------------------------
Rows == {s \in Uuids : sends[s] # None}
Active == {r \in Requests : requests[r] # None}

\* uuid() never repeats: an identifier stands for a new Send only once nothing
\* refers to the old one.
Fresh(s) == /\ sends[s] = None
            /\ s \notin blobs
            /\ \A r \in Active : requests[r].send # s
            /\ job # None => s \notin job.left

NewRequest(pc, u, s, row) ==
    [pc |-> pc, user |-> u, send |-> s, row |-> row, oneShot |-> FALSE]
Begin(r, q) == requests[r] = None /\ requests' = [requests EXCEPT ![r] = q]
At(r, pc) == requests[r] # None /\ requests[r].pc = pc
GoTo(r, pc) == requests' = [requests EXCEPT ![r].pc = pc]
Done(r) == requests' = [requests EXCEPT ![r] = None]

\* UPDATE sends ... WHERE uuid = s: no row, no effect.
Update(s, row) == sends' = IF s \in Rows THEN [sends EXCEPT ![s] = row]
                                         ELSE sends

loadOwnSend(u, s) == u \in users /\ s \in Rows /\ sends[s].user = u

enforceDisableSendPolicy(u) == u \notin restricted

\* "a deletion date that far into the future"
DateAccepted(d) == d.deletionDate <= clock + Horizon

----------------------------------------------------------------------------
(***************************************************************************)
(* Creation and upload                                                     *)
(***************************************************************************)

newSendFromData(u, t, d, hasFile) ==
    [user |-> u, atype |-> t, hasFile |-> hasFile,
     maxAccessCount |-> d.maxAccessCount, accessCount |-> 0,
     passwordHash |-> d.password, expirationDate |-> d.expirationDate,
     deletionDate |-> d.deletionDate, disabled |-> d.disabled]

\* POST /sends, /sends/file/v2 and, in one shot, /sends/file, which does not
\* look at the type the client gives.
CreateCheck(r, u, s, t, d, oneShot) ==
    /\ u \in users
    /\ enforceDisableSendPolicy(u)
    /\ DateAccepted(d)
    /\ Fresh(s)
    /\ Begin(r, [NewRequest("insert", u, s,
                            newSendFromData(u, t, d, oneShot \/ t = File))
                 EXCEPT !.oneShot = oneShot])
    /\ served' = [served EXCEPT ![s] = 0]
    /\ UNCHANGED <<env, sends, blobs, job>>

\* The foreign key fails when the account is gone.
CreateInsert(r) ==
    LET q == requests[r]
    IN  /\ At(r, "insert")
        /\ q.user \in users
        /\ sends' = [sends EXCEPT ![q.send] = q.row]
        /\ IF q.oneShot THEN GoTo(r, "put") ELSE Done(r)
        /\ UNCHANGED <<env, blobs, served, job>>

\* POST /sends/:id/file/:fileId
UploadRead(r, u, s) ==
    /\ loadOwnSend(u, s)
    /\ sends[s].hasFile
    /\ Begin(r, NewRequest("put", u, s, None))
    /\ UNCHANGED <<env, sends, blobs, served, job>>

UploadPut(r) ==
    /\ At(r, "put")
    /\ blobs' = blobs \cup {requests[r].send}
    /\ Done(r)
    /\ UNCHANGED <<env, sends, served, job>>

----------------------------------------------------------------------------
(***************************************************************************)
(* Access without an account                                               *)
(***************************************************************************)
\* Mutant: one access too many.
checkAccessibleOffByOne(row) ==
    /\ row.maxAccessCount # None => row.accessCount <= row.maxAccessCount
    /\ clock < row.deletionDate
    /\ ~row.disabled

checkAccessible(row) ==
    /\ row.maxAccessCount # None => row.accessCount < row.maxAccessCount
    /\ row.expirationDate # None => clock < row.expirationDate
    /\ clock < row.deletionDate
    /\ ~row.disabled

\* POST /sends/access/:accessId of a text, or .../access/file/:fileId of any
\* Send.  The first route counts nothing for a file: it hands out no content.
AccessRead(r, s, password) ==
    /\ s \in Rows
    /\ checkAccessible(sends[s])
    /\ sends[s].passwordHash \in {None, password}
    /\ Begin(r, NewRequest("count", None, s, sends[s]))
    /\ UNCHANGED <<env, sends, blobs, served, job>>

\* Mutant: a file is counted by both routes.
AccessCountTwice(r) ==
    LET q == requests[r]
    IN  /\ At(r, "count")
        /\ served[q.send] < MaxServed
        /\ Update(q.send, [sends[q.send] EXCEPT
             !.accessCount = q.row.accessCount + 2])
        /\ served' = [served EXCEPT ![q.send] = @ + 1]
        /\ Done(r)
        /\ UNCHANGED <<env, blobs, job>>

\* The text, or the token that downloads the file, is handed out whether or
\* not the row still exists.
AccessCount(r) ==
    LET q == requests[r]
    IN  /\ At(r, "count")
        /\ served[q.send] < MaxServed
        /\ Update(q.send, [sends[q.send] EXCEPT
             !.accessCount = q.row.accessCount + 1])
        /\ served' = [served EXCEPT ![q.send] = @ + 1]
        /\ Done(r)
        /\ UNCHANGED <<env, blobs, job>>

----------------------------------------------------------------------------
(***************************************************************************)
(* Edit, removal of the password, deletion                                 *)
(***************************************************************************)

\* PUT /sends/:id
EditCheck(r, u, s) ==
    /\ u \in users
    /\ s \in Rows
    /\ enforceDisableSendPolicy(u)
    /\ Begin(r, NewRequest("load", u, s, None))
    /\ UNCHANGED <<env, sends, blobs, served, job>>

\* The type cannot change; the data of a text is replaced.
Edited(row, d) ==
    [row EXCEPT !.hasFile = (@ /\ row.atype = File),
                !.maxAccessCount = d.maxAccessCount,
                !.passwordHash = IF d.password = None THEN @ ELSE d.password,
                !.expirationDate = d.expirationDate,
                !.deletionDate = d.deletionDate, !.disabled = d.disabled]

EditRead(r, d) ==
    LET q == requests[r]
    IN  /\ At(r, "load")
        /\ loadOwnSend(q.user, q.send)
        /\ DateAccepted(d)
        /\ requests' = [requests EXCEPT ![r] =
             NewRequest("edit", q.user, q.send, Edited(sends[q.send], d))]
        /\ UNCHANGED <<env, sends, blobs, served, job>>

\* Not found, or a date too far ahead.
EditRefused(r) ==
    /\ At(r, "load")
    /\ Done(r)
    /\ UNCHANGED <<env, sends, blobs, served, job>>

\* PUT /sends/:id/remove-password
RemovePasswordRead(r, u, s) ==
    /\ loadOwnSend(u, s)
    /\ Begin(r, NewRequest("removePassword", u, s,
                           [sends[s] EXCEPT !.passwordHash = None]))
    /\ UNCHANGED <<env, sends, blobs, served, job>>

\* .set({ ...send }): every column as it was read or edited.
WriteRow(r) ==
    /\ At(r, "edit") \/ At(r, "removePassword")
    /\ Update(requests[r].send, requests[r].row)
    /\ Done(r)
    /\ UNCHANGED <<env, blobs, served, job>>

\* DELETE /sends/:id
DeleteRead(r, u, s) ==
    /\ loadOwnSend(u, s)
    /\ Begin(r, NewRequest(IF sends[s].atype = File /\ sends[s].hasFile
                           THEN "blob" ELSE "row", u, s, None))
    /\ UNCHANGED <<env, sends, blobs, served, job>>

\* Mutant: the row is deleted while the file is still there.
DeleteBlobLater(r) ==
    /\ At(r, "blob")
    /\ GoTo(r, "row")
    /\ UNCHANGED <<env, sends, blobs, served, job>>

DeleteBlob(r) ==
    /\ At(r, "blob")
    /\ blobs' = blobs \ {requests[r].send}
    /\ GoTo(r, "row")
    /\ UNCHANGED <<env, sends, served, job>>

DeleteRow(r) ==
    /\ At(r, "row")
    /\ sends' = [sends EXCEPT ![requests[r].send] = None]
    /\ Done(r)
    /\ UNCHANGED <<env, blobs, served, job>>

----------------------------------------------------------------------------
(***************************************************************************)
(* The scheduled purge                                                     *)
(***************************************************************************)
\* Mutant: what can no longer be accessed is purged.
PurgeableExpired(s, now) ==
    /\ s \in Rows
    /\ \/ sends[s].deletionDate < now
       \/ sends[s].expirationDate # None /\ sends[s].expirationDate < now

Purgeable(s, now) == s \in Rows /\ sends[s].deletionDate < now

\* Mutant: the probe looks for files only.
PurgeReadFiles ==
    /\ job = None
    /\ \E s \in Uuids : Purgeable(s, clock) /\ sends[s].atype = File
    /\ job' = [now |-> clock,
               left |-> {s \in Uuids : /\ Purgeable(s, clock)
                                       /\ sends[s].atype = File}]
    /\ UNCHANGED <<env, sends, blobs, served, requests>>

PurgeRead ==
    /\ job = None
    /\ \E s \in Uuids : Purgeable(s, clock)
    /\ job' = [now |-> clock,
               left |-> {s \in Uuids : /\ Purgeable(s, clock)
                                       /\ sends[s].atype = File}]
    /\ UNCHANGED <<env, sends, blobs, served, requests>>

\* deletePrefix: a Send has one file.
PurgeFile(s) ==
    /\ job # None
    /\ s \in job.left
    /\ blobs' = blobs \ {s}
    /\ job' = [job EXCEPT !.left = @ \ {s}]
    /\ UNCHANGED <<env, sends, served, requests>>

\* The same predicate again, at the time the job began.
PurgeRows ==
    /\ job # None
    /\ job.left = {}
    /\ sends' = [s \in Uuids |-> IF Purgeable(s, job.now) THEN None
                                                         ELSE sends[s]]
    /\ job' = None
    /\ UNCHANGED <<env, blobs, served, requests>>

----------------------------------------------------------------------------
(***************************************************************************)
(* Around                                                                  *)
(***************************************************************************)
\* DELETE /accounts: the rows cascade, the files stay.
DeleteAccount(u) ==
    /\ u \in users
    /\ users' = users \ {u}
    /\ sends' = [s \in Uuids |-> IF loadOwnSend(u, s) THEN None ELSE sends[s]]
    /\ UNCHANGED <<restricted, clock, blobs, served, requests, job>>

\* Another account: uuids of users do not repeat either.
Register(u) ==
    /\ u \notin users
    /\ \A r \in Active : requests[r].user # u
    /\ users' = users \cup {u}
    /\ UNCHANGED <<restricted, clock, sends, blobs, served, requests, job>>

\* A DisableSend policy, or a membership it applies to, comes and goes.
PolicyChanges(u) ==
    /\ restricted' = (restricted \cup {u}) \ (restricted \cap {u})
    /\ UNCHANGED <<users, clock, sends, blobs, served, requests, job>>

Tick == /\ clock < MaxTime
        /\ clock' = clock + 1
        /\ UNCHANGED <<users, restricted, sends, blobs, served, requests, job>>

Fail(r) == /\ Failures
           /\ requests[r] # None
           /\ Done(r)
           /\ UNCHANGED <<env, sends, blobs, served, job>>
FailJob == /\ Failures
           /\ job # None
           /\ job' = None
           /\ UNCHANGED <<env, sends, blobs, served, requests>>

----------------------------------------------------------------------------
Init ==
    /\ users = Users
    /\ restricted = {}
    /\ clock = 0
    /\ sends = [s \in Uuids |-> None]
    /\ blobs = {}
    /\ served = [s \in Uuids |-> 0]
    /\ requests = [r \in Requests |-> None]
    /\ job = None

\* A request arrives: the first statement of its handler.
Arrive(r) ==
    \E s \in Uuids :
      \/ \E p \in Passwords \cup {None} : AccessRead(r, s, p)
      \/ \E u \in Users :
           \/ \E d \in Inputs :
                \/ \E t \in SendTypes : CreateCheck(r, u, s, t, d, FALSE)
                \/ \E t \in SendTypes : CreateCheck(r, u, s, t, d, TRUE)
           \/ UploadRead(r, u, s)
           \/ EditCheck(r, u, s)
           \/ RemovePasswordRead(r, u, s)
           \/ DeleteRead(r, u, s)

Continue(r) ==
    \/ CreateInsert(r) \/ UploadPut(r) \/ AccessCount(r)
    \/ \E d \in Inputs : EditRead(r, d)
    \/ EditRefused(r) \/ WriteRow(r)
    \/ DeleteBlob(r) \/ DeleteRow(r)
    \/ Fail(r)

Purge == PurgeRows \/ \E s \in Uuids : PurgeFile(s)

Around == \E u \in Users : DeleteAccount(u) \/ Register(u) \/ PolicyChanges(u)

Next ==
    \/ Tick \/ Around \/ PurgeRead \/ Purge \/ FailJob
    \/ \E r \in Requests : Arrive(r) \/ Continue(r)

Spec == Init /\ [][Next]_vars

\* One request, or the job, at a time.
Idle == Active = {} /\ job = None
SerialNext ==
    \/ Tick \/ Purge \/ FailJob
    \/ \E r \in Requests : Continue(r)
    \/ Idle /\ Around
    \/ Idle /\ PurgeRead
    \/ Idle /\ \E r \in Requests : Arrive(r)

SerialSpec == Init /\ [][SerialNext]_vars

\* The cron trigger fires again and again, and the job it starts goes on.
Fairness == WF_vars(PurgeRead) /\ WF_vars(Purge)
FairSpec == Spec /\ Fairness

----------------------------------------------------------------------------
TypeOK ==
    /\ users \subseteq Users
    /\ restricted \subseteq Users
    /\ clock \in 0 .. MaxTime
    /\ sends \in [Uuids -> Row \cup {None}]
    /\ blobs \subseteq Uuids
    /\ served \in [Uuids -> 0 .. MaxServed]
    /\ requests \in [Requests -> Request \cup {None}]
    /\ job \in Job \cup {None}

(***************************************************************************)
(* What holds however requests overlap                                     *)
(***************************************************************************)
\* Counts that were read long ago are written back by accesses, edits and
\* removals of passwords, yet a Send never counts more accesses than it has
\* served: nobody is refused before the limit was really used up.
NeverOvercounts == \A s \in Rows : sends[s].accessCount <= served[s]

\* No Send is due for deletion more than 31 days from now, whichever of
\* several edits and however old a row is written last.
LifetimeBounded == \A s \in Rows : sends[s].deletionDate <= clock + Horizon

\* "purge expired sends": a Send past its deletion date is purged in the end,
\* unless it gets another date first.
ExpiredPurged ==
    \A s \in Uuids : Purgeable(s, clock) ~> ~Purgeable(s, clock)

(***************************************************************************)
(* What holds when requests do not overlap, with failures between          *)
(* statements                                                              *)
(***************************************************************************)
\* "access limits": no access is served once as many were served as the limit
\* of the Send allows, across edits of the Send in between.
ServedWithinLimit ==
    [][\A s \in Rows : /\ served'[s] > served[s]
                       /\ sends[s].maxAccessCount # None
                       => served[s] < sends[s].maxAccessCount]_vars

\* Wherever a deletion or a purge stops, no file of a file Send is left
\* without its row; only the deletion of the account leaves one.
NoOrphanFile ==
    [][\A s \in Uuids : s \in blobs' /\ sends'[s] = None =>
         IF s \in Rows THEN sends[s].atype = Text \/ users' # users
                       ELSE s \in blobs]_vars

\* A file goes only by a deletion of its Send or once its date has passed.
FileKept ==
    [][\A s \in blobs \ blobs' :
         \/ s \in Rows /\ sends[s].deletionDate < clock
         \/ \E r \in Requests : At(r, "blob") /\ requests[r].send = s]_vars
=============================================================================
