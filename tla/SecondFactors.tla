---------------------------- MODULE SecondFactors ----------------------------
(***************************************************************************)
(* The second factors of one account (services/twofactor.ts, webauthn.ts,  *)
(* duo.ts, yubikey.ts, api/twofactor.ts): their rows in the twofactor      *)
(* table, which also holds the challenges in flight; the recovery code;    *)
(* the devices that are remembered.                                        *)
(*                                                                         *)
(* A handler reads the account and what it decides on, and then runs       *)
(* statement after statement, each awaited: a request holds the rest as    *)
(* todo.  It has shown the password or a one-time code.  Whether a code or *)
(* challenge has expired when it comes is left open, and so is what an     *)
(* authenticator, Yubico or Duo answers.                                   *)
(***************************************************************************)
EXTENDS Integers, Sequences, FiniteSets

CONSTANTS
    Devices,    \* devices of the account
    Services,   \* providers that ask a service: "yubikey", "duo"
    Addresses,  \* addresses for the codes
    Keys,       \* security keys (WebAuthn)
    Requests,   \* requests in flight at the same time
    Overlapping,    \* bound: the kinds of rows whose requests overlap
    None,       \* no device, factor, address, token or request
    EMAIL_ATTEMPTS_LIMIT,
    MaxRows,    \* bound: rows, those in flight and remembered included
    MaxStep,    \* bound: the last time step (30 seconds each)
    Failures    \* may a statement fail, or a Worker be evicted, in between?

Challenges == {"registration", "login"}
Types == {"authenticator", "email", "webauthn"} \cup Services

\* accepted is a history: the steps whose codes logins have accepted, until
\* disturbed.
Row == [id : 0 .. MaxRows, type : Types \cup Challenges, enabled : BOOLEAN,
        last : Nat, accepted : SUBSET Nat,
        address : Addresses \cup {None}, code : BOOLEAN, attempts : Nat,
        keys : SUBSET Keys]
NewRow(type) ==
    [id |-> 0, type |-> type, enabled |-> type \in Types \ {"email"},
     last |-> 0, accepted |-> {}, address |-> None, code |-> FALSE,
     attempts |-> 0, keys |-> {}]

Statement == {"totp", "used", "code", "send", "write", "enable",
              "offer", "take", "untake", "assert", "save", "update", "insert",
              "drop", "wipe", "protect", "remaining", "unprotect", "clear",
              "remember"}
\* recover: had the account a recovery code?  ids: the providers enabled.
Request == [todo : Seq(Statement), row : Row, recover : BOOLEAN,
            device : Devices \cup {None}, ids : SUBSET (1 .. MaxRows)]

ASSUME NoneAssumption == None \notin Devices \cup Addresses \cup Request
ASSUME ServicesAssumption == Services \subseteq {"yubikey", "duo"}
ASSUME BoundAssumption ==
    /\ {EMAIL_ATTEMPTS_LIMIT, MaxRows, MaxStep} \subseteq Nat \ {0}
    /\ Failures \in BOOLEAN

VARIABLES
    rows,        \* the twofactor table
    recover,     \* users.totpRecover: is there a code?
    remember,    \* None, or a token; history: the providers then enabled
    step,        \* the time step
    guesses,     \* history: wrong guesses at the newest mailed code, until disturbed
    proven,      \* history: addresses whose owner has returned a code
    disturbed,   \* history: did requests ever overlap, or one fail?
    requests     \* what each request in flight has read, and has to do

vars == <<rows, recover, remember, step, guesses, proven,
          disturbed, requests>>
table == <<recover, remember, step, guesses, proven>>

----------------------------------------------------------------------------
Active == {r \in Requests : requests[r] # None}
At(r, s) == requests[r] # None /\ Head(requests[r].todo) = s
Continue(r, q) ==
    /\ requests' = [requests EXCEPT ![r] = IF q.todo = <<>> THEN None ELSE q]
    /\ UNCHANGED disturbed
Rest(r) == Tail(requests[r].todo)
Go(r) == Continue(r, [requests[r] EXCEPT !.todo = Rest(r)])
Done(r) == Continue(r, [requests[r] EXCEPT !.todo = <<>>])

RowsOf(type) == {x \in rows : x.type = type}
Enabled == {x \in rows : x.enabled}
ids(S) == {x.id : x \in S}

\* A uuid in use neither by a row, nor by a request, nor by a remember token.
Unused == (1 .. MaxRows) \
            (ids(rows) \cup UNION {{requests[r].row.id} \cup requests[r].ids : r \in Active}
                       \cup UNION {remember[d] : d \in {e \in Devices : remember[e] # None}})

\* Bounds.
Inserts(todo) == \E i \in DOMAIN todo : todo[i] \in {"insert", "save"}
HasRoom(todo) == Inserts(todo) =>
    Cardinality(Unused) > Cardinality({r \in Active : Inserts(requests[r].todo)})
Idle == {r \in Requests : /\ requests[r] = None
                         /\ {requests[s].row.type : s \in Active} \subseteq Overlapping}
MayOverlap(row) == Active # {} => row.type \in Overlapping

Begin(r, d, todo, row) ==
    /\ todo # <<>>
    /\ MayOverlap(row)
    /\ HasRoom(todo)
    /\ requests' = [requests EXCEPT ![r] =
         [todo |-> todo, row |-> row, recover |-> recover, device |-> d,
          ids |-> IF d = None \/ disturbed \/ Active # {} THEN {} ELSE ids(Enabled)]]
    /\ disturbed' = (disturbed \/ Active # {})
    /\ UNCHANGED rows /\ UNCHANGED table

\* UPDATE twofactor ... WHERE uuid = the row that was read.
UpdateRow(id, new(_)) == rows' = {IF x.id = id THEN new(x) ELSE x : x \in rows}

----------------------------------------------------------------------------
(***************************************************************************)
(* Logins                                                                  *)
(***************************************************************************)
Offered == {x.type : x \in Enabled}

\* jsonErrTwofactor: a security key needs a challenge, and a client of old
\* expects a mail when there is no other provider.
Offer == IF "webauthn" \in Offered THEN <<"offer", "drop", "insert">>
         ELSE IF Offered = {"email"} THEN <<"send">>
         ELSE <<>>

\* Can the login pass?  The codes of the first three are looked at below; the
\* verdict on the others is right.
Passes(d, f, right) ==
    CASE f \in {"authenticator", "email", "webauthn"} -> f \in Offered
      [] f \in Services   -> f \in Offered /\ right
      [] f = "recovery"   -> recover /\ right
      [] f = "remember"   -> remember[d] # None /\ right
      [] OTHER            -> FALSE

Verify(f) ==
    CASE f = "authenticator" -> <<"totp">>
      [] f = "email"         -> <<"code">>
      [] f = "webauthn"      -> <<"take", "untake", "assert", "save">>
      [] f = "recovery"      -> <<"wipe", "unprotect">>
      [] OTHER               -> <<>>

\* The row of the factor; a security key, or what is offered instead, needs a
\* challenge.
Selected(f) == IF f \in Offered \ {"webauthn"}
               THEN {x \in Enabled : x.type = f}
               ELSE {NewRow("login")}

\* twofactorAuth up to the choice of the factor, once the password is right.
\* Only enabled rows are providers, but a row of any kind makes the login ask
\* for one.  The record in twofactor_incomplete, which only its purge reads, is
\* left out, and so is a login that has nothing to do here.
Login(r, d, f, right, keep) ==
    /\ Offered # {}
    /\ \E x \in Selected(f) :
         Begin(r, d,
               IF Passes(d, f, right)
               THEN Verify(f) \o IF keep THEN <<"remember">> ELSE <<>>
               ELSE IF f = "recovery" \/ f \in Offered THEN <<>> ELSE Offer,
               x)

\* A wrong or expired code, no challenge, an unknown key: the login, or the
\* activation, ends.
Refused(r) ==
    /\ requests[r] # None
    /\ Head(requests[r].todo) \in {"totp", "code", "send", "offer", "take", "assert"}
    /\ Done(r)
    /\ UNCHANGED rows /\ UNCHANGED table

\* Mutant: the code of the last step again.
totpFreshLax(x, s) == s >= x.last

\* "Replay protection".
totpFresh(x, s) == s > x.last

\* validateTotpCode: s is the step whose code has come, of the present step or
\* one next to it.  There is no record when the first is activated.
Totp(r, s) ==
    /\ At(r, "totp")
    /\ s \in step - 1 .. step + 1
    /\ \/ /\ RowsOf("authenticator") = {}
          /\ Go(r)
       \/ \E x \in RowsOf("authenticator") :
            /\ totpFresh(x, s)
            /\ Continue(r, [requests[r] EXCEPT
                 !.todo = <<"used">> \o Rest(r), !.row.id = x.id, !.row.last = s])
    /\ UNCHANGED rows /\ UNCHANGED table

WriteUsed(r) ==
    LET q == requests[r]
        used(x) == [x EXCEPT !.last = q.row.last,
                             !.accepted = IF q.device = None \/ disturbed THEN @
                                          ELSE @ \cup {q.row.last}]
    IN  /\ At(r, "used")
        /\ UpdateRow(q.row.id, used)
        /\ Go(r)
        /\ UNCHANGED table

\* Mutant: wrong guesses are not counted.
wrongGuessFree(x) == x

wrongGuess(x) ==
    [x EXCEPT !.attempts = @ + 1, !.code = x.attempts + 1 < EMAIL_ATTEMPTS_LIMIT]

\* validateEmailCode: the data is of the row that twofactorAuth has read, the
\* uuid is read anew.
Code(r, right) ==
    LET data == requests[r].row
        new == IF right THEN [data EXCEPT !.code = FALSE, !.attempts = 0]
                        ELSE wrongGuess(data)
    IN  /\ At(r, "code")
        /\ data.code
        /\ \E x \in RowsOf("email") :
             Continue(r, [requests[r] EXCEPT
               !.todo = <<"write">> \o IF right THEN Rest(r) ELSE <<>>,
               !.row = [new EXCEPT !.id = x.id]])
        /\ proven' = IF right THEN proven \cup {data.address} ELSE proven
        /\ guesses' = IF right \/ disturbed THEN guesses ELSE guesses + 1
        /\ UNCHANGED <<rows, recover, remember, step>>

\* sendEmailLoginToken
Send(r) ==
    /\ At(r, "send")
    /\ \E x \in RowsOf("email") :
         Continue(r, [requests[r] EXCEPT
           !.todo = <<"write">> \o Rest(r),
           !.row = [x EXCEPT !.code = TRUE, !.attempts = 0]])
    /\ guesses' = 0
    /\ UNCHANGED <<rows, recover, remember, step, proven>>

WriteEmail(r) ==
    LET data == requests[r].row
        new(x) == [x EXCEPT !.address = data.address, !.code = data.code,
                            !.attempts = data.attempts]
    IN  /\ At(r, "write")
        /\ UpdateRow(data.id, new)
        /\ Go(r)
        /\ UNCHANGED table

\* generateWebauthnLoginOptions: "No Webauthn devices registered" refuses.
OfferChallenge(r) ==
    /\ At(r, "offer")
    /\ \E x \in RowsOf("webauthn") : x.keys # {}
    /\ Go(r)
    /\ UNCHANGED rows /\ UNCHANGED table

\* takeChallenge: the row is read, ...
TakeChallenge(r) ==
    /\ At(r, "take")
    /\ \E x \in RowsOf(requests[r].row.type) :
         Continue(r, [requests[r] EXCEPT !.todo = Rest(r), !.row.id = x.id])
    /\ UNCHANGED rows /\ UNCHANGED table

\* ... then deleted.
DeleteChallenge(r) ==
    /\ At(r, "untake")
    /\ rows' = {x \in rows : x.id # requests[r].row.id}
    /\ Go(r)
    /\ UNCHANGED table

\* validateWebauthnLogin and finishWebauthnRegistration: the registrations as
\* they are now, or with the key that has signed.
AssertKey(r, k) ==
    LET q == requests[r]
        save(S) == Continue(r, [q EXCEPT !.todo = Rest(r),
                      !.row = [NewRow("webauthn") EXCEPT !.keys = S]])
    IN  /\ At(r, "assert")
        /\ \/ \E x \in RowsOf("webauthn") :
                /\ q.row.type = "login" => k \in x.keys
                /\ save(x.keys \cup {k})
           \/ /\ RowsOf("webauthn") = {}
              /\ q.row.type = "registration"
              /\ save({k})
        /\ UNCHANGED rows /\ UNCHANGED table

\* saveRegistrations
SaveRegistrations(r) ==
    /\ At(r, "save")
    /\ \/ /\ RowsOf("webauthn") = {}
          /\ Continue(r, [requests[r] EXCEPT !.todo = <<"insert">> \o Rest(r)])
       \/ \E x \in RowsOf("webauthn") :
            Continue(r, [requests[r] EXCEPT !.todo = <<"update">> \o Rest(r),
                                            !.row.id = x.id])
    /\ UNCHANGED rows /\ UNCHANGED table

UpdateRegistrations(r) ==
    LET q == requests[r]
        new(x) == [x EXCEPT !.keys = q.row.keys, !.enabled = x.enabled \/ q.row.enabled]
    IN  /\ At(r, "update")
        /\ UpdateRow(q.row.id, new)
        /\ Go(r)
        /\ UNCHANGED table

Remember(r) ==
    /\ At(r, "remember")
    /\ remember' = [remember EXCEPT ![requests[r].device] = requests[r].ids]
    /\ Go(r)
    /\ UNCHANGED <<rows, recover, step, guesses, proven>>

----------------------------------------------------------------------------
(***************************************************************************)
(* Settings                                                                *)
(***************************************************************************)
\* Mutant: the devices that are remembered stay so.
activatedKeepingDevices == <<"drop", "insert", "protect">>

\* What ends every activation: ensureRecoveryCode, clearTwofactorRemember.
activated == <<"drop", "insert", "protect", "clear">>

\* The client sends the key it was given in get-authenticator: the present one
\* if it is enabled.
ActivateAuthenticator(r) ==
    Begin(r, None, <<"totp">> \o activated,
          [NewRow("authenticator") EXCEPT
             !.accepted = UNION {x.accepted : x \in RowsOf("authenticator")}])

\* The recovery code stays.
DeleteAuthenticator(r) ==
    Begin(r, None, <<"drop", "clear">>, NewRow("authenticator"))

DisableTwofactor(r, type) ==
    Begin(r, None, <<"drop", "clear", "remaining">>, NewRow(type))

\* Mutant: the address is not stored.
SetupEmailWithoutAddress(r, a) ==
    Begin(r, None, <<"drop", "insert">>, [NewRow("email") EXCEPT !.code = TRUE])

\* /two-factor/send-email: a pending row, and a mail.
SetupEmail(r, a) ==
    Begin(r, None, <<"drop", "insert">>,
          [NewRow("email") EXCEPT !.address = a, !.code = TRUE])

\* Mutant: the token is not compared.
emailTokenAny(x, a, right) == x.code /\ x.address = a

emailToken(x, a, right) == x.code /\ right /\ x.address = a

\* PUT /two-factor/email
EnableEmail(r, a, right) ==
    \E x \in RowsOf("email") :
      /\ emailToken(x, a, right)
      /\ MayOverlap(x)
      /\ requests' = [requests EXCEPT ![r] =
           [todo |-> <<"enable", "protect", "clear">>,
            row |-> [x EXCEPT !.code = FALSE, !.attempts = 0],
            recover |-> recover, device |-> None, ids |-> {}]]
      /\ disturbed' = (disturbed \/ Active # {})
      /\ proven' = IF right THEN proven \cup {x.address} ELSE proven
      /\ UNCHANGED <<rows, recover, remember, step, guesses>>

WriteEnabled(r) ==
    LET data == requests[r].row
        new(x) == [x EXCEPT !.enabled = TRUE, !.address = data.address,
                            !.code = data.code, !.attempts = data.attempts]
    IN  /\ At(r, "enable")
        /\ UpdateRow(data.id, new)
        /\ Go(r)
        /\ UNCHANGED table

\* startWebauthnRegistration: saveChallenge
StartRegistration(r) == Begin(r, None, <<"drop", "insert">>, NewRow("registration"))

FinishRegistration(r) ==
    Begin(r, None, <<"take", "untake", "assert", "save", "protect", "clear">>,
          NewRow("registration"))

\* The row stays, with no key in it after the last.
DeleteRegistration(r, k) ==
    \E x \in RowsOf("webauthn") :
      /\ k \in x.keys
      /\ Begin(r, None, <<"update">>,
               [x EXCEPT !.keys = @ \ {k}, !.enabled = FALSE])

\* activateYubikey, activateDuo.
ActivateService(r, type) == Begin(r, None, activated, NewRow(type))

\* activateYubikey without keys.
RemoveYubikeys(r) ==
    /\ "yubikey" \in Services
    /\ Begin(r, None, <<"drop">>, NewRow("yubikey"))

\* /two-factor/send-email-login
SendEmailLogin(r) == Begin(r, None, <<"send">>, NewRow("email"))

\* /two-factor/recover
Recover(r) ==
    /\ recover
    /\ Begin(r, None, <<"wipe", "unprotect", "clear">>, NewRow("login"))

\* POST /admin/users/:uuid/remove-2fa
AdminRemove(r) == Begin(r, None, <<"wipe", "unprotect">>, NewRow("login"))

----------------------------------------------------------------------------
Drop(r) ==
    /\ At(r, "drop")
    /\ rows' = {x \in rows : x.type # requests[r].row.type}
    /\ Go(r)
    /\ UNCHANGED table

\* There is no unique index on (user, type).  An authenticator begins at the
\* present step.
Insert(r) ==
    LET row == requests[r].row
    IN  /\ At(r, "insert")
        /\ Unused # {}
        /\ rows' = rows \cup {[row EXCEPT
             !.id = CHOOSE i \in Unused : TRUE,
             !.last = IF row.type = "authenticator" THEN step ELSE 0]}
        /\ guesses' = IF row.code THEN 0 ELSE guesses
        /\ Go(r)
        /\ UNCHANGED <<recover, remember, step, proven>>

Wipe(r) ==
    /\ At(r, "wipe")
    /\ rows' = {}
    /\ Go(r)
    /\ UNCHANGED table

\* Mutant: only an account that has a code gets one.
ensureRecoveryCodeReversed(had) == IF had THEN TRUE ELSE recover

\* The account as requireAuth has read it.
ensureRecoveryCode(had) == IF had THEN recover ELSE TRUE

Protect(r) ==
    /\ At(r, "protect")
    /\ recover' = ensureRecoveryCode(requests[r].recover)
    /\ Go(r)
    /\ UNCHANGED <<rows, remember, step, guesses, proven>>

\* "When the last provider is removed, drop the recovery code".
Remaining(r) ==
    /\ At(r, "remaining")
    /\ Continue(r, [requests[r] EXCEPT !.todo =
         IF \E x \in rows : x.type \in Types THEN <<>> ELSE <<"unprotect">>])
    /\ UNCHANGED rows /\ UNCHANGED table

Unprotect(r) ==
    /\ At(r, "unprotect")
    /\ recover' = FALSE
    /\ Go(r)
    /\ UNCHANGED <<rows, remember, step, guesses, proven>>

clearTwofactorRemember(r) ==
    /\ At(r, "clear")
    /\ remember' = [d \in Devices |-> None]
    /\ Go(r)
    /\ UNCHANGED <<rows, recover, step, guesses, proven>>

Tick == /\ step < MaxStep
        /\ step' = step + 1
        /\ UNCHANGED <<rows, recover, remember, guesses, proven,
                       disturbed, requests>>

Fail(r) == /\ Failures
           /\ requests[r] # None
           /\ requests' = [requests EXCEPT ![r] = None]
           /\ disturbed' = TRUE
           /\ UNCHANGED rows /\ UNCHANGED table

----------------------------------------------------------------------------
Init ==
    /\ rows = {}
    /\ recover = FALSE
    /\ remember = [d \in Devices |-> None]
    /\ step = 1
    /\ guesses = 0
    /\ proven = {}
    /\ disturbed = FALSE
    /\ requests = [r \in Requests |-> None]

Arrive(r) ==
    \/ \E d \in Devices, right \in BOOLEAN, keep \in BOOLEAN :
         \E f \in Types \cup {"remember", "recovery", None} :
           Login(r, d, f, right, keep)
    \/ ActivateAuthenticator(r) \/ DeleteAuthenticator(r)
    \/ \E type \in Types \cup Challenges : DisableTwofactor(r, type)
    \/ \E a \in Addresses : SetupEmail(r, a) \/ \E b \in BOOLEAN : EnableEmail(r, a, b)
    \/ StartRegistration(r) \/ FinishRegistration(r)
    \/ \E k \in Keys : DeleteRegistration(r, k)
    \/ \E type \in Services : ActivateService(r, type)
    \/ RemoveYubikeys(r) \/ SendEmailLogin(r) \/ Recover(r) \/ AdminRemove(r)

Proceed(r) ==
    \/ Refused(r) \/ WriteUsed(r) \/ Send(r) \/ WriteEmail(r)
    \/ OfferChallenge(r) \/ TakeChallenge(r) \/ DeleteChallenge(r)
    \/ SaveRegistrations(r) \/ UpdateRegistrations(r) \/ Remember(r)
    \/ WriteEnabled(r) \/ Drop(r) \/ Insert(r) \/ Wipe(r) \/ Protect(r)
    \/ Remaining(r) \/ Unprotect(r) \/ clearTwofactorRemember(r) \/ Fail(r)
    \/ \E s \in 0 .. MaxStep + 1 : Totp(r, s)
    \/ \E right \in BOOLEAN : Code(r, right)
    \/ \E k \in Keys : AssertKey(r, k)

Next == \/ \E r \in Active : Proceed(r)
        \/ \E r \in Idle : Arrive(r)
        \/ Tick

Spec == Init /\ [][Next]_vars

----------------------------------------------------------------------------
\* A uuid is one row's; an e-mail row has an address, and a row with security
\* keys is that of WebAuthn, whichever row an UPDATE by uuid hits.
TypeOK ==
    /\ rows \subseteq Row
    /\ Cardinality(ids(rows)) = Cardinality(rows)
    /\ \A x \in rows : /\ x.type = "email" <=> x.address # None
                       /\ x.keys # {} => x.type = "webauthn"
    /\ recover \in BOOLEAN
    /\ \A d \in Devices : remember[d] # None => remember[d] \subseteq 1 .. MaxRows
    /\ step \in 1 .. MaxStep
    /\ guesses \in 0 .. EMAIL_ATTEMPTS_LIMIT
    /\ proven \subseteq Addresses
    /\ disturbed \in BOOLEAN
    /\ \A r \in Active : /\ requests[r] \in Request
                         /\ requests[r].todo # <<>>

Quiet == ~disturbed /\ Active = {}

\* A login that a second factor may stop can be recovered: as long as a provider
\* is enabled the account has a recovery code.  After any sequence of requests
\* that neither overlap nor fail.
RecoveryCodeWhileProtected == Quiet /\ Enabled # {} => recover

\* A login that stands to pass with a code of the authenticator is the first that
\* passes with it: no other has passed with that code before, also under the same
\* key set up again.  After any sequence of requests that neither overlap nor
\* fail.
CodeAcceptedOnce ==
    ~disturbed =>
      \A r \in Active : At(r, "used") /\ requests[r].device # None =>
        \A x \in rows : x.id = requests[r].row.id => requests[r].row.last \notin x.accepted

\* A remembered device skips no provider that was set up after it was
\* remembered.
RememberFollowsProviders ==
    Quiet => \A d \in Devices :
               remember[d] # None => ids(Enabled) \subseteq remember[d]

\* A mailed code is dead after EMAIL_ATTEMPTS_LIMIT wrong guesses at a login.
GuessesBounded ==
    Quiet /\ (\E x \in rows : x.code) => guesses < EMAIL_ATTEMPTS_LIMIT

\* However requests overlap or fail, the e-mail provider is enabled only by who
\* has returned a code mailed to the address that it is then for.
EnabledByOwner ==
    [][\A y \in rows' : y.type = "email" /\ y.enabled =>
         \/ \E x \in rows : x.id = y.id /\ x.enabled
         \/ y.address \in proven]_vars
=============================================================================
