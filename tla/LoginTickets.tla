---------------------------- MODULE LoginTickets -----------------------------
(***************************************************************************)
(* What a login may show besides a password, each for a short time: a      *)
(* request answered on another device (api/auth-requests.ts), a sign-in at *)
(* the provider (services/sso.ts, ssoLogin), a one-time code for a         *)
(* protected action (api/accounts.ts), Duo's state (services/duo.ts); the  *)
(* limit on failed logins (services/ratelimit.ts); and the job that purges *)
(* what is left (jobs/scheduled.ts).  All for one account.                 *)
(*                                                                         *)
(* Codes, cookies, nonces and addresses are abstracted to whether they are *)
(* the right ones.  The times to live are scaled: only their order counts. *)
(***************************************************************************)
EXTENDS Integers, Sequences, FiniteSets

CONSTANTS
    Asks,        \* requests to log in with a device
    States,      \* sign-ins at the provider
    Identities,  \* at the provider, all with the account's address
    Requests,    \* requests in flight at the same time
    Overlapping, \* bound: the statements of requests that overlap
    None,        \* no row, identity or request
    LOGIN_TTL,   \* logging in with an answered request: 5 minutes
    SSO_TTL,     \* 10 minutes
    ASK_TTL,     \* answering a request: 15 minutes
    FAILURE_TTL, \* of the counter, after the last failure
    MAX_FAILURES,
    MaxRows,     \* bound: rows for logins in flight
    Failures     \* may a statement fail, or a Worker be evicted, in between?

ASSUME TimeAssumption ==
    /\ {LOGIN_TTL, SSO_TTL, ASK_TTL, FAILURE_TTL, MAX_FAILURES} \subseteq Nat \ {0}
    /\ LOGIN_TTL <= ASK_TTL
ASSUME BoundAssumption == MaxRows \in Nat /\ Failures \in BOOLEAN

Secrets == {"otp", "duo"}
\* A state at the provider is neither of the secrets.
ASSUME KindAssumption == States \cap Secrets = {}

Ask == [approved : {"open", "yes", "no"}, age : 0 .. ASK_TTL]

\* code: of whose sign-in; error: has the provider's error come back?  spent: has
\* the provider exchanged the code?  identity: what it has answered.
SsoAuth == [code : Identities \cup {None}, error : BOOLEAN, spent : BOOLEAN,
            identity : Identities \cup {None}, age : 0 .. SSO_TTL]

Statement == {"count", "record", "answer", "drop", "insert", "callback",
              "exchange", "save", "resolve", "provision", "complete", "redeem",
              "link", "login", "consume"}

\* yes: the answer, the provider's error, or whether the secret is good.
Request == [todo : Seq(Statement), ticket : Asks \cup States \cup Secrets \cup {None},
            identity : Identities \cup {None}, yes : BOOLEAN, count : Nat]

\* older: what has been written over, and a read may still find.
Counter == [count : 0 .. MAX_FAILURES, ttl : 0 .. FAILURE_TTL,
            older : SUBSET (0 .. MAX_FAILURES)]

\* uses: how often an authorization or a secret has let someone pass since the
\* last was issued; denied, passed: the requests that were ever denied, or that a
\* login has passed with; logged: the identities that have logged in since there
\* is no link.
History == [uses : [States \cup Secrets -> 0 .. 2], denied : SUBSET Asks,
            passed : SUBSET Asks, logged : SUBSET Identities]
NoUses == [t \in States \cup Secrets |-> 0]

ASSUME NoneAssumption ==
    None \notin Ask \cup SsoAuth \cup Request \cup History \cup Identities
               \cup {"valid", "expired"}

VARIABLES
    asks,      \* auth_requests
    sso,       \* sso_auth
    secrets,   \* the code in the KV store, the row in twofactor_duo_ctx:
               \* None, "valid" or (Duo's) "expired"
    account,   \* "absent", a "shell" without keys, or "full"
    link,      \* sso_users: the identity, or None
    failures,  \* the counter in the KV store, and what reads may still find of it
    purge,     \* the job: the statements left
    history,   \* None once requests have overlapped, or one has failed
    requests   \* what each request in flight has read, and has to do

vars == <<asks, sso, secrets, account, link, failures, purge, history, requests>>
accounts == <<account, link>>
tickets == <<asks, sso, secrets>>

----------------------------------------------------------------------------
Active == {r \in Requests : requests[r] # None}
At(r, s) == requests[r] # None /\ Head(requests[r].todo) = s
Rest(r) == Tail(requests[r].todo)
Continue(r, q) ==
    requests' = [requests EXCEPT ![r] = IF q.todo = <<>> THEN None ELSE q]
Go(r) == Continue(r, [requests[r] EXCEPT !.todo = Rest(r)])
Done(r) == Continue(r, [requests[r] EXCEPT !.todo = <<>>])

statements(todo) == {todo[i] : i \in DOMAIN todo}
Idle == {r \in Requests : /\ requests[r] = None
                          /\ \A s \in Active :
                               statements(requests[s].todo) \subseteq Overlapping}

NewRequest(ticket, todo) ==
    [todo |-> todo, ticket |-> ticket, identity |-> None, yes |-> FALSE, count |-> 0]

\* h: the history if nothing overlaps.
Unless(overlap, h) == history' = IF overlap \/ history = None THEN None ELSE h

Begin(r, q, h) ==
    /\ Active # {} => statements(q.todo) \subseteq Overlapping
    /\ requests' = [requests EXCEPT ![r] = q]
    /\ Unless(Active # {}, h)
    /\ UNCHANGED <<tickets, accounts, failures, purge>>

\* A handler with one statement.
AtOnce(h) == Unless(Active # {}, h) /\ UNCHANGED <<requests, purge>>

HasRoom ==
    Cardinality({a \in Asks : asks[a] # None})
      + Cardinality({s \in States : sso[s] # None})
      + Cardinality({k \in Secrets : secrets[k] # None}) < MaxRows

OneUse(t) == [history EXCEPT !.uses[t] = IF @ < 2 THEN @ + 1 ELSE @]

----------------------------------------------------------------------------
(***************************************************************************)
(* Failed logins                                                           *)
(***************************************************************************)

\* "KV is eventually consistent, so this is a soft limit": a read may find a
\* count that has been written over since.
Readable == failures.older \cup {failures.count}

\* checkUserLoginFailureLimit: "Counts only failures".
mayTry == \E n \in Readable : n < MAX_FAILURES

\* recordUserLoginFailure: the count is read, then written.
recordFailure == <<"count", "record">>

\* A login with a wrong password.
WrongPassword(r) ==
    /\ mayTry
    /\ Begin(r, NewRequest(None, recordFailure), history)

ReadCount(r) ==
    /\ At(r, "count")
    /\ \E n \in Readable :
         Continue(r, [requests[r] EXCEPT !.count = n, !.todo = Rest(r)])
    /\ UNCHANGED <<tickets, accounts, failures, purge, history>>

\* What could be read can still be.
Counted(n, ttl) == [count |-> n, ttl |-> ttl, older |-> Readable \ {n}]

\* Bound: more than MAX_FAILURES count as that.
RecordFailure(r) ==
    /\ At(r, "record")
    /\ LET n == requests[r].count + 1
       IN  failures' = Counted(IF n <= MAX_FAILURES THEN n ELSE MAX_FAILURES, FAILURE_TTL)
    /\ Go(r)
    /\ UNCHANGED <<tickets, accounts, purge, history>>

\* The KV store: what was written last is found everywhere.
Converge ==
    /\ failures.older # {}
    /\ failures' = [failures EXCEPT !.older = {}]
    /\ UNCHANGED <<tickets, accounts, purge, history, requests>>

----------------------------------------------------------------------------
(***************************************************************************)
(* Login with a device                                                     *)
(***************************************************************************)
\* POST /auth-requests
CreateAsk(a) ==
    /\ account # "absent"
    /\ asks[a] = None
    /\ \A r \in Active : requests[r].ticket # a
    /\ HasRoom
    /\ asks' = [asks EXCEPT ![a] = [approved |-> "open", age |-> 0]]
    /\ AtOnce([history EXCEPT !.denied = @ \ {a}, !.passed = @ \ {a}])
    /\ UNCHANGED <<sso, secrets, accounts, failures>>

\* Mutant: a denial may be changed, `if (ar.approved)`.
mayAnswerDenied(x) == x.age < ASK_TTL /\ x.approved # "yes"

\* Not expired, and not answered.
mayAnswer(x) == x.age < ASK_TTL /\ x.approved = "open"

\* PUT /auth-requests/:id
Answer(r, a, yes) ==
    /\ asks[a] # None
    /\ mayAnswer(asks[a])
    /\ Begin(r, [NewRequest(a, <<"answer">>) EXCEPT !.yes = yes], history)

WriteAnswer(r) ==
    LET q == requests[r]
    IN  /\ At(r, "answer")
        /\ IF asks[q.ticket] = None THEN UNCHANGED <<asks, history>>
           ELSE /\ asks' = [asks EXCEPT ![q.ticket].approved =
                              IF q.yes THEN "yes" ELSE "no"]
                /\ Unless(FALSE, [history EXCEPT !.denied =
                              IF q.yes THEN @ ELSE @ \cup {q.ticket}])
        /\ Go(r)
        /\ UNCHANGED <<sso, secrets, accounts, failures, purge>>

\* passwordLogin with an auth request, approved less than LOGIN_TTL after it was
\* made, from the same address with its code: it is not consumed.
mayLogin(x) == x.approved = "yes" /\ x.age < LOGIN_TTL

DeviceLogin(a) ==
    /\ mayTry
    /\ asks[a] # None
    /\ mayLogin(asks[a])
    /\ AtOnce([history EXCEPT !.passed = @ \cup {a}])
    /\ UNCHANGED <<tickets, accounts, failures>>

\* Another address or code, not approved, or too late.
WrongDeviceLogin(r, a) ==
    /\ mayTry
    /\ asks[a] # None
    /\ Begin(r, NewRequest(None, recordFailure), history)

----------------------------------------------------------------------------
(***************************************************************************)
(* Single sign-on                                                          *)
(***************************************************************************)
\* buildAuthorizeUrl
Authorize(r, s) ==
    /\ sso[s] # None \/ HasRoom
    /\ Begin(r, NewRequest(s, <<"drop", "insert">>), history)

DropSso(r) ==
    /\ At(r, "drop")
    /\ sso' = [sso EXCEPT ![requests[r].ticket] = None]
    /\ Go(r)
    /\ UNCHANGED <<asks, secrets, accounts, failures, purge, history>>

\* The state is the primary key.
InsertSso(r) ==
    LET s == requests[r].ticket
    IN  /\ At(r, "insert")
        /\ IF sso[s] = None
           THEN /\ sso' = [sso EXCEPT ![s] =
                     [code |-> None, error |-> FALSE, spent |-> FALSE,
                      identity |-> None, age |-> 0]]
                /\ Unless(FALSE, [history EXCEPT !.uses = NoUses])
           ELSE UNCHANGED <<sso, history>>
        /\ Go(r)
        /\ UNCHANGED <<asks, secrets, accounts, failures, purge>>

\* handleOidcCallback: the provider's code for who has signed in, or its error.  An
\* error without a code is like neither: no login finds that row.
Callback(r, s, i, error) ==
    /\ sso[s] # None
    /\ error => i # None
    /\ Begin(r, [NewRequest(s, <<"callback">>) EXCEPT !.identity = i, !.yes = error],
             history)

WriteCallback(r) ==
    LET q == requests[r]
    IN  /\ At(r, "callback")
        /\ sso' = IF sso[q.ticket] = None THEN sso
                  ELSE [sso EXCEPT ![q.ticket].code = q.identity,
                                   ![q.ticket].error = q.yes,
                                   ![q.ticket].spent = FALSE]
        /\ Go(r)
        /\ UNCHANGED <<asks, secrets, accounts, failures, purge, history>>

\* ssoLogin, exchangeCode: the row with this code.  What was exchanged before
\* is used again, "e.g. after the 2FA prompt".
SsoLogin(r, s) ==
    LET x == sso[s]
    IN  /\ x # None
        /\ x.code # None
        /\ x.age < SSO_TTL
        /\ x.identity = None => ~x.error
        /\ Begin(r, [NewRequest(s, (IF x.identity = None THEN <<"exchange", "save">> ELSE <<>>)
                                     \o <<"resolve">>)
                      EXCEPT !.identity = IF x.identity = None THEN x.code ELSE x.identity],
                 history)

\* The provider's error: the row is deleted, and the login is refused.
SsoError(r, s) ==
    LET x == sso[s]
    IN  /\ x # None
        /\ x.code # None
        /\ x.age < SSO_TTL
        /\ x.identity = None /\ x.error
        /\ Begin(r, NewRequest(s, <<"drop">>), history)

\* The provider exchanges a code once.
Exchange(r) ==
    LET q == requests[r]
    IN  /\ At(r, "exchange")
        /\ sso[q.ticket] # None => sso[q.ticket].code = q.identity /\ ~sso[q.ticket].spent
        /\ sso' = IF sso[q.ticket] = None THEN sso
                  ELSE [sso EXCEPT ![q.ticket].spent = TRUE]
        /\ Go(r)
        /\ UNCHANGED <<asks, secrets, accounts, failures, purge, history>>

SaveResponse(r) ==
    LET q == requests[r]
    IN  /\ At(r, "save")
        /\ sso' = IF sso[q.ticket] = None THEN sso
                  ELSE [sso EXCEPT ![q.ticket].identity = q.identity]
        /\ Go(r)
        /\ UNCHANGED <<asks, secrets, accounts, failures, purge, history>>

\* Mutant: "Existing SSO user with same email" is let in.
mayAssociateAny(i) == TRUE

mayAssociate(i) == link \in {i, None}

\* Who this is: the account linked to the identity, one with its address that is
\* not linked to another, or a new one.
Resolve(r) ==
    LET q == requests[r]
    IN  /\ At(r, "resolve")
        /\ account = "absent" \/ mayAssociate(q.identity)
        /\ Continue(r, [q EXCEPT !.todo =
             (IF account = "absent" THEN <<"provision">> ELSE <<>>)
               \o (IF account = "full" THEN <<>> ELSE <<"complete">>)
               \o <<"redeem">>
               \o (IF link = q.identity THEN <<>> ELSE <<"link">>) \o <<"login">>])
        /\ UNCHANGED <<tickets, accounts, failures, purge, history>>

\* The address is unique.
Provision(r) ==
    /\ At(r, "provision")
    /\ IF account = "absent" THEN account' = "shell" /\ Go(r)
                             ELSE Done(r) /\ UNCHANGED account
    /\ UNCHANGED <<tickets, link, failures, purge, history>>

\* The stub of an invited user is completed: its verification is left out here.
Complete(r) ==
    /\ At(r, "complete")
    /\ Go(r)
    /\ UNCHANGED <<tickets, accounts, failures, purge, history>>

\* The provider's, the server's or a second factor's refusal: the latter comes
\* when the account is there, and the client tries again with the same code.
Refused(r) ==
    /\ At(r, "exchange") \/ At(r, "resolve") \/ At(r, "complete") \/ At(r, "redeem")
    /\ Done(r)
    /\ UNCHANGED <<tickets, accounts, failures, purge, history>>

\* Mutant: the row stays.
redeemedNothing(s) == sso

redeemed(s) == [sso EXCEPT ![s] = None]

\* redeemSsoAuth: "burn the auth row", ...
Redeem(r) ==
    /\ At(r, "redeem")
    /\ sso' = redeemed(requests[r].ticket)
    /\ Go(r)
    /\ UNCHANGED <<asks, secrets, accounts, failures, purge, history>>

\* ... "and persist the SSO link": on a conflict, do nothing.
Link(r) ==
    /\ At(r, "link")
    /\ IF account = "absent" THEN Done(r) /\ UNCHANGED link
       ELSE Go(r) /\ link' = IF link = None THEN requests[r].identity ELSE link
    /\ UNCHANGED <<tickets, account, failures, purge, history>>

\* The tokens.
Login(r) ==
    LET q == requests[r]
    IN  /\ At(r, "login")
        /\ Unless(FALSE, [OneUse(q.ticket) EXCEPT !.logged = @ \cup {q.identity}])
        /\ Go(r)
        /\ UNCHANGED <<tickets, accounts, failures, purge>>

\* DELETE /admin/users/:uuid/sso
Unlink ==
    /\ link # None
    /\ link' = None
    /\ AtOnce([history EXCEPT !.logged = {}])
    /\ UNCHANGED <<tickets, account, failures>>

\* The keys of a new account are set, or the account is deleted.
SetKeys ==
    /\ account = "shell"
    /\ account' = "full"
    /\ AtOnce(history)
    /\ UNCHANGED <<tickets, link, failures>>

\* Mutant: sso_users does not cascade.
DeleteAccountKeepingLink ==
    /\ account # "absent"
    /\ account' = "absent"
    /\ asks' = [a \in Asks |-> None]
    /\ AtOnce(history)
    /\ UNCHANGED <<sso, secrets, link, failures>>

DeleteAccount ==
    /\ account # "absent"
    /\ account' = "absent"
    /\ link' = None
    /\ asks' = [a \in Asks |-> None]
    /\ AtOnce([history EXCEPT !.logged = {}])
    /\ UNCHANGED <<sso, secrets, failures>>

----------------------------------------------------------------------------
(***************************************************************************)
(* One-time secrets                                                        *)
(***************************************************************************)
\* POST /accounts/request-otp; getDuoAuthUrl, whose state is new.
Issue(k) ==
    /\ account # "absent"
    /\ secrets[k] # None \/ HasRoom
    /\ secrets' = [secrets EXCEPT ![k] = "valid"]
    /\ AtOnce([history EXCEPT !.uses = NoUses])
    /\ UNCHANGED <<asks, sso, accounts, failures>>

\* validatePasswordOrOtp, validateDuoLogin: read, ...
Take(r, k) ==
    /\ secrets[k] # None
    /\ Begin(r, [NewRequest(k, <<"consume">>) EXCEPT !.yes = (secrets[k] = "valid")],
             history)

\* ... deleted, and good once.
Consume(r) ==
    LET q == requests[r]
    IN  /\ At(r, "consume")
        /\ secrets' = [secrets EXCEPT ![q.ticket] = None]
        /\ Unless(FALSE, IF q.yes THEN OneUse(q.ticket) ELSE history)
        /\ Go(r)
        /\ UNCHANGED <<asks, sso, accounts, failures, purge>>

----------------------------------------------------------------------------
(***************************************************************************)
(* Time and the job                                                        *)
(***************************************************************************)
\* Mutant: the counter is stored without an expiration.
RemainingForever(n) == n

\* Of the time that a counter in the KV store has left.
Remaining(n) == n - 1

Older(n, ttl) == IF n < ttl THEN n + 1 ELSE n

Tick ==
    LET expired == Remaining(failures.ttl) <= 0
    IN  /\ asks' = [a \in Asks |-> IF asks[a] = None THEN None
                                   ELSE [asks[a] EXCEPT !.age = Older(@, ASK_TTL)]]
        /\ sso' = [s \in States |-> IF sso[s] = None THEN None
                                    ELSE [sso[s] EXCEPT !.age = Older(@, SSO_TTL)]]
        /\ secrets' = [otp |-> None, duo |-> IF secrets["duo"] = None THEN None
                                             ELSE "expired"]
        /\ failures' = IF expired THEN Counted(0, 0)
                                  ELSE [failures EXCEPT !.ttl = Remaining(@)]
        /\ UNCHANGED <<accounts, purge, history, requests>>

\* Mutant: an answered request is as old as any.
unansweredAlways(x) == FALSE

unanswered(x) == x.approved = "open" /\ x.age >= ASK_TTL

ExpiredAsks == {a \in Asks : asks[a] # None /\ unanswered(asks[a])}

\* handleScheduled, every 15 minutes: nothing is purged when no request to log
\* in, no Send and no incomplete second factor (others) has expired.
StartPurge(others) ==
    /\ purge = <<>>
    /\ ExpiredAsks # {} \/ others
    /\ purge' = (IF ExpiredAsks = {} THEN <<>> ELSE <<"asks">>) \o <<"duo", "sso">>
    /\ UNCHANGED <<tickets, accounts, failures, history, requests>>

PurgeAsks == asks' = [a \in Asks |-> IF a \in ExpiredAsks THEN None ELSE asks[a]]

\* purgeExpiredDuoContexts, purgeExpiredSsoAuth
PurgeDuo == secrets' = [secrets EXCEPT !["duo"] = IF @ = "expired" THEN None ELSE @]
PurgeSso == sso' = [s \in States |-> IF sso[s] # None /\ sso[s].age >= SSO_TTL
                                     THEN None ELSE sso[s]]

Purge ==
    /\ purge # <<>>
    /\ purge' = Tail(purge)
    /\ \/ Head(purge) = "asks" /\ PurgeAsks /\ UNCHANGED <<sso, secrets>>
       \/ Head(purge) = "duo" /\ PurgeDuo /\ UNCHANGED <<asks, sso>>
       \/ Head(purge) = "sso" /\ PurgeSso /\ UNCHANGED <<asks, secrets>>
    /\ UNCHANGED <<accounts, failures, history, requests>>

Fail(r) ==
    /\ Failures
    /\ requests[r] # None
    /\ requests' = [requests EXCEPT ![r] = None]
    /\ history' = None
    /\ UNCHANGED <<tickets, accounts, failures, purge>>

----------------------------------------------------------------------------
Init ==
    /\ asks = [a \in Asks |-> None]
    /\ sso = [s \in States |-> None]
    /\ secrets = [k \in Secrets |-> None]
    /\ account = "absent"
    /\ link = None
    /\ failures = [count |-> 0, ttl |-> 0, older |-> {}]
    /\ purge = <<>>
    /\ history = [uses |-> NoUses, denied |-> {}, passed |-> {}, logged |-> {}]
    /\ requests = [r \in Requests |-> None]

Arrive(r) ==
    \/ WrongPassword(r)
    \/ \E a \in Asks :
         WrongDeviceLogin(r, a) \/ \E yes \in BOOLEAN : Answer(r, a, yes)
    \/ \E s \in States :
         \/ Authorize(r, s)
         \/ \E i \in Identities \cup {None}, error \in BOOLEAN : Callback(r, s, i, error)
         \/ SsoLogin(r, s) \/ SsoError(r, s)
    \/ \E k \in Secrets : Take(r, k)

Proceed(r) ==
    \/ ReadCount(r) \/ RecordFailure(r) \/ WriteAnswer(r) \/ DropSso(r)
    \/ InsertSso(r) \/ WriteCallback(r) \/ Exchange(r) \/ SaveResponse(r)
    \/ Resolve(r) \/ Provision(r) \/ Complete(r) \/ Refused(r) \/ Redeem(r)
    \/ Link(r) \/ Login(r) \/ Consume(r) \/ Fail(r)

Single ==
    \/ \E a \in Asks : CreateAsk(a) \/ DeviceLogin(a)
    \/ \E k \in Secrets : Issue(k)
    \/ SetKeys \/ DeleteAccount \/ Unlink

Next ==
    \/ \E r \in Active : Proceed(r)
    \/ \E r \in Idle : Arrive(r)
    \/ Single
    \/ Tick
    \/ Converge
    \/ \E others \in BOOLEAN : StartPurge(others)
    \/ Purge

\* Time passes, the KV store settles, and the job is run and runs to its end: no
\* request needs to arrive, nor one that has arrived to end.
Fairness ==
    /\ WF_vars(Tick)
    /\ WF_vars(Converge)
    /\ WF_vars(StartPurge(FALSE))
    /\ WF_vars(Purge)

Spec == Init /\ [][Next]_vars /\ Fairness

----------------------------------------------------------------------------
\* A code is exchanged before its answer is kept, and only an account has a link.
TypeOK ==
    /\ asks \in [Asks -> Ask \cup {None}]
    /\ sso \in [States -> SsoAuth \cup {None}]
    /\ secrets \in [Secrets -> {"valid", "expired", None}]
    /\ account \in {"absent", "shell", "full"}
    /\ link \in Identities \cup {None}
    /\ link # None => account # "absent"
    /\ failures \in Counter
    /\ failures.count = 0 <=> failures.ttl = 0
    /\ history \in History \cup {None}
    /\ requests \in [Requests -> Request \cup {None}]
    /\ \A r \in Active : requests[r].todo # <<>>

Quiet == history # None /\ Active = {}

\* A request to log in that was ever denied has let nobody in, before or since:
\* PUT /auth-requests/:id answers once.
DeniedStaysOut == Quiet => history.denied \cap history.passed = {}

\* An authorization at the provider, a one-time code and a Duo state are each
\* good for one login or action.
UsedOnce == Quiet => \A t \in States \cup Secrets : history.uses[t] <= 1

\* Until an administrator removes the link, one identity only has logged in to
\* the account by single sign-on.
OneIdentity == Quiet => Cardinality(history.logged) <= 1

\* A locked account can be logged in to again: tries at a locked account do not
\* prolong the lock, also while reads of the counter are still stale.
LockEnds == failures.count >= MAX_FAILURES ~> failures.count < MAX_FAILURES

\* A request to log in that nobody answers is purged in the end.
UnansweredPurged ==
    \A a \in Asks :
      (asks[a] # None /\ asks[a].approved = "open")
        ~> (asks[a] = None \/ asks[a].approved # "open")
=============================================================================
