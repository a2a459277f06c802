------------------------------ MODULE Accounts ------------------------------
(***************************************************************************)
(* The secrets of one account (api/identity.ts, api/accounts.ts): the      *)
(* password hash the server compares, the user key wrapped for the client, *)
(* the e-mail address and KDF settings both are derived with, and the      *)
(* vault encrypted under the user key.  The server sees none of it in      *)
(* clear: it stores what clients send, column by column, and whether the   *)
(* columns still belong together is up to the order of its statements.     *)
(*                                                                         *)
(* A handler reads the row in requireAuth (the body of a request is read   *)
(* with it), checks the password against what it has read, and ends in one *)
(* UPDATE of some columns; a key rotation re-encrypts the vault before it, *)
(* item by item.  Clients derive what they send from the account as it is  *)
(* when the request begins: they are in sync.                              *)
(***************************************************************************)
EXTENDS Integers, FiniteSets

CONSTANTS
    Emails,     \* e-mail addresses
    Passwords,  \* master passwords
    Kdfs,       \* KDF settings (type, iterations, memory, parallelism)
    Items,      \* ciphers, folders and Sends of the account
    Requests,   \* requests in flight at the same time
    None,       \* no account, no password, no key, no e-mail change, no request
    MaxKeys,    \* bound: user keys and codes drawn
    MaxMails,   \* bound: tokens mailed
    Failures,   \* may a statement fail, or a Worker be evicted, in between?
    AllowUnknown    \* config.ssoAllowUnknownEmailVerification

\* What a client derives from the password; the address is the salt.
MasterKey == [password : Passwords, email : Emails, kdf : Kdfs]
masterKey(p, e, k) == [password |-> p, email |-> e, kdf |-> k]

\* The columns of users, with their values.  akey is the user key - a number -
\* wrapped by a master key; privateKey: is there a key pair?  slow:
\* passwordIterations < config.passwordIterations.
Column == [email |-> Emails, kdf |-> Kdfs, hash |-> MasterKey \cup {None},
           akey |-> [by : MasterKey, key : Nat] \cup {None},
           newEmail |-> [email : Emails, code : Nat] \cup {None},
           verified |-> BOOLEAN, slow |-> BOOLEAN, privateKey |-> BOOLEAN]
Row == [email : Column.email, kdf : Column.kdf, hash : Column.hash,
        akey : Column.akey, newEmail : Column.newEmail,
        verified : Column.verified, slow : Column.slow,
        privateKey : Column.privateKey]
PartialRow == {row \in UNION {[cols -> UNION {Column[c] : c \in DOMAIN Column}] :
                                cols \in SUBSET DOMAIN Column} :
                 \A c \in DOMAIN row : row[c] \in Column[c]}

\* An UPDATE sets the columns of set, once items are re-encrypted with key.
Request == [pc : {"insert", "update", "item", "delete"}, set : PartialRow,
            items : SUBSET Items, key : Nat]

ASSUME NoneAssumption ==
    None \notin Row \cup MasterKey \cup [by : MasterKey, key : Nat]
                       \cup [email : Emails, code : Nat] \cup Request
ASSUME BoundAssumption ==
    MaxKeys \in Nat \ {0} /\ MaxMails \in Nat /\ Failures \in BOOLEAN
ASSUME InputAssumption == AllowUnknown \in BOOLEAN

VARIABLES
    account,    \* the row, or None
    vault,      \* the user key each item is encrypted with; 0: no item
    mailed,     \* tokens mailed: to register an address, to verify the account's
    proven,     \* history: addresses whose owner returned a token or code, or
                \* for which the identity provider stands, as configured
    drawn,      \* user keys and codes drawn
    disturbed,  \* history: did requests ever overlap, or one fail?
    requests    \* what each request in flight will write

vars == <<account, vault, mailed, proven, drawn, disturbed, requests>>

----------------------------------------------------------------------------
Active == {r \in Requests : requests[r] # None}
Begin(r, q) == /\ requests[r] = None
               /\ requests' = [requests EXCEPT ![r] = q]
               /\ disturbed' = (disturbed \/ Active # {})
At(r, pc) == requests[r] # None /\ requests[r].pc = pc
Continue(r, q) == /\ requests' = [requests EXCEPT ![r] = q]
                  /\ UNCHANGED disturbed
Done(r) == Continue(r, None)

Update(cols, row) ==
    [pc |-> "update", set |-> [c \in cols |-> row[c]], items |-> {}, key |-> 0]
ItemRequest(pc, i, key) ==
    [pc |-> pc, set |-> <<>>, items |-> {i}, key |-> key]
IsRotation(q) == q.set # <<>>

Draw == drawn < MaxKeys /\ drawn' = drawn + 1

\* Another account has another uuid: the row stands for it only once no request
\* refers to the old one.
Fresh == account = None /\ \A r \in Active : requests[r].pc = "insert"

newUserShell(e, k) ==
    [email |-> e, kdf |-> k, hash |-> None, akey |-> None, newEmail |-> None,
     verified |-> FALSE, slow |-> FALSE, privateKey |-> FALSE]

HasPassword == account # None /\ account.hash # None

\* A session: signed in with a password, or by SSO, which verifies the address.
SignedIn == HasPassword \/ (account # None /\ account.verified)

\* verifyPassword: what a client derives from p with the settings it was told
\* in prelogin.
verifyPassword(p) ==
    HasPassword /\ account.hash = masterKey(p, account.email, account.kdf)

\* passwordFields, and the user key wrapped anew.
secrets == {"hash", "slow", "akey"}
WithSecrets(row, mk, key) ==
    [row EXCEPT !.hash = mk, !.slow = FALSE, !.akey = [by |-> mk, key |-> key]]

----------------------------------------------------------------------------
(***************************************************************************)
(* Registration                                                            *)
(***************************************************************************)
Mail == [kind : {"register", "verify"}, email : Emails]
mail(kind, e) == [kind |-> kind, email |-> e]
Post(m) == Cardinality(mailed) < MaxMails /\ mailed' = mailed \cup {m}

\* send-verification-email, or an invitation: the token names the address.
MailRegistration(e) ==
    /\ Post(mail("register", e))
    /\ disturbed' = (disturbed \/ Active # {})
    /\ UNCHANGED <<account, vault, proven, drawn, requests>>

\* /accounts/verify-email and the welcome: the token names the account.
MailVerification ==
    /\ account # None
    /\ Post(mail("verify", account.email))
    /\ disturbed' = (disturbed \/ Active # {})
    /\ UNCHANGED <<account, vault, proven, drawn, requests>>

\* An invited address gets a shell, and a registration that is refused after
\* the insert leaves one.
CreateShell(e, k) ==
    /\ Fresh
    /\ account' = newUserShell(e, k)
    /\ disturbed' = (disturbed \/ Active # {})
    /\ UNCHANGED <<vault, mailed, proven, drawn, requests>>

\* Of the columns that not every registration writes, those in cols.
registration(cols, e, p, k, row) ==
    Update(cols \cup secrets \cup {"kdf"},
           [WithSecrets(row, masterKey(p, e, k), drawn') EXCEPT
              !.kdf = k, !.verified = TRUE, !.privateKey = TRUE])

\* registerHandler on a shell, or on a new row that is inserted first.  With a
\* mailed token (of the registration or of an invitation) the address is
\* verified; a key pair may come with it.
RegisterRead(r, e, p, k, cols) ==
    /\ "verified" \in cols => mail("register", e) \in mailed
    /\ Draw
    /\ \/ /\ account = None
          /\ Begin(r, [registration(cols \cup {"email"}, e, p, k,
                                     newUserShell(e, k))
                       EXCEPT !.pc = "insert"])
       \/ /\ account # None
          /\ account.email = e
          /\ account.hash = None
          /\ Begin(r, registration(cols, e, p, k, account))
    /\ proven' = IF "verified" \in cols THEN proven \cup {e} ELSE proven
    /\ UNCHANGED <<account, vault, mailed>>

RegisterInsert(r) ==
    /\ At(r, "insert")
    /\ Fresh
    /\ account' = newUserShell(requests[r].set.email, requests[r].set.kdf)
    /\ Continue(r, Update(DOMAIN requests[r].set \ {"email"}, requests[r].set))
    /\ UNCHANGED <<vault, mailed, proven, drawn>>

\* The unique index on the address.
RegisterConflict(r) ==
    /\ At(r, "insert")
    /\ account # None
    /\ Done(r)
    /\ UNCHANGED <<account, vault, mailed, proven, drawn>>

\* set-password: whoever has a session of an account without a key pair; a
\* password that it may have is not asked for.  The client wraps the user key
\* if there is one.
SetPassword(r, p, k, withKeys) ==
    /\ SignedIn
    /\ ~account.privateKey
    /\ IF account.akey = None THEN Draw ELSE UNCHANGED drawn
    /\ Begin(r, Update(secrets \cup {"kdf", "privateKey"},
         [WithSecrets(account, masterKey(p, account.email, k),
                      IF account.akey = None THEN drawn' ELSE account.akey.key)
          EXCEPT !.kdf = k, !.privateKey = withKeys]))
    /\ UNCHANGED <<account, vault, mailed, proven>>

\* /accounts/keys
PostKeys(r) ==
    /\ SignedIn
    /\ Begin(r, Update({"privateKey"}, [account EXCEPT !.privateKey = TRUE]))
    /\ UNCHANGED <<account, vault, mailed, proven, drawn>>

----------------------------------------------------------------------------
(***************************************************************************)
(* The first sign-in by SSO                                                *)
(***************************************************************************)
\* email_verified of the identity provider, which may leave it out.
Claims == {"verified", "unknown", "unverified"}

\* Mutant: only silence is looked at.
ssoAcceptsUnverified(claim) == claim = "unknown" => AllowUnknown

ssoAccepts(claim) ==
    claim # "unverified" /\ (claim = "unknown" => AllowUnknown)

\* What stands for an address: the provider, or, where it is silent, an
\* administrator who has said that this is enough.
vouched(e, claim) ==
    {x \in {e} : claim = "verified" \/ (AllowUnknown /\ claim = "unknown")}

\* An identity without an account: a shell, verified from the start.
SsoCreate(e, k, claim) ==
    /\ Fresh
    /\ ssoAccepts(claim)
    /\ account' = [newUserShell(e, k) EXCEPT !.verified = TRUE]
    /\ proven' = proven \cup vouched(e, claim)
    /\ disturbed' = (disturbed \/ Active # {})
    /\ UNCHANGED <<vault, mailed, drawn, requests>>

\* An account of that address, without a key pair: signing in verifies it.
SsoComplete(r, claim) ==
    /\ account # None
    /\ ~account.privateKey
    /\ ssoAccepts(claim)
    /\ proven' = proven \cup vouched(account.email, claim)
    /\ Begin(r, Update({"verified"}, [account EXCEPT !.verified = TRUE]))
    /\ UNCHANGED <<account, vault, mailed, drawn>>

----------------------------------------------------------------------------
(***************************************************************************)
(* Changes of the secrets                                                  *)
(***************************************************************************)
\* Mutant: the wrapped key is left alone.
ChangePasswordOnly(r, p, new) ==
    /\ verifyPassword(p)
    /\ Begin(r, Update({"hash", "slow"},
         WithSecrets(account, masterKey(new, account.email, account.kdf),
                     account.akey.key)))
    /\ UNCHANGED <<account, vault, mailed, proven, drawn>>

ChangePassword(r, p, new) ==
    /\ verifyPassword(p)
    /\ Begin(r, Update(secrets,
         WithSecrets(account, masterKey(new, account.email, account.kdf),
                     account.akey.key)))
    /\ UNCHANGED <<account, vault, mailed, proven, drawn>>

ChangeKdf(r, p, k) ==
    /\ verifyPassword(p)
    /\ Begin(r, Update(secrets \cup {"kdf"},
         [WithSecrets(account, masterKey(p, account.email, k), account.akey.key)
          EXCEPT !.kdf = k]))
    /\ UNCHANGED <<account, vault, mailed, proven, drawn>>

\* /accounts/email-token: the code goes to the new address.
RequestEmailChange(r, p, e) ==
    /\ verifyPassword(p)
    /\ e # account.email
    /\ Draw
    /\ Begin(r, Update({"newEmail"},
         [account EXCEPT !.newEmail = [email |-> e, code |-> drawn']]))
    /\ UNCHANGED <<account, vault, mailed, proven>>

emailChange(e, code) == account.newEmail = [email |-> e, code |-> code]

\* /accounts/email.  Who has the code owns the address it was mailed to.
ChangeEmail(r, p, e, code) ==
    /\ verifyPassword(p)
    /\ e # account.email
    /\ emailChange(e, code)
    /\ proven' = proven \cup
         {x \in Emails : account.newEmail = [email |-> x, code |-> code]}
    /\ Begin(r, Update(secrets \cup {"email", "newEmail", "verified"},
         [WithSecrets(account, masterKey(p, e, account.kdf), account.akey.key)
          EXCEPT !.email = e, !.newEmail = None, !.verified = TRUE]))
    /\ UNCHANGED <<account, vault, mailed, drawn>>

\* /accounts/verify-email-token
VerifyEmailToken(r, e) ==
    /\ account # None
    /\ mail("verify", e) \in mailed
    /\ proven' = proven \cup {e}
    /\ Begin(r, Update({"verified"}, [account EXCEPT !.verified = TRUE]))
    /\ UNCHANGED <<account, vault, mailed, drawn>>

\* The administrator raises config.passwordIterations ...
RaiseIterations ==
    /\ HasPassword
    /\ account' = [account EXCEPT !.slow = TRUE]
    /\ disturbed' = (disturbed \/ Active # {})
    /\ UNCHANGED <<vault, mailed, proven, drawn, requests>>

\* ... and the next login hashes the password it has verified again.
LoginUpgrade(r, p) ==
    /\ verifyPassword(p)
    /\ account.slow
    /\ Begin(r, Update({"hash", "slow"}, [account EXCEPT !.slow = FALSE]))
    /\ UNCHANGED <<account, vault, mailed, proven, drawn>>

WriteColumns(r) ==
    LET q == requests[r]
    IN  /\ At(r, "update")
        /\ account' = IF account = None THEN None
                      ELSE [c \in DOMAIN account |->
                              IF c \in DOMAIN q.set THEN q.set[c] ELSE account[c]]
        /\ Done(r)
        /\ UNCHANGED <<vault, mailed, proven, drawn>>

----------------------------------------------------------------------------
(***************************************************************************)
(* The vault and the rotation of its key                                   *)
(***************************************************************************)
\* A client saves an item, encrypted with the key it holds.
SaveItem(r, i) ==
    /\ HasPassword
    /\ Begin(r, ItemRequest("item", i, account.akey.key))
    /\ UNCHANGED <<account, vault, mailed, proven, drawn>>

DeleteItem(r, i) ==
    /\ account # None
    /\ Begin(r, ItemRequest("delete", i, 0))
    /\ UNCHANGED <<account, vault, mailed, proven, drawn>>

\* rotateKey, with all items the client has; the key pair is written as it was
\* read.
RotateKey(r, p) ==
    /\ verifyPassword(p)
    /\ Draw
    /\ Begin(r, [Update(secrets \cup {"privateKey"},
                        WithSecrets(account, account.hash, drawn'))
                 EXCEPT !.pc = "item",
                        !.items = {i \in Items : vault[i] # 0},
                        !.key = drawn'])
    /\ UNCHANGED <<account, vault, mailed, proven>>

\* updateCipherFromData, and the loops over folders and Sends; a rotation goes
\* on to the UPDATE of the account.
WriteItem(r, i) ==
    LET q == requests[r]
    IN  /\ At(r, "item")
        /\ i \in q.items
        /\ account # None
        /\ IsRotation(q) => vault[i] # 0
        /\ vault' = [vault EXCEPT ![i] = q.key]
        /\ Continue(r, IF IsRotation(q) THEN [q EXCEPT !.items = @ \ {i}]
                       ELSE None)
        /\ UNCHANGED <<account, mailed, proven, drawn>>

\* "The cipher is not owned by the user", or the account is gone.
WriteItemRefused(r, i) ==
    /\ At(r, "item")
    /\ i \in requests[r].items
    /\ account = None \/ (IsRotation(requests[r]) /\ vault[i] = 0)
    /\ Done(r)
    /\ UNCHANGED <<account, vault, mailed, proven, drawn>>

RotateAccount(r) ==
    /\ At(r, "item")
    /\ requests[r].items = {}
    /\ Continue(r, [requests[r] EXCEPT !.pc = "update"])
    /\ UNCHANGED <<account, vault, mailed, proven, drawn>>

RemoveItem(r) ==
    /\ At(r, "delete")
    /\ vault' = [i \in Items |-> IF i \in requests[r].items THEN 0 ELSE vault[i]]
    /\ Done(r)
    /\ UNCHANGED <<account, mailed, proven, drawn>>

\* By the user, by the administrator or by the mailed token: the rows cascade.
\* Tokens to verify name the uuid that is gone.
DeleteAccount ==
    /\ account # None
    /\ account' = None
    /\ vault' = [i \in Items |-> 0]
    /\ mailed' = {m \in mailed : m.kind = "register"}
    /\ disturbed' = (disturbed \/ Active # {})
    /\ UNCHANGED <<proven, drawn, requests>>

Fail(r) == /\ Failures
           /\ requests[r] # None
           /\ requests' = [requests EXCEPT ![r] = None]
           /\ disturbed' = TRUE
           /\ UNCHANGED <<account, vault, mailed, proven, drawn>>

----------------------------------------------------------------------------
Init ==
    /\ account = None
    /\ vault = [i \in Items |-> 0]
    /\ mailed = {}
    /\ proven = {}
    /\ drawn = 0
    /\ disturbed = FALSE
    /\ requests = [r \in Requests |-> None]

Arrive(r) ==
    \/ \E e \in Emails, p \in Passwords :
         \/ \E k \in Kdfs, cols \in SUBSET {"verified", "privateKey"} :
              RegisterRead(r, e, p, k, cols)
         \/ RequestEmailChange(r, p, e)
         \/ \E code \in 1 .. MaxKeys : ChangeEmail(r, p, e, code)
    \/ \E e \in Emails : VerifyEmailToken(r, e)
    \/ \E claim \in Claims : SsoComplete(r, claim)
    \/ PostKeys(r)
    \/ \E p \in Passwords :
         \/ \E new \in Passwords : ChangePassword(r, p, new)
         \/ \E k \in Kdfs : \/ ChangeKdf(r, p, k)
                           \/ \E w \in BOOLEAN : SetPassword(r, p, k, w)
         \/ LoginUpgrade(r, p)
         \/ RotateKey(r, p)
    \/ \E i \in Items : SaveItem(r, i) \/ DeleteItem(r, i)

Proceed(r) ==
    \/ RegisterInsert(r) \/ RegisterConflict(r)
    \/ WriteColumns(r) \/ RotateAccount(r) \/ RemoveItem(r)
    \/ \E i \in Items : WriteItem(r, i) \/ WriteItemRefused(r, i)
    \/ Fail(r)

Next ==
    \/ \E e \in Emails :
         \/ MailRegistration(e)
         \/ \E k \in Kdfs : \/ CreateShell(e, k)
                           \/ \E claim \in Claims : SsoCreate(e, k, claim)
    \/ MailVerification \/ RaiseIterations \/ DeleteAccount
    \/ \E r \in Requests : IF requests[r] = None THEN Arrive(r) ELSE Proceed(r)

Spec == Init /\ [][Next]_vars

----------------------------------------------------------------------------
\* Whatever is written, in whatever order, the columns keep their types: an
\* UPDATE sets only columns of users.
TypeOK ==
    /\ account \in Row \cup {None}
    /\ vault \in [Items -> Nat]
    /\ mailed \subseteq Mail
    /\ proven \subseteq Emails
    /\ drawn \in 0 .. MaxKeys
    /\ disturbed \in BOOLEAN
    /\ requests \in [Requests -> Request \cup {None}]

\* The password that logs in also opens the vault: hash and wrapped key come
\* from one password, the address and the KDF settings that prelogin announces,
\* and every item is encrypted with the key they wrap.  After any sequence of
\* requests that neither overlap nor fail.
PasswordOpensVault ==
    ~disturbed /\ Active = {} /\ HasPassword =>
      /\ account.akey.by = account.hash
      /\ account.hash.email = account.email
      /\ account.hash.kdf = account.kdf
      /\ \A i \in Items : vault[i] \in {0, account.akey.key}

\* However requests overlap, an address counts as verified only after its owner
\* returned a token or code that was mailed there, or after a sign-in by SSO for
\* which the identity provider called it verified, or was silent about it where
\* ssoAllowUnknownEmailVerification takes that for an answer.
VerifiedHasGrounds ==
    account # None /\ account.verified => account.email \in proven
=============================================================================
