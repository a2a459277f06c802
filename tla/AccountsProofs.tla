--------------------------- MODULE AccountsProofs ---------------------------
(***************************************************************************)
(* For any number of addresses, passwords, settings, items and requests:   *)
(*                                                                         *)
(* an address counts as verified only after its owner has returned what    *)
(* was mailed there, or the identity provider has stood for it, however    *)
(* requests overlap.  An UPDATE sets a few                                 *)
(* columns, whatever the others have become: so what a request in flight   *)
(* will write must stay sound while other requests change the address, and *)
(* while the account is deleted and made anew (Inv);                       *)
(*                                                                         *)
(* and the password that logs in opens the vault, after requests that      *)
(* neither overlap nor fail.  While one is in flight that need not be so:  *)
(* what holds is that what it has still to write makes it so (CalmInv).    *)
(***************************************************************************)
EXTENDS Accounts, TLAPS

Verified(set) == "verified" \in DOMAIN set /\ set.verified

\* What the UPDATE of q makes of the account a: the address it sets is proven,
\* or the one that it leaves is when the UPDATE verifies it; and no password is
\* set without a key.
Sound(q, a, P) ==
    /\ "akey" \in DOMAIN q.set => q.set.akey # None
    /\ q.pc = "insert" => /\ {"email", "kdf", "akey"} \subseteq DOMAIN q.set
                          /\ Verified(q.set) => q.set.email \in P
    /\ q.pc # "insert" =>
         /\ "email" \in DOMAIN q.set => q.set.email \in P
         /\ Verified(q.set) /\ "email" \notin DOMAIN q.set /\ a # None => a.email \in P
         /\ "hash" \in DOMAIN q.set /\ "akey" \notin DOMAIN q.set /\ a # None
              => a.akey # None

\* A token to verify the account was mailed to its address, if that has not
\* been proven another way since.
MailSound(m, a, P) ==
    m.kind = "verify" => a # None /\ (a.email \in P \/ m.email = a.email)

HasKey(a) == a # None /\ a.hash # None => a.akey # None

AllSound == \A r \in Active : Sound(requests[r], account, proven)
AllMailSound == \A m \in mailed : MailSound(m, account, proven)
Inv == TypeOK /\ VerifiedHasGrounds /\ HasKey(account) /\ AllMailSound /\ AllSound

\* The account a may become b while requests wait: the address stays or the new
\* one is proven, and a key is never taken away.
Kept(a, b, P) == b # None => /\ a # None
                             /\ b.email = a.email \/ b.email \in P
                             /\ a.akey # None => b.akey # None

----------------------------------------------------------------------------
LEMMA SoundLater ==
    ASSUME NEW q, NEW a, NEW b, NEW P, NEW Q, Sound(q, a, P), P \subseteq Q,
           q.pc = "insert" \/ Kept(a, b, Q)
    PROVE  Sound(q, b, Q)
<1>1. CASE q.pc = "insert"
  BY <1>1 DEF Sound
<1>2. CASE q.pc # "insert"
  <2>1. Kept(a, b, Q)
    BY <1>2
  <2> QED
    BY <1>2, <2>1 DEF Sound, Kept
<1> QED
  BY <1>1, <1>2

LEMMA MailSoundLater ==
    ASSUME NEW m, NEW a, NEW b, NEW P, NEW Q, MailSound(m, a, P), P \subseteq Q,
           Kept(a, b, Q), a # None => b # None
    PROVE  MailSound(m, b, Q)
BY DEF MailSound, Kept

\* A step that leaves the account: a request begins, goes on or ends, a token is
\* mailed or returned.
LEMMA RequestStep ==
    ASSUME Inv, NEW r \in Requests, NEW q,
           q # None => q \in Request /\ Sound(q, account, proven'),
           requests' = [requests EXCEPT ![r] = q],
           account' = account, vault' \in [Items -> Nat],
           mailed' \subseteq Mail, \A m \in mailed' : MailSound(m, account, proven'),
           proven \subseteq proven', proven' \subseteq Emails,
           drawn' \in 0 .. MaxKeys, disturbed' \in BOOLEAN
    PROVE  Inv'
<1>1. TypeOK'
  BY DEF Inv, TypeOK, Active
<1>2. Kept(account, account, proven')
  BY DEF Kept
<1>3. AllSound'
  <2> SUFFICES ASSUME NEW s \in Requests, requests'[s] # None
               PROVE  Sound(requests'[s], account, proven')
    BY DEF AllSound, Active
  <2>1. CASE s = r
    BY <2>1 DEF Inv, TypeOK
  <2>2. CASE s # r
    <3>1. requests'[s] = requests[s] /\ Sound(requests[s], account, proven)
      BY <2>2 DEF Inv, TypeOK, AllSound, Active
    <3> QED
      BY <1>2, <3>1, SoundLater
  <2> QED
    BY <2>1, <2>2
<1>4. VerifiedHasGrounds' /\ HasKey(account)' /\ AllMailSound'
  BY DEF Inv, VerifiedHasGrounds, HasKey, AllMailSound
<1> QED
  BY <1>1, <1>3, <1>4 DEF Inv

\* A request begins, or goes on with another request.
LEMMA QuietStep ==
    ASSUME Inv, NEW r \in Requests, NEW q,
           q # None => q \in Request /\ Sound(q, account, proven'),
           requests' = [requests EXCEPT ![r] = q],
           account' = account, vault' \in [Items -> Nat], mailed' = mailed,
           proven \subseteq proven', proven' \subseteq Emails,
           drawn' \in 0 .. MaxKeys, disturbed' \in BOOLEAN
    PROVE  Inv'
<1>1. Kept(account, account, proven')
  BY DEF Kept
<1>2. \A m \in mailed : MailSound(m, account, proven')
  BY <1>1, MailSoundLater DEF Inv, AllMailSound
<1> QED
  BY <1>2, RequestStep DEF Inv, TypeOK

----------------------------------------------------------------------------
\* The columns of a row.
LEMMA RowColumns ==
    /\ \A row \in Row : DOMAIN row = DOMAIN Column
    /\ \A row \in Row : \A c \in DOMAIN Column : row[c] \in Column[c]
    /\ DOMAIN Column = {"email", "kdf", "hash", "akey", "newEmail", "verified", "slow",
                        "privateKey"}
BY DEF Row, Column

\* A request that updates no column.
LEMMA NoColumns == <<>> \in PartialRow /\ DOMAIN <<>> = {}
<1>1. DOMAIN <<>> = {}
  OBVIOUS
<1>2. <<>> \in [{} -> UNION {Column[c] : c \in DOMAIN Column}]
  OBVIOUS
<1> QED
  BY <1>1, <1>2 DEF PartialRow

\* An UPDATE of some columns of a row is a request.
LEMMA UpdateIsRequest ==
    ASSUME NEW row \in Row, NEW cols \in SUBSET DOMAIN Column
    PROVE  /\ Update(cols, row) \in Request
           /\ Update(cols, row).pc = "update"
           /\ DOMAIN Update(cols, row).set = cols
           /\ \A c \in cols : Update(cols, row).set[c] = row[c]
<1> DEFINE set == [c \in cols |-> row[c]]
<1>1. DOMAIN set = cols /\ \A c \in cols : set[c] = row[c]
  OBVIOUS
<1>2. set \in PartialRow
  BY <1>1, RowColumns DEF PartialRow
<1> HIDE DEF set
<1>3. Update(cols, row) = [pc |-> "update", set |-> set, items |-> {}, key |-> 0]
  BY DEF Update, set
<1> QED
  BY <1>1, <1>2, <1>3 DEF Request

\* A row with the secrets of a password.
LEMMA SecretsInRow ==
    ASSUME NEW row \in Row, NEW mk \in MasterKey, NEW key \in Nat
    PROVE  /\ WithSecrets(row, mk, key) \in Row
           /\ WithSecrets(row, mk, key).akey # None
           /\ WithSecrets(row, mk, key).email = row.email
           /\ WithSecrets(row, mk, key).verified = row.verified
<1> DEFINE akey == [by |-> mk, key |-> key]
<1>1. akey \in Column.akey /\ akey # None
  BY NoneAssumption DEF Column
<1>2. mk \in Column.hash /\ FALSE \in Column.slow
  BY DEF Column
<1>3. WithSecrets(row, mk, key) = [row EXCEPT !.hash = mk, !.slow = FALSE, !.akey = akey]
  BY DEF WithSecrets
<1> HIDE DEF akey
<1> QED
  BY <1>1, <1>2, <1>3 DEF Row

LEMMA MasterKeyType ==
    ASSUME NEW p \in Passwords, NEW e \in Emails, NEW k \in Kdfs
    PROVE  masterKey(p, e, k) \in MasterKey
BY DEF masterKey, MasterKey

LEMMA ShellInRow ==
    ASSUME NEW e \in Emails, NEW k \in Kdfs
    PROVE  /\ newUserShell(e, k) \in Row /\ newUserShell(e, k).email = e
           /\ newUserShell(e, k).hash = None /\ ~newUserShell(e, k).verified
BY DEF newUserShell, Row, Column

\* What holds of the row of an account with a password.
LEMMA PasswordRow ==
    ASSUME Inv, HasPassword
    PROVE  /\ account \in Row /\ account # None /\ account.akey # None
           /\ account.akey.key \in Nat /\ account.hash \in MasterKey
           /\ account.email \in Emails /\ account.kdf \in Kdfs
BY DEF Inv, TypeOK, HasPassword, HasKey, Row, Column

\* A request that is about to UPDATE some columns.
LEMMA UpdateSound ==
    ASSUME NEW row \in Row, NEW cols \in SUBSET DOMAIN Column, NEW P,
           "akey" \in cols => row.akey # None,
           "email" \in cols => row.email \in P,
           "verified" \in cols /\ row.verified /\ "email" \notin cols /\ account # None
             => account.email \in P,
           "hash" \in cols /\ "akey" \notin cols /\ account # None
             => account.akey # None
    PROVE  Update(cols, row) \in Request /\ Sound(Update(cols, row), account, P)
<1> DEFINE q == Update(cols, row)
<1>1. /\ q \in Request /\ q.pc = "update" /\ DOMAIN q.set = cols
      /\ \A c \in cols : q.set[c] = row[c]
  BY UpdateIsRequest
<1> HIDE DEF q
<1>2. Verified(q.set) => "verified" \in cols /\ row.verified
  BY <1>1 DEF Verified
<1> QED
  BY <1>1, <1>2 DEF Sound, q

\* A handler that begins with an UPDATE of what it has read.
LEMMA UpdateStep ==
    ASSUME Inv, NEW r \in Requests, NEW row \in Row,
           NEW cols \in SUBSET DOMAIN Column,
           "akey" \in cols => row.akey # None,
           "email" \in cols => row.email \in proven',
           "verified" \in cols /\ row.verified /\ "email" \notin cols /\ account # None
             => account.email \in proven',
           "hash" \in cols /\ "akey" \notin cols /\ account # None
             => account.akey # None,
           Begin(r, Update(cols, row)),
           proven \subseteq proven', proven' \subseteq Emails, drawn' \in 0 .. MaxKeys,
           UNCHANGED <<account, vault, mailed>>
    PROVE  Inv'
<1>1. /\ Update(cols, row) \in Request /\ Sound(Update(cols, row), account, proven')
  BY UpdateSound
<1>2. requests' = [requests EXCEPT ![r] = Update(cols, row)] /\ disturbed' \in BOOLEAN
  BY DEF Begin, Inv, TypeOK
<1>3. vault' \in [Items -> Nat]
  BY DEF Inv, TypeOK
<1> QED
  BY <1>1, <1>2, <1>3, QuietStep

LEMMA DrawType ==
    ASSUME Inv, Draw
    PROVE  drawn' \in 0 .. MaxKeys /\ drawn' \in Nat
BY BoundAssumption DEF Inv, TypeOK, Draw

----------------------------------------------------------------------------
\* The registration of a shell, or of a row that is inserted first.
LEMMA RegistrationType ==
    ASSUME Inv, Draw, NEW e \in Emails, NEW p \in Passwords, NEW k \in Kdfs,
           NEW row \in Row, NEW cols \in SUBSET {"email", "verified", "privateKey"},
           row.email = e
    PROVE  \E all \in SUBSET DOMAIN Column, new \in Row :
             /\ registration(cols, e, p, k, row) = Update(all, new)
             /\ secrets \cup {"kdf"} \subseteq all
             /\ "email" \in all <=> "email" \in cols
             /\ "verified" \in all <=> "verified" \in cols
             /\ new.akey # None
             /\ new.email = e
<1> DEFINE all == cols \cup secrets \cup {"kdf"}
           mid == WithSecrets(row, masterKey(p, e, k), drawn')
           new == [mid EXCEPT !.kdf = k, !.verified = TRUE, !.privateKey = TRUE]
<1>1. mid \in Row /\ mid.akey # None /\ mid.email = e
  BY DrawType, MasterKeyType, SecretsInRow
<1> HIDE DEF mid
<1>2. new \in Row /\ new.akey # None /\ new.email = e
  BY <1>1 DEF Row, Column
<1>3. /\ all \in SUBSET DOMAIN Column /\ secrets \cup {"kdf"} \subseteq all
      /\ "email" \in all <=> "email" \in cols
      /\ "verified" \in all <=> "verified" \in cols
  BY RowColumns DEF secrets
<1>4. registration(cols, e, p, k, row) = Update(all, new)
  BY DEF registration, mid
<1> HIDE DEF all, new
<1> QED
  BY <1>2, <1>3, <1>4

LEMMA RegisterReadKeepsInv ==
    ASSUME Inv, NEW r \in Requests, NEW e \in Emails, NEW p \in Passwords,
           NEW k \in Kdfs, NEW extra \in SUBSET {"verified", "privateKey"},
           RegisterRead(r, e, p, k, extra)
    PROVE  Inv'
<1>1. /\ Draw /\ drawn' \in 0 .. MaxKeys
      /\ proven \subseteq proven' /\ proven' \subseteq Emails
      /\ "verified" \in extra => e \in proven'
      /\ UNCHANGED <<account, vault, mailed>>
  BY DrawType DEF RegisterRead, Inv, TypeOK
<1>2. CASE account = None
  <2>1. PICK row \in Row : row = newUserShell(e, k) /\ row.email = e
    BY ShellInRow
  <2>0. PICK cols \in SUBSET {"email", "verified", "privateKey"} :
          cols = extra \cup {"email"}
    OBVIOUS
  <2>2. PICK all \in SUBSET DOMAIN Column, new \in Row :
          /\ registration(cols, e, p, k, row) = Update(all, new)
          /\ secrets \cup {"kdf"} \subseteq all
          /\ "email" \in all <=> "email" \in cols
          /\ "verified" \in all <=> "verified" \in cols
          /\ new.akey # None
          /\ new.email = e
    BY <1>1, <2>1, RegistrationType
  <2> DEFINE u == Update(all, new)
             q == [u EXCEPT !.pc = "insert"]
  <2>3. u \in Request /\ DOMAIN u.set = all /\ \A c \in all : u.set[c] = new[c]
    BY UpdateIsRequest
  <2>4. Begin(r, q)
    BY <1>2, <2>0, <2>1, <2>2 DEF RegisterRead
  <2> HIDE DEF u
  <2>5. q \in Request /\ q.pc = "insert" /\ q.set = u.set
    BY <2>3 DEF Request
  <2> HIDE DEF q
  <2>6. Sound(q, account, proven')
    BY <1>1, <2>0, <2>2, <2>3, <2>5 DEF Sound, secrets, Verified
  <2>7. /\ requests' = [requests EXCEPT ![r] = q] /\ disturbed' \in BOOLEAN
        /\ vault' \in [Items -> Nat]
    BY <1>1, <2>4 DEF Begin, Inv, TypeOK
  <2> QED
    BY <1>1, <2>5, <2>6, <2>7, QuietStep
<1>3. CASE account # None
  <2>1. PICK row \in Row : row = account /\ row.email = e
    BY <1>3 DEF RegisterRead, Inv, TypeOK
  <2>0. PICK cols \in SUBSET {"email", "verified", "privateKey"} : cols = extra
    OBVIOUS
  <2>2. PICK all \in SUBSET DOMAIN Column, new \in Row :
          /\ registration(cols, e, p, k, row) = Update(all, new)
          /\ secrets \cup {"kdf"} \subseteq all
          /\ "email" \in all <=> "email" \in cols
          /\ "verified" \in all <=> "verified" \in cols
          /\ new.akey # None
          /\ new.email = e
    BY <1>1, <2>1, RegistrationType
  <2>3. Begin(r, Update(all, new))
    BY <1>3, <2>0, <2>1, <2>2 DEF RegisterRead
  <2>4. /\ "akey" \in all /\ "email" \notin all
        /\ "verified" \in all => account.email \in proven'
    BY <1>1, <2>0, <2>1, <2>2 DEF secrets
  <2> QED
    BY <1>1, <2>2, <2>3, <2>4, UpdateStep
<1> QED
  BY <1>2, <1>3

\* An UPDATE of the secrets, with another column that needs no proof or whose
\* proof is at hand.
LEMMA SecretsStep ==
    ASSUME Inv, NEW r \in Requests, NEW row \in Row, NEW mk \in MasterKey,
           NEW key \in Nat,
           NEW cols \in SUBSET {"kdf", "email", "newEmail", "verified", "privateKey"},
           NEW new \in Row, new.akey = WithSecrets(row, mk, key).akey,
           "email" \in cols => new.email \in proven',
           "verified" \in cols => "email" \in cols,
           Begin(r, Update(secrets \cup cols, new)),
           proven \subseteq proven', proven' \subseteq Emails, drawn' \in 0 .. MaxKeys,
           UNCHANGED <<account, vault, mailed>>
    PROVE  Inv'
<1> DEFINE all == secrets \cup cols
<1>1. /\ all \in SUBSET DOMAIN Column /\ "akey" \in all
      /\ "email" \in all => "email" \in cols
      /\ "verified" \in all => "verified" \in cols
  BY RowColumns DEF secrets
<1>2. new.akey # None
  BY SecretsInRow
<1>3. Begin(r, Update(all, new))
  OBVIOUS
<1>4. /\ "akey" \in all => new.akey # None
      /\ "email" \in all => new.email \in proven'
      /\ "verified" \in all /\ new.verified /\ "email" \notin all /\ account # None
           => account.email \in proven'
      /\ "hash" \in all /\ "akey" \notin all /\ account # None => account.akey # None
  BY <1>1, <1>2
<1> HIDE DEF all
<1> QED
  BY <1>1, <1>3, <1>4, UpdateStep

\* The key that set-password wraps: the one there is, or a new one.
LEMMA SetPasswordKey ==
    ASSUME Inv, NEW r \in Requests, NEW p \in Passwords, NEW k \in Kdfs,
           NEW w \in BOOLEAN, SetPassword(r, p, k, w)
    PROVE  /\ account \in Row /\ account # None /\ account.email \in Emails
           /\ drawn' \in 0 .. MaxKeys
           /\ UNCHANGED <<account, vault, mailed, proven>>
           /\ \E key \in Nat :
                /\ account.akey # None => key = account.akey.key
                /\ Begin(r, Update(secrets \cup {"kdf", "privateKey"},
                     [WithSecrets(account, masterKey(p, account.email, k), key)
                      EXCEPT !.kdf = k, !.privateKey = w]))
<1>1. /\ account \in Row /\ account # None /\ account.email \in Emails
      /\ account.akey # None => account.akey.key \in Nat
  BY DEF SetPassword, SignedIn, HasPassword, Inv, TypeOK, Row, Column
<1>2. UNCHANGED <<account, vault, mailed, proven>>
  BY DEF SetPassword
<1>3. CASE account.akey = None
  BY <1>1, <1>2, <1>3, DrawType DEF SetPassword
<1>4. CASE account.akey # None
  <2>1. drawn' \in 0 .. MaxKeys
    BY <1>4 DEF SetPassword, Inv, TypeOK
  <2> QED
    BY <1>1, <1>2, <1>4, <2>1 DEF SetPassword
<1> QED
  BY <1>3, <1>4

LEMMA SetPasswordKeepsInv ==
    ASSUME Inv, NEW r \in Requests, NEW p \in Passwords, NEW k \in Kdfs,
           NEW w \in BOOLEAN, SetPassword(r, p, k, w)
    PROVE  Inv'
<1>1. /\ account \in Row /\ account.email \in Emails /\ drawn' \in 0 .. MaxKeys
      /\ UNCHANGED <<account, vault, mailed, proven>>
  BY SetPasswordKey
<1>2. PICK key \in Nat :
        Begin(r, Update(secrets \cup {"kdf", "privateKey"},
          [WithSecrets(account, masterKey(p, account.email, k), key)
           EXCEPT !.kdf = k, !.privateKey = w]))
  BY SetPasswordKey
<1> DEFINE mk == masterKey(p, account.email, k)
           mid == WithSecrets(account, mk, key)
           new == [mid EXCEPT !.kdf = k, !.privateKey = w]
<1>3. mk \in MasterKey
  BY <1>1, MasterKeyType
<1>4. Begin(r, Update(secrets \cup {"kdf", "privateKey"}, new))
  BY <1>2
<1> HIDE DEF mk
<1>5. mid \in Row
  BY <1>1, <1>3, SecretsInRow
<1>6. new \in Row /\ new.akey = mid.akey
  BY <1>5 DEF Row, Column
<1>7. proven \subseteq Emails
  BY DEF Inv, TypeOK
<1> HIDE DEF new
<1> QED
  BY <1>1, <1>3, <1>4, <1>6, <1>7, SecretsStep

\* The key pair is posted.
LEMMA PostKeysKeepsInv ==
    ASSUME Inv, NEW r \in Requests, PostKeys(r)
    PROVE  Inv'
<1> DEFINE new == [account EXCEPT !.privateKey = TRUE]
<1>1. new \in Row
  BY DEF PostKeys, SignedIn, HasPassword, Inv, TypeOK, Row, Column
<1>2. {"privateKey"} \in SUBSET DOMAIN Column
  BY RowColumns
<1>3. Begin(r, Update({"privateKey"}, new))
  BY DEF PostKeys
<1>4. /\ proven' = proven /\ proven \subseteq Emails /\ drawn' \in 0 .. MaxKeys
      /\ UNCHANGED <<account, vault, mailed>>
  BY DEF PostKeys, Inv, TypeOK
<1> HIDE DEF new
<1> QED
  BY <1>1, <1>2, <1>3, <1>4, UpdateStep

----------------------------------------------------------------------------
\* A sign-in that is let in has somebody who stands for the address.
LEMMA VouchedAddress ==
    ASSUME NEW e \in Emails, NEW claim \in Claims, ssoAccepts(claim)
    PROVE  vouched(e, claim) = {e}
BY DEF ssoAccepts, vouched, Claims

LEMMA SsoCompleteKeepsInv ==
    ASSUME Inv, NEW r \in Requests, NEW claim \in Claims, SsoComplete(r, claim)
    PROVE  Inv'
<1> DEFINE new == [account EXCEPT !.verified = TRUE]
<1>1. new \in Row /\ account.email \in Emails
  BY DEF SsoComplete, Inv, TypeOK, Row, Column
<1>2. {"verified"} \in SUBSET DOMAIN Column
  BY RowColumns
<1>3. proven' = proven \cup {account.email}
  BY <1>1, VouchedAddress DEF SsoComplete
<1>4. Begin(r, Update({"verified"}, new))
  BY DEF SsoComplete
<1>5. /\ proven \subseteq proven' /\ proven' \subseteq Emails
      /\ account.email \in proven' /\ drawn' \in 0 .. MaxKeys
      /\ UNCHANGED <<account, vault, mailed>>
  BY <1>1, <1>3 DEF SsoComplete, Inv, TypeOK
<1> HIDE DEF new
<1> QED
  BY <1>1, <1>2, <1>4, <1>5, UpdateStep

LEMMA ChangeKeepsInv ==
    ASSUME Inv, NEW r \in Requests, NEW p \in Passwords,
           \/ \E new \in Passwords : ChangePassword(r, p, new)
           \/ \E k \in Kdfs : ChangeKdf(r, p, k)
    PROVE  Inv'
<1>1. /\ account \in Row /\ account.akey.key \in Nat
      /\ account.email \in Emails /\ account.kdf \in Kdfs
      /\ drawn' = drawn /\ drawn \in 0 .. MaxKeys
      /\ proven' = proven /\ proven \subseteq Emails
      /\ UNCHANGED <<account, vault, mailed>>
  BY PasswordRow DEF ChangePassword, ChangeKdf, verifyPassword, Inv, TypeOK
<1>2. ASSUME NEW new \in Passwords, ChangePassword(r, p, new) PROVE Inv'
  <2> DEFINE mk == masterKey(new, account.email, account.kdf)
             row == WithSecrets(account, mk, account.akey.key)
  <2>1. mk \in MasterKey
    BY <1>1, MasterKeyType
  <2>2. Begin(r, Update(secrets \cup {}, row))
    BY <1>2 DEF ChangePassword
  <2> HIDE DEF mk
  <2>3. row \in Row /\ row.akey = WithSecrets(account, mk, account.akey.key).akey
    BY <1>1, <2>1, SecretsInRow
  <2>4. {} \in SUBSET {"kdf", "email", "newEmail", "verified", "privateKey"}
    OBVIOUS
  <2> HIDE DEF row
  <2> QED
    BY <1>1, <2>1, <2>2, <2>3, <2>4, SecretsStep
<1>3. ASSUME NEW k \in Kdfs, ChangeKdf(r, p, k) PROVE Inv'
  <2> DEFINE mk == masterKey(p, account.email, k)
             mid == WithSecrets(account, mk, account.akey.key)
             row == [mid EXCEPT !.kdf = k]
  <2>1. mk \in MasterKey
    BY <1>1, MasterKeyType
  <2>2. Begin(r, Update(secrets \cup {"kdf"}, row))
    BY <1>3 DEF ChangeKdf
  <2> HIDE DEF mk
  <2>3. mid \in Row
    BY <1>1, <2>1, SecretsInRow
  <2>4. row \in Row /\ row.akey = mid.akey
    BY <2>3 DEF Row, Column
  <2> HIDE DEF row
  <2> QED
    BY <1>1, <2>1, <2>2, <2>4, SecretsStep
<1> QED
  BY <1>2, <1>3

LEMMA RequestEmailChangeKeepsInv ==
    ASSUME Inv, NEW r \in Requests, NEW p \in Passwords, NEW e \in Emails,
           RequestEmailChange(r, p, e)
    PROVE  Inv'
<1> DEFINE new == [account EXCEPT !.newEmail = [email |-> e, code |-> drawn']]
<1>1. account \in Row /\ drawn' \in 0 .. MaxKeys /\ drawn' \in Nat
  BY PasswordRow, DrawType DEF RequestEmailChange, verifyPassword
<1>2. [email |-> e, code |-> drawn'] \in Column.newEmail
  BY <1>1 DEF Column
<1>3. new \in Row
  BY <1>1, <1>2 DEF Row
<1>4. Begin(r, Update({"newEmail"}, new))
  BY DEF RequestEmailChange
<1>5. {"newEmail"} \in SUBSET DOMAIN Column
  BY RowColumns
<1>6. proven' = proven /\ proven \subseteq Emails /\ UNCHANGED <<account, vault, mailed>>
  BY DEF RequestEmailChange, Inv, TypeOK
<1> HIDE DEF new
<1> QED
  BY <1>1, <1>3, <1>4, <1>5, <1>6, UpdateStep

\* Who has the code owns the address it was mailed to.
LEMMA ChangeEmailKeepsInv ==
    ASSUME Inv, NEW r \in Requests, NEW p \in Passwords, NEW e \in Emails,
           NEW code \in Nat, ChangeEmail(r, p, e, code)
    PROVE  Inv'
<1> DEFINE mk == masterKey(p, e, account.kdf)
           mid == WithSecrets(account, mk, account.akey.key)
           new == [mid EXCEPT !.email = e, !.newEmail = None, !.verified = TRUE]
<1>1. account \in Row /\ account.akey.key \in Nat /\ account.kdf \in Kdfs
  BY PasswordRow DEF ChangeEmail, verifyPassword
<1>2. mk \in MasterKey
  BY <1>1, MasterKeyType
<1>3. Begin(r, Update(secrets \cup {"email", "newEmail", "verified"}, new))
  BY DEF ChangeEmail
<1> HIDE DEF mk
<1>4. mid \in Row
  BY <1>1, <1>2, SecretsInRow
<1>5. new \in Row /\ new.akey = mid.akey /\ new.email = e
  BY <1>4 DEF Row, Column
<1>6. e \in proven' /\ proven \subseteq proven' /\ proven' \subseteq Emails
  BY DEF ChangeEmail, emailChange, Inv, TypeOK
<1>7. UNCHANGED <<account, vault, mailed>> /\ drawn' \in 0 .. MaxKeys
  BY DEF ChangeEmail, Inv, TypeOK
<1> HIDE DEF new
<1> QED
  BY <1>1, <1>2, <1>3, <1>5, <1>6, <1>7, SecretsStep

\* The token was mailed to the address, or that has been proven since.
LEMMA VerifyKeepsInv ==
    ASSUME Inv, NEW r \in Requests, NEW e \in Emails, VerifyEmailToken(r, e)
    PROVE  Inv'
<1> DEFINE new == [account EXCEPT !.verified = TRUE]
<1>1. new \in Row
  BY DEF VerifyEmailToken, Inv, TypeOK, Row, Column
<1>2. {"verified"} \in SUBSET DOMAIN Column
  BY RowColumns
<1>3. account.email \in proven'
  <2>1. MailSound(mail("verify", e), account, proven)
    BY DEF VerifyEmailToken, Inv, AllMailSound
  <2> QED
    BY <2>1 DEF MailSound, mail, VerifyEmailToken
<1>4. Begin(r, Update({"verified"}, new))
  BY DEF VerifyEmailToken
<1>5. /\ proven \subseteq proven' /\ proven' \subseteq Emails /\ drawn' \in 0 .. MaxKeys
      /\ UNCHANGED <<account, vault, mailed>>
  BY DEF VerifyEmailToken, Inv, TypeOK
<1> HIDE DEF new
<1> QED
  BY <1>1, <1>2, <1>3, <1>4, <1>5, UpdateStep

LEMMA LoginUpgradeKeepsInv ==
    ASSUME Inv, NEW r \in Requests, NEW p \in Passwords, LoginUpgrade(r, p)
    PROVE  Inv'
<1> DEFINE new == [account EXCEPT !.slow = FALSE]
<1>1. account \in Row /\ account.akey # None
  BY PasswordRow DEF LoginUpgrade, verifyPassword
<1>2. new \in Row
  BY <1>1 DEF Row, Column
<1>3. {"hash", "slow"} \in SUBSET DOMAIN Column
  BY RowColumns
<1>4. Begin(r, Update({"hash", "slow"}, new))
  BY DEF LoginUpgrade
<1>5. /\ proven' = proven /\ proven \subseteq Emails /\ drawn' \in 0 .. MaxKeys
      /\ UNCHANGED <<account, vault, mailed>>
  BY DEF LoginUpgrade, Inv, TypeOK
<1> HIDE DEF new
<1> QED
  BY <1>1, <1>2, <1>3, <1>4, <1>5, UpdateStep

LEMMA RotateKeyKeepsInv ==
    ASSUME Inv, NEW r \in Requests, NEW p \in Passwords, RotateKey(r, p)
    PROVE  Inv'
<1> DEFINE row == WithSecrets(account, account.hash, drawn')
           all == secrets \cup {"privateKey"}
           u == Update(all, row)
           items == {i \in Items : vault[i] # 0}
           q == [u EXCEPT !.pc = "item", !.items = items, !.key = drawn']
<1>1. account \in Row /\ account.hash \in MasterKey /\ drawn' \in 0 .. MaxKeys /\ drawn' \in Nat
  BY PasswordRow, DrawType DEF RotateKey, verifyPassword
<1>2. row \in Row /\ row.akey # None
  BY <1>1, SecretsInRow
<1>3. all \in SUBSET DOMAIN Column /\ "akey" \in all
      /\ "email" \notin all /\ "verified" \notin all
  BY RowColumns DEF secrets
<1>4. Begin(r, q) /\ proven' = proven /\ proven \subseteq Emails
      /\ UNCHANGED <<account, vault, mailed>>
  BY DEF RotateKey, Inv, TypeOK
<1> HIDE DEF row, all
<1>5. u \in Request /\ Sound(u, account, proven') /\ u.pc # "insert"
  BY <1>2, <1>3, UpdateSound, UpdateIsRequest
<1>6. items \subseteq Items
  OBVIOUS
<1> HIDE DEF u, items
<1>7. q \in Request /\ q.pc = "item" /\ q.set = u.set
  BY <1>1, <1>5, <1>6 DEF Request
<1> HIDE DEF q
<1>8. Sound(q, account, proven')
  BY <1>5, <1>7 DEF Sound
<1>9. requests' = [requests EXCEPT ![r] = q] /\ disturbed' \in BOOLEAN
      /\ vault' \in [Items -> Nat]
  BY <1>4 DEF Begin, Inv, TypeOK
<1> QED
  BY <1>1, <1>4, <1>7, <1>8, <1>9, QuietStep

LEMMA ItemKeepsInv ==
    ASSUME Inv, NEW r \in Requests, NEW i \in Items,
           SaveItem(r, i) \/ DeleteItem(r, i)
    PROVE  Inv'
<1>1. ASSUME NEW pc \in {"item", "delete"}, NEW key \in Nat
      PROVE  /\ ItemRequest(pc, i, key) \in Request
             /\ Sound(ItemRequest(pc, i, key), account, proven)
  <2> DEFINE q == ItemRequest(pc, i, key)
  <2>1. <<>> \in PartialRow /\ DOMAIN <<>> = {}
    BY NoColumns
  <2>2. q \in Request /\ q.pc = pc /\ DOMAIN q.set = {}
    BY <2>1 DEF ItemRequest, Request
  <2> HIDE DEF q
  <2> QED
    BY <2>2 DEF Sound, Verified, q
<1>2. SaveItem(r, i) => account.akey.key \in Nat
  BY PasswordRow DEF SaveItem
<1>3. PICK pc \in {"item", "delete"}, key \in Nat : Begin(r, ItemRequest(pc, i, key))
  BY <1>2 DEF SaveItem, DeleteItem
<1>4. /\ UNCHANGED <<account, vault, mailed, proven, drawn>>
      /\ requests' = [requests EXCEPT ![r] = ItemRequest(pc, i, key)]
      /\ disturbed' \in BOOLEAN
  BY <1>3 DEF SaveItem, DeleteItem, Begin, Inv, TypeOK
<1>5. /\ ItemRequest(pc, i, key) \in Request
      /\ Sound(ItemRequest(pc, i, key), account, proven')
  BY <1>1, <1>4
<1>6. vault' \in [Items -> Nat] /\ proven' \subseteq Emails /\ drawn' \in 0 .. MaxKeys
  BY <1>4 DEF Inv, TypeOK
<1> QED
  BY <1>4, <1>5, <1>6, QuietStep

LEMMA ArriveKeepsInv ==
    ASSUME Inv, NEW r \in Requests, Arrive(r)
    PROVE  Inv'
<1>1. \A code \in 1 .. MaxKeys : code \in Nat
  BY BoundAssumption
<1> QED
  BY <1>1, RegisterReadKeepsInv, SetPasswordKeepsInv, ChangeKeepsInv,
     RequestEmailChangeKeepsInv, ChangeEmailKeepsInv, VerifyKeepsInv,
     PostKeysKeepsInv, SsoCompleteKeepsInv, LoginUpgradeKeepsInv,
     RotateKeyKeepsInv, ItemKeepsInv
     DEF Arrive

----------------------------------------------------------------------------
\* The account changes in one step, and requests only end.
LEMMA AccountStep ==
    ASSUME Inv, TypeOK', VerifiedHasGrounds', HasKey(account'),
           Kept(account, account', proven), proven' = proven,
           mailed' \subseteq mailed,
           account' = None => \A m \in mailed' : m.kind # "verify",
           \A s \in Requests : requests'[s] # None => requests'[s] = requests[s]
    PROVE  Inv'
<1>1. AllSound'
  <2> SUFFICES ASSUME NEW s \in Requests, requests'[s] # None
               PROVE  Sound(requests'[s], account', proven')
    BY DEF AllSound, Active
  <2>1. requests'[s] = requests[s] /\ Sound(requests[s], account, proven)
    BY DEF Inv, AllSound, Active
  <2> QED
    BY <2>1, SoundLater
<1>2. AllMailSound'
  <2> SUFFICES ASSUME NEW m \in mailed' PROVE MailSound(m, account', proven')
    BY DEF AllMailSound
  <2>1. MailSound(m, account, proven)
    BY DEF Inv, AllMailSound
  <2>2. CASE account' = None
    BY <2>2 DEF MailSound
  <2>3. CASE account' # None
    BY <2>1, <2>3, MailSoundLater
  <2> QED
    BY <2>2, <2>3
<1> QED
  BY <1>1, <1>2 DEF Inv

\* Another account, while every request in flight is about to insert one.
LEMMA FreshStep ==
    ASSUME Inv, Fresh, account' \in Row, account'.hash = None,
           account'.verified => account'.email \in proven',
           requests' \in [Requests -> Request \cup {None}], disturbed' \in BOOLEAN,
           \A s \in Requests : requests'[s] # None =>
             \/ requests'[s] = requests[s]
             \/ requests'[s] \in Request /\ Sound(requests'[s], account', proven'),
           proven \subseteq proven', proven' \subseteq Emails,
           UNCHANGED <<vault, mailed, drawn>>
    PROVE  Inv'
<1>1. account' # None
  BY NoneAssumption
<1>2. TypeOK'
  BY <1>1 DEF Inv, TypeOK, Active
<1>3. VerifiedHasGrounds' /\ HasKey(account')
  BY <1>1 DEF VerifiedHasGrounds, HasKey
<1>4. AllMailSound'
  BY DEF Inv, AllMailSound, MailSound, Fresh
<1>5. AllSound'
  <2> SUFFICES ASSUME NEW s \in Requests, requests'[s] # None
               PROVE  Sound(requests'[s], account', proven')
    BY DEF AllSound, Active
  <2>1. CASE requests'[s] = requests[s]
    <3>1. requests[s].pc = "insert" /\ Sound(requests[s], account, proven)
      BY <2>1 DEF Fresh, Active, Inv, AllSound
    <3> QED
      BY <2>1, <3>1, SoundLater
  <2> QED
    BY <2>1
<1> QED
  BY <1>2, <1>3, <1>4, <1>5 DEF Inv

----------------------------------------------------------------------------
LEMMA RegisterInsertKeepsInv ==
    ASSUME Inv, NEW r \in Requests, RegisterInsert(r)
    PROVE  Inv'
<1> DEFINE set == requests[r].set
           cols == DOMAIN set \ {"email"}
           u == [c \in cols |-> set[c]]
           q == Update(cols, set)
<1>1. /\ requests[r] \in Request /\ requests[r].pc = "insert"
      /\ Sound(requests[r], account, proven)
  BY DEF RegisterInsert, At, Inv, TypeOK, AllSound, Active
<1>2. /\ set \in PartialRow /\ {"email", "kdf", "akey"} \subseteq DOMAIN set
      /\ set.akey # None
      /\ Verified(set) => set.email \in proven
  BY <1>1 DEF Request, Sound
<1>3. /\ Fresh /\ account' = newUserShell(set.email, set.kdf)
      /\ requests' = [requests EXCEPT ![r] = q]
      /\ UNCHANGED <<vault, mailed, proven, drawn, disturbed>>
  BY DEF RegisterInsert, Continue
<1> HIDE DEF set
<1>4. set.email \in Emails /\ set.kdf \in Kdfs
  BY <1>2 DEF PartialRow, Column
<1>5. DOMAIN u = cols /\ \A c \in cols : u[c] = set[c]
  OBVIOUS
<1>6. q = [pc |-> "update", set |-> u, items |-> {}, key |-> 0]
  BY DEF Update
<1>7. u \in PartialRow
  BY <1>2, <1>5 DEF PartialRow
<1> HIDE DEF u, q
<1>8. q \in Request /\ q.pc = "update" /\ q.set = u
  BY <1>6, <1>7 DEF Request
<1>9. /\ account' \in Row /\ account'.email = set.email
      /\ account'.hash = None /\ ~account'.verified
  BY <1>3, <1>4, ShellInRow
<1>10. Sound(q, account', proven)
  BY <1>2, <1>5, <1>8, <1>9 DEF Sound, Verified
<1>11. /\ requests' \in [Requests -> Request \cup {None}] /\ disturbed' \in BOOLEAN
       /\ \A s \in Requests : requests'[s] # None =>
            \/ requests'[s] = requests[s]
            \/ requests'[s] \in Request /\ Sound(requests'[s], account', proven')
  BY <1>3, <1>8, <1>10 DEF Inv, TypeOK
<1>12. proven \subseteq proven' /\ proven' \subseteq Emails
  BY <1>3 DEF Inv, TypeOK
<1> QED
  BY <1>3, <1>9, <1>11, <1>12, FreshStep

LEMMA CreateShellKeepsInv ==
    ASSUME Inv, NEW e \in Emails, NEW k \in Kdfs, CreateShell(e, k)
    PROVE  Inv'
<1>1. /\ Fresh /\ disturbed' \in BOOLEAN
      /\ UNCHANGED <<vault, mailed, proven, drawn, requests>>
      /\ requests \in [Requests -> Request \cup {None}] /\ proven \subseteq Emails
  BY DEF CreateShell, Inv, TypeOK
<1>2. account' \in Row /\ account'.hash = None /\ ~account'.verified
  BY ShellInRow DEF CreateShell
<1> QED
  BY <1>1, <1>2, FreshStep

LEMMA SsoCreateKeepsInv ==
    ASSUME Inv, NEW e \in Emails, NEW k \in Kdfs, NEW claim \in Claims,
           SsoCreate(e, k, claim)
    PROVE  Inv'
<1>1. PICK shell \in Row : shell = newUserShell(e, k) /\ shell.email = e
                           /\ shell.hash = None
  BY ShellInRow
<1>2. proven' = proven \cup {e}
  BY VouchedAddress DEF SsoCreate
<1>3. /\ Fresh /\ disturbed' \in BOOLEAN
      /\ UNCHANGED <<vault, mailed, drawn, requests>>
      /\ account' = [shell EXCEPT !.verified = TRUE]
      /\ requests \in [Requests -> Request \cup {None}]
      /\ proven \subseteq proven' /\ proven' \subseteq Emails
  BY <1>1, <1>2 DEF SsoCreate, Inv, TypeOK
<1>4. /\ account' \in Row /\ account'.hash = None /\ account'.email = e
  BY <1>1, <1>3 DEF Row, Column
<1>5. account'.email \in proven'
  BY <1>2, <1>4
<1> QED
  BY <1>3, <1>4, <1>5, FreshStep

LEMMA WriteColumnsKeepsInv ==
    ASSUME Inv, NEW r \in Requests, WriteColumns(r)
    PROVE  Inv'
<1> DEFINE q == requests[r]
<1>1. /\ q \in Request /\ q.pc = "update" /\ Sound(q, account, proven)
      /\ requests' = [requests EXCEPT ![r] = None]
      /\ UNCHANGED <<vault, mailed, proven, drawn, disturbed>>
      /\ account' = IF account = None THEN None
                    ELSE [c \in DOMAIN account |->
                            IF c \in DOMAIN q.set THEN q.set[c] ELSE account[c]]
  BY DEF WriteColumns, At, Done, Continue, Inv, TypeOK, AllSound, Active
<1>2. \A s \in Requests : requests'[s] # None => requests'[s] = requests[s]
  BY <1>1 DEF Inv, TypeOK
<1>3. CASE account = None
  <2>1. account' = None
    BY <1>1, <1>3
  <2>2. TypeOK'
    BY <1>1, <1>2, <2>1 DEF Inv, TypeOK, Active
  <2>3. VerifiedHasGrounds' /\ HasKey(account') /\ Kept(account, account', proven)
    BY <2>1 DEF VerifiedHasGrounds, HasKey, Kept
  <2>4. \A m \in mailed : m.kind # "verify"
    BY <1>3 DEF Inv, AllMailSound, MailSound
  <2> QED
    BY <1>1, <1>2, <2>2, <2>3, <2>4, AccountStep
<1>4. CASE account # None
  <2> DEFINE b == [c \in DOMAIN Column |->
                     IF c \in DOMAIN q.set THEN q.set[c] ELSE account[c]]
  <2>1. account \in Row
    BY <1>4 DEF Inv, TypeOK
  <2>2. account' = b
    BY <1>1, <1>4, <2>1, RowColumns
  <2>3. \A c \in DOMAIN Column : b[c] \in Column[c]
    BY <1>1, <2>1, RowColumns DEF Request, PartialRow
  <2>4. /\ b.email = IF "email" \in DOMAIN q.set THEN q.set.email ELSE account.email
        /\ b.akey = IF "akey" \in DOMAIN q.set THEN q.set.akey ELSE account.akey
        /\ b.hash = IF "hash" \in DOMAIN q.set THEN q.set.hash ELSE account.hash
        /\ b.verified => IF "verified" \in DOMAIN q.set THEN q.set.verified
                         ELSE account.verified
    BY RowColumns
  <2>5. b \in Row
    BY <2>3, RowColumns DEF Row
  <2> HIDE DEF b
  <2>6. b # None
    BY <2>5, NoneAssumption
  <2>7. VerifiedHasGrounds'
    BY <1>1, <1>4, <2>2, <2>4 DEF VerifiedHasGrounds, Sound, Verified, Inv
  <2>8. HasKey(account') /\ Kept(account, account', proven)
    BY <1>1, <1>4, <2>2, <2>4 DEF HasKey, Kept, Sound, Inv
  <2>9. TypeOK'
    BY <1>1, <1>2, <2>2, <2>5 DEF Inv, TypeOK, Active
  <2> QED
    BY <1>1, <1>2, <2>2, <2>6, <2>7, <2>8, <2>9, AccountStep
<1> QED
  BY <1>3, <1>4

LEMMA ProceedKeepsInv ==
    ASSUME Inv, NEW r \in Requests, Proceed(r)
    PROVE  Inv'
<1> DEFINE q == requests[r]
<1>0. /\ q # None => q \in Request /\ Sound(q, account, proven)
      /\ vault \in [Items -> Nat] /\ proven \subseteq Emails
      /\ drawn \in 0 .. MaxKeys /\ disturbed \in BOOLEAN
  BY DEF Inv, TypeOK, AllSound, Active
<1>1. CASE RegisterInsert(r)
  BY <1>1, RegisterInsertKeepsInv
<1>2. CASE WriteColumns(r)
  BY <1>2, WriteColumnsKeepsInv
<1>3. CASE RegisterConflict(r) \/ Fail(r) \/ \E i \in Items : WriteItemRefused(r, i)
  BY <1>0, <1>3, QuietStep DEF RegisterConflict, Fail, WriteItemRefused, Done, Continue
<1>4. CASE RotateAccount(r)
  <2> DEFINE p == [q EXCEPT !.pc = "update"]
  <2>1. /\ q \in Request /\ Sound(q, account, proven) /\ q.pc = "item"
        /\ requests' = [requests EXCEPT ![r] = p]
        /\ UNCHANGED <<account, vault, mailed, proven, drawn, disturbed>>
    BY <1>0, <1>4 DEF RotateAccount, At, Continue
  <2>2. p \in Request /\ p.pc = "update" /\ p.set = q.set
    BY <2>1 DEF Request
  <2> HIDE DEF p
  <2>3. Sound(p, account, proven')
    BY <2>1, <2>2 DEF Sound
  <2> QED
    BY <1>0, <2>1, <2>2, <2>3, QuietStep
<1>5. CASE RemoveItem(r)
  <2>1. vault' \in [Items -> Nat]
    BY <1>0, <1>5 DEF RemoveItem
  <2> QED
    BY <1>0, <1>5, <2>1, QuietStep DEF RemoveItem, Done, Continue
<1>6. ASSUME NEW i \in Items, WriteItem(r, i) PROVE Inv'
  <2> DEFINE p == [q EXCEPT !.items = @ \ {i}]
  <2>1. /\ q \in Request /\ Sound(q, account, proven)
        /\ \/ requests' = [requests EXCEPT ![r] = p]
           \/ requests' = [requests EXCEPT ![r] = None]
        /\ vault' = [vault EXCEPT ![i] = q.key]
        /\ UNCHANGED <<account, mailed, proven, drawn, disturbed>>
    BY <1>0, <1>6 DEF WriteItem, At, Continue
  <2>2. p \in Request /\ p.pc = q.pc /\ p.set = q.set
    BY <2>1 DEF Request
  <2> HIDE DEF p
  <2>3. Sound(p, account, proven')
    BY <2>1, <2>2 DEF Sound
  <2>4. vault' \in [Items -> Nat]
    BY <1>0, <2>1 DEF Request
  <2> QED
    BY <1>0, <2>1, <2>2, <2>3, <2>4, QuietStep
<1> QED
  BY <1>1, <1>2, <1>3, <1>4, <1>5, <1>6 DEF Proceed

----------------------------------------------------------------------------
LEMMA MailKeepsInv ==
    ASSUME Inv, MailVerification \/ \E e \in Emails : MailRegistration(e)
    PROVE  Inv'
<1>1. /\ UNCHANGED <<account, vault, proven, drawn, requests>>
      /\ disturbed' \in BOOLEAN
  BY DEF MailVerification, MailRegistration, Inv, TypeOK
<1>2. mailed' \subseteq Mail /\ AllMailSound'
  <2>1. CASE MailVerification
    <3>1. account.email \in Emails
      BY <2>1 DEF MailVerification, Inv, TypeOK, Row, Column
    <3> QED
      BY <1>1, <2>1, <3>1 DEF MailVerification, Post, mail, Mail, Inv, TypeOK,
                              AllMailSound, MailSound
  <2>2. ASSUME NEW e \in Emails, MailRegistration(e)
        PROVE  mailed' \subseteq Mail /\ AllMailSound'
    BY <1>1, <2>2 DEF MailRegistration, Post, mail, Mail, Inv, TypeOK,
                      AllMailSound, MailSound
  <2> QED
    BY <2>1, <2>2
<1>3. TypeOK'
  BY <1>1, <1>2 DEF Inv, TypeOK, Active
<1> QED
  BY <1>1, <1>2, <1>3 DEF Inv, VerifiedHasGrounds, HasKey, AllSound, Active

LEMMA RaiseIterationsKeepsInv ==
    ASSUME Inv, RaiseIterations
    PROVE  Inv'
<1> DEFINE b == [account EXCEPT !.slow = TRUE]
<1>1. account \in Row /\ account # None
  BY DEF RaiseIterations, HasPassword, Inv, TypeOK
<1>2. /\ b \in Row /\ b.email = account.email /\ b.verified = account.verified
      /\ b.akey = account.akey /\ b.hash = account.hash
  BY <1>1 DEF Row, Column
<1>3. /\ account' = b /\ disturbed' \in BOOLEAN
      /\ UNCHANGED <<vault, mailed, proven, drawn, requests>>
  BY DEF RaiseIterations, Inv, TypeOK
<1> HIDE DEF b
<1>4. b # None
  BY <1>2, NoneAssumption
<1>5. TypeOK'
  BY <1>2, <1>3 DEF Inv, TypeOK, Active
<1>6. VerifiedHasGrounds' /\ HasKey(account') /\ Kept(account, account', proven)
  BY <1>1, <1>2, <1>3 DEF VerifiedHasGrounds, HasKey, Kept, Inv
<1> QED
  BY <1>3, <1>4, <1>5, <1>6, AccountStep

LEMMA DeleteAccountKeepsInv ==
    ASSUME Inv, DeleteAccount
    PROVE  Inv'
<1>1. /\ account' = None /\ vault' \in [Items -> Nat] /\ disturbed' \in BOOLEAN
      /\ mailed' \subseteq mailed /\ \A m \in mailed' : m.kind # "verify"
      /\ UNCHANGED <<proven, drawn, requests>>
  BY DEF DeleteAccount, Inv, TypeOK
<1>2. TypeOK'
  BY <1>1 DEF Inv, TypeOK, Active
<1>3. VerifiedHasGrounds' /\ HasKey(account') /\ Kept(account, account', proven)
  BY <1>1 DEF VerifiedHasGrounds, HasKey, Kept
<1> QED
  BY <1>1, <1>2, <1>3, AccountStep

LEMMA NextKeepsInv ==
    ASSUME Inv, [Next]_vars
    PROVE  Inv'
<1>1. CASE UNCHANGED vars
  BY <1>1 DEF vars, Inv, TypeOK, VerifiedHasGrounds, AllMailSound, AllSound, Active
<1>2. CASE Next
  BY <1>2, MailKeepsInv, CreateShellKeepsInv, SsoCreateKeepsInv,
     RaiseIterationsKeepsInv, DeleteAccountKeepsInv, ArriveKeepsInv, ProceedKeepsInv
     DEF Next
<1> QED
  BY <1>1, <1>2

LEMMA InitInv == Init => Inv
<1> SUFFICES ASSUME Init PROVE Inv
  OBVIOUS
<1>1. Active = {}
  BY DEF Init, Active
<1>2. 0 \in 0 .. MaxKeys
  BY BoundAssumption
<1>3. TypeOK
  BY <1>1, <1>2 DEF Init, TypeOK
<1> QED
  BY <1>1, <1>3 DEF Init, Inv, VerifiedHasGrounds, HasKey, AllMailSound, AllSound

----------------------------------------------------------------------------
\* Whatever is written, in whatever order, the columns of the account and what
\* requests hold keep their types.
THEOREM AccountsTypeCorrect == Spec => []TypeOK
<1>1. Inv => TypeOK
  BY DEF Inv
<1> QED
  BY <1>1, InitInv, NextKeepsInv, PTL DEF Spec

\* However requests overlap or fail, and however often the account is deleted
\* and made anew, its address is verified only when its owner has returned what
\* was mailed there, or when somebody has signed in by SSO and the identity
\* provider stood for it: in so many words, or by its silence where the
\* administrator has allowed that.
THEOREM VerifiedOnGrounds == Spec => []VerifiedHasGrounds
<1>1. Inv => VerifiedHasGrounds
  BY DEF Inv
<1> QED
  BY <1>1, InitInv, NextKeepsInv, PTL DEF Spec

----------------------------------------------------------------------------
(***************************************************************************)
(* A request alone                                                         *)
(*                                                                         *)
(* While no request has overlapped another or failed, at most one is in    *)
(* flight, and when it ends the account is one that its password opens.    *)
(* In between it need not be: a rotation leaves items under both keys.     *)
(***************************************************************************)
\* The columns that a client derives from one password, and what they wrap.
Coherent(row) == /\ row.akey.by = row.hash
                 /\ row.hash.email = row.email
                 /\ row.hash.kdf = row.kdf

NoItems(v) == \A i \in Items : v[i] = 0

\* The account a and the vault v: without a password there is nothing in it.
Opens(a, v) ==
    IF a # None /\ a.hash # None
    THEN Coherent(a) /\ \A i \in Items : v[i] \in {0, a.akey.key}
    ELSE NoItems(v)

\* The account once the columns of set are written.
Written(a, set) ==
    [c \in DOMAIN a |-> IF c \in DOMAIN set THEN set[c] ELSE a[c]]

\* What the request q still has to write makes the account one that opens.
Inserting(q, a, v) ==
    /\ a = None /\ NoItems(v)
    /\ {"email", "kdf", "hash", "akey"} \subseteq DOMAIN q.set
    /\ Coherent(q.set)
Updating(q, a, v) == a # None /\ Opens(Written(a, q.set), v)
Rotating(q, a, v) ==
    /\ a # None
    /\ LET b == Written(a, q.set)
       IN  b.hash # None /\ Coherent(b) /\ b.akey.key = q.key
    /\ \A i \in Items : IF i \in q.items THEN v[i] # 0 ELSE v[i] \in {0, q.key}
Saving(q, a, v) == /\ a # None /\ a.hash # None /\ q.key = a.akey.key
                   /\ Opens(a, v)
Removing(a, v) == a # None /\ Opens(a, v)

Steady(q, a, v) ==
    /\ q.pc = "insert" => Inserting(q, a, v)
    /\ q.pc = "update" => Updating(q, a, v)
    /\ q.pc = "item" => IF IsRotation(q) THEN Rotating(q, a, v) ELSE Saving(q, a, v)
    /\ q.pc = "delete" => Removing(a, v)

Calm == /\ \A r, s \in Active : r = s
        /\ \A r \in Active : Steady(requests[r], account, vault)
        /\ Active = {} => Opens(account, vault)

CalmInv == Inv /\ (disturbed \/ Calm)

\* Opening depends on four columns only.
LEMMA OpensSame ==
    ASSUME NEW a, NEW b, NEW v, a # None, b # None, b.hash = a.hash, b.akey = a.akey,
           b.email = a.email, b.kdf = a.kdf, Opens(a, v)
    PROVE  Opens(b, v)
BY DEF Opens, Coherent

\* What an UPDATE leaves of a row, and what it makes of it.
LEMMA WrittenRow ==
    ASSUME NEW a \in Row, NEW set \in PartialRow
    PROVE  /\ Written(a, set) \in Row /\ Written(a, set) # None
           /\ \A c \in DOMAIN Column :
                Written(a, set)[c] = IF c \in DOMAIN set THEN set[c] ELSE a[c]
<1> DEFINE b == [c \in DOMAIN Column |-> IF c \in DOMAIN set THEN set[c] ELSE a[c]]
<1>1. Written(a, set) = b
  BY RowColumns DEF Written
<1>2. \A c \in DOMAIN Column : b[c] \in Column[c]
  BY RowColumns DEF PartialRow
<1>3. b \in Row
  BY <1>2, RowColumns DEF Row
<1>4. \A c \in DOMAIN Column : b[c] = IF c \in DOMAIN set THEN set[c] ELSE a[c]
  OBVIOUS
<1> HIDE DEF b
<1> QED
  BY <1>1, <1>3, <1>4, NoneAssumption

\* A row with new secrets.
LEMMA SecretsColumns ==
    ASSUME NEW row \in Row, NEW mk \in MasterKey, NEW key \in Nat
    PROVE  LET new == WithSecrets(row, mk, key)
           IN  /\ new \in Row /\ new.hash = mk /\ new.akey = [by |-> mk, key |-> key]
               /\ new.email = row.email /\ new.kdf = row.kdf
<1> DEFINE akey == [by |-> mk, key |-> key]
<1>1. WithSecrets(row, mk, key) = [row EXCEPT !.hash = mk, !.slow = FALSE, !.akey = akey]
  BY DEF WithSecrets
<1>2. WithSecrets(row, mk, key) \in Row
  BY SecretsInRow
<1> HIDE DEF akey
<1>3. LET new == WithSecrets(row, mk, key)
      IN  /\ new.hash = mk /\ new.akey = akey
          /\ new.email = row.email /\ new.kdf = row.kdf
  BY <1>1 DEF Row
<1> QED
  BY <1>2, <1>3 DEF akey

\* A row of four columns that belong together.
LEMMA OpensWith ==
    ASSUME NEW a \in Row, NEW mk \in MasterKey, NEW key, NEW v,
           a.hash = mk, a.akey = [by |-> mk, key |-> key],
           mk.email = a.email, mk.kdf = a.kdf,
           \A i \in Items : v[i] \in {0, key}
    PROVE  Opens(a, v) /\ Coherent(a)
<1>1. a.akey.by = mk /\ a.akey.key = key
  OBVIOUS
<1> QED
  BY <1>1, NoneAssumption DEF Opens, Coherent

LEMMA DerivedKey ==
    ASSUME NEW p \in Passwords, NEW e \in Emails, NEW k \in Kdfs
    PROVE  /\ masterKey(p, e, k) \in MasterKey
           /\ masterKey(p, e, k).email = e /\ masterKey(p, e, k).kdf = k
BY DEF masterKey, MasterKey

----------------------------------------------------------------------------
\* The only request begins, goes on or ends.
LEMMA StepAlone ==
    ASSUME Inv, NEW r \in Requests, \A s \in Active : s = r,
           NEW q \in Request \cup {None}, requests' = [requests EXCEPT ![r] = q],
           q # None => Steady(q, account', vault'),
           q = None => Opens(account', vault')
    PROVE  Calm'
<1>1. requests \in [Requests -> Request \cup {None}]
  BY DEF Inv, TypeOK
<1>2. requests'[r] = q /\ \A s \in Requests : s # r => requests'[s] = None
  BY <1>1 DEF Active
<1>3. Active' = IF q = None THEN {} ELSE {r}
  BY <1>2 DEF Active
<1> QED
  BY <1>2, <1>3 DEF Calm

LEMMA BeginsAlone ==
    ASSUME Inv, Calm, ~disturbed', NEW r \in Requests, NEW q \in Request, Begin(r, q),
           UNCHANGED <<account, vault>>,
           Opens(account, vault) => Steady(q, account, vault)
    PROVE  Calm'
<1>1. Active = {} /\ requests' = [requests EXCEPT ![r] = q] /\ q # None
  BY NoneAssumption DEF Begin
<1>2. Steady(q, account', vault')
  BY <1>1 DEF Calm
<1> QED
  BY <1>1, <1>2, StepAlone

\* A request in flight, alone.
LEMMA RunningAlone ==
    ASSUME Inv, Calm, NEW r \in Requests, requests[r] # None
    PROVE  /\ requests[r] \in Request /\ Steady(requests[r], account, vault)
           /\ \A s \in Active : s = r
BY DEF Calm, Inv, TypeOK, Active

\* A handler that is to write a row that opens: the columns that matter are those
\* of the account, or are written.
LEMMA UpdatesAlone ==
    ASSUME Inv, Calm, ~disturbed', NEW r \in Requests, account # None, NEW row \in Row,
           NEW cols \in SUBSET DOMAIN Column,
           \A c \in {"email", "kdf", "hash", "akey"} : c \in cols \/ row[c] = account[c],
           Begin(r, Update(cols, row)), UNCHANGED <<account, vault>>,
           Opens(account, vault) => Opens(row, vault)
    PROVE  Calm'
<1> DEFINE q == Update(cols, row)
<1>1. /\ q \in Request /\ q.pc = "update" /\ DOMAIN q.set = cols
      /\ \A c \in cols : q.set[c] = row[c]
      /\ Begin(r, q)
  BY UpdateIsRequest
<1> HIDE DEF q
<1>2. account \in Row /\ row # None /\ q.set \in PartialRow
  BY <1>1, NoneAssumption DEF Inv, TypeOK, Request
<1>3. PICK b : b = Written(account, q.set)
  OBVIOUS
<1>4. /\ b # None
      /\ \A c \in DOMAIN Column : b[c] = IF c \in cols THEN row[c] ELSE account[c]
  BY <1>1, <1>2, <1>3, WrittenRow
<1>5. b.email = row.email /\ b.kdf = row.kdf /\ b.hash = row.hash /\ b.akey = row.akey
  BY <1>4, RowColumns
<1>6. Opens(account, vault) => Opens(b, vault)
  BY <1>2, <1>4, <1>5, OpensSame
<1>7. Opens(account, vault) => Steady(q, account, vault)
  BY <1>1, <1>3, <1>6 DEF Steady, Updating
<1> QED
  BY <1>1, <1>7, BeginsAlone

\* One that writes the secrets of a password, and wraps the key of the items.
LEMMA SecretsAlone ==
    ASSUME Inv, Calm, ~disturbed', NEW r \in Requests, account # None, NEW new \in Row,
           NEW mk \in MasterKey, NEW key,
           new.hash = mk, new.akey = [by |-> mk, key |-> key],
           mk.email = new.email, mk.kdf = new.kdf,
           NEW all \in SUBSET DOMAIN Column, secrets \subseteq all,
           "email" \in all \/ new.email = account.email,
           "kdf" \in all \/ new.kdf = account.kdf,
           Opens(account, vault) => \A i \in Items : vault[i] \in {0, key},
           Begin(r, Update(all, new)), UNCHANGED <<account, vault>>
    PROVE  Calm'
<1>1. Opens(account, vault) => Opens(new, vault)
  BY OpensWith
<1>2. \A c \in {"email", "kdf", "hash", "akey"} : c \in all \/ new[c] = account[c]
  BY DEF secrets
<1> QED
  BY <1>1, <1>2, UpdatesAlone

\* The row of a registration.
LEMMA RegistrationColumns ==
    ASSUME Inv, Draw, NEW e \in Emails, NEW p \in Passwords, NEW k \in Kdfs,
           NEW row \in Row, NEW cols \in SUBSET {"email", "verified", "privateKey"},
           row.email = e
    PROVE  \E all \in SUBSET DOMAIN Column, new \in Row :
             /\ registration(cols, e, p, k, row) = Update(all, new)
             /\ secrets \cup {"kdf"} \subseteq all
             /\ cols \subseteq all
             /\ Coherent(new)
             /\ new.email = e
<1> DEFINE all == cols \cup secrets \cup {"kdf"}
<1>1. PICK mk \in MasterKey : mk = masterKey(p, e, k) /\ mk.email = e /\ mk.kdf = k
  BY DerivedKey
<1>2. PICK key \in Nat : key = drawn'
  BY DrawType
<1>3. PICK mid \in Row : /\ mid = WithSecrets(row, mk, key)
                         /\ mid.hash = mk /\ mid.akey = [by |-> mk, key |-> key]
                         /\ mid.email = e
  BY SecretsColumns
<1>4. PICK akey : akey = [by |-> mk, key |-> key]
  OBVIOUS
<1>5. PICK new : new = [mid EXCEPT !.kdf = k, !.verified = TRUE, !.privateKey = TRUE]
  OBVIOUS
<1>6. new \in Row /\ new.hash = mk /\ new.akey = akey /\ new.email = e /\ new.kdf = k
  BY <1>3, <1>4, <1>5 DEF Row, Column
<1>7. /\ all \in SUBSET DOMAIN Column /\ secrets \cup {"kdf"} \subseteq all
      /\ cols \subseteq all
  BY RowColumns DEF secrets
<1>8. registration(cols, e, p, k, row) = Update(all, new)
  BY <1>1, <1>2, <1>3, <1>5 DEF registration
<1>9. Coherent(new)
  <2>1. akey.by = mk
    BY <1>4
  <2> QED
    BY <1>1, <1>6, <2>1 DEF Coherent
<1> HIDE DEF all
<1> QED
  BY <1>6, <1>7, <1>8, <1>9

LEMMA RegisterReadAlone ==
    ASSUME Inv, Calm, ~disturbed', NEW r \in Requests, NEW e \in Emails,
           NEW p \in Passwords, NEW k \in Kdfs,
           NEW extra \in SUBSET {"verified", "privateKey"},
           RegisterRead(r, e, p, k, extra)
    PROVE  Calm'
<1>1. Draw /\ UNCHANGED <<account, vault>>
  BY DEF RegisterRead
<1>2. CASE account = None
  <2>1. PICK row \in Row : row = newUserShell(e, k) /\ row.email = e
    BY ShellInRow
  <2>0. PICK cols \in SUBSET {"email", "verified", "privateKey"} :
          cols = extra \cup {"email"}
    OBVIOUS
  <2>2. PICK all \in SUBSET DOMAIN Column, new \in Row :
          /\ registration(cols, e, p, k, row) = Update(all, new)
          /\ secrets \cup {"kdf"} \subseteq all
          /\ cols \subseteq all
          /\ Coherent(new)
          /\ new.email = e
    BY <1>1, <2>1, RegistrationColumns
  <2> DEFINE u == Update(all, new)
             q == [u EXCEPT !.pc = "insert"]
  <2>3. u \in Request /\ DOMAIN u.set = all /\ \A c \in all : u.set[c] = new[c]
    BY UpdateIsRequest
  <2>4. Begin(r, q)
    BY <1>2, <2>1, <2>0, <2>2 DEF RegisterRead
  <2> HIDE DEF u
  <2>5. q \in Request /\ q.pc = "insert" /\ q.set = u.set
    BY <2>3 DEF Request
  <2> HIDE DEF q
  <2>6. {"email", "kdf", "hash", "akey"} \subseteq all
    BY <2>0, <2>2 DEF secrets
  <2>7. /\ q.set.email = new.email /\ q.set.kdf = new.kdf /\ q.set.hash = new.hash
        /\ q.set.akey = new.akey
    BY <2>2, <2>3, <2>5, <2>6
  <2>8. Coherent(q.set)
    BY <2>2, <2>7 DEF Coherent
  <2>9. Opens(account, vault) => Steady(q, account, vault)
    BY <1>2, <2>3, <2>5, <2>6, <2>8 DEF Opens, Steady, Inserting
  <2> QED
    BY <1>1, <2>4, <2>5, <2>9, BeginsAlone
<1>3. CASE account # None
  <2>1. PICK row \in Row : row = account /\ row.email = e /\ row.hash = None
    BY <1>3 DEF RegisterRead, Inv, TypeOK
  <2>0. PICK cols \in SUBSET {"email", "verified", "privateKey"} : cols = extra
    OBVIOUS
  <2>2. PICK all \in SUBSET DOMAIN Column, new \in Row :
          /\ registration(cols, e, p, k, row) = Update(all, new)
          /\ secrets \cup {"kdf"} \subseteq all
          /\ cols \subseteq all
          /\ Coherent(new)
          /\ new.email = e
    BY <1>1, <2>1, RegistrationColumns
  <2>3. Begin(r, Update(all, new))
    BY <1>3, <2>1, <2>0, <2>2 DEF RegisterRead
  <2>4. Opens(account, vault) => Opens(new, vault)
    BY <2>1, <2>2 DEF Opens, NoItems
  <2>5. \A c \in {"email", "kdf", "hash", "akey"} : c \in all \/ new[c] = account[c]
    BY <2>1, <2>2 DEF secrets
  <2> QED
    BY <1>1, <1>3, <2>2, <2>3, <2>4, <2>5, UpdatesAlone
<1> QED
  BY <1>2, <1>3

LEMMA SetPasswordAlone ==
    ASSUME Inv, Calm, ~disturbed', NEW r \in Requests, NEW p \in Passwords,
           NEW k \in Kdfs, NEW w \in BOOLEAN, SetPassword(r, p, k, w)
    PROVE  Calm'
<1>1. /\ account \in Row /\ account # None /\ account.email \in Emails
      /\ UNCHANGED <<account, vault>>
  BY SetPasswordKey
<1>2. PICK mk \in MasterKey : /\ mk = masterKey(p, account.email, k)
                              /\ mk.email = account.email /\ mk.kdf = k
  BY <1>1, DerivedKey
<1>3. PICK key \in Nat :
        /\ account.akey # None => key = account.akey.key
        /\ Begin(r, Update(secrets \cup {"kdf", "privateKey"},
             [WithSecrets(account, masterKey(p, account.email, k), key)
              EXCEPT !.kdf = k, !.privateKey = w]))
  BY SetPasswordKey
<1>4. PICK mid \in Row : /\ mid = WithSecrets(account, mk, key)
                         /\ mid.hash = mk /\ mid.akey = [by |-> mk, key |-> key]
                         /\ mid.email = account.email
  BY <1>1, SecretsColumns
<1>5. PICK new : new = [mid EXCEPT !.kdf = k, !.privateKey = w]
  OBVIOUS
<1>6. new \in Row /\ new.hash = mid.hash /\ new.akey = mid.akey
      /\ new.email = mid.email /\ new.kdf = k
  BY <1>5 DEF Row, Column
<1>7. PICK all \in SUBSET DOMAIN Column : all = secrets \cup {"kdf", "privateKey"}
  BY RowColumns DEF secrets
<1>8. Begin(r, Update(all, new))
  BY <1>2, <1>3, <1>4, <1>5, <1>7
<1>9. Opens(account, vault) => \A i \in Items : vault[i] \in {0, key}
  <2>1. account.hash # None => account.akey # None
    BY <1>1 DEF Inv, HasKey
  <2> QED
    BY <1>1, <1>3, <2>1 DEF Opens, NoItems
<1> QED
  BY <1>1, <1>2, <1>4, <1>6, <1>7, <1>8, <1>9, SecretsAlone

\* The key that is wrapped anew is the one of the items.
LEMMA KeyOfItems ==
    ASSUME HasPassword, Opens(account, vault)
    PROVE  \A i \in Items : vault[i] \in {0, account.akey.key}
BY DEF HasPassword, Opens

LEMMA ChangeAlone ==
    ASSUME Inv, Calm, ~disturbed', NEW r \in Requests, NEW p \in Passwords,
           \/ \E new \in Passwords : ChangePassword(r, p, new)
           \/ \E k \in Kdfs : ChangeKdf(r, p, k)
           \/ \E e \in Emails, code \in Nat : ChangeEmail(r, p, e, code)
    PROVE  Calm'
<1>1. /\ HasPassword /\ account \in Row /\ account # None /\ account.akey.key \in Nat
      /\ account.email \in Emails /\ account.kdf \in Kdfs
      /\ UNCHANGED <<account, vault>>
  BY PasswordRow DEF ChangePassword, ChangeKdf, ChangeEmail, verifyPassword
<1>2. PICK key \in Nat : key = account.akey.key
  BY <1>1
<1>3. Opens(account, vault) => \A i \in Items : vault[i] \in {0, key}
  BY <1>1, <1>2, KeyOfItems
<1>4. ASSUME NEW new \in Passwords, ChangePassword(r, p, new) PROVE Calm'
  <2>1. PICK mk \in MasterKey : /\ mk = masterKey(new, account.email, account.kdf)
                                /\ mk.email = account.email /\ mk.kdf = account.kdf
    BY <1>1, DerivedKey
  <2>2. PICK row \in Row : /\ row = WithSecrets(account, mk, key)
                           /\ row.hash = mk /\ row.akey = [by |-> mk, key |-> key]
                           /\ row.email = account.email /\ row.kdf = account.kdf
    BY <1>1, SecretsColumns
  <2>3. Begin(r, Update(secrets, row)) /\ secrets \in SUBSET DOMAIN Column
    BY <1>2, <1>4, <2>1, <2>2, RowColumns DEF ChangePassword, secrets
  <2> QED
    BY <1>1, <1>3, <2>1, <2>2, <2>3, SecretsAlone
<1>5. ASSUME NEW k \in Kdfs, ChangeKdf(r, p, k) PROVE Calm'
  <2>1. PICK mk \in MasterKey : /\ mk = masterKey(p, account.email, k)
                                /\ mk.email = account.email /\ mk.kdf = k
    BY <1>1, DerivedKey
  <2>2. PICK mid \in Row : /\ mid = WithSecrets(account, mk, key)
                           /\ mid.hash = mk /\ mid.akey = [by |-> mk, key |-> key]
                           /\ mid.email = account.email
    BY <1>1, SecretsColumns
  <2>3. PICK new : new = [mid EXCEPT !.kdf = k]
    OBVIOUS
  <2>4. /\ new \in Row /\ new.hash = mid.hash /\ new.akey = mid.akey
        /\ new.email = mid.email /\ new.kdf = k
    BY <2>3 DEF Row, Column
  <2>5. PICK all \in SUBSET DOMAIN Column : all = secrets \cup {"kdf"}
    BY RowColumns DEF secrets
  <2>6. Begin(r, Update(all, new))
    BY <1>2, <1>5, <2>1, <2>2, <2>3, <2>5 DEF ChangeKdf
  <2> QED
    BY <1>1, <1>3, <2>1, <2>2, <2>4, <2>5, <2>6, SecretsAlone
<1>6. ASSUME NEW e \in Emails, NEW code \in Nat, ChangeEmail(r, p, e, code) PROVE Calm'
  <2>1. PICK mk \in MasterKey : /\ mk = masterKey(p, e, account.kdf)
                                /\ mk.email = e /\ mk.kdf = account.kdf
    BY <1>1, DerivedKey
  <2>2. PICK mid \in Row : /\ mid = WithSecrets(account, mk, key)
                           /\ mid.hash = mk /\ mid.akey = [by |-> mk, key |-> key]
                           /\ mid.kdf = account.kdf
    BY <1>1, SecretsColumns
  <2>3. PICK new : new = [mid EXCEPT !.email = e, !.newEmail = None, !.verified = TRUE]
    OBVIOUS
  <2>4. /\ new \in Row /\ new.hash = mid.hash /\ new.akey = mid.akey
        /\ new.email = e /\ new.kdf = mid.kdf
    BY <2>3 DEF Row, Column
  <2>5. PICK all \in SUBSET DOMAIN Column :
          all = secrets \cup {"email", "newEmail", "verified"}
    BY RowColumns DEF secrets
  <2>6. Begin(r, Update(all, new))
    BY <1>2, <1>6, <2>1, <2>2, <2>3, <2>5 DEF ChangeEmail
  <2> QED
    BY <1>1, <1>3, <2>1, <2>2, <2>4, <2>5, <2>6, SecretsAlone
<1> QED
  BY <1>4, <1>5, <1>6

\* Those that leave the secrets.
LEMMA OthersAlone ==
    ASSUME Inv, Calm, ~disturbed', NEW r \in Requests,
           \/ \E p \in Passwords, e \in Emails : RequestEmailChange(r, p, e)
           \/ \E e \in Emails : VerifyEmailToken(r, e)
           \/ \E p \in Passwords : LoginUpgrade(r, p)
           \/ \E claim \in Claims : SsoComplete(r, claim)
           \/ PostKeys(r)
    PROVE  Calm'
<1>1. account \in Row /\ account # None /\ UNCHANGED <<account, vault>>
  BY DEF RequestEmailChange, VerifyEmailToken, LoginUpgrade, SsoComplete, PostKeys,
     SignedIn, verifyPassword, HasPassword, Inv, TypeOK
<1>2. PICK new \in Row, all \in SUBSET DOMAIN Column :
        /\ new.hash = account.hash /\ new.akey = account.akey
        /\ new.email = account.email /\ new.kdf = account.kdf
        /\ Begin(r, Update(all, new))
  <2>1. ASSUME NEW p \in Passwords, NEW e \in Emails, RequestEmailChange(r, p, e)
        PROVE  \E new \in Row, all \in SUBSET DOMAIN Column :
                 /\ new.hash = account.hash /\ new.akey = account.akey
                 /\ new.email = account.email /\ new.kdf = account.kdf
                 /\ Begin(r, Update(all, new))
    <3>1. PICK code : code = [email |-> e, code |-> drawn']
      OBVIOUS
    <3>2. drawn' \in Nat
      BY <2>1, DrawType DEF RequestEmailChange
    <3>3. code \in Column.newEmail
      BY <3>1, <3>2 DEF Column
    <3>4. PICK new : new = [account EXCEPT !.newEmail = code]
      OBVIOUS
    <3>5. /\ new \in Row /\ new.hash = account.hash /\ new.akey = account.akey
          /\ new.email = account.email /\ new.kdf = account.kdf
      BY <1>1, <3>3, <3>4 DEF Row
    <3>6. Begin(r, Update({"newEmail"}, new)) /\ {"newEmail"} \in SUBSET DOMAIN Column
      BY <2>1, <3>1, <3>4, RowColumns DEF RequestEmailChange
    <3> QED
      BY <3>5, <3>6
  <2>2. ASSUME NEW e \in Emails, VerifyEmailToken(r, e)
        PROVE  \E new \in Row, all \in SUBSET DOMAIN Column :
                 /\ new.hash = account.hash /\ new.akey = account.akey
                 /\ new.email = account.email /\ new.kdf = account.kdf
                 /\ Begin(r, Update(all, new))
    <3>1. PICK new : new = [account EXCEPT !.verified = TRUE]
      OBVIOUS
    <3>2. /\ new \in Row /\ new.hash = account.hash /\ new.akey = account.akey
          /\ new.email = account.email /\ new.kdf = account.kdf
      BY <1>1, <3>1 DEF Row, Column
    <3>3. Begin(r, Update({"verified"}, new)) /\ {"verified"} \in SUBSET DOMAIN Column
      BY <2>2, <3>1, RowColumns DEF VerifyEmailToken
    <3> QED
      BY <3>2, <3>3
  <2>3. ASSUME NEW p \in Passwords, LoginUpgrade(r, p)
        PROVE  \E new \in Row, all \in SUBSET DOMAIN Column :
                 /\ new.hash = account.hash /\ new.akey = account.akey
                 /\ new.email = account.email /\ new.kdf = account.kdf
                 /\ Begin(r, Update(all, new))
    <3>1. PICK new : new = [account EXCEPT !.slow = FALSE]
      OBVIOUS
    <3>2. /\ new \in Row /\ new.hash = account.hash /\ new.akey = account.akey
          /\ new.email = account.email /\ new.kdf = account.kdf
      BY <1>1, <3>1 DEF Row, Column
    <3>3. Begin(r, Update({"hash", "slow"}, new)) /\ {"hash", "slow"} \in SUBSET DOMAIN Column
      BY <2>3, <3>1, RowColumns DEF LoginUpgrade
    <3> QED
      BY <3>2, <3>3
  <2>4. ASSUME NEW claim \in Claims, SsoComplete(r, claim)
        PROVE  \E new \in Row, all \in SUBSET DOMAIN Column :
                 /\ new.hash = account.hash /\ new.akey = account.akey
                 /\ new.email = account.email /\ new.kdf = account.kdf
                 /\ Begin(r, Update(all, new))
    <3>1. PICK new : new = [account EXCEPT !.verified = TRUE]
      OBVIOUS
    <3>2. /\ new \in Row /\ new.hash = account.hash /\ new.akey = account.akey
          /\ new.email = account.email /\ new.kdf = account.kdf
      BY <1>1, <3>1 DEF Row, Column
    <3>3. Begin(r, Update({"verified"}, new)) /\ {"verified"} \in SUBSET DOMAIN Column
      BY <2>4, <3>1, RowColumns DEF SsoComplete
    <3> QED
      BY <3>2, <3>3
  <2>5. ASSUME PostKeys(r)
        PROVE  \E new \in Row, all \in SUBSET DOMAIN Column :
                 /\ new.hash = account.hash /\ new.akey = account.akey
                 /\ new.email = account.email /\ new.kdf = account.kdf
                 /\ Begin(r, Update(all, new))
    <3>1. PICK new : new = [account EXCEPT !.privateKey = TRUE]
      OBVIOUS
    <3>2. /\ new \in Row /\ new.hash = account.hash /\ new.akey = account.akey
          /\ new.email = account.email /\ new.kdf = account.kdf
      BY <1>1, <3>1 DEF Row, Column
    <3>3. Begin(r, Update({"privateKey"}, new)) /\ {"privateKey"} \in SUBSET DOMAIN Column
      BY <2>5, <3>1, RowColumns DEF PostKeys
    <3> QED
      BY <3>2, <3>3
  <2> QED
    BY <2>1, <2>2, <2>3, <2>4, <2>5
<1>3. new # None
  BY NoneAssumption
<1>4. Opens(account, vault) => Opens(new, vault)
  BY <1>1, <1>2, <1>3, OpensSame
<1>5. \A c \in {"email", "kdf", "hash", "akey"} : c \in all \/ new[c] = account[c]
  BY <1>2
<1> QED
  BY <1>1, <1>2, <1>4, <1>5, UpdatesAlone

\* Items are still to be re-encrypted when a rotation begins.
LEMMA RotateKeyAlone ==
    ASSUME Inv, Calm, ~disturbed', NEW r \in Requests, NEW p \in Passwords, RotateKey(r, p)
    PROVE  Calm'
<1>1. /\ account \in Row /\ account # None /\ HasPassword /\ account.hash \in MasterKey
      /\ Draw /\ UNCHANGED <<account, vault>>
  BY PasswordRow DEF RotateKey, verifyPassword
<1>2. PICK key \in Nat : key = drawn'
  BY <1>1, DrawType
<1>3. PICK mk \in MasterKey : mk = account.hash
  BY <1>1
<1>4. PICK new \in Row : /\ new = WithSecrets(account, mk, key)
                         /\ new.hash = mk /\ new.akey = [by |-> mk, key |-> key]
                         /\ new.email = account.email /\ new.kdf = account.kdf
  BY <1>1, SecretsColumns
<1>5. PICK all \in SUBSET DOMAIN Column : all = secrets \cup {"privateKey"}
  BY RowColumns DEF secrets
<1>6. PICK items \in SUBSET Items : items = {i \in Items : vault[i] # 0}
  OBVIOUS
<1> DEFINE u == Update(all, new)
           q == [u EXCEPT !.pc = "item", !.items = items, !.key = key]
<1>7. u \in Request /\ DOMAIN u.set = all /\ \A c \in all : u.set[c] = new[c]
  BY UpdateIsRequest
<1>8. Begin(r, q)
  BY <1>2, <1>3, <1>4, <1>5, <1>6 DEF RotateKey
<1> HIDE DEF u
<1>9. /\ q \in Request /\ q.pc = "item" /\ q.set = u.set
      /\ q.items = items /\ q.key = key
  BY <1>7 DEF Request
<1> HIDE DEF q
<1>10. IsRotation(q)
  BY <1>5, <1>7, <1>9, NoColumns DEF IsRotation, secrets
<1>11. PICK b : b = Written(account, q.set)
  OBVIOUS
<1>12. \A c \in DOMAIN Column : b[c] = IF c \in all THEN new[c] ELSE account[c]
  BY <1>1, <1>7, <1>9, <1>11, WrittenRow DEF Request
<1>13. /\ b.hash = mk /\ b.akey = [by |-> mk, key |-> key]
       /\ b.email = account.email /\ b.kdf = account.kdf
  BY <1>4, <1>5, <1>12, RowColumns DEF secrets
<1>14. b.akey.by = mk /\ b.akey.key = key
  BY <1>13
<1>15. Opens(account, vault) => Rotating(q, account, vault)
  <2> SUFFICES ASSUME Opens(account, vault) PROVE Rotating(q, account, vault)
    OBVIOUS
  <2>1. Coherent(account)
    BY <1>1 DEF Opens, HasPassword
  <2>2. Coherent(b) /\ b.hash # None /\ b.akey.key = q.key
    BY <1>3, <1>9, <1>13, <1>14, <2>1, NoneAssumption DEF Coherent
  <2>3. \A i \in Items : IF i \in q.items THEN vault[i] # 0 ELSE vault[i] \in {0, q.key}
    BY <1>6, <1>9
  <2> QED
    BY <1>1, <1>11, <2>2, <2>3 DEF Rotating
<1>16. Opens(account, vault) => Steady(q, account, vault)
  BY <1>9, <1>10, <1>15 DEF Steady
<1> QED
  BY <1>1, <1>8, <1>9, <1>16, BeginsAlone

LEMMA ItemAlone ==
    ASSUME Inv, Calm, ~disturbed', NEW r \in Requests, NEW i \in Items,
           SaveItem(r, i) \/ DeleteItem(r, i)
    PROVE  Calm'
<1>1. ASSUME NEW pc \in {"item", "delete"}, NEW key \in Nat,
             Begin(r, ItemRequest(pc, i, key)), account # None,
             pc = "item" => HasPassword /\ key = account.akey.key,
             UNCHANGED <<account, vault>>
      PROVE  Calm'
  <2> DEFINE q == ItemRequest(pc, i, key)
  <2>1. q \in Request /\ q.pc = pc /\ q.key = key /\ q.set = <<>>
    BY NoColumns DEF ItemRequest, Request
  <2> HIDE DEF q
  <2>2. Opens(account, vault) => Steady(q, account, vault)
    BY <1>1, <2>1 DEF Steady, IsRotation, Saving, Removing, HasPassword
  <2>3. Begin(r, q)
    BY <1>1 DEF q
  <2> QED
    BY <1>1, <2>1, <2>2, <2>3, BeginsAlone
<1>2. CASE SaveItem(r, i)
  <2>1. account.akey.key \in Nat /\ account # None
    BY <1>2, PasswordRow DEF SaveItem
  <2> QED
    BY <1>1, <1>2, <2>1 DEF SaveItem
<1>3. CASE DeleteItem(r, i)
  BY <1>1, <1>3 DEF DeleteItem
<1> QED
  BY <1>2, <1>3

LEMMA ArriveAlone ==
    ASSUME Inv, Calm, ~disturbed', NEW r \in Requests, Arrive(r)
    PROVE  Calm'
<1>1. \A code \in 1 .. MaxKeys : code \in Nat
  BY BoundAssumption
<1> QED
  BY <1>1, RegisterReadAlone, SetPasswordAlone, ChangeAlone, OthersAlone,
     RotateKeyAlone, ItemAlone
     DEF Arrive

----------------------------------------------------------------------------
LEMMA RegisterInsertAlone ==
    ASSUME Inv, Calm, NEW r \in Requests, RegisterInsert(r)
    PROVE  Calm'
<1>1. PICK p \in Request : p = requests[r] /\ p.pc = "insert"
  BY RunningAlone DEF RegisterInsert, At
<1>2. Inserting(p, account, vault) /\ \A s \in Active : s = r
  BY <1>1, RunningAlone DEF RegisterInsert, At, Steady
<1>3. PICK set \in PartialRow : set = p.set
  BY <1>1 DEF Request
<1>4. {"email", "kdf", "hash", "akey"} \subseteq DOMAIN set /\ Coherent(set)
      /\ NoItems(vault)
  BY <1>2, <1>3 DEF Inserting
<1>5. set.email \in Emails /\ set.kdf \in Kdfs
  BY <1>3, <1>4 DEF PartialRow, Column
<1>6. PICK a \in Row : /\ a = newUserShell(set.email, set.kdf)
                       /\ a.email = set.email /\ a.kdf = set.kdf /\ a # None
  BY <1>5, ShellInRow, NoneAssumption DEF newUserShell
<1> DEFINE u == [c \in DOMAIN set \ {"email"} |-> set[c]]
           q == [pc |-> "update", set |-> u, items |-> {}, key |-> 0]
<1>7. /\ DOMAIN u = DOMAIN set \ {"email"} /\ \A c \in DOMAIN u : u[c] = set[c]
  OBVIOUS
<1>8. /\ account' = a /\ vault' = vault
      /\ requests' = [requests EXCEPT ![r] = q]
  BY <1>1, <1>3, <1>6 DEF RegisterInsert, Continue, Update
<1>9. u \in PartialRow
  BY <1>3, <1>7 DEF PartialRow
<1> HIDE DEF u
<1>10. q \in Request /\ q.pc = "update" /\ q.set = u
  BY <1>9 DEF Request
<1> HIDE DEF q
<1>11. PICK b : b = Written(a, u)
  OBVIOUS
<1>12. \A c \in DOMAIN Column : b[c] = IF c \in DOMAIN u THEN u[c] ELSE a[c]
  BY <1>6, <1>9, <1>11, WrittenRow
<1>13. /\ b.hash = set.hash /\ b.akey = set.akey
       /\ b.email = set.email /\ b.kdf = set.kdf
  BY <1>4, <1>6, <1>7, <1>12, RowColumns
<1>14. Opens(b, vault)
  BY <1>4, <1>13 DEF Opens, Coherent, NoItems
<1>15. Steady(q, account', vault')
  BY <1>6, <1>8, <1>10, <1>11, <1>14 DEF Steady, Updating
<1>16. q # None
  BY <1>10, NoneAssumption
<1> QED
  BY <1>2, <1>8, <1>10, <1>15, <1>16, StepAlone

LEMMA WriteColumnsAlone ==
    ASSUME Inv, Calm, NEW r \in Requests, WriteColumns(r)
    PROVE  Calm'
<1>1. PICK p \in Request : p = requests[r] /\ p.pc = "update"
  BY RunningAlone DEF WriteColumns, At
<1>2. Updating(p, account, vault) /\ \A s \in Active : s = r
  BY <1>1, RunningAlone DEF WriteColumns, At, Steady
<1>3. /\ account' = Written(account, p.set) /\ vault' = vault
      /\ requests' = [requests EXCEPT ![r] = None]
  BY <1>1, <1>2 DEF WriteColumns, Done, Continue, Written, Updating
<1>4. Opens(account', vault')
  BY <1>2, <1>3 DEF Updating
<1> QED
  BY <1>2, <1>3, <1>4, StepAlone

LEMMA RotateAccountAlone ==
    ASSUME Inv, Calm, NEW r \in Requests, RotateAccount(r)
    PROVE  Calm'
<1>1. PICK p \in Request : p = requests[r] /\ p.pc = "item" /\ p.items = {}
  BY RunningAlone DEF RotateAccount, At
<1> DEFINE q == [p EXCEPT !.pc = "update"]
<1>2. q \in Request /\ q.pc = "update" /\ q.set = p.set
  BY <1>1 DEF Request
<1>3. /\ requests' = [requests EXCEPT ![r] = q] /\ UNCHANGED <<account, vault>>
  BY <1>1 DEF RotateAccount, Continue
<1> HIDE DEF q
<1>4. Steady(p, account, vault) /\ \A s \in Active : s = r
  BY <1>1, RunningAlone DEF RotateAccount, At
<1>5. PICK set \in PartialRow : set = p.set
  BY <1>1 DEF Request
<1>6. Updating(q, account, vault)
  <2>1. CASE IsRotation(p)
    <3>1. Rotating(p, account, vault)
      BY <1>1, <1>4, <2>1 DEF Steady
    <3>2. PICK b : b = Written(account, set)
      OBVIOUS
    <3>3. /\ account # None /\ b.hash # None /\ Coherent(b) /\ b.akey.key = p.key
          /\ \A i \in Items : vault[i] \in {0, p.key}
      BY <1>1, <1>5, <3>1, <3>2 DEF Rotating
    <3>4. account \in Row
      BY <3>3 DEF Inv, TypeOK
    <3>5. b # None
      BY <3>2, <3>4, WrittenRow
    <3> QED
      BY <1>2, <1>5, <3>2, <3>3, <3>5 DEF Updating, Opens
  <2>2. CASE ~IsRotation(p)
    <3>1. Saving(p, account, vault) /\ set = <<>>
      BY <1>1, <1>4, <1>5, <2>2 DEF Steady, IsRotation
    <3>2. account \in Row /\ account # None /\ Opens(account, vault)
      BY <3>1 DEF Saving, Inv, TypeOK
    <3>3. PICK b : b = Written(account, set)
      OBVIOUS
    <3>4. b # None /\ \A c \in DOMAIN Column : b[c] = account[c]
      BY <3>1, <3>2, <3>3, WrittenRow, NoColumns
    <3>5. b.hash = account.hash /\ b.akey = account.akey
          /\ b.email = account.email /\ b.kdf = account.kdf
      BY <3>4, RowColumns
    <3>6. Opens(b, vault)
      BY <3>2, <3>4, <3>5, OpensSame
    <3> QED
      BY <1>2, <1>5, <3>2, <3>3, <3>6 DEF Updating
  <2> QED
    BY <2>1, <2>2
<1>7. Steady(q, account', vault') /\ q # None
  BY <1>2, <1>3, <1>6, NoneAssumption DEF Steady
<1> QED
  BY <1>2, <1>3, <1>4, <1>7, StepAlone

LEMMA RemoveItemAlone ==
    ASSUME Inv, Calm, NEW r \in Requests, RemoveItem(r)
    PROVE  Calm'
<1>1. PICK p \in Request : p = requests[r] /\ p.pc = "delete"
  BY RunningAlone DEF RemoveItem, At
<1>2. Removing(account, vault) /\ \A s \in Active : s = r
  BY <1>1, RunningAlone DEF RemoveItem, At, Steady
<1>3. /\ account' = account /\ requests' = [requests EXCEPT ![r] = None]
      /\ \A i \in Items : vault'[i] \in {0, vault[i]}
  BY DEF RemoveItem, Done, Continue
<1>4. Opens(account', vault')
  BY <1>2, <1>3 DEF Removing, Opens, NoItems
<1> QED
  BY <1>2, <1>3, <1>4, StepAlone

\* One more item under the key of the rotation, or the item that is saved.
LEMMA WriteItemAlone ==
    ASSUME Inv, Calm, NEW r \in Requests, NEW i \in Items, WriteItem(r, i)
    PROVE  Calm'
<1>1. PICK p \in Request : p = requests[r] /\ p.pc = "item" /\ i \in p.items
  BY RunningAlone DEF WriteItem, At
<1>2. Steady(p, account, vault) /\ \A s \in Active : s = r
  BY <1>1, RunningAlone DEF WriteItem, At
<1>3. /\ account' = account /\ vault \in [Items -> Nat]
      /\ vault' = [vault EXCEPT ![i] = p.key]
  BY <1>1 DEF WriteItem, Inv, TypeOK
<1>4. /\ vault'[i] = p.key
      /\ \A j \in Items : j # i => vault'[j] = vault[j]
  BY <1>3
<1>5. CASE IsRotation(p)
  <2> DEFINE q == [p EXCEPT !.items = p.items \ {i}]
  <2>1. /\ q \in Request /\ q.pc = "item" /\ q.set = p.set /\ q.key = p.key
        /\ q.items = p.items \ {i}
    BY <1>1 DEF Request
  <2>2. requests' = [requests EXCEPT ![r] = q]
    BY <1>1, <1>5 DEF WriteItem, Continue
  <2> HIDE DEF q
  <2>3. Rotating(p, account, vault) /\ IsRotation(q)
    BY <1>1, <1>2, <1>5, <2>1 DEF Steady, IsRotation
  <2>4. Rotating(q, account, vault')
    <3>1. \A j \in Items : IF j \in q.items THEN vault'[j] # 0 ELSE vault'[j] \in {0, q.key}
      BY <1>4, <2>1, <2>3 DEF Rotating
    <3> QED
      BY <2>1, <2>3, <3>1 DEF Rotating
  <2>5. Steady(q, account', vault') /\ q # None
    BY <1>3, <2>1, <2>3, <2>4, NoneAssumption DEF Steady
  <2> QED
    BY <1>2, <2>1, <2>2, <2>5, StepAlone
<1>6. CASE ~IsRotation(p)
  <2>1. Saving(p, account, vault)
    BY <1>1, <1>2, <1>6 DEF Steady
  <2>2. requests' = [requests EXCEPT ![r] = None]
    BY <1>1, <1>6 DEF WriteItem, Continue
  <2>3. Opens(account', vault')
    BY <1>3, <1>4, <2>1 DEF Saving, Opens
  <2> QED
    BY <1>2, <2>2, <2>3, StepAlone
<1> QED
  BY <1>5, <1>6

LEMMA ProceedAlone ==
    ASSUME Inv, Calm, ~disturbed', NEW r \in Requests, Proceed(r)
    PROVE  Calm'
<1>1. ASSUME RegisterConflict(r) PROVE FALSE
  BY <1>1, RunningAlone DEF RegisterConflict, At, Steady, Inserting
<1>2. ASSUME NEW i \in Items, WriteItemRefused(r, i) PROVE FALSE
  <2>1. PICK p \in Request : p = requests[r] /\ p.pc = "item" /\ i \in p.items
    BY <1>2, RunningAlone DEF WriteItemRefused, At
  <2>2. Steady(p, account, vault)
    BY <1>2, <2>1, RunningAlone DEF WriteItemRefused, At
  <2> QED
    BY <1>2, <2>1, <2>2 DEF WriteItemRefused, Steady, Rotating, Saving
<1>3. ~Fail(r)
  BY DEF Fail
<1> QED
  BY <1>1, <1>2, <1>3, RegisterInsertAlone, WriteColumnsAlone, RotateAccountAlone,
     RemoveItemAlone, WriteItemAlone
     DEF Proceed

\* What changes the account without a request in flight.
LEMMA ElsewhereAlone ==
    ASSUME Inv, Calm, ~disturbed', requests' = requests,
           \/ \E e \in Emails : MailRegistration(e)
           \/ \E e \in Emails, k \in Kdfs : CreateShell(e, k)
           \/ \E e \in Emails, k \in Kdfs, claim \in Claims : SsoCreate(e, k, claim)
           \/ MailVerification \/ RaiseIterations \/ DeleteAccount
    PROVE  Calm'
<1>1. Active = {} /\ Active' = {}
  BY DEF MailRegistration, CreateShell, SsoCreate, MailVerification, RaiseIterations,
         DeleteAccount, Active
<1>2. Opens(account, vault)
  BY <1>1 DEF Calm
<1>3. Opens(account', vault')
  <2>1. CASE MailVerification \/ \E e \in Emails : MailRegistration(e)
    BY <1>2, <2>1 DEF MailVerification, MailRegistration
  <2>2. ASSUME NEW e \in Emails, NEW k \in Kdfs, CreateShell(e, k)
        PROVE  Opens(account', vault')
    <3>1. account'.hash = None /\ vault' = vault /\ NoItems(vault)
      BY <1>2, <2>2 DEF CreateShell, Fresh, newUserShell, Opens
    <3> QED
      BY <3>1 DEF Opens
  <2>5. ASSUME NEW e \in Emails, NEW k \in Kdfs, NEW claim \in Claims,
               SsoCreate(e, k, claim)
        PROVE  Opens(account', vault')
    <3>1. newUserShell(e, k) \in Row /\ newUserShell(e, k).hash = None
      BY ShellInRow
    <3>2. account'.hash = None
      BY <2>5, <3>1 DEF SsoCreate, Row
    <3>3. vault' = vault /\ NoItems(vault)
      BY <1>2, <2>5 DEF SsoCreate, Fresh, Opens
    <3> QED
      BY <3>2, <3>3 DEF Opens
  <2>3. CASE RaiseIterations
    <3>1. PICK b : b = [account EXCEPT !.slow = TRUE]
      OBVIOUS
    <3>2. account \in Row /\ account # None /\ account' = b /\ vault' = vault
      BY <2>3, <3>1 DEF RaiseIterations, HasPassword, Inv, TypeOK
    <3>3. /\ b \in Row /\ b.hash = account.hash /\ b.akey = account.akey
          /\ b.email = account.email
      BY <3>1, <3>2 DEF Row, Column
    <3>4. b.kdf = account.kdf
      BY <3>1, <3>2 DEF Row, Column
    <3>5. Coherent(account) => Coherent(b)
      BY <3>3, <3>4 DEF Coherent
    <3> QED
      BY <1>2, <3>2, <3>3, <3>5, NoneAssumption DEF Opens
  <2>4. CASE DeleteAccount
    BY <2>4 DEF DeleteAccount, Opens, NoItems
  <2> QED
    BY <2>1, <2>2, <2>3, <2>4, <2>5
<1> QED
  BY <1>1, <1>3 DEF Calm

----------------------------------------------------------------------------
LEMMA StaysDisturbed ==
    ASSUME Inv, Next, disturbed
    PROVE  disturbed'
<1>1. ASSUME NEW r \in Requests, NEW q, Begin(r, q) PROVE disturbed'
  BY <1>1 DEF Begin
<1>2. ASSUME NEW r \in Requests, Arrive(r) PROVE disturbed'
  BY <1>1, <1>2
     DEF Arrive, RegisterRead, RequestEmailChange, ChangeEmail, VerifyEmailToken,
         ChangePassword, SetPassword, ChangeKdf, LoginUpgrade, RotateKey, SaveItem,
         DeleteItem, PostKeys, SsoComplete
<1>3. ASSUME NEW r \in Requests, Proceed(r) PROVE disturbed'
  BY <1>3
     DEF Proceed, RegisterInsert, RegisterConflict, WriteColumns, RotateAccount,
         RemoveItem, WriteItem, WriteItemRefused, Fail, Continue, Done
<1> QED
  BY <1>2, <1>3
     DEF Next, MailRegistration, CreateShell, SsoCreate, MailVerification,
         RaiseIterations, DeleteAccount

LEMMA NextKeepsCalm ==
    ASSUME CalmInv, [Next]_vars
    PROVE  CalmInv'
<1>1. Inv'
  BY NextKeepsInv DEF CalmInv
<1>2. CASE UNCHANGED vars
  <2>1. Active' = Active /\ requests' = requests /\ account' = account /\ vault' = vault
        /\ disturbed' = disturbed
    BY <1>2 DEF vars, Active
  <2>2. Calm => Calm'
    BY <2>1 DEF Calm
  <2> QED
    BY <1>1, <2>1, <2>2 DEF CalmInv
<1>3. CASE Next
  <2> SUFFICES ASSUME ~disturbed' PROVE Calm'
    BY <1>1 DEF CalmInv
  <2>1. Inv /\ Calm
    BY <1>3, StaysDisturbed DEF CalmInv
  <2>2. \A r \in Requests : Arrive(r) \/ Proceed(r) => Calm'
    BY <2>1, ArriveAlone, ProceedAlone
  <2>3. ASSUME \/ \E e \in Emails : MailRegistration(e)
               \/ \E e \in Emails, k \in Kdfs : CreateShell(e, k)
               \/ \E e \in Emails, k \in Kdfs, claim \in Claims : SsoCreate(e, k, claim)
               \/ MailVerification \/ RaiseIterations \/ DeleteAccount
        PROVE  Calm'
    <3>1. requests' = requests
      BY <2>3 DEF MailRegistration, CreateShell, SsoCreate, MailVerification,
                  RaiseIterations, DeleteAccount
    <3> QED
      BY <2>1, <2>3, <3>1, ElsewhereAlone
  <2> QED
    BY <1>3, <2>2, <2>3 DEF Next
<1> QED
  BY <1>2, <1>3

LEMMA InitCalm == Init => CalmInv
<1> SUFFICES ASSUME Init PROVE Calm
  BY InitInv DEF CalmInv
<1>1. Active = {} /\ Opens(account, vault)
  BY DEF Init, Active, Opens, NoItems
<1> QED
  BY <1>1 DEF Calm

\* After any sequence of requests that neither overlap nor fail - registrations,
\* new passwords, KDF settings and addresses, rotations, saved items - the
\* password that logs in opens the vault, whatever the number of addresses,
\* passwords, settings and items.
THEOREM PasswordAlwaysOpens == Spec => []PasswordOpensVault
<1>1. CalmInv => PasswordOpensVault
  BY DEF CalmInv, Calm, Opens, Coherent, PasswordOpensVault, HasPassword
<1> QED
  BY <1>1, InitCalm, NextKeepsCalm, PTL DEF Spec

=============================================================================
