---------------------------- MODULE VaultProofs -----------------------------
(***************************************************************************)
(* An item is in one vault, an organization's or its creator's, for any    *)
(* number of users, organizations, items and overlapping requests.  A      *)
(* handler decides on what it has read and writes the whole row later, so  *)
(* the argument is about rows and not about when they are written: every   *)
(* row that a request in flight holds is already in one vault.             *)
(*                                                                         *)
(* What holds between requests while none has overlapped another (the      *)
(* collections of an item are its organization's, its organization is      *)
(* there, everyone has been told of a change) is about when: it follows    *)
(* from what each todo list has left, in "A request alone".                *)
(***************************************************************************)
EXTENDS Vault, SequenceTheorems, TLAPS

\* A row of one vault.
InOneVault(x) == x.user = IF x.org = None THEN x.creator ELSE None

\* A request that files an item has one, and a folder to file it in.
Held(q) == /\ InOneVault(q.row)
           /\ q.todo # <<>>
           /\ q.cipher \in Ciphers \/ q.todo \in Seq(Statement \ {"file", "move"})
           /\ q.folder \in Folders \/ q.todo \in Seq(Statement \ {"file"})

AllHeld == \A r \in Requests : requests[r] # None => Held(requests[r])
Inv == TypeOK /\ PersonalToCreator /\ AllHeld

\* The rest of the tables.
TablesOK ==
    /\ orgs \subseteq Orgs
    /\ members \in [Users \X Orgs -> {"limited", "full", None}]
    /\ collections \in [Collections -> Orgs \cup {None}]
    /\ grants \subseteq Grant
    /\ assigned \in [Ciphers -> SUBSET Collections]
    /\ folders \in [Folders -> Users \cup {None}]
    /\ filed \subseteq Ciphers \X Folders
    /\ unaware \subseteq Users
    /\ disturbed \in BOOLEAN

Rows == [Ciphers -> Cipher \cup {None}]
OneVault(t) == \A c \in Ciphers : t[c] # None => InOneVault(t[c])

LEMMA InvParts ==
    Inv <=> /\ TablesOK
            /\ ciphers \in Rows /\ OneVault(ciphers)
            /\ requests \in [Requests -> Request \cup {None}] /\ AllHeld
<1>1. PersonalToCreator <=> OneVault(ciphers)
  BY DEF PersonalToCreator, OneVault, InOneVault
<1>2. ASSUME AllHeld PROVE \A r \in Active : requests[r].todo # <<>>
  BY <1>2 DEF AllHeld, Held, Active
<1> QED
  BY <1>1, <1>2 DEF Inv, TypeOK, TablesOK, Rows

LEMMA InvPartsNext ==
    ASSUME TablesOK', ciphers' \in Rows, OneVault(ciphers'),
           requests' \in [Requests -> Request \cup {None}], AllHeld'
    PROVE  Inv'
<1>1. PersonalToCreator'
  BY DEF PersonalToCreator, OneVault, InOneVault
<1>2. (\A r \in Active : requests[r].todo # <<>>)'
  BY DEF AllHeld, Held, Active
<1> QED
  BY <1>1, <1>2 DEF Inv, TypeOK, TablesOK, Rows

----------------------------------------------------------------------------
(***************************************************************************)
(* What a step may do                                                      *)
(***************************************************************************)
\* A request goes on with q, or ends; the rows of items stay or are in one vault.
LEMMA RequestStep ==
    ASSUME Inv, NEW r \in Requests, NEW q \in Request \cup {None}, q # None => Held(q),
           requests' = [requests EXCEPT ![r] = q],
           TablesOK', ciphers' \in Rows, OneVault(ciphers')
    PROVE  Inv'
<1>1. requests' \in [Requests -> Request \cup {None}]
  BY InvParts
<1>2. AllHeld'
  BY InvParts DEF AllHeld
<1> QED
  BY <1>1, <1>2, InvPartsNext

\* Statements of a request: what is left of todo when one has been run.
LEMMA Rests ==
    ASSUME NEW S, NEW todo \in Seq(S), todo # <<>>
    PROVE  Head(todo) \in S /\ Tail(todo) \in Seq(S)
OBVIOUS

\* Continue with a request that holds the same row, item and folder, and a
\* shorter todo.
LEMMA ShorterHeld ==
    ASSUME NEW p \in Request, Held(p), NEW q \in Request,
           q.row = p.row, q.cipher = p.cipher, q.folder = p.folder,
           q.todo = Tail(p.todo) \/ q.todo = p.todo, q.todo # <<>>
    PROVE  Held(q)
<1>1. \A S \in SUBSET Statement : p.todo \in Seq(S) => q.todo \in Seq(S)
  <2>1. p.todo # <<>>
    BY DEF Held
  <2> QED
    BY <2>1, Rests
<1> QED
  BY <1>1 DEF Held

\* The tables after a step of a request that writes no item.
LEMMA TypeStep ==
    ASSUME Inv, NEW r \in Requests, NEW q \in Request, Continue(r, q),
           q.todo # <<>> => Held(q),
           TablesOK', ciphers' \in Rows, OneVault(ciphers')
    PROVE  Inv'
<1> DEFINE p == IF q.todo = <<>> THEN None ELSE q
<1>1. p \in Request \cup {None} /\ (p # None => Held(p))
  OBVIOUS
<1>2. requests' = [requests EXCEPT ![r] = p]
  BY DEF Continue
<1> HIDE DEF p
<1> QED
  BY <1>1, <1>2, RequestStep

\* Go and Done keep what a request holds.
LEMMA GoStep ==
    ASSUME Inv, NEW r \in Requests, requests[r] # None, Go(r) \/ Done(r),
           TablesOK', ciphers' \in Rows, OneVault(ciphers')
    PROVE  Inv'
<1> DEFINE p == requests[r]
           q == [p EXCEPT !.todo = Rest(r)]
           n == [p EXCEPT !.todo = <<>>]
<1>1. p \in Request /\ Held(p)
  BY InvParts DEF AllHeld
<1>2. Rest(r) \in Seq(Statement) /\ Rest(r) = Tail(p.todo)
  BY <1>1, Rests DEF Rest, Request, Held
<1>3. /\ q \in Request /\ q.row = p.row /\ q.cipher = p.cipher /\ q.folder = p.folder
      /\ q.todo = Tail(p.todo)
  BY <1>1, <1>2 DEF Request
<1>a. <<>> \in Seq(Statement)
  OBVIOUS
<1>4. n \in Request /\ n.todo = <<>>
  BY <1>1, <1>a DEF Request
<1>5. Continue(r, q) \/ Continue(r, n)
  BY DEF Go, Done
<1> HIDE DEF p, q, n
<1>6. q.todo # <<>> => Held(q)
  BY <1>1, <1>3, ShorterHeld
<1> QED
  BY <1>3, <1>4, <1>5, <1>6, TypeStep

----------------------------------------------------------------------------
(***************************************************************************)
(* Requests that begin                                                     *)
(***************************************************************************)
Plain == Statement \ {"file"}
ItemFree == Statement \ {"file", "move"}

LEMMA BeginStep ==
    ASSUME Inv, NEW r \in Requests, NEW q \in Request, Held(q), Begin(r, q)
    PROVE  Inv'
<1>1. /\ TablesOK' /\ ciphers' \in Rows /\ OneVault(ciphers')
      /\ requests' = [requests EXCEPT ![r] = q]
  BY InvParts DEF Begin, sharing, vault, filing, TablesOK
<1> QED
  BY <1>1, RequestStep

\* The rows that handlers write are in one vault.
LEMMA ShellRow ==
    ASSUME NEW u \in Users
    PROVE  newCipherShell(u) \in Cipher /\ newCipherShell(u).creator = u
BY DEF newCipherShell, Cipher

LEMMA RowOfData ==
    ASSUME NEW x \in Cipher, NEW u \in Users, NEW o \in Orgs \cup {None},
           o = None => x.creator = u
    PROVE  /\ updateCipherFromData(x, u, o) \in Cipher
           /\ InOneVault(updateCipherFromData(x, u, o))
           /\ updateCipherFromData(x, u, o).org = o
BY DEF updateCipherFromData, Cipher, InOneVault

LEMMA NewRow ==
    ASSUME NEW u \in Users, NEW o \in Orgs \cup {None}
    PROVE  /\ updateCipherFromData(newCipherShell(u), u, o) \in Cipher
           /\ InOneVault(updateCipherFromData(newCipherShell(u), u, o))
           /\ updateCipherFromData(newCipherShell(u), u, o).org = o
BY ShellRow, RowOfData

\* What a handler begins with.
LEMMA NewRequestType ==
    ASSUME NEW u \in Users, NEW c \in Ciphers \cup {None}, NEW x \in Cipher
    PROVE  /\ NewRequest(u, c, x) \in Request
           /\ NewRequest(u, c, x).row = x /\ NewRequest(u, c, x).cipher = c
           /\ NewRequest(u, c, x).folder = None /\ NewRequest(u, c, x).add = {}
           /\ NewRequest(u, c, x).gone = {} /\ NewRequest(u, c, x).list = {}
<1>1. <<>> \in Seq(Statement)
  OBVIOUS
<1> QED
  BY <1>1 DEF NewRequest, Request

LEMMA NewItemFreeType ==
    ASSUME NEW u \in Users, NEW x \in Cipher
    PROVE  /\ NewRequest(u, None, x) \in Request
           /\ NewRequest(u, None, x).row = x
           /\ NewRequest(u, None, x).folder = None
           /\ NewRequest(u, None, x).list = {}
<1>1. <<>> \in Seq(Statement)
  OBVIOUS
<1> QED
  BY <1>1 DEF NewRequest, Request

\* A handler that has put its statements into the request begins.
LEMMA BeginWith ==
    ASSUME Inv, NEW r \in Requests, NEW q \in Request, InOneVault(q.row),
           q.todo \in Seq(Plain), q.todo # <<>>,
           q.cipher \in Ciphers \/ q.todo \in Seq(ItemFree),
           Begin(r, q)
    PROVE  Inv'
<1>1. Held(q)
  BY DEF Held, Plain, ItemFree
<1> QED
  BY <1>1, BeginStep

LEMMA PlainStatements == \A todo \in Seq(Plain) : todo \in Seq(Statement)
BY DEF Plain

LEMMA Todos ==
    /\ Write \in Seq(Plain) /\ Write # <<>>
    /\ \A todo \in {softDelete, restore, hardDelete} : todo \in Seq(Plain) /\ todo # <<>>
    /\ \A s, t \in Seq(Plain) : s # <<>> \/ t # <<>> => s \o t \in Seq(Plain) /\ s \o t # <<>>
    /\ <<>> \in Seq(Plain) /\ <<"newFolder">> \in Seq(Plain)
    /\ <<"newCollection">> \in Seq(Plain) /\ <<"assign">> \in Seq(Plain)
    /\ <<"valid", "assign">> \in Seq(Plain) /\ <<"unassign", "assign">> \in Seq(Plain)
    /\ <<"touch">> \in Seq(Plain)
<1>1. Write \in Seq(Plain) /\ Write # <<>>
  BY DEF Write, Plain, Statement
<1>2. \A todo \in {softDelete, restore, hardDelete} : todo \in Seq(Plain) /\ todo # <<>>
  <2>1. softDelete \in Seq(Plain) /\ softDelete # <<>>
    BY DEF softDelete, Plain, Statement
  <2>2. restore \in Seq(Plain) /\ restore # <<>>
    BY DEF restore, Plain, Statement
  <2>3. hardDelete \in Seq(Plain) /\ hardDelete # <<>>
    BY DEF hardDelete, Plain, Statement
  <2> QED
    BY <2>1, <2>2, <2>3
<1>3. \A s, t \in Seq(Plain) : s # <<>> \/ t # <<>> => s \o t \in Seq(Plain) /\ s \o t # <<>>
  OBVIOUS
<1>4. /\ <<>> \in Seq(Plain) /\ <<"newFolder">> \in Seq(Plain)
      /\ <<"newCollection">> \in Seq(Plain) /\ <<"assign">> \in Seq(Plain)
      /\ <<"touch">> \in Seq(Plain)
  BY DEF Plain, Statement
<1>5. <<"valid", "assign">> \in Seq(Plain) /\ <<"unassign", "assign">> \in Seq(Plain)
  BY DEF Plain, Statement
<1> QED
  BY <1>1, <1>2, <1>3, <1>4, <1>5

\* The row of an item that there is, and what its handler may make of it.
LEMMA ReadRow ==
    ASSUME Inv, NEW c \in Ciphers, ciphers[c] # None
    PROVE  ciphers[c] \in Cipher /\ InOneVault(ciphers[c])
BY InvParts DEF Rows, OneVault

\* Who may write an item of no organization has created it.
LEMMA EditedRow ==
    ASSUME Inv, NEW u \in Users, NEW c \in Ciphers, NEW o \in Orgs \cup {None},
           Access(u, c, TRUE), organizationMatches(ciphers[c], o)
    PROVE  /\ updateCipherFromData(ciphers[c], u, o) \in Cipher
           /\ InOneVault(updateCipherFromData(ciphers[c], u, o))
<1>1. ciphers[c] \in Cipher /\ InOneVault(ciphers[c])
  BY ReadRow DEF Access
<1>2. o = None => ciphers[c].org = None
  BY DEF organizationMatches
<1>3. ciphers[c].org = None => ciphers[c].user = u
  BY DEF Access, Restrictions
<1>4. o = None => ciphers[c].creator = u
  BY <1>1, <1>2, <1>3 DEF InOneVault
<1> QED
  BY <1>1, <1>4, RowOfData

----------------------------------------------------------------------------
LEMMA CreateCipherKeepsInv ==
    ASSUME Inv, NEW r \in Requests, NEW u \in Users, NEW c \in Ciphers,
           NEW o \in Orgs \cup {None}, NEW S \in SUBSET Collections,
           NEW f \in Folders \cup {None}, CreateCipher(r, u, c, o, S, f)
    PROVE  Inv'
<1> DEFINE x == updateCipherFromData(newCipherShell(u), u, o)
           n == NewRequest(u, c, x)
           todo == Write \o IF S = {} THEN <<>> ELSE <<"valid", "assign">>
           q == [n EXCEPT !.todo = todo, !.folder = f, !.add = S]
<1>1. x \in Cipher /\ InOneVault(x)
  BY NewRow
<1>2. todo \in Seq(Plain) /\ todo # <<>> /\ todo \in Seq(Statement)
  <2> DEFINE rest == IF S = {} THEN <<>> ELSE <<"valid", "assign">>
  <2>1. rest \in Seq(Plain)
    BY Todos
  <2> HIDE DEF rest
  <2>2. todo = Write \o rest
    BY DEF rest
  <2> QED
    BY <2>1, <2>2, Todos, PlainStatements
<1>3. Begin(r, q)
  BY DEF CreateCipher
<1> HIDE DEF x, todo
<1>4. n \in Request /\ n.row = x /\ n.cipher = c
  BY <1>1, NewRequestType
<1> HIDE DEF n
<1>5. q \in Request /\ q.row = x /\ q.cipher = c /\ q.todo = todo
  BY <1>2, <1>4 DEF Request
<1> HIDE DEF q
<1> QED
  BY <1>1, <1>2, <1>3, <1>5, BeginWith

LEMMA EditCipherKeepsInv ==
    ASSUME Inv, NEW r \in Requests, NEW u \in Users, NEW c \in Ciphers,
           NEW o \in Orgs \cup {None}, NEW f \in Folders \cup {None},
           EditCipher(r, u, c, o, f)
    PROVE  Inv'
<1> DEFINE x == updateCipherFromData(ciphers[c], u, o)
           n == NewRequest(u, c, x)
           q == [n EXCEPT !.todo = Write, !.folder = f]
<1>1. x \in Cipher /\ InOneVault(x)
  BY EditedRow DEF EditCipher
<1>2. Write \in Seq(Plain) /\ Write # <<>> /\ Write \in Seq(Statement)
  BY Todos, PlainStatements
<1>3. Begin(r, q)
  BY DEF EditCipher
<1> HIDE DEF x
<1>4. n \in Request /\ n.row = x /\ n.cipher = c
  BY <1>1, NewRequestType
<1> HIDE DEF n
<1>5. q \in Request /\ q.row = x /\ q.cipher = c /\ q.todo = Write
  BY <1>2, <1>4 DEF Request
<1> HIDE DEF q
<1> QED
  BY <1>1, <1>2, <1>3, <1>5, BeginWith

LEMMA ShareCipherKeepsInv ==
    ASSUME Inv, NEW r \in Requests, NEW u \in Users, NEW c \in Ciphers,
           NEW o \in Orgs, NEW S \in SUBSET Collections,
           NEW f \in Folders \cup {None}, ShareCipher(r, u, c, o, S, f)
    PROVE  Inv'
<1> DEFINE x == updateCipherFromData(ciphers[c], u, o)
           n == NewRequest(u, c, x)
           todo == Write \o <<"unassign", "assign">>
           valid == validCollections(S, o)
           q == [n EXCEPT !.todo = todo, !.folder = f, !.gone = Collections, !.add = valid]
<1>1. x \in Cipher /\ InOneVault(x)
  BY EditedRow DEF ShareCipher
<1>2. todo \in Seq(Plain) /\ todo # <<>> /\ todo \in Seq(Statement)
  BY Todos, PlainStatements
<1>3. Begin(r, q)
  BY DEF ShareCipher
<1>4. valid \subseteq Collections
  BY DEF validCollections
<1> HIDE DEF x, todo, valid
<1>5. n \in Request /\ n.row = x /\ n.cipher = c
  BY <1>1, NewRequestType
<1> HIDE DEF n
<1>6. q \in Request /\ q.row = x /\ q.cipher = c /\ q.todo = todo
  BY <1>2, <1>4, <1>5 DEF Request
<1> HIDE DEF q
<1> QED
  BY <1>1, <1>2, <1>3, <1>6, BeginWith

\* The handlers that keep the row they have read.
LEMMA ReadStep ==
    ASSUME Inv, NEW r \in Requests, NEW u \in Users, NEW c \in Ciphers,
           ciphers[c] # None, NEW todo \in Seq(Plain), todo # <<>>,
           NEW f \in Folders \cup {None}, NEW S \in SUBSET Collections,
           NEW T \in SUBSET Collections,
           Begin(r, [NewRequest(u, c, ciphers[c]) EXCEPT
                       !.todo = todo, !.folder = f, !.add = S, !.gone = T])
    PROVE  Inv'
<1> DEFINE x == ciphers[c]
           n == NewRequest(u, c, x)
           q == [n EXCEPT !.todo = todo, !.folder = f, !.add = S, !.gone = T]
<1>1. x \in Cipher /\ InOneVault(x)
  BY ReadRow
<1>2. todo \in Seq(Statement)
  BY PlainStatements
<1> HIDE DEF x
<1>3. n \in Request /\ n.row = x /\ n.cipher = c
  BY <1>1, NewRequestType
<1>4. Begin(r, q)
  BY DEF x
<1> HIDE DEF n
<1>5. q \in Request /\ q.row = x /\ q.cipher = c /\ q.todo = todo
  BY <1>2, <1>3 DEF Request
<1> HIDE DEF q
<1> QED
  BY <1>1, <1>4, <1>5, BeginWith

LEMMA CollectionsKeepInv ==
    ASSUME Inv, NEW r \in Requests, NEW u \in Users, NEW c \in Ciphers,
           NEW S \in SUBSET Collections,
           \/ UpdateCipherCollections(r, u, c, S)
           \/ \E o \in Orgs, b \in BOOLEAN : BulkCollections(r, u, c, o, S, b)
    PROVE  Inv'
<1> DEFINE n == NewRequest(u, c, ciphers[c])
<1>1. ciphers[c] # None
  BY DEF UpdateCipherCollections, BulkCollections, Access
<1>2. n \in Request /\ n.folder = None
  BY <1>1, ReadRow, NewRequestType
<1>3. PICK todo \in Seq(Plain), A \in SUBSET Collections, T \in SUBSET Collections :
        todo # <<>> /\ Begin(r, [n EXCEPT !.todo = todo, !.add = A, !.gone = T])
  <2>1. CASE UpdateCipherCollections(r, u, c, S)
    <3> DEFINE A == (S \ assigned[c]) \cap
                      IF members[<<u, ciphers[c].org>>] = "full" THEN Collections
                      ELSE CollectionRights(u, FALSE)
               T == (assigned[c] \ S) \cap
                      IF members[<<u, ciphers[c].org>>] = "full" THEN Collections
                      ELSE CollectionRights(u, FALSE)
               todo == <<"diff", "bump">>
    <3>1. A \in SUBSET Collections /\ T \in SUBSET Collections
      BY InvParts DEF TablesOK
    <3>2. todo \in Seq(Plain) /\ todo # <<>>
      BY DEF Plain, Statement
    <3>3. Begin(r, [n EXCEPT !.todo = todo, !.add = A, !.gone = T])
      BY <2>1 DEF UpdateCipherCollections
    <3> HIDE DEF A, T, todo
    <3> QED
      BY <3>1, <3>2, <3>3
  <2>2. ASSUME NEW o \in Orgs, NEW b \in BOOLEAN, BulkCollections(r, u, c, o, S, b)
        PROVE  \E todo \in Seq(Plain), A \in SUBSET Collections, T \in SUBSET Collections :
                 todo # <<>> /\ Begin(r, [n EXCEPT !.todo = todo, !.add = A, !.gone = T])
    <3> DEFINE A == IF b THEN {} ELSE S
               T == IF b THEN S ELSE {}
               todo == IF b THEN <<"unassign", "touch">> ELSE <<"assign", "touch">>
    <3>1. A \in SUBSET Collections /\ T \in SUBSET Collections
      OBVIOUS
    <3>2. todo \in Seq(Plain) /\ todo # <<>>
      <4>1. <<"unassign", "touch">> \in Seq(Plain) /\ <<"assign", "touch">> \in Seq(Plain)
        BY DEF Plain, Statement
      <4> QED
        BY <4>1
    <3>3. Begin(r, [n EXCEPT !.todo = todo, !.add = A, !.gone = T])
      BY <2>2 DEF BulkCollections
    <3> HIDE DEF A, T, todo
    <3> QED
      BY <3>1, <3>2, <3>3
  <2> QED
    BY <2>1, <2>2
<1>4. [n EXCEPT !.todo = todo, !.add = A, !.gone = T]
        = [n EXCEPT !.todo = todo, !.folder = None, !.add = A, !.gone = T]
  BY <1>2 DEF Request
<1>5. Begin(r, [NewRequest(u, c, ciphers[c]) EXCEPT
                  !.todo = todo, !.folder = None, !.add = A, !.gone = T])
  BY <1>3, <1>4
<1>6. None \in Folders \cup {None} /\ todo # <<>>
  BY <1>3
<1> HIDE DEF n
<1> QED
  BY <1>1, <1>5, <1>6, ReadStep

\* Moving, deleting and restoring items.
LEMMA TodoStep ==
    ASSUME Inv, NEW r \in Requests, NEW u \in Users, NEW c \in Ciphers,
           ciphers[c] # None, NEW todo \in Seq(Plain), todo # <<>>,
           NEW f \in Folders \cup {None},
           Begin(r, [NewRequest(u, c, ciphers[c]) EXCEPT !.todo = todo, !.folder = f])
    PROVE  Inv'
<1> DEFINE n == NewRequest(u, c, ciphers[c])
<1>1. n \in Request /\ n.add = {} /\ n.gone = {}
  BY ReadRow, NewRequestType
<1>2. Begin(r, [n EXCEPT !.todo = todo, !.folder = f])
  OBVIOUS
<1> HIDE DEF n
<1>3. [n EXCEPT !.todo = todo, !.folder = f]
        = [n EXCEPT !.todo = todo, !.folder = f, !.add = {}, !.gone = {}]
  BY <1>1 DEF Request
<1>4. Begin(r, [NewRequest(u, c, ciphers[c]) EXCEPT
                  !.todo = todo, !.folder = f, !.add = {}, !.gone = {}])
  BY <1>2, <1>3 DEF n
<1>5. {} \in SUBSET Collections
  OBVIOUS
<1> QED
  BY <1>4, <1>5, ReadStep

LEMMA ItemKeepsInv ==
    ASSUME Inv, NEW r \in Requests, NEW u \in Users, NEW c \in Ciphers,
           \/ \E todo \in {softDelete, restore, hardDelete} : DeleteOrRestore(r, u, c, todo)
           \/ \E f \in Folders \cup {None} : MoveSelected(r, u, c, f)
    PROVE  Inv'
<1> DEFINE n == NewRequest(u, c, ciphers[c])
<1>1. ciphers[c] # None
  BY DEF DeleteOrRestore, MoveSelected, Access
<1>2. n \in Request /\ n.folder = None
  BY <1>1, ReadRow, NewRequestType
<1>3. ASSUME NEW todo \in {softDelete, restore, hardDelete}, DeleteOrRestore(r, u, c, todo)
      PROVE  Inv'
  <2>1. todo \in Seq(Plain) /\ todo # <<>>
    BY Todos
  <2>2. Begin(r, [n EXCEPT !.todo = todo])
    BY <1>3 DEF DeleteOrRestore
  <2> HIDE DEF n
  <2>3. [n EXCEPT !.todo = todo] = [n EXCEPT !.todo = todo, !.folder = None]
    BY <1>2 DEF Request
  <2>4. Begin(r, [NewRequest(u, c, ciphers[c]) EXCEPT !.todo = todo, !.folder = None])
    BY <2>2, <2>3 DEF n
  <2>5. None \in Folders \cup {None}
    OBVIOUS
  <2> QED
    BY <1>1, <2>1, <2>4, <2>5, TodoStep
<1>4. ASSUME NEW f \in Folders \cup {None}, MoveSelected(r, u, c, f) PROVE Inv'
  <2> DEFINE todo == <<"move", "touch">>
  <2>1. todo \in Seq(Plain) /\ todo # <<>>
    BY DEF Plain, Statement
  <2>2. Begin(r, [NewRequest(u, c, ciphers[c]) EXCEPT !.todo = todo, !.folder = f])
    BY <1>4 DEF MoveSelected
  <2> HIDE DEF todo
  <2> QED
    BY <1>1, <2>1, <2>2, TodoStep
<1> QED
  BY <1>3, <1>4

\* Imports, which make a new row.
LEMMA ImportKeepsInv ==
    ASSUME Inv, NEW r \in Requests, NEW u \in Users, NEW c \in Ciphers,
           NEW f \in Folders \cup {None}, Import(r, u, c, f)
    PROVE  Inv'
<1> DEFINE x == updateCipherFromData(newCipherShell(u), u, None)
           n == NewRequest(u, c, x)
           todo == (IF f \in UnusedFolders THEN <<"newFolder">> ELSE <<>>) \o Write \o <<"touch">>
           q == [n EXCEPT !.todo = todo, !.folder = f]
<1>1. x \in Cipher /\ InOneVault(x)
  BY NewRow
<1>2. todo \in Seq(Plain) /\ todo # <<>> /\ todo \in Seq(Statement)
  <2> DEFINE first == IF f \in UnusedFolders THEN <<"newFolder">> ELSE <<>>
             upTo == first \o Write
  <2>1. first \in Seq(Plain)
    BY Todos
  <2> HIDE DEF first
  <2>2. upTo \in Seq(Plain) /\ upTo # <<>>
    BY <2>1, Todos
  <2>3. todo = upTo \o <<"touch">>
    BY DEF first
  <2> HIDE DEF upTo, todo
  <2> QED
    BY <2>2, <2>3, Todos, PlainStatements
<1>3. Begin(r, q)
  BY DEF Import
<1> HIDE DEF x, todo
<1>4. n \in Request /\ n.row = x /\ n.cipher = c
  BY <1>1, NewRequestType
<1> HIDE DEF n
<1>5. q \in Request /\ q.row = x /\ q.cipher = c /\ q.todo = todo
  BY <1>2, <1>4 DEF Request
<1> HIDE DEF q
<1> QED
  BY <1>1, <1>2, <1>3, <1>5, BeginWith

LEMMA ImportOrganizationKeepsInv ==
    ASSUME Inv, NEW r \in Requests, NEW u \in Users, NEW c \in Ciphers,
           NEW o \in Orgs, NEW k \in Collections, ImportOrganization(r, u, o, c, k)
    PROVE  Inv'
<1> DEFINE x == updateCipherFromData(newCipherShell(u), u, o)
           n == NewRequest(u, c, x)
           todo == <<"newCollection">> \o Write \o <<"assign">>
           q == [n EXCEPT !.todo = todo, !.add = {k}]
<1>1. x \in Cipher /\ InOneVault(x)
  BY NewRow
<1>2. todo \in Seq(Plain) /\ todo # <<>> /\ todo \in Seq(Statement)
  <2> DEFINE upTo == <<"newCollection">> \o Write
  <2>1. upTo \in Seq(Plain) /\ upTo # <<>>
    BY Todos
  <2> HIDE DEF upTo
  <2>2. todo = upTo \o <<"assign">>
    BY DEF upTo
  <2> HIDE DEF todo
  <2> QED
    BY <2>1, <2>2, Todos, PlainStatements
<1>3. Begin(r, q)
  BY DEF ImportOrganization
<1> HIDE DEF x, todo
<1>4. n \in Request /\ n.row = x /\ n.cipher = c
  BY <1>1, NewRequestType
<1> HIDE DEF n
<1>5. q \in Request /\ q.row = x /\ q.cipher = c /\ q.todo = todo
  BY <1>2, <1>4 DEF Request
<1> HIDE DEF q
<1> QED
  BY <1>1, <1>2, <1>3, <1>5, BeginWith

\* The handlers that begin with no item.
LEMMA ItemFreeStep ==
    ASSUME Inv, NEW r \in Requests, NEW u \in Users, NEW o \in Orgs \cup {None},
           NEW todo \in Seq(ItemFree), todo # <<>>,
           NEW f \in Folders \cup {None}, NEW list \in SUBSET Ciphers,
           Begin(r, [NewRequest(u, None, updateCipherFromData(newCipherShell(u), u, o))
                       EXCEPT !.todo = todo, !.folder = f, !.list = list])
    PROVE  Inv'
<1> DEFINE x == updateCipherFromData(newCipherShell(u), u, o)
           n == NewRequest(u, None, x)
           q == [n EXCEPT !.todo = todo, !.folder = f, !.list = list]
<1>1. x \in Cipher /\ InOneVault(x)
  BY NewRow
<1>2. Begin(r, q)
  OBVIOUS
<1>3. todo \in Seq(Plain) /\ todo \in Seq(Statement)
  BY DEF Plain, ItemFree
<1> HIDE DEF x
<1>4. n \in Request /\ n.row = x
  BY <1>1, NewItemFreeType
<1> HIDE DEF n
<1>5. q \in Request /\ q.row = x /\ q.todo = todo
  BY <1>3, <1>4 DEF Request
<1> HIDE DEF q
<1> QED
  BY <1>1, <1>2, <1>3, <1>5, BeginWith

LEMMA ItemFreeKeepsInv ==
    ASSUME Inv, NEW r \in Requests, NEW u \in Users,
           \/ \E o \in Orgs \cup {None} : Purge(r, u, o)
           \/ \E o \in Orgs : DeleteOrg(r, u, o)
           \/ \E f \in Folders : CreateFolder(r, u, f) \/ deleteFolder(r, u, f)
    PROVE  Inv'
<1> DEFINE new(o) == NewRequest(u, None, updateCipherFromData(newCipherShell(u), u, o))
           made(o, todo, f, list) ==
             [new(o) EXCEPT !.todo = todo, !.folder = f, !.list = list]
<1>1. \A o \in Orgs \cup {None} :
        new(o) \in Request /\ new(o).folder = None /\ new(o).list = {}
  BY NewRow, NewItemFreeType
<1>2. ASSUME NEW o \in Orgs \cup {None}, Purge(r, u, o) PROVE Inv'
  <2> DEFINE todo == <<"next">> \o IF o = None THEN <<"dropFolders", "touch">> ELSE <<>>
             x == updateCipherFromData(newCipherShell(u), u, o)
             list == {c \in Ciphers : /\ ciphers[c] # None
                                      /\ ciphers[c].user = x.user
                                      /\ ciphers[c].org = o}
  <2>1. todo \in Seq(ItemFree) /\ todo # <<>>
    <3> DEFINE rest == IF o = None THEN <<"dropFolders", "touch">> ELSE <<>>
    <3>1. /\ <<"next">> \in Seq(ItemFree) /\ <<>> \in Seq(ItemFree)
          /\ <<"dropFolders", "touch">> \in Seq(ItemFree)
      BY DEF ItemFree, Statement
    <3>2. rest \in Seq(ItemFree)
      BY <3>1
    <3>3. todo = <<"next">> \o rest
      OBVIOUS
    <3>4. <<"next">> # <<>>
      OBVIOUS
    <3> HIDE DEF rest, todo
    <3> QED
      BY <3>1, <3>2, <3>3, <3>4
  <2>2. list \in SUBSET Ciphers
    OBVIOUS
  <2>3. Begin(r, [new(o) EXCEPT !.todo = todo, !.list = list])
    BY <1>2 DEF Purge
  <2>4. new(o) \in Request /\ new(o).folder = None
    BY <1>1
  <2> HIDE DEF new, todo, list
  <2>5. [new(o) EXCEPT !.todo = todo, !.list = list] = made(o, todo, None, list)
    BY <2>4 DEF Request
  <2>6. Begin(r, [NewRequest(u, None, updateCipherFromData(newCipherShell(u), u, o))
                    EXCEPT !.todo = todo, !.folder = None, !.list = list])
    BY <2>3, <2>5 DEF new
  <2>7. None \in Folders \cup {None}
    OBVIOUS
  <2> QED
    BY <2>1, <2>2, <2>6, <2>7, ItemFreeStep
<1>3. ASSUME NEW o \in Orgs, DeleteOrg(r, u, o) PROVE Inv'
  <2> DEFINE todo == <<"dropCiphers", "dropOrg">>
  <2>1. todo \in Seq(ItemFree) /\ todo # <<>>
    BY DEF ItemFree, Statement
  <2>2. Begin(r, [new(o) EXCEPT !.todo = todo])
    BY <1>3 DEF DeleteOrg
  <2>3. new(o) \in Request /\ new(o).folder = None /\ new(o).list = {}
    BY <1>1
  <2> HIDE DEF new, todo
  <2>4. [new(o) EXCEPT !.todo = todo] = made(o, todo, None, {})
    BY <2>3 DEF Request
  <2>5. Begin(r, [NewRequest(u, None, updateCipherFromData(newCipherShell(u), u, o))
                    EXCEPT !.todo = todo, !.folder = None, !.list = {}])
    BY <2>2, <2>4 DEF new
  <2>6. None \in Folders \cup {None} /\ {} \in SUBSET Ciphers /\ o \in Orgs \cup {None}
    OBVIOUS
  <2> QED
    BY <2>1, <2>5, <2>6, ItemFreeStep
<1>4. ASSUME NEW f \in Folders, CreateFolder(r, u, f) \/ deleteFolder(r, u, f) PROVE Inv'
  <2>1. <<"newFolder", "touch">> \in Seq(ItemFree)
    BY DEF ItemFree, Statement
  <2>2. <<"empty", "dropFolder", "touch">> \in Seq(ItemFree)
    BY DEF ItemFree, Statement
  <2>3. PICK todo \in Seq(ItemFree) :
          todo # <<>> /\ Begin(r, [new(None) EXCEPT !.todo = todo, !.folder = f])
    <3>1. CASE CreateFolder(r, u, f)
      <4>1. Begin(r, [new(None) EXCEPT !.todo = <<"newFolder", "touch">>, !.folder = f])
        BY <3>1 DEF CreateFolder
      <4> HIDE DEF new
      <4> QED
        BY <2>1, <4>1
    <3>2. CASE deleteFolder(r, u, f)
      <4>1. Begin(r, [new(None) EXCEPT !.todo = <<"empty", "dropFolder", "touch">>,
                                       !.folder = f])
        BY <3>2 DEF deleteFolder
      <4> HIDE DEF new
      <4> QED
        BY <2>2, <4>1
    <3> QED
      BY <1>4, <3>1, <3>2
  <2>4. new(None) \in Request /\ new(None).list = {}
    BY <1>1
  <2> HIDE DEF new
  <2>5. [new(None) EXCEPT !.todo = todo, !.folder = f] = made(None, todo, f, {})
    BY <2>4 DEF Request
  <2>6. Begin(r, [NewRequest(u, None, updateCipherFromData(newCipherShell(u), u, None))
                    EXCEPT !.todo = todo, !.folder = f, !.list = {}])
    BY <2>3, <2>5 DEF new
  <2>7. /\ f \in Folders \cup {None} /\ {} \in SUBSET Ciphers
        /\ None \in Orgs \cup {None} /\ todo # <<>>
    BY <2>3
  <2> QED
    BY <2>6, <2>7, ItemFreeStep
<1> QED
  BY <1>2, <1>3, <1>4

LEMMA ArriveKeepsInv ==
    ASSUME Inv, NEW r \in Requests, NEW u \in Users, Arrive(r, u)
    PROVE  Inv'
BY CreateCipherKeepsInv, EditCipherKeepsInv, ShareCipherKeepsInv, CollectionsKeepInv,
   ItemKeepsInv, ImportKeepsInv, ImportOrganizationKeepsInv, ItemFreeKeepsInv
   DEF Arrive

----------------------------------------------------------------------------
(***************************************************************************)
(* Statements                                                              *)
(***************************************************************************)
\* What is known of a request and of the tables when a statement is run.
LEMMA Running ==
    ASSUME Inv, NEW r \in Requests, requests[r] # None
    PROVE  /\ requests[r] \in Request /\ Held(requests[r])
           /\ requests[r].row \in Cipher /\ InOneVault(requests[r].row)
           /\ requests[r].user \in Users
           /\ Rest(r) = Tail(requests[r].todo) /\ Rest(r) \in Seq(Statement)
<1>1. requests[r] \in Request /\ Held(requests[r])
  BY InvParts DEF AllHeld
<1>2. Rest(r) = Tail(requests[r].todo) /\ Rest(r) \in Seq(Statement)
  BY <1>1, Rests DEF Rest, Request, Held
<1> QED
  BY <1>1, <1>2 DEF Request, Held

\* An item that is filed is there to be, and so is its folder.
LEMMA FilingHeld ==
    ASSUME NEW q \in Request, Held(q)
    PROVE  /\ Head(q.todo) \in {"file", "move"} => q.cipher \in Ciphers
           /\ Head(q.todo) = "file" => q.folder \in Folders
BY Rests DEF Held, Request

\* A step that leaves the items.
LEMMA TablesStep ==
    ASSUME Inv, NEW r \in Requests, requests[r] # None,
           NEW q \in Request, Continue(r, q),
           q.row = requests[r].row, q.cipher = requests[r].cipher,
           q.folder = requests[r].folder,
           q.todo = Rest(r) \/ q.todo = requests[r].todo \/ q.todo = <<>>,
           TablesOK', ciphers' = ciphers
    PROVE  Inv'
<1>1. q.todo # <<>> => Held(q)
  BY Running, ShorterHeld
<1>2. ciphers' \in Rows /\ OneVault(ciphers')
  BY InvParts
<1> QED
  BY <1>1, <1>2, TypeStep

\* Rows go; nothing else of items changes.
LEMMA DeleteTables ==
    ASSUME Inv, NEW S, Delete(S),
           UNCHANGED <<orgs, members, collections, grants, folders>>,
           unaware' \subseteq Users, disturbed' \in BOOLEAN
    PROVE  TablesOK' /\ ciphers' \in Rows /\ OneVault(ciphers')
<1>1. TablesOK'
  BY InvParts DEF TablesOK, Delete
<1>2. ciphers' \in Rows
  BY InvParts DEF Rows, Delete
<1>3. OneVault(ciphers')
  BY InvParts DEF Delete, OneVault
<1> QED
  BY <1>1, <1>2, <1>3

LEMMA ChangeType ==
    ASSUME Inv, NEW S \in SUBSET Users, Change(S)
    PROVE  unaware' \in SUBSET Users
BY InvParts DEF Change, TablesOK

LEMMA ReadersType ==
    ASSUME NEW x, NEW S
    PROVE  Readers(x, S) \in SUBSET Users
BY DEF Readers

\* Whom a sync shows an item is among those the bump looks for.
LEMMA ReadersHaveAccess ==
    ASSUME NEW x \in Cipher, InOneVault(x), NEW c, NEW S, S \subseteq assigned[c]
    PROVE  Readers(x, S) \subseteq usersWithCipherAccess(x, c)
<1> SUFFICES ASSUME NEW u \in Users, Restrictions(u, x, S, FALSE)
             PROVE  u \in usersWithCipherAccess(x, c)
  BY DEF Readers
<1>1. u # None
  BY NoneAssumption
<1>2. CASE x.user = u
  BY <1>1, <1>2 DEF usersWithCipherAccess
<1>3. CASE x.user # u
  <2>1. /\ x.org # None
        /\ \/ members[<<u, x.org>>] = "full"
           \/ /\ members[<<u, x.org>>] = "limited"
              /\ S \cap Reachable(u) \cap CollectionRights(u, FALSE) # {}
    BY <1>3 DEF Restrictions
  <2>2. x.user = None
    BY <2>1 DEF InOneVault
  <2>3. S \cap Reachable(u) \cap CollectionRights(u, FALSE) # {} =>
          assigned[c] \cap CollectionRights(u, FALSE) # {}
    OBVIOUS
  <2> QED
    BY <2>1, <2>2, <2>3 DEF usersWithCipherAccess
<1> QED
  BY <1>2, <1>3

LEMMA UpsertKeepsInv ==
    ASSUME Inv, NEW r \in Requests, Upsert(r)
    PROVE  Inv'
<1> DEFINE x == requests[r].row
           c == requests[r].cipher
<1>1. requests[r] # None /\ x \in Cipher /\ InOneVault(x)
  BY Running DEF Upsert, At
<1>2. /\ ciphers' = [ciphers EXCEPT ![c] = x] /\ Go(r)
      /\ Change(Readers(x, assigned[c]))
      /\ UNCHANGED <<sharing, assigned, filing, disturbed>>
  BY DEF Upsert, Go, Continue
<1> HIDE DEF x, c
<1>3. unaware' \in SUBSET Users
  BY <1>2, ReadersType, ChangeType
<1>4. TablesOK'
  BY <1>2, <1>3, InvParts DEF TablesOK, sharing, filing
<1>5. ciphers' \in Rows
  BY <1>1, <1>2, InvParts DEF Rows
<1>6. OneVault(ciphers')
  BY <1>1, <1>2, InvParts DEF Rows, OneVault
<1> QED
  BY <1>1, <1>2, <1>4, <1>5, <1>6, GoStep

LEMMA SetDeletedKeepsInv ==
    ASSUME Inv, NEW r \in Requests, Trash(r) \/ Untrash(r)
    PROVE  Inv'
<1> DEFINE x == requests[r].row
           c == requests[r].cipher
<1>1. PICK deleted \in BOOLEAN : \E s \in Statement : SetDeleted(r, s, deleted)
  BY DEF Trash, Untrash, Statement
<1>2. requests[r] # None /\ x \in Cipher
  BY <1>1, Running DEF SetDeleted, At
<1>3. /\ ciphers' = (IF ciphers[c] = None THEN ciphers
                     ELSE [ciphers EXCEPT ![c].deleted = deleted])
      /\ Change(Readers(x, assigned[c])) /\ Go(r)
      /\ UNCHANGED <<sharing, assigned, filing, disturbed>>
  BY <1>1 DEF SetDeleted, Go, Continue
<1> HIDE DEF x, c
<1>4. unaware' \in SUBSET Users
  BY <1>3, ReadersType, ChangeType
<1>5. TablesOK'
  BY <1>3, <1>4, InvParts DEF TablesOK, sharing, filing
<1>6. ASSUME NEW d \in Ciphers, ciphers[d] # None
      PROVE  /\ ciphers'[d] \in Cipher
             /\ InOneVault(ciphers'[d])
  <2>1. ciphers[d] \in Cipher /\ InOneVault(ciphers[d])
    BY <1>6, ReadRow
  <2> DEFINE y == [ciphers[d] EXCEPT !.deleted = deleted]
  <2>2. /\ y \in Cipher /\ y.user = ciphers[d].user /\ y.org = ciphers[d].org
        /\ y.creator = ciphers[d].creator
    BY <2>1 DEF Cipher
  <2>3. ciphers'[d] \in {ciphers[d], y}
    BY <1>3, InvParts DEF Rows
  <2> HIDE DEF y
  <2> QED
    BY <2>1, <2>2, <2>3 DEF InOneVault
<1>7. \A d \in Ciphers : ciphers[d] = None => ciphers'[d] = None
  BY <1>3, InvParts DEF Rows
<1>8. ciphers' \in Rows
  <2>1. ciphers' = [d \in Ciphers |-> ciphers'[d]]
    BY <1>3, InvParts DEF Rows
  <2>2. \A d \in Ciphers : ciphers'[d] \in Cipher \cup {None}
    BY <1>6, <1>7
  <2> QED
    BY <2>1, <2>2 DEF Rows
<1>9. OneVault(ciphers')
  BY <1>6, <1>7 DEF OneVault
<1> QED
  BY <1>2, <1>3, <1>5, <1>8, <1>9, GoStep

LEMMA DeleteKeepsInv ==
    ASSUME Inv, NEW r \in Requests, DeleteCipher(r) \/ DropCiphers(r)
    PROVE  Inv'
<1>1. requests[r] # None /\ Go(r) /\ UNCHANGED <<sharing, folders, disturbed>>
  BY DEF DeleteCipher, DropCiphers, At, Go, Continue
<1>2. PICK S : Delete(S)
  BY DEF DeleteCipher, DropCiphers
<1>3. unaware' \in SUBSET Users
  <2>1. CASE DropCiphers(r)
    BY <2>1, InvParts DEF DropCiphers, TablesOK
  <2>2. CASE DeleteCipher(r)
    BY <2>2, ReadersType, ChangeType DEF DeleteCipher
  <2> QED
    BY <2>1, <2>2
<1>4. UNCHANGED <<orgs, members, collections, grants, folders>> /\ disturbed' \in BOOLEAN
  BY <1>1, InvParts DEF sharing, TablesOK
<1>5. TablesOK' /\ ciphers' \in Rows /\ OneVault(ciphers')
  BY <1>2, <1>3, <1>4, DeleteTables
<1> QED
  BY <1>1, <1>5, GoStep

\* moveToFolder keeps a user's item and folder, and files only in a folder.
LEMMA MoveKeepsInv ==
    ASSUME Inv, NEW r \in Requests, Move(r)
    PROVE  Inv'
<1> DEFINE p == requests[r]
           first(S) == IF S = {} THEN <<>> ELSE <<"unfile">>
           last == IF p.folder = None THEN <<>> ELSE <<"file">>
           q(S, todo) == [p EXCEPT !.from = S, !.todo = todo]
<1>1. /\ p \in Request /\ Held(p) /\ p \in Request
      /\ Rest(r) = Tail(p.todo) /\ Rest(r) \in Seq(Statement)
      /\ p # None /\ Head(p.todo) = "move"
  BY Running DEF Move, At
<1>2. p.cipher \in Ciphers
  BY <1>1, FilingHeld
<1>3. p.folder = None => Rest(r) \in Seq(Statement \ {"file"})
  BY <1>1, Rests, NoneAssumption DEF Held
<1>4. PICK S \in SUBSET Folders, todo \in Seq(Statement) :
        /\ Continue(r, q(S, todo))
        /\ p.folder = None => todo \in Seq(Statement \ {"file"})
  <2> DEFINE existing == {f \in OwnFolders(p.user) : <<p.cipher, f>> \in filed}
  <2>1. existing \in SUBSET Folders
    BY DEF OwnFolders
  <2>2. \A S : /\ first(S) \in Seq(Statement) /\ first(S) \in Seq(Statement \ {"file"})
    <3>1. <<>> \in Seq(Statement) /\ <<>> \in Seq(Statement \ {"file"})
      OBVIOUS
    <3>2. <<"unfile">> \in Seq(Statement) /\ <<"unfile">> \in Seq(Statement \ {"file"})
      BY DEF Statement
    <3> QED
      BY <3>1, <3>2
  <2>3. last \in Seq(Statement) /\ (p.folder = None => last \in Seq(Statement \ {"file"}))
    <3>1. <<>> \in Seq(Statement) /\ <<>> \in Seq(Statement \ {"file"})
      OBVIOUS
    <3>2. <<"file">> \in Seq(Statement)
      BY DEF Statement
    <3> QED
      BY <3>1, <3>2
  <2>4. \/ Continue(r, q(existing, first(existing) \o last \o Rest(r)))
        \/ /\ p.folder \in existing
           /\ \E S \in SUBSET (existing \ {p.folder}) :
                Continue(r, q(S, first(S) \o Rest(r)))
    BY DEF Move
  <2> HIDE DEF existing, first, last, q
  <2>5. CASE Continue(r, q(existing, first(existing) \o last \o Rest(r)))
    <3> DEFINE todo == first(existing) \o last \o Rest(r)
               start == first(existing) \o last
    <3>1. start \in Seq(Statement) /\ (p.folder = None => start \in Seq(Statement \ {"file"}))
      BY <2>2, <2>3
    <3>2. todo = start \o Rest(r)
      OBVIOUS
    <3> HIDE DEF start, todo
    <3>3. todo \in Seq(Statement) /\ (p.folder = None => todo \in Seq(Statement \ {"file"}))
      BY <1>1, <1>3, <3>1, <3>2
    <3>4. Continue(r, q(existing, todo))
      BY <2>5 DEF todo
    <3> QED
      BY <2>1, <3>3, <3>4
  <2>6. CASE \E S \in SUBSET (existing \ {p.folder}) :
               Continue(r, q(S, first(S) \o Rest(r)))
    <3>1. PICK S \in SUBSET (existing \ {p.folder}) :
            Continue(r, q(S, first(S) \o Rest(r)))
      BY <2>6
    <3> DEFINE todo == first(S) \o Rest(r)
    <3>2. todo \in Seq(Statement) /\ (p.folder = None => todo \in Seq(Statement \ {"file"}))
      BY <1>1, <1>3, <2>2
    <3>3. Continue(r, q(S, todo)) /\ S \in SUBSET Folders
      BY <2>1, <3>1
    <3> HIDE DEF todo
    <3> QED
      BY <3>2, <3>3
  <2> QED
    BY <2>4, <2>5, <2>6
<1>5. TablesOK' /\ ciphers' \in Rows /\ OneVault(ciphers')
  BY <1>4, InvParts DEF Move, Continue, sharing, vault, filing, TablesOK
<1> DEFINE n == q(S, todo)
<1>6. Continue(r, n)
  BY <1>4
<1>7. /\ n \in Request /\ n.row = p.row /\ n.cipher = p.cipher /\ n.folder = p.folder
      /\ n.todo = todo
  BY <1>1 DEF Request
<1>8. p.folder \in Folders \cup {None}
  BY <1>1 DEF Request
<1> HIDE DEF n, p
<1>9. n.todo # <<>> => Held(n)
  BY <1>1, <1>2, <1>4, <1>7, <1>8 DEF Held
<1> QED
  BY <1>5, <1>6, <1>7, <1>9, TypeStep

\* The statements that take rows of folders_ciphers out, or put one in.
LEMMA FilingKeepsInv ==
    ASSUME Inv, NEW r \in Requests, Unfile(r) \/ File(r)
    PROVE  Inv'
<1>1. CASE Unfile(r)
  <2> DEFINE p == requests[r]
             q == [p EXCEPT !.from = {}, !.todo = Rest(r)]
  <2>1. p # None /\ p \in Request /\ Rest(r) \in Seq(Statement)
    BY <1>1, Running DEF Unfile, At
  <2>2. /\ q \in Request /\ q.row = p.row /\ q.cipher = p.cipher /\ q.folder = p.folder
        /\ q.todo = Rest(r)
    BY <2>1 DEF Request
  <2>3. Continue(r, q)
    BY <1>1 DEF Unfile
  <2>4. ciphers' = ciphers /\ TablesOK'
    BY <1>1, InvParts DEF Unfile, Continue, sharing, vault, TablesOK
  <2> HIDE DEF q
  <2> QED
    BY <2>1, <2>2, <2>3, <2>4, TablesStep
<1>2. CASE File(r)
  <2> DEFINE p == requests[r]
  <2>1. p # None /\ p \in Request /\ Held(p) /\ Head(p.todo) = "file"
    BY <1>2, Running DEF File, At
  <2>2. p.cipher \in Ciphers /\ p.folder \in Folders
    BY <2>1, FilingHeld
  <2>3. filed' \subseteq Ciphers \X Folders
    BY <1>2, <2>2, InvParts DEF File, TablesOK
  <2>4. /\ UNCHANGED <<sharing, vault, folders, unaware, disturbed>>
        /\ Go(r) \/ Done(r)
    BY <1>2 DEF File, Go, Done, Continue
  <2>5. TablesOK' /\ ciphers' \in Rows /\ OneVault(ciphers')
    BY <2>3, <2>4, InvParts DEF sharing, vault, TablesOK
  <2> QED
    BY <2>1, <2>4, <2>5, GoStep
<1> QED
  BY <1>1, <1>2

\* Those that only tell users, or stop.
LEMMA QuietKeepsInv ==
    ASSUME Inv, NEW r \in Requests, Bump(r) \/ touchUser(r)
    PROVE  Inv'
<1>1. /\ requests[r] # None /\ Go(r) /\ UNCHANGED <<sharing, vault, filing, disturbed>>
      /\ unaware' \subseteq unaware
  BY DEF Bump, touchUser, At, Go, Continue
<1>2. TablesOK' /\ ciphers' \in Rows /\ OneVault(ciphers')
  BY <1>1, InvParts DEF sharing, vault, filing, TablesOK
<1> QED
  BY <1>1, <1>2, GoStep

LEMMA AssignedOne ==
    ASSUME NEW f \in [Ciphers -> SUBSET Collections], NEW c, NEW S,
           c \in Ciphers => S \in SUBSET Collections
    PROVE  [f EXCEPT ![c] = S] \in [Ciphers -> SUBSET Collections]
OBVIOUS

\* Those that read or write ciphers_collections.
LEMMA AssigningKeepsInv ==
    ASSUME Inv, NEW r \in Requests, Valid(r) \/ Assign(r) \/ Unassign(r) \/ Diff(r)
    PROVE  Inv'
<1> DEFINE p == requests[r]
<1>1. p # None /\ p \in Request /\ Rest(r) \in Seq(Statement)
  BY Running DEF Valid, Assign, Unassign, Diff, At
<1>2. /\ UNCHANGED <<sharing, ciphers, filing, disturbed>>
      /\ unaware' \in SUBSET Users
  <2>1. UNCHANGED <<sharing, ciphers, filing, disturbed>>
    <3>1. CASE Valid(r)
      BY <3>1 DEF Valid, Continue, vault
    <3>2. CASE Assign(r)
      BY <3>2 DEF Assign, Go, Done, Continue
    <3>3. CASE Unassign(r)
      BY <3>3 DEF Unassign, Continue
    <3>4. CASE Diff(r)
      BY <3>4 DEF Diff, Go, Continue
    <3> QED
      BY <3>1, <3>2, <3>3, <3>4
  <2>2. CASE UNCHANGED unaware
    BY <2>1, <2>2, InvParts DEF TablesOK
  <2>3. CASE Change(Readers(p.row, assigned[p.cipher]))
    BY <2>1, <2>3, ReadersType, ChangeType
  <2> QED
    BY <2>1, <2>2, <2>3 DEF Valid, Assign, Unassign, Diff
<1>3. p.add \in SUBSET Collections /\ p.gone \in SUBSET Collections
  BY <1>1 DEF Request
<1>4. assigned' \in [Ciphers -> SUBSET Collections]
  <2>1. assigned \in [Ciphers -> SUBSET Collections]
    BY InvParts DEF TablesOK
  <2>2. CASE Valid(r)
    BY <2>1, <2>2 DEF Valid, vault
  <2>3. CASE Assign(r)
    <3>1. CASE UNCHANGED assigned
      BY <2>1, <3>1
    <3>2. CASE ~UNCHANGED assigned
      <4>1. PICK k \in p.add :
              assigned' = [assigned EXCEPT ![p.cipher] = assigned[p.cipher] \cup {k}]
        BY <2>3, <3>2 DEF Assign
      <4>2. p.cipher \in Ciphers => assigned[p.cipher] \cup {k} \in SUBSET Collections
        BY <1>3, <2>1
      <4> HIDE DEF p
      <4> QED
        BY <2>1, <4>1, <4>2, AssignedOne
    <3> QED
      BY <3>1, <3>2
  <2>4. CASE Unassign(r)
    BY <2>1, <2>4 DEF Unassign
  <2>5. CASE Diff(r)
    <3>1. CASE UNCHANGED assigned
      BY <2>1, <3>1
    <3>2. CASE ~UNCHANGED assigned
      <4> DEFINE mine(k) == ciphers[p.cipher] # None /\ collections[k] = p.row.org
                 old == assigned[p.cipher]
                 new(k) == IF ~mine(k) THEN old
                           ELSE IF k \in p.add THEN old \cup {k} ELSE old \ {k}
      <4>1. PICK k \in p.add \cup p.gone :
              assigned' = [assigned EXCEPT ![p.cipher] = new(k)]
        BY <2>5, <3>2 DEF Diff
      <4> HIDE DEF mine
      <4>2. p.cipher \in Ciphers => old \in SUBSET Collections
        BY <2>1
      <4>3. p.cipher \in Ciphers => new(k) \in SUBSET Collections
        BY <1>3, <4>2
      <4> HIDE DEF p, new
      <4> QED
        BY <2>1, <4>1, <4>3, AssignedOne
    <3> QED
      BY <3>1, <3>2
  <2> QED
    BY <2>2, <2>3, <2>4, <2>5
<1>5. TablesOK' /\ ciphers' = ciphers
  BY <1>2, <1>4, InvParts DEF sharing, filing, TablesOK
<1>6. CASE Go(r) \/ Done(r)
  <2>1. ciphers' \in Rows /\ OneVault(ciphers')
    BY <1>5, InvParts
  <2> QED
    BY <1>1, <1>5, <1>6, <2>1, GoStep
<1> DEFINE q(S, T, todo) == [p EXCEPT !.add = S, !.gone = T, !.todo = todo]
<1>7. ASSUME NEW S \in SUBSET Collections, NEW T \in SUBSET Collections,
             NEW todo \in {p.todo, Rest(r)}, Continue(r, q(S, T, todo))
      PROVE  Inv'
  <2> DEFINE n == q(S, T, todo)
  <2>1. /\ n \in Request /\ n.row = p.row /\ n.cipher = p.cipher /\ n.folder = p.folder
        /\ n.todo = todo
    BY <1>1 DEF Request
  <2>2. Continue(r, n)
    BY <1>7
  <2> HIDE DEF n
  <2> QED
    BY <1>1, <1>5, <2>1, <2>2, TablesStep
<1>8. CASE Valid(r)
  <2> DEFINE S == validCollections(p.add, p.row.org)
  <2>1. Continue(r, [p EXCEPT !.add = S, !.todo = Rest(r)])
    BY <1>8 DEF Valid
  <2>2. S \in SUBSET Collections
    BY <1>3 DEF validCollections
  <2> HIDE DEF S
  <2>3. [p EXCEPT !.add = S, !.todo = Rest(r)] = q(S, p.gone, Rest(r))
    BY <1>1 DEF Request
  <2> QED
    BY <1>3, <1>7, <2>1, <2>2, <2>3
<1>9. CASE Assign(r)
  <2>1. ASSUME ~(Go(r) \/ Done(r)) PROVE Inv'
    <3>1. PICK k : Continue(r, [p EXCEPT !.add = p.add \ {k}])
      BY <1>9, <2>1 DEF Assign
    <3>2. [p EXCEPT !.add = p.add \ {k}] = q(p.add \ {k}, p.gone, p.todo)
      BY <1>1 DEF Request
    <3>3. p.add \ {k} \in SUBSET Collections
      BY <1>3
    <3> QED
      BY <1>3, <1>7, <3>1, <3>2, <3>3
  <2> QED
    BY <1>6, <2>1
<1>10. CASE Unassign(r)
  <2>1. Continue(r, [p EXCEPT !.gone = {}, !.todo = Rest(r)])
    BY <1>10 DEF Unassign
  <2>2. [p EXCEPT !.gone = {}, !.todo = Rest(r)] = q(p.add, {}, Rest(r))
    BY <1>1 DEF Request
  <2> QED
    BY <1>3, <1>7, <2>1, <2>2
<1>11. CASE Diff(r)
  <2>1. ASSUME ~Go(r) PROVE Inv'
    <3>1. PICK k : Continue(r, [p EXCEPT !.add = p.add \ {k}, !.gone = p.gone \ {k}])
      BY <1>11, <2>1 DEF Diff
    <3>2. [p EXCEPT !.add = p.add \ {k}, !.gone = p.gone \ {k}]
            = q(p.add \ {k}, p.gone \ {k}, p.todo)
      BY <1>1 DEF Request
    <3>3. p.add \ {k} \in SUBSET Collections /\ p.gone \ {k} \in SUBSET Collections
      BY <1>3
    <3> QED
      BY <1>7, <3>1, <3>2, <3>3
  <2> QED
    BY <1>6, <2>1
<1> QED
  BY <1>8, <1>9, <1>10, <1>11

\* A purge goes through its list: it takes an item, and deletes it.
LEMMA PurgeNextKeepsInv ==
    ASSUME Inv, NEW r \in Requests, PurgeNext(r)
    PROVE  Inv'
<1> DEFINE p == requests[r]
           more == hardDelete \o p.todo
<1>1. p # None /\ p \in Request /\ Held(p)
  BY Running DEF PurgeNext, At
<1>2. TablesOK' /\ ciphers' \in Rows /\ OneVault(ciphers')
  BY InvParts DEF PurgeNext, Go, Continue, sharing, vault, filing, TablesOK
<1>3. CASE Go(r)
  BY <1>1, <1>2, <1>3, GoStep
<1>4. CASE \E c \in p.list : Continue(r, [p EXCEPT !.list = p.list \ {c}, !.cipher = c,
                                                  !.todo = more])
  <2>1. PICK c \in p.list : Continue(r, [p EXCEPT !.list = p.list \ {c}, !.cipher = c,
                                                  !.todo = more])
    BY <1>4
  <2> DEFINE q == [p EXCEPT !.list = p.list \ {c}, !.cipher = c, !.todo = more]
  <2>2. hardDelete \in Seq(Statement) /\ hardDelete \in Seq(Statement \ {"file"})
    BY DEF hardDelete, Statement
  <2>3. hardDelete # <<>>
    BY DEF hardDelete
  <2>4. p.todo \in Seq(Statement)
    BY <1>1 DEF Request
  <2>5. /\ more \in Seq(Statement) /\ more # <<>>
        /\ p.todo \in Seq(Statement \ {"file"}) => more \in Seq(Statement \ {"file"})
    BY <2>2, <2>3, <2>4
  <2>6. Continue(r, q)
    BY <2>1
  <2>7. c \in Ciphers /\ p.list \ {c} \in SUBSET Ciphers
    BY <1>1 DEF Request
  <2> HIDE DEF more
  <2>8. /\ q \in Request /\ q.row = p.row /\ q.cipher = c /\ q.folder = p.folder
        /\ q.todo = more
    BY <1>1, <2>5, <2>7 DEF Request
  <2> HIDE DEF q, p
  <2>9. Held(q)
    BY <1>1, <2>5, <2>7, <2>8 DEF Held
  <2> QED
    BY <1>2, <2>6, <2>8, <2>9, TypeStep
<1> QED
  BY <1>3, <1>4 DEF PurgeNext

LEMMA FoldersKeepInv ==
    ASSUME Inv, NEW r \in Requests, InsertFolder(r) \/ EmptyFolder(r) \/ DropFolders(r)
    PROVE  Inv'
<1> DEFINE p == requests[r]
<1>1. p # None /\ p.user \in Users
  BY Running DEF InsertFolder, EmptyFolder, DropFolders, At
<1>2. Go(r) /\ UNCHANGED <<sharing, vault, disturbed>> /\ Change({p.user})
  BY DEF InsertFolder, EmptyFolder, DropFolders, Go, Continue
<1>3. folders' \in [Folders -> Users \cup {None}]
  <2>1. CASE InsertFolder(r)
    BY <1>1, <2>1, InvParts DEF InsertFolder, TablesOK
  <2>2. CASE EmptyFolder(r)
    BY <2>2, InvParts DEF EmptyFolder, TablesOK
  <2>3. CASE DropFolders(r)
    BY <2>3, InvParts DEF DropFolders, TablesOK
  <2> QED
    BY <2>1, <2>2, <2>3
<1>4. filed' \subseteq Ciphers \X Folders
  BY InvParts DEF InsertFolder, EmptyFolder, DropFolders, TablesOK
<1>5. unaware' \in SUBSET Users
  <2>1. {p.user} \in SUBSET Users
    BY <1>1
  <2> QED
    BY <1>2, <2>1, ChangeType
<1>6. TablesOK' /\ ciphers' \in Rows /\ OneVault(ciphers')
  BY <1>2, <1>3, <1>4, <1>5, InvParts DEF sharing, vault, TablesOK
<1> QED
  BY <1>1, <1>2, <1>6, GoStep

\* Those of organizations.
LEMMA OrganizationKeepsInv ==
    ASSUME Inv, NEW r \in Requests, InsertCollection(r) \/ DropOrg(r)
    PROVE  Inv'
<1> DEFINE o == requests[r].row.org
<1>1. /\ requests[r] # None /\ o \in Orgs \cup {None}
      /\ UNCHANGED <<ciphers, filing, unaware, disturbed>>
  BY Running DEF InsertCollection, DropOrg, At, Go, Done, Continue, Cipher, vault
<1>2. Go(r) \/ Done(r)
  BY DEF InsertCollection, DropOrg
<1>3. ciphers' \in Rows /\ OneVault(ciphers')
  BY <1>1, InvParts
<1>4. CASE InsertCollection(r)
  <2>1. collections' \in [Collections -> Orgs \cup {None}]
    BY <1>1, <1>4, InvParts DEF InsertCollection, TablesOK
  <2>2. TablesOK'
    BY <1>1, <1>4, <2>1, InvParts DEF InsertCollection, TablesOK, vault, filing
  <2> QED
    BY <1>1, <1>2, <1>3, <2>2, GoStep
<1>5. CASE DropOrg(r)
  <2>1. members' \in [Users \X Orgs -> {"limited", "full", None}]
    <3>1. members \in [Users \X Orgs -> {"limited", "full", None}]
      BY InvParts DEF TablesOK
    <3>2. members' = [m \in DOMAIN members |-> IF m[2] = o THEN None ELSE members[m]]
      BY <1>5 DEF DropOrg
    <3> HIDE DEF o
    <3> QED
      BY <3>1, <3>2
  <2>2. collections' \in [Collections -> Orgs \cup {None}]
    BY <1>5, InvParts DEF DropOrg, TablesOK
  <2>3. assigned' \in [Ciphers -> SUBSET Collections]
    BY <1>5, InvParts DEF DropOrg, TablesOK
  <2>4. orgs' \subseteq Orgs /\ grants' \subseteq Grant
    BY <1>5, InvParts DEF DropOrg, TablesOK
  <2>5. TablesOK'
    BY <1>1, <2>1, <2>2, <2>3, <2>4, InvParts DEF TablesOK, filing
  <2> QED
    BY <1>1, <1>2, <1>3, <2>5, GoStep
<1> QED
  BY <1>4, <1>5

LEMMA FailKeepsInv ==
    ASSUME Inv, NEW r \in Requests, Fail(r)
    PROVE  Inv'
<1>1. requests' \in [Requests -> Request \cup {None}] /\ AllHeld'
  BY InvParts DEF Fail, AllHeld
<1>2. TablesOK' /\ ciphers' \in Rows /\ OneVault(ciphers')
  BY InvParts DEF Fail, sharing, vault, filing, TablesOK
<1> QED
  BY <1>1, <1>2, InvPartsNext

LEMMA ProceedKeepsInv ==
    ASSUME Inv, NEW r \in Requests, Proceed(r)
    PROVE  Inv'
BY UpsertKeepsInv, MoveKeepsInv, FilingKeepsInv, QuietKeepsInv, AssigningKeepsInv,
   SetDeletedKeepsInv, DeleteKeepsInv, PurgeNextKeepsInv, FoldersKeepInv,
   OrganizationKeepsInv, FailKeepsInv
   DEF Proceed

----------------------------------------------------------------------------
(***************************************************************************)
(* The organizations' side                                                 *)
(***************************************************************************)
\* A step of no request.
LEMMA OutsideStep ==
    ASSUME Inv, UNCHANGED requests, TablesOK', ciphers' \in Rows, OneVault(ciphers')
    PROVE  Inv'
<1>1. requests' \in [Requests -> Request \cup {None}] /\ AllHeld'
  BY InvParts DEF AllHeld
<1> QED
  BY <1>1, InvPartsNext

\* What the tables of organizations may become.
LEMMA SharingStep ==
    ASSUME Inv, Outside, orgs' \subseteq Orgs,
           members' \in [Users \X Orgs -> {"limited", "full", None}],
           collections' \in [Collections -> Orgs \cup {None}],
           grants' \subseteq Grant, assigned' \in [Ciphers -> SUBSET Collections]
    PROVE  Inv'
<1>1. /\ UNCHANGED <<ciphers, folders, filed, unaware, requests>>
      /\ disturbed' \in BOOLEAN
  BY InvParts DEF Outside, filing, TablesOK
<1>2. TablesOK' /\ ciphers' \in Rows /\ OneVault(ciphers')
  BY <1>1, InvParts DEF TablesOK
<1> QED
  BY <1>1, <1>2, OutsideStep

LEMMA SeatsKeepInv ==
    ASSUME Inv, NEW u \in Users, NEW o \in Orgs,
           \/ CreateOrg(u, o)
           \/ \E m \in {"limited", "full"} : Seat(u, o, m)
           \/ \E S \in SUBSET grants : Unseat(u, o, S)
    PROVE  Inv'
<1>1. /\ Outside /\ UNCHANGED <<collections, assigned>>
      /\ orgs' \subseteq orgs \cup {o} /\ grants' \subseteq grants
  BY DEF CreateOrg, Seat, Unseat
<1>2. PICK m \in {"limited", "full", None} : members' = [members EXCEPT ![<<u, o>>] = m]
  BY DEF CreateOrg, Seat, Unseat
<1>3. members \in [Users \X Orgs -> {"limited", "full", None}]
  BY InvParts DEF TablesOK
<1>4. members' \in [Users \X Orgs -> {"limited", "full", None}]
  BY <1>2, <1>3
<1>5. /\ orgs' \subseteq Orgs /\ grants' \subseteq Grant
      /\ collections' \in [Collections -> Orgs \cup {None}]
      /\ assigned' \in [Ciphers -> SUBSET Collections]
  BY <1>1, InvParts DEF TablesOK
<1> QED
  BY <1>1, <1>4, <1>5, SharingStep

LEMMA CollectionStepsKeepInv ==
    ASSUME Inv, NEW k \in Collections,
           (\E o \in Orgs : CreateCollection(k, o)) \/ DeleteCollection(k)
    PROVE  Inv'
<1>1. Outside /\ UNCHANGED <<orgs, members>> /\ grants' \subseteq grants
  BY DEF CreateCollection, DeleteCollection
<1>2. collections' \in [Collections -> Orgs \cup {None}]
  BY InvParts DEF CreateCollection, DeleteCollection, TablesOK
<1>3. assigned' \in [Ciphers -> SUBSET Collections]
  BY InvParts DEF CreateCollection, DeleteCollection, TablesOK
<1>4. /\ orgs' \subseteq Orgs /\ grants' \subseteq Grant
      /\ members' \in [Users \X Orgs -> {"limited", "full", None}]
  BY <1>1, InvParts DEF TablesOK
<1> QED
  BY <1>1, <1>2, <1>3, <1>4, SharingStep

LEMMA GrantsKeepInv ==
    ASSUME Inv,
           \/ \E g \in Grant : GrantAccess(g) \/ BulkAccess(g)
           \/ \E S \in SUBSET grants :
                \/ upsertGroup(S)
                \/ \E u \in Users, o \in Orgs : replaceMemberCollections(u, o, S)
    PROVE  Inv'
<1>1. Outside /\ UNCHANGED <<orgs, members, collections, assigned>>
  BY DEF GrantAccess, BulkAccess, upsertGroup, replaceMemberCollections, Withdraw
<1>2. grants' \subseteq Grant
  <2>1. grants \subseteq Grant
    BY InvParts DEF TablesOK
  <2>2. ASSUME NEW g \in Grant, BulkAccess(g) PROVE grants' \subseteq Grant
    <3> DEFINE w == ~g.write
    <3>1. w \in BOOLEAN
      OBVIOUS
    <3>2. grants' = (grants \ {g}) \cup {[g EXCEPT !.write = w]}
      BY <2>2 DEF BulkAccess
    <3> HIDE DEF w
    <3>3. [g EXCEPT !.write = w] \in Grant
      BY <3>1 DEF Grant
    <3> QED
      BY <2>1, <3>2, <3>3
  <2>3. ASSUME NEW g \in Grant, GrantAccess(g) PROVE grants' \subseteq Grant
    BY <2>1, <2>3 DEF GrantAccess
  <2>4. ASSUME NEW S \in SUBSET grants, Withdraw(S) PROVE grants' \subseteq Grant
    BY <2>1, <2>4 DEF Withdraw
  <2> QED
    BY <2>2, <2>3, <2>4 DEF upsertGroup, replaceMemberCollections
<1>3. /\ orgs' \subseteq Orgs /\ collections' \in [Collections -> Orgs \cup {None}]
      /\ members' \in [Users \X Orgs -> {"limited", "full", None}]
      /\ assigned' \in [Ciphers -> SUBSET Collections]
  BY <1>1, InvParts DEF TablesOK
<1> QED
  BY <1>1, <1>2, <1>3, SharingStep

LEMMA PurgeTrashKeepsInv ==
    ASSUME Inv, NEW c \in Ciphers, PurgeTrash(c)
    PROVE  Inv'
<1>1. /\ Delete({c}) /\ UNCHANGED requests
      /\ UNCHANGED <<orgs, members, collections, grants, folders>>
      /\ unaware' \subseteq Users /\ disturbed' \in BOOLEAN
  BY InvParts DEF PurgeTrash, sharing, TablesOK
<1>2. TablesOK' /\ ciphers' \in Rows /\ OneVault(ciphers')
  BY <1>1, DeleteTables
<1> QED
  BY <1>1, <1>2, OutsideStep

----------------------------------------------------------------------------
(***************************************************************************)
(* Theorems                                                                *)
(***************************************************************************)
LEMMA InitInv == Init => Inv
<1> SUFFICES ASSUME Init PROVE Inv
  OBVIOUS
<1>1. TablesOK
  BY DEF Init, TablesOK
<1>2. ciphers \in Rows /\ OneVault(ciphers)
  BY DEF Init, Rows, OneVault
<1>3. requests \in [Requests -> Request \cup {None}] /\ AllHeld
  BY DEF Init, AllHeld
<1> QED
  BY <1>1, <1>2, <1>3, InvParts

LEMMA NextKeepsInv == Inv /\ [Next]_vars => Inv'
<1> SUFFICES ASSUME Inv, [Next]_vars PROVE Inv'
  OBVIOUS
<1>1. CASE \E r \in Active : Proceed(r)
  BY <1>1, ProceedKeepsInv DEF Active
<1>2. CASE \E r \in Idle, u \in Users : Arrive(r, u)
  BY <1>2, ArriveKeepsInv DEF Idle
<1>3. CASE Elsewhere
  <2>1. CASE \E u \in Users, o \in Orgs :
               \/ CreateOrg(u, o)
               \/ \E m \in {"limited", "full"} : Seat(u, o, m)
               \/ \E S \in SUBSET grants : Unseat(u, o, S)
    BY <2>1, SeatsKeepInv
  <2>2. CASE \E k \in Collections :
               (\E o \in Orgs : CreateCollection(k, o)) \/ DeleteCollection(k)
    BY <2>2, CollectionStepsKeepInv
  <2>3. CASE \E c \in Ciphers : PurgeTrash(c)
    BY <2>3, PurgeTrashKeepsInv
  <2> QED
    BY <1>3, <2>1, <2>2, <2>3, GrantsKeepInv DEF Elsewhere
<1>4. CASE UNCHANGED vars
  <2>1. TablesOK' /\ ciphers' \in Rows /\ OneVault(ciphers') /\ UNCHANGED requests
    BY <1>4, InvParts DEF vars, TablesOK
  <2> QED
    BY <2>1, OutsideStep
<1> QED
  BY <1>1, <1>2, <1>3, <1>4 DEF Next

\* Every table has its columns, and a request in flight is never without a
\* statement to run, however many requests there are and however they overlap.
THEOREM VaultTypeCorrect == Spec => []TypeOK
<1>1. Inv => TypeOK
  BY DEF Inv
<1> QED
  BY <1>1, InitInv, NextKeepsInv, PTL DEF Spec

\* An item is an organization's or its creator's, and never another user's, for
\* any users, organizations, items, requests and failures: updateCipherFromData
\* makes such a row of the one a handler has read, and saving writes all of it.
THEOREM ItemsStayInOneVault == Spec => []PersonalToCreator
<1>1. Inv => PersonalToCreator
  BY DEF Inv
<1> QED
  BY <1>1, InitInv, NextKeepsInv, PTL DEF Spec

----------------------------------------------------------------------------
(***************************************************************************)
(* A request alone                                                         *)
(*                                                                         *)
(* While no request has overlapped another or failed, at most one is in    *)
(* flight and nothing else moves, so what it has read still holds.  What   *)
(* it has left to do is described by the set of statements in its todo:    *)
(* todo runs them in the order of their stages, so when one is at the head *)
(* those of an earlier stage have been run.                                *)
(***************************************************************************)
Stage == [newFolder |-> 1, newCollection |-> 1, upsert |-> 2, move |-> 3,
          unfile |-> 4, file |-> 5, diff |-> 6, trash |-> 6, untrash |-> 6,
          delete |-> 6, bump |-> 7, valid |-> 8, unassign |-> 8, assign |-> 9,
          next |-> 10, dropFolders |-> 11, empty |-> 11, dropCiphers |-> 11,
          dropFolder |-> 12, dropOrg |-> 12, touch |-> 13]

InOrder(todo) ==
    \A i, j \in DOMAIN todo : i < j => Stage[todo[i]] < Stage[todo[j]]

\* Those that change an item, before the bump that tells of it.
Writes == {"upsert", "diff", "trash", "untrash", "delete"}
Filings == {"move", "unfile", "file"}

\* Which statements go together in a handler.
Together(T) ==
    /\ T \cap Writes # {} => "bump" \in T
    /\ "upsert" \in T => T \cap {"diff", "trash", "untrash", "delete", "dropOrg"} = {}
    /\ T \cap {"newFolder", "empty", "dropFolder", "dropFolders"} # {} =>
         "touch" \in T /\ "assign" \notin T
    /\ "move" \in T => T \cap {"unfile", "file"} = {}
    /\ "newCollection" \in T => "upsert" \in T /\ "touch" \notin T

Lined(todo) == InOrder(todo) /\ Together(statements(todo))

\* The tables between two statements of a request alone: an item's collections
\* are of its organization, and items, members and collections have theirs.
Placed == \A c \in Ciphers : \A k \in assigned[c] :
            /\ ciphers[c] # None
            /\ collections[k] # None
            /\ collections[k] = ciphers[c].org
Owned == \A c \in Ciphers : ciphers[c] # None => ciphers[c].org \in orgs \cup {None}
Seated == \A u \in Users, o \in Orgs : members[<<u, o>>] # None => o \in orgs

\* An item may still be written, or has been.
ItemReady(q, T) ==
    /\ "upsert" \in T =>
         /\ q.row.org \in orgs \cup {None}
         /\ \/ assigned[q.cipher] = {}
            \/ ciphers[q.cipher] # None /\ ciphers[q.cipher].org = q.row.org
    /\ /\ T \cap {"assign", "diff"} # {} /\ "upsert" \notin T
       /\ q.cipher \in Ciphers /\ ciphers[q.cipher] # None
       => ciphers[q.cipher].org = q.row.org
    /\ "diff" \in T => q.row.org # None

\* The collections a request adds are of the item's organization, once they have
\* been looked up or made.
CollectionsReady(q, T) ==
    /\ "assign" \in T /\ T \cap {"valid", "newCollection"} = {} =>
         \A k \in q.add : collections[k] = q.row.org
    /\ "newCollection" \in T => \A k \in q.add : collections[k] = None

\* A filing finds its item and its folder.
FilingReady(q, T) ==
    T \cap Filings # {} =>
      /\ "upsert" \notin T /\ q.cipher \in Ciphers => ciphers[q.cipher] # None
      /\ "newFolder" \notin T /\ q.folder # None => folders[q.folder] # None

\* An organization goes after its items.
DropReady(q, T) ==
    "dropOrg" \in T /\ "dropCiphers" \notin T => ofOrganization(q.row.org) = {}

\* Who does not know yet, and what is still to tell them.
Told(q, T) ==
    unaware \subseteq
      (IF "bump" \in T /\ T \cap Writes = {}
       THEN usersWithCipherAccess(q.row, q.cipher) ELSE {})
      \cup (IF "touch" \in T /\ "assign" \notin T THEN {q.user} ELSE {})

Steady(q) ==
    LET T == statements(q.todo)
    IN  /\ Lined(q.todo)
        /\ ItemReady(q, T) /\ CollectionsReady(q, T) /\ FilingReady(q, T)
        /\ DropReady(q, T) /\ Told(q, T)

Alone == \A r, s \in Active : r = s

Calm == /\ Placed /\ Owned /\ Seated
        /\ Alone
        /\ \A r \in Active : Steady(requests[r])
        /\ Active = {} => unaware = {}

CalmInv == Inv /\ (disturbed \/ Calm)

----------------------------------------------------------------------------
\* The statements that are left when the one at the head of todo has been run.
LEMMA StatementsOf ==
    ASSUME NEW todo \in Seq(Statement)
    PROVE  /\ statements(todo) \subseteq Statement
           /\ todo = <<>> <=> statements(todo) = {}
<1>1. DOMAIN todo = 1..Len(todo) /\ \A i \in 1..Len(todo) : todo[i] \in Statement
  OBVIOUS
<1>2. todo # <<>> => 1 \in DOMAIN todo
  OBVIOUS
<1>3. todo = <<>> => DOMAIN todo = {}
  OBVIOUS
<1>4. statements(todo) \subseteq Statement
  BY <1>1 DEF statements
<1>5. todo # <<>> => statements(todo) # {}
  BY <1>2 DEF statements
<1>6. todo = <<>> => statements(todo) = {}
  BY <1>3 DEF statements
<1> QED
  BY <1>4, <1>5, <1>6

LEMMA HeadAndRest ==
    ASSUME NEW todo \in Seq(Statement), todo # <<>>, InOrder(todo)
    PROVE  /\ Tail(todo) \in Seq(Statement) /\ InOrder(Tail(todo))
           /\ Head(todo) \in statements(todo)
           /\ statements(Tail(todo)) = statements(todo) \ {Head(todo)}
           /\ \A s \in statements(Tail(todo)) : Stage[Head(todo)] < Stage[s]
<1> DEFINE rest == Tail(todo)
           h == Head(todo)
<1>1. /\ rest \in Seq(Statement) /\ Len(rest) = Len(todo) - 1 /\ Len(todo) \in Nat \ {0}
      /\ h = todo[1]
      /\ \A i \in 1..Len(rest) : rest[i] = todo[i + 1]
  OBVIOUS
<1>2. DOMAIN todo = 1..Len(todo) /\ DOMAIN rest = 1..Len(rest)
  BY <1>1
<1>3. \A s \in Statement : Stage[s] \in Nat
  BY DEF Stage, Statement
<1>4. \A i \in 1..Len(todo) : todo[i] \in Statement
  OBVIOUS
<1> HIDE DEF rest, h
<1>5. \A i \in DOMAIN rest : i + 1 \in DOMAIN todo /\ 1 \in DOMAIN todo /\ 1 < i + 1
  BY <1>1, <1>2
<1>6. \A s \in statements(rest) : Stage[h] < Stage[s]
  BY <1>1, <1>2, <1>5 DEF InOrder, statements
<1>7. h \in statements(todo)
  BY <1>1, <1>2 DEF statements
<1>8. \A s \in statements(rest) : s \in statements(todo)
  BY <1>1, <1>2, <1>5 DEF statements
<1>9. h \in Statement /\ ~(Stage[h] < Stage[h])
  BY <1>1, <1>3, <1>4
<1>10. \A i \in DOMAIN todo : i = 1 \/ (i - 1 \in DOMAIN rest /\ todo[i] = rest[i - 1])
  BY <1>1, <1>2
<1>11. \A s \in statements(todo) : s = h \/ s \in statements(rest)
  BY <1>1, <1>10 DEF statements
<1>12. InOrder(rest)
  <2> SUFFICES ASSUME NEW i \in DOMAIN rest, NEW j \in DOMAIN rest, i < j
               PROVE  Stage[rest[i]] < Stage[rest[j]]
    BY DEF InOrder
  <2>1. i + 1 < j + 1 /\ i + 1 \in DOMAIN todo /\ j + 1 \in DOMAIN todo
    BY <1>2, <1>5
  <2> QED
    BY <1>1, <1>2, <2>1 DEF InOrder
<1> QED
  BY <1>1, <1>6, <1>7, <1>8, <1>9, <1>11, <1>12 DEF rest, h

\* A todo that is put before another, whose statements are of later stages.
LEMMA InOrderJoin ==
    ASSUME NEW s \in Seq(Statement), NEW t \in Seq(Statement), InOrder(s), InOrder(t),
           \A a \in statements(s), b \in statements(t) : Stage[a] < Stage[b]
    PROVE  /\ s \o t \in Seq(Statement) /\ InOrder(s \o t)
           /\ statements(s \o t) = statements(s) \cup statements(t)
<1> DEFINE q == s \o t
<1>1. /\ q \in Seq(Statement) /\ Len(q) = Len(s) + Len(t)
      /\ Len(s) \in Nat /\ Len(t) \in Nat
      /\ \A i \in 1..Len(s) : q[i] = s[i]
      /\ \A i \in 1..Len(t) : q[Len(s) + i] = t[i]
  OBVIOUS
<1>2. DOMAIN q = 1..Len(q) /\ DOMAIN s = 1..Len(s) /\ DOMAIN t = 1..Len(t)
  BY <1>1
<1> HIDE DEF q
<1>3. \A i \in DOMAIN q :
        \/ i \in DOMAIN s /\ q[i] = s[i]
        \/ /\ i - Len(s) \in DOMAIN t
           /\ q[i] = t[i - Len(s)]
           /\ Len(s) < i
  <2> SUFFICES ASSUME NEW i \in DOMAIN q, i \notin DOMAIN s
               PROVE  i - Len(s) \in DOMAIN t /\ q[i] = t[i - Len(s)] /\ Len(s) < i
    BY <1>1, <1>2
  <2>1. Len(s) < i /\ i - Len(s) \in 1..Len(t)
    BY <1>1, <1>2
  <2>2. Len(s) + (i - Len(s)) = i
    BY <1>1, <1>2
  <2>3. q[Len(s) + (i - Len(s))] = t[i - Len(s)]
    BY <1>1, <2>1
  <2> QED
    BY <1>2, <2>1, <2>2, <2>3
<1>4. statements(q) = statements(s) \cup statements(t)
  <2>1. \A x \in statements(q) : x \in statements(s) \cup statements(t)
    BY <1>3 DEF statements
  <2>2. \A x \in statements(s) : x \in statements(q)
    BY <1>1, <1>2 DEF statements
  <2>3. \A x \in statements(t) : x \in statements(q)
    <3> SUFFICES ASSUME NEW i \in DOMAIN t PROVE t[i] \in statements(q)
      BY DEF statements
    <3>1. Len(s) + i \in DOMAIN q /\ q[Len(s) + i] = t[i]
      BY <1>1, <1>2
    <3> QED
      BY <3>1 DEF statements
  <2> QED
    BY <2>1, <2>2, <2>3
<1>5. InOrder(q)
  <2> SUFFICES ASSUME NEW i \in DOMAIN q, NEW j \in DOMAIN q, i < j
               PROVE  Stage[q[i]] < Stage[q[j]]
    BY DEF InOrder
  <2>1. CASE i \in DOMAIN s /\ j \in DOMAIN s
    BY <1>1, <1>2, <2>1 DEF InOrder
  <2>2. CASE i \notin DOMAIN s
    <3>1. j \notin DOMAIN s
      BY <1>1, <1>2, <2>2
    <3>2. /\ i - Len(s) \in DOMAIN t /\ q[i] = t[i - Len(s)]
          /\ j - Len(s) \in DOMAIN t /\ q[j] = t[j - Len(s)]
      BY <1>3, <2>2, <3>1
    <3>3. i - Len(s) < j - Len(s)
      BY <1>1, <1>2
    <3> QED
      BY <3>2, <3>3 DEF InOrder
  <2>3. CASE i \in DOMAIN s /\ j \notin DOMAIN s
    <3>1. q[i] = s[i] /\ j - Len(s) \in DOMAIN t /\ q[j] = t[j - Len(s)]
      BY <1>1, <1>2, <1>3, <2>3
    <3>2. q[i] \in statements(s) /\ q[j] \in statements(t)
      BY <2>3, <3>1 DEF statements
    <3> QED
      BY <3>2
  <2> QED
    BY <2>1, <2>2, <2>3
<1> QED
  BY <1>1, <1>4, <1>5 DEF q

\* What a handler may not leave out of what is left.
LEMMA LinedRest ==
    ASSUME NEW todo \in Seq(Statement), todo # <<>>, Lined(todo)
    PROVE  Lined(Tail(todo))
<1> DEFINE T == statements(todo)
           U == statements(Tail(todo))
           h == Head(todo)
<1>1. /\ InOrder(Tail(todo)) /\ h \in T /\ U = T \ {h} /\ h \in Statement
      /\ \A s \in U : Stage[h] < Stage[s]
  BY HeadAndRest DEF Lined
<1>2. Together(T)
  BY DEF Lined
<1>3. U \subseteq Statement
  BY <1>1, StatementsOf
<1> HIDE DEF T, U, h
<1>4. U \cap Writes # {} => "bump" \in U
  BY <1>1, <1>2 DEF Together, Writes, Stage
<1>5. U \cap {"newFolder", "empty", "dropFolder", "dropFolders"} # {} =>
        "touch" \in U /\ "assign" \notin U
  BY <1>1, <1>2 DEF Together, Stage
<1>6. "newCollection" \in U => "upsert" \in U /\ "touch" \notin U
  BY <1>1, <1>2 DEF Together, Stage
<1>7. Together(U)
  BY <1>1, <1>2, <1>4, <1>5, <1>6 DEF Together
<1> QED
  BY <1>1, <1>7 DEF Lined, U

----------------------------------------------------------------------------
(***************************************************************************)
(* A step of the only request, or of none                                  *)
(***************************************************************************)
\* A request in flight, and the statement it runs.
LEMMA RunningAlone ==
    ASSUME Inv, Calm, NEW r \in Requests, requests[r] # None
    PROVE  /\ requests[r] \in Request /\ Steady(requests[r])
           /\ Head(requests[r].todo) \in Statement
           /\ statements(requests[r].todo) = statements(Rest(r)) \cup {Head(requests[r].todo)}
           /\ Head(requests[r].todo) \notin statements(Rest(r))
           /\ \A s \in statements(Rest(r)) : Stage[Head(requests[r].todo)] < Stage[s]
           /\ statements(Rest(r)) \subseteq Statement
           /\ Lined(Rest(r)) /\ Rest(r) \in Seq(Statement)
           /\ Together(statements(Rest(r)))
           /\ Together(statements(Rest(r)) \cup {Head(requests[r].todo)})
           /\ Active = {r}
<1> DEFINE todo == requests[r].todo
           T == statements(Rest(r))
           h == Head(requests[r].todo)
<1>1. /\ requests[r] \in Request /\ todo \in Seq(Statement) /\ todo # <<>>
      /\ Rest(r) = Tail(todo) /\ Rest(r) \in Seq(Statement)
  BY Running DEF Held, Request
<1>2. r \in Active /\ Steady(requests[r]) /\ Active = {r}
  BY DEF Active, Calm, Alone
<1>3. Lined(todo)
  BY <1>2 DEF Steady
<1>4. /\ InOrder(Tail(todo)) /\ h \in statements(todo)
      /\ T = statements(todo) \ {h}
      /\ \A s \in T : Stage[h] < Stage[s]
  BY <1>1, <1>3, HeadAndRest DEF Lined
<1>5. Lined(Rest(r)) /\ Together(T)
  BY <1>1, <1>3, LinedRest DEF Lined
<1> HIDE DEF T, h
<1>6. statements(todo) = T \cup {h} /\ h \notin T
  BY <1>4
<1>7. Together(T \cup {h})
  BY <1>3, <1>6 DEF Lined
<1>8. T \subseteq Statement /\ h \in Statement
  BY <1>1, <1>4, StatementsOf
<1> QED
  BY <1>1, <1>2, <1>4, <1>5, <1>6, <1>7, <1>8 DEF T, h

\* The one request goes on, or ends with everyone told.
LEMMA GoesOn ==
    ASSUME Calm, NEW r \in Requests, Active = {r}, NEW n \in Request,
           Continue(r, n),
           requests \in [Requests -> Request \cup {None}],
           Steady(n)', Placed', Owned', Seated'
    PROVE  Calm'
<1>1. requests' = [requests EXCEPT ![r] = IF n.todo = <<>> THEN None ELSE n]
  BY DEF Continue
<1>2. \A s \in Requests : s # r => requests[s] = None
  BY DEF Active
<1>3. \A s \in Requests : s # r => requests'[s] = None
  BY <1>1, <1>2
<1>4. requests'[r] = IF n.todo = <<>> THEN None ELSE n
  BY <1>1
<1>5. Alone' /\ (\A s \in Active : Steady(requests[s]))'
  <2>1. \A s \in Active' : s = r
    BY <1>3 DEF Active
  <2>2. \A s \in Active' : requests'[s] = n
    BY <1>4, <2>1 DEF Active
  <2>3. (\A s \in Active : Steady(requests[s]))'
    BY <2>2
  <2> QED
    BY <2>1, <2>3 DEF Alone
<1>6. n.todo = <<>> => unaware' = {}
  <2> SUFFICES ASSUME n.todo = <<>> PROVE unaware' = {}
    OBVIOUS
  <2>1. statements(n.todo) = {}
    BY StatementsOf DEF Request
  <2>2. Told(n, {})'
    BY <2>1 DEF Steady
  <2> QED
    BY <2>2 DEF Told
<1>7. Active' = {} => unaware' = {}
  <2> SUFFICES ASSUME Active' = {} PROVE unaware' = {}
    OBVIOUS
  <2>1. requests'[r] = None
    BY DEF Active
  <2>2. n # None
    BY NoneAssumption
  <2> QED
    BY <1>4, <1>6, <2>1, <2>2
<1> QED
  BY <1>5, <1>7 DEF Calm

\* A step that leaves the request its item, row, user and folder, and T to do.
LEMMA ContinuesWith ==
    ASSUME Inv, Calm, NEW r \in Requests, requests[r] # None,
           NEW p, p = requests[r], NEW n \in Request, Continue(r, n),
           NEW T, T = statements(n.todo), Lined(n.todo),
           Placed', Owned', Seated',
           ItemReady(n, T)', CollectionsReady(n, T)', FilingReady(n, T)',
           DropReady(n, T)', Told(n, T)'
    PROVE  Calm'
<1>1. Active = {r} /\ requests \in [Requests -> Request \cup {None}]
  BY InvParts DEF Calm, Alone, Active
<1>2. Steady(n)'
  BY DEF Steady
<1> QED
  BY <1>1, <1>2, GoesOn

\* One that runs the statement at the head.
LEMMA GoesOnWith ==
    ASSUME Inv, Calm, NEW r \in Requests, requests[r] # None, Go(r),
           NEW p, p = requests[r], NEW T, T = statements(Rest(r)),
           Placed', Owned', Seated',
           ItemReady(p, T)', CollectionsReady(p, T)', FilingReady(p, T)',
           DropReady(p, T)', Told(p, T)'
    PROVE  Calm'
<1>1. PICK n : n = [p EXCEPT !.todo = Rest(r)]
  OBVIOUS
<1>2. p \in Request /\ Rest(r) \in Seq(Statement) /\ Lined(Rest(r))
  BY RunningAlone
<1>3. /\ n \in Request /\ n.todo = Rest(r) /\ n.row = p.row /\ n.cipher = p.cipher
      /\ n.folder = p.folder /\ n.user = p.user /\ n.add = p.add
  BY <1>1, <1>2 DEF Request
<1>4. Continue(r, n)
  BY <1>1 DEF Go
<1>5. ItemReady(n, T)' /\ CollectionsReady(n, T)' /\ FilingReady(n, T)'
  BY <1>3 DEF ItemReady, CollectionsReady, FilingReady
<1>6. DropReady(n, T)' /\ Told(n, T)'
  BY <1>3 DEF DropReady, Told
<1> QED
  BY <1>2, <1>3, <1>4, <1>5, <1>6, ContinuesWith

\* One that stops the handler, with everyone told.
LEMMA Stops ==
    ASSUME Inv, Calm, NEW r \in Requests, requests[r] # None, Done(r),
           Placed', Owned', Seated', unaware' = {}
    PROVE  Calm'
<1>1. PICK n : n = [requests[r] EXCEPT !.todo = <<>>]
  OBVIOUS
<1>a. <<>> \in Seq(Statement)
  OBVIOUS
<1>2. requests[r] \in Request /\ <<>> \in Seq(Statement)
  BY <1>a, Running
<1>3. n \in Request /\ n.todo = <<>> /\ Continue(r, n)
  BY <1>1, <1>2 DEF Request, Done
<1>4. statements(<<>>) = {}
  BY <1>2, StatementsOf
<1>5. Lined(<<>>)
  BY <1>4 DEF Lined, InOrder, Together
<1>6. ItemReady(n, {})' /\ CollectionsReady(n, {})' /\ FilingReady(n, {})'
  BY DEF ItemReady, CollectionsReady, FilingReady
<1>7. DropReady(n, {})' /\ Told(n, {})'
  BY DEF DropReady, Told
<1> QED
  BY <1>3, <1>4, <1>5, <1>6, <1>7, ContinuesWith

\* A request begins: no other is in flight, and everyone has been told.
LEMMA Begins ==
    ASSUME Inv, Calm, NEW r \in Requests, NEW q \in Request, Begin(r, q), ~disturbed',
           Active = {} => /\ Lined(q.todo)
                          /\ ItemReady(q, statements(q.todo))
                          /\ CollectionsReady(q, statements(q.todo))
                          /\ FilingReady(q, statements(q.todo))
                          /\ DropReady(q, statements(q.todo))
    PROVE  Calm'
<1>1. /\ requests' = [requests EXCEPT ![r] = q] /\ Active = {}
      /\ UNCHANGED <<orgs, members, collections, grants, ciphers, assigned, folders,
                     filed, unaware>>
  BY DEF Begin, sharing, vault, filing
<1>2. unaware' = {}
  BY <1>1 DEF Calm
<1>3. requests \in [Requests -> Request \cup {None}] /\ q # None
  BY InvParts, NoneAssumption
<1>4. \A s \in Requests : s # r => requests'[s] = None
  BY <1>1, <1>3 DEF Active
<1>5. requests'[r] = q
  BY <1>1, <1>3
<1>6. Active' = {r}
  BY <1>3, <1>4, <1>5 DEF Active
<1>7. PICK T : T = statements(q.todo)
  OBVIOUS
<1>8. ItemReady(q, T)' /\ CollectionsReady(q, T)' /\ FilingReady(q, T)'
  BY <1>1, <1>7 DEF ItemReady, CollectionsReady, FilingReady
<1>9. DropReady(q, T)' /\ Told(q, T)'
  BY <1>1, <1>2, <1>7 DEF DropReady, Told, ofOrganization
<1>10. Steady(q)'
  BY <1>1, <1>7, <1>8, <1>9 DEF Steady
<1>11. Alone' /\ (\A s \in Active : Steady(requests[s]))'
  BY <1>5, <1>6, <1>10 DEF Alone
<1>12. Placed' /\ Owned' /\ Seated'
  BY <1>1 DEF Calm, Placed, Owned, Seated
<1> QED
  BY <1>6, <1>11, <1>12 DEF Calm

\* A step of no request, with none in flight.
LEMMA Between ==
    ASSUME Inv, Calm, Active = {}, UNCHANGED <<requests, unaware>>,
           Placed', Owned', Seated'
    PROVE  Calm'
<1>1. Active' = {} /\ unaware' = {}
  BY DEF Active, Calm
<1> QED
  BY <1>1 DEF Calm, Alone

----------------------------------------------------------------------------
(***************************************************************************)
(* The handlers' todo lists                                                *)
(***************************************************************************)
LEMMA Single ==
    ASSUME NEW s \in Statement
    PROVE  /\ <<s>> \in Seq(Statement) /\ InOrder(<<s>>) /\ statements(<<s>>) = {s}
<1>1. <<s>> \in Seq(Statement) /\ DOMAIN <<s>> = {1} /\ <<s>>[1] = s
  OBVIOUS
<1> QED
  BY <1>1 DEF InOrder, statements

LEMMA Pair ==
    ASSUME NEW s \in Statement, NEW t \in Statement, Stage[s] < Stage[t]
    PROVE  /\ <<s, t>> \in Seq(Statement) /\ InOrder(<<s, t>>)
           /\ statements(<<s, t>>) = {s, t}
<1>1. /\ <<s, t>> \in Seq(Statement) /\ DOMAIN <<s, t>> = {1, 2}
      /\ <<s, t>>[1] = s /\ <<s, t>>[2] = t
  OBVIOUS
<1> QED
  BY <1>1 DEF InOrder, statements

LEMMA Triple ==
    ASSUME NEW s \in Statement, NEW t \in Statement, NEW v \in Statement,
           Stage[s] < Stage[t], Stage[t] < Stage[v]
    PROVE  /\ <<s, t, v>> \in Seq(Statement) /\ InOrder(<<s, t, v>>)
           /\ statements(<<s, t, v>>) = {s, t, v}
<1> DEFINE q == <<s, t, v>>
<1>1. /\ q \in Seq(Statement) /\ DOMAIN q = {1, 2, 3}
      /\ q[1] = s /\ q[2] = t /\ q[3] = v
  OBVIOUS
<1>2. Stage[s] < Stage[v]
  <2>1. \A x \in Statement : Stage[x] \in Nat
    BY DEF Stage, Statement
  <2> QED
    BY <2>1
<1> HIDE DEF q
<1>3. InOrder(q)
  BY <1>1, <1>2 DEF InOrder
<1>4. statements(q) = {s, t, v}
  BY <1>1 DEF statements
<1> QED
  BY <1>1, <1>3, <1>4 DEF q

\* None, of which a todo may be the end.
LEMMA Empty ==
    /\ <<>> \in Seq(Statement) /\ InOrder(<<>>) /\ statements(<<>>) = {}
<1>1. <<>> \in Seq(Statement) /\ DOMAIN <<>> = {}
  OBVIOUS
<1> QED
  BY <1>1 DEF InOrder, statements

LEMMA Stages ==
    /\ Statement = DOMAIN Stage
    /\ Stage["newFolder"] = 1 /\ Stage["newCollection"] = 1 /\ Stage["upsert"] = 2
    /\ Stage["move"] = 3 /\ Stage["unfile"] = 4 /\ Stage["file"] = 5
    /\ Stage["diff"] = 6 /\ Stage["trash"] = 6 /\ Stage["untrash"] = 6
    /\ Stage["delete"] = 6 /\ Stage["bump"] = 7 /\ Stage["valid"] = 8
    /\ Stage["unassign"] = 8 /\ Stage["assign"] = 9 /\ Stage["next"] = 10
    /\ Stage["dropFolders"] = 11 /\ Stage["empty"] = 11 /\ Stage["dropCiphers"] = 11
    /\ Stage["dropFolder"] = 12 /\ Stage["dropOrg"] = 12 /\ Stage["touch"] = 13
BY DEF Stage, Statement

LEMMA Writing ==
    /\ Write \in Seq(Statement) /\ InOrder(Write)
    /\ statements(Write) = {"upsert", "move", "bump"}
<1>1. {"upsert", "move", "bump"} \subseteq Statement
  BY DEF Statement
<1>2. Stage["upsert"] < Stage["move"] /\ Stage["move"] < Stage["bump"]
  BY Stages
<1>3. Write = <<"upsert", "move", "bump">>
  BY DEF Write
<1> HIDE DEF Write
<1> QED
  BY <1>1, <1>2, <1>3, Triple

\* What follows the saving of an item.
LEMMA WriteThen ==
    ASSUME NEW t \in Seq(Statement), InOrder(t),
           statements(t) \subseteq {"valid", "unassign", "assign", "touch"}
    PROVE  /\ Write \o t \in Seq(Statement) /\ InOrder(Write \o t)
           /\ statements(Write \o t) = {"upsert", "move", "bump"} \cup statements(t)
<1>1. \A a \in {"upsert", "move", "bump"} : Stage[a] \in 2..7
  BY Stages
<1>2. \A b \in {"valid", "unassign", "assign", "touch"} : Stage[b] \in 8..13
  BY Stages
<1>3. \A a \in statements(Write), b \in statements(t) : Stage[a] < Stage[b]
  BY <1>1, <1>2, Writing
<1> QED
  BY <1>3, Writing, InOrderJoin

\* What precedes it, too.
LEMMA AroundWrite ==
    ASSUME NEW s \in Seq(Statement), InOrder(s),
           statements(s) \subseteq {"newFolder", "newCollection"},
           NEW t \in Seq(Statement), InOrder(t), statements(t) \subseteq {"assign", "touch"}
    PROVE  /\ s \o Write \o t \in Seq(Statement) /\ InOrder(s \o Write \o t)
           /\ statements(s \o Write \o t)
                = {"upsert", "move", "bump"} \cup (statements(s) \cup statements(t))
<1> DEFINE first == s \o Write
<1>1. \A a \in {"newFolder", "newCollection"} : Stage[a] = 1
  BY Stages
<1>2. \A b \in {"upsert", "move", "bump"} : Stage[b] \in 2..7
  BY Stages
<1>3. \A b \in {"assign", "touch"} : Stage[b] \in 8..13
  BY Stages
<1>4. \A a \in statements(s), b \in statements(Write) : Stage[a] < Stage[b]
  BY <1>1, <1>2, Writing
<1>5. /\ first \in Seq(Statement) /\ InOrder(first)
      /\ statements(first) = statements(s) \cup {"upsert", "move", "bump"}
  BY <1>4, Writing, InOrderJoin
<1>6. \A a \in statements(first), b \in statements(t) : Stage[a] < Stage[b]
  <2>1. \A a \in statements(first) : Stage[a] \in 1..7
    BY <1>1, <1>2, <1>5
  <2>2. \A b \in statements(t) : Stage[b] \in 8..13
    BY <1>3
  <2> QED
    BY <2>1, <2>2
<1>7. s \o Write \o t = first \o t
  OBVIOUS
<1> HIDE DEF first
<1>8. /\ first \o t \in Seq(Statement) /\ InOrder(first \o t)
      /\ statements(first \o t) = statements(first) \cup statements(t)
  BY <1>5, <1>6, InOrderJoin
<1> QED
  BY <1>5, <1>7, <1>8

----------------------------------------------------------------------------
(***************************************************************************)
(* Requests that begin alone                                               *)
(***************************************************************************)
\* A handler that saves an item, with U around it.
LEMMA SavesReady ==
    ASSUME NEW q, InOrder(q.todo),
           NEW U \in SUBSET {"newFolder", "newCollection", "valid", "unassign", "assign", "touch"},
           statements(q.todo) = {"upsert", "move", "bump"} \cup U,
           "newFolder" \in U => "touch" \in U /\ "assign" \notin U,
           "newCollection" \in U => "touch" \notin U,
           q.row.org \in orgs \cup {None},
           \/ assigned[q.cipher] = {}
           \/ ciphers[q.cipher] # None /\ ciphers[q.cipher].org = q.row.org,
           "newFolder" \notin U /\ q.folder # None => folders[q.folder] # None,
           "assign" \in U /\ U \cap {"valid", "newCollection"} = {} =>
             \A k \in q.add : collections[k] = q.row.org,
           "newCollection" \in U => \A k \in q.add : collections[k] = None
    PROVE  /\ Lined(q.todo)
           /\ ItemReady(q, statements(q.todo)) /\ CollectionsReady(q, statements(q.todo))
           /\ FilingReady(q, statements(q.todo)) /\ DropReady(q, statements(q.todo))
<1> DEFINE T == statements(q.todo)
<1>1. T = {"upsert", "move", "bump"} \cup U
  OBVIOUS
<1> HIDE DEF T
<1>2. Together(T)
  BY <1>1 DEF Together, Writes
<1>3. ItemReady(q, T)
  BY <1>1 DEF ItemReady
<1>4. CollectionsReady(q, T)
  BY <1>1 DEF CollectionsReady
<1>5. FilingReady(q, T) /\ DropReady(q, T)
  BY <1>1 DEF FilingReady, DropReady, Filings
<1> QED
  BY <1>2, <1>3, <1>4, <1>5 DEF T, Lined

\* One that does not: it knows the organization of its item, which may be filed.
LEMMA OthersReady ==
    ASSUME NEW q, Lined(q.todo), NEW T, T = statements(q.todo),
           T \cap {"upsert", "unfile", "file", "newCollection"} = {},
           T \cap {"assign", "diff"} # {} => ciphers[q.cipher].org = q.row.org,
           "diff" \in T => q.row.org # None,
           "assign" \in T => \A k \in q.add : collections[k] = q.row.org,
           "move" \in T => /\ ciphers[q.cipher] # None
                           /\ q.folder # None => folders[q.folder] # None,
           "dropOrg" \in T => "dropCiphers" \in T
    PROVE  /\ ItemReady(q, T) /\ CollectionsReady(q, T)
           /\ FilingReady(q, T) /\ DropReady(q, T)
<1>1. ItemReady(q, T)
  BY DEF ItemReady
<1>2. CollectionsReady(q, T)
  BY DEF CollectionsReady
<1>3. FilingReady(q, T) /\ DropReady(q, T)
  BY DEF FilingReady, DropReady, Filings
<1> QED
  BY <1>1, <1>2, <1>3

\* A folder of the user's is there, and an item that is not is in no collection.
LEMMA OwnFolder ==
    ASSUME NEW u \in Users, NEW f \in OwnFolders(u) \cup {None}
    PROVE  f # None => folders[f] # None
BY NoneAssumption DEF OwnFolders

LEMMA UnusedItem ==
    ASSUME Inv, Placed, NEW c \in Ciphers, ciphers[c] = None
    PROVE  assigned[c] = {}
BY InvParts DEF Placed, TablesOK

LEMMA CreateCipherAlone ==
    ASSUME Inv, Calm, ~disturbed', NEW r \in Requests, NEW u \in Users, NEW c \in Ciphers,
           NEW o \in Orgs \cup {None}, NEW S \in SUBSET Collections,
           NEW f \in Folders \cup {None}, CreateCipher(r, u, c, o, S, f)
    PROVE  Calm'
<1> DEFINE x == updateCipherFromData(newCipherShell(u), u, o)
           n == NewRequest(u, c, x)
           rest == IF S = {} THEN <<>> ELSE <<"valid", "assign">>
           U == IF S = {} THEN {} ELSE {"valid", "assign"}
           todo == Write \o rest
           q == [n EXCEPT !.todo = todo, !.folder = f, !.add = S]
<1>1. x \in Cipher /\ x.org = o
  BY NewRow
<1>2. /\ Begin(r, q) /\ c \in UnusedCiphers
      /\ o # None => members[<<u, o>>] # None
      /\ f \in OwnFolders(u) \cup {None}
  BY DEF CreateCipher
<1>3. rest \in Seq(Statement) /\ InOrder(rest) /\ statements(rest) = U
  <2>1. CASE S = {}
    BY <2>1, Empty
  <2>2. CASE S # {}
    <3>1. "valid" \in Statement /\ "assign" \in Statement
      BY DEF Statement
    <3>2. /\ <<"valid", "assign">> \in Seq(Statement) /\ InOrder(<<"valid", "assign">>)
          /\ statements(<<"valid", "assign">>) = {"valid", "assign"}
      BY <3>1, Stages, Pair
    <3> QED
      BY <2>2, <3>2
  <2> QED
    BY <2>1, <2>2
<1>4. U \subseteq {"valid", "assign"} /\ ("assign" \in U => "valid" \in U)
  OBVIOUS
<1> HIDE DEF x, rest, U
<1>5. /\ todo \in Seq(Statement) /\ InOrder(todo)
      /\ statements(todo) = {"upsert", "move", "bump"} \cup U
  BY <1>3, <1>4, WriteThen
<1>6. n \in Request /\ n.row = x /\ n.cipher = c
  BY <1>1, NewRequestType
<1> HIDE DEF n, todo
<1>7. /\ q \in Request /\ q.row = x /\ q.cipher = c /\ q.todo = todo /\ q.folder = f
      /\ q.add = S
  BY <1>5, <1>6 DEF Request
<1> HIDE DEF q
<1>8. q.row.org \in orgs \cup {None}
  BY <1>1, <1>2, <1>7 DEF Calm, Seated
<1>9. assigned[q.cipher] = {}
  BY <1>2, <1>7, UnusedItem DEF Calm, UnusedCiphers
<1>10. q.folder # None => folders[q.folder] # None
  BY <1>2, <1>7, OwnFolder
<1>11. U \in SUBSET {"newFolder", "newCollection", "valid", "unassign", "assign", "touch"}
  BY <1>4
<1> QED
  BY <1>2, <1>4, <1>5, <1>7, <1>8, <1>9, <1>10, <1>11, SavesReady, Begins

\* What a handler that edits an item knows of it.
LEMMA EditsItem ==
    ASSUME Inv, Calm, NEW u \in Users, NEW c \in Ciphers, NEW o \in Orgs \cup {None},
           Access(u, c, TRUE), organizationMatches(ciphers[c], o),
           o # None => members[<<u, o>>] # None
    PROVE  /\ updateCipherFromData(ciphers[c], u, o) \in Cipher
           /\ updateCipherFromData(ciphers[c], u, o).org = o
           /\ o \in orgs \cup {None}
           /\ \/ assigned[c] = {}
              \/ ciphers[c] # None /\ ciphers[c].org = o
<1>1. ciphers[c] # None /\ ciphers[c] \in Cipher
  BY ReadRow DEF Access
<1>2. /\ updateCipherFromData(ciphers[c], u, o) \in Cipher
      /\ updateCipherFromData(ciphers[c], u, o).org = o
  BY <1>1, EditedRow DEF updateCipherFromData, Cipher
<1>3. o \in orgs \cup {None}
  BY DEF Calm, Seated
<1>4. ciphers[c].org = None => assigned[c] = {}
  BY InvParts DEF Calm, Placed, TablesOK
<1> QED
  BY <1>1, <1>2, <1>3, <1>4 DEF organizationMatches

LEMMA EditCipherAlone ==
    ASSUME Inv, Calm, ~disturbed', NEW r \in Requests, NEW u \in Users, NEW c \in Ciphers,
           NEW o \in Orgs \cup {None}, NEW f \in Folders \cup {None},
           EditCipher(r, u, c, o, f)
    PROVE  Calm'
<1> DEFINE x == updateCipherFromData(ciphers[c], u, o)
           n == NewRequest(u, c, x)
           q == [n EXCEPT !.todo = Write, !.folder = f]
<1>1. /\ x \in Cipher /\ x.org \in orgs \cup {None}
      /\ \/ assigned[c] = {}
         \/ ciphers[c] # None /\ ciphers[c].org = x.org
  <2>1. /\ Access(u, c, TRUE) /\ organizationMatches(ciphers[c], o)
        /\ o # None => members[<<u, o>>] # None
    BY DEF EditCipher
  <2>2. /\ updateCipherFromData(ciphers[c], u, o) \in Cipher
        /\ updateCipherFromData(ciphers[c], u, o).org = o
        /\ o \in orgs \cup {None}
        /\ \/ assigned[c] = {}
           \/ ciphers[c] # None /\ ciphers[c].org = o
    BY <2>1, EditsItem, ZenonT(40)
  <2>3. x = updateCipherFromData(ciphers[c], u, o)
    OBVIOUS
  <2> HIDE DEF x
  <2> QED
    BY <2>2, <2>3
<1>2. Begin(r, q) /\ f \in OwnFolders(u) \cup {None}
  BY DEF EditCipher
<1> HIDE DEF x
<1>3. n \in Request /\ n.row = x /\ n.cipher = c
  BY <1>1, NewRequestType
<1> HIDE DEF n
<1>4. q \in Request /\ q.row = x /\ q.cipher = c /\ q.todo = Write /\ q.folder = f
  BY <1>3, Writing DEF Request
<1> HIDE DEF q
<1>5. q.folder # None => folders[q.folder] # None
  BY <1>2, <1>4, OwnFolder
<1>6. statements(q.todo) = {"upsert", "move", "bump"} \cup {}
  BY <1>4, Writing
<1>7. {} \in SUBSET {"newFolder", "newCollection", "valid", "unassign", "assign", "touch"}
  OBVIOUS
<1>8. /\ Lined(q.todo)
      /\ ItemReady(q, statements(q.todo)) /\ CollectionsReady(q, statements(q.todo))
      /\ FilingReady(q, statements(q.todo)) /\ DropReady(q, statements(q.todo))
  BY <1>1, <1>4, <1>5, <1>6, <1>7, Writing, SavesReady
<1> QED
  BY <1>2, <1>4, <1>8, Begins

LEMMA ShareCipherAlone ==
    ASSUME Inv, Calm, ~disturbed', NEW r \in Requests, NEW u \in Users, NEW c \in Ciphers,
           NEW o \in Orgs, NEW S \in SUBSET Collections,
           NEW f \in Folders \cup {None}, ShareCipher(r, u, c, o, S, f)
    PROVE  Calm'
<1> DEFINE x == updateCipherFromData(ciphers[c], u, o)
           n == NewRequest(u, c, x)
           todo == Write \o <<"unassign", "assign">>
           valid == validCollections(S, o)
           q == [n EXCEPT !.todo = todo, !.folder = f, !.gone = Collections, !.add = valid]
           U == {"unassign", "assign"}
<1>1. /\ x \in Cipher /\ x.org = o /\ x.org \in orgs \cup {None}
      /\ \/ assigned[c] = {}
         \/ ciphers[c] # None /\ ciphers[c].org = x.org
  <2>1. /\ Access(u, c, TRUE) /\ organizationMatches(ciphers[c], o)
        /\ o # None => members[<<u, o>>] # None
    BY DEF ShareCipher
  <2>2. /\ updateCipherFromData(ciphers[c], u, o) \in Cipher
        /\ updateCipherFromData(ciphers[c], u, o).org = o
        /\ o \in orgs \cup {None}
        /\ \/ assigned[c] = {}
           \/ ciphers[c] # None /\ ciphers[c].org = o
    <3>1. o \in Orgs \cup {None}
      OBVIOUS
    <3> QED
      BY <2>1, <3>1, EditsItem, ZenonT(40)
  <2>3. x = updateCipherFromData(ciphers[c], u, o)
    OBVIOUS
  <2> HIDE DEF x
  <2> QED
    BY <2>2, <2>3
<1>2. Begin(r, q) /\ f \in OwnFolders(u) \cup {None}
  BY DEF ShareCipher
<1>3. valid \subseteq Collections /\ \A k \in valid : collections[k] = o
  BY DEF validCollections
<1>4. /\ todo \in Seq(Statement) /\ InOrder(todo)
      /\ statements(todo) = {"upsert", "move", "bump"} \cup U
  <2>1. "unassign" \in Statement /\ "assign" \in Statement
    BY DEF Statement
  <2>2. /\ <<"unassign", "assign">> \in Seq(Statement) /\ InOrder(<<"unassign", "assign">>)
        /\ statements(<<"unassign", "assign">>) = U
    BY <2>1, Stages, Pair
  <2> QED
    BY <2>2, WriteThen
<1> HIDE DEF x, todo, valid
<1>5. n \in Request /\ n.row = x /\ n.cipher = c
  BY <1>1, NewRequestType
<1> HIDE DEF n
<1>6. /\ q \in Request /\ q.row = x /\ q.cipher = c /\ q.todo = todo /\ q.folder = f
      /\ q.add = valid
  BY <1>3, <1>4, <1>5 DEF Request
<1> HIDE DEF q
<1>7. q.folder # None => folders[q.folder] # None
  BY <1>2, <1>6, OwnFolder
<1>8. /\ Lined(q.todo)
      /\ ItemReady(q, statements(q.todo)) /\ CollectionsReady(q, statements(q.todo))
      /\ FilingReady(q, statements(q.todo)) /\ DropReady(q, statements(q.todo))
  BY <1>1, <1>3, <1>4, <1>6, <1>7, SavesReady
<1> QED
  BY <1>2, <1>6, <1>8, Begins

\* The handlers that keep the row they have read.
LEMMA ReadsItem ==
    ASSUME Inv, Calm, ~disturbed', NEW r \in Requests, NEW u \in Users, NEW c \in Ciphers,
           ciphers[c] # None, NEW todo \in Seq(Statement), Lined(todo),
           NEW f \in Folders \cup {None}, f # None => folders[f] # None,
           NEW A \in SUBSET Collections, NEW G \in SUBSET Collections,
           statements(todo) \subseteq {"diff", "trash", "untrash", "delete", "bump", "unassign",
                                      "assign", "move", "touch"},
           "diff" \in statements(todo) => ciphers[c].org # None,
           "assign" \in statements(todo) => \A k \in A : collections[k] = ciphers[c].org,
           Begin(r, [NewRequest(u, c, ciphers[c]) EXCEPT
                       !.todo = todo, !.folder = f, !.add = A, !.gone = G])
    PROVE  Calm'
<1> DEFINE x == ciphers[c]
           n == NewRequest(u, c, x)
           q == [n EXCEPT !.todo = todo, !.folder = f, !.add = A, !.gone = G]
<1>1. x \in Cipher
  BY ReadRow
<1>2. Begin(r, q)
  OBVIOUS
<1>3. n \in Request /\ n.row = x /\ n.cipher = c
  BY <1>1, NewRequestType
<1> HIDE DEF n
<1>4. /\ q \in Request /\ q.row = x /\ q.cipher = c /\ q.todo = todo /\ q.folder = f
      /\ q.add = A
  BY <1>3 DEF Request
<1> HIDE DEF q
<1>5. PICK T : T = statements(todo)
  OBVIOUS
<1>a. Lined(q.todo) /\ statements(q.todo) = T
  BY <1>4, <1>5
<1>6. /\ ItemReady(q, T) /\ CollectionsReady(q, T)
      /\ FilingReady(q, T) /\ DropReady(q, T)
  BY <1>4, <1>5, <1>a, OthersReady
<1> QED
  BY <1>2, <1>4, <1>a, <1>6, Begins

LEMMA UpdateCipherCollectionsAlone ==
    ASSUME Inv, Calm, ~disturbed', NEW r \in Requests, NEW u \in Users, NEW c \in Ciphers,
           NEW S \in SUBSET Collections, UpdateCipherCollections(r, u, c, S)
    PROVE  Calm'
<1> DEFINE n == NewRequest(u, c, ciphers[c])
           accessible == IF members[<<u, ciphers[c].org>>] = "full" THEN Collections
                         ELSE CollectionRights(u, FALSE)
           A == (S \ assigned[c]) \cap accessible
           G == (assigned[c] \ S) \cap accessible
           todo == <<"diff", "bump">>
<1>1. ciphers[c] # None /\ ciphers[c].org # None
  BY DEF UpdateCipherCollections, Access
<1>2. Begin(r, [n EXCEPT !.todo = todo, !.add = A, !.gone = G])
  BY DEF UpdateCipherCollections
<1>3. A \in SUBSET Collections /\ G \in SUBSET Collections
  BY InvParts DEF TablesOK
<1>4. todo \in Seq(Statement) /\ InOrder(todo) /\ statements(todo) = {"diff", "bump"}
  <2>1. "diff" \in Statement /\ "bump" \in Statement
    BY DEF Statement
  <2> QED
    BY <2>1, Stages, Pair
<1>5. n \in Request /\ n.folder = None
  BY <1>1, ReadRow, NewRequestType
<1> HIDE DEF A, G, todo
<1>6. Lined(todo)
  BY <1>4 DEF Lined, Together, Writes
<1>7. [n EXCEPT !.todo = todo, !.add = A, !.gone = G]
        = [n EXCEPT !.todo = todo, !.folder = None, !.add = A, !.gone = G]
  BY <1>5 DEF Request
<1>8. Begin(r, [NewRequest(u, c, ciphers[c]) EXCEPT
                  !.todo = todo, !.folder = None, !.add = A, !.gone = G])
  BY <1>2, <1>7
<1>9. None \in Folders \cup {None}
  OBVIOUS
<1>10. /\ statements(todo) \subseteq {"diff", "trash", "untrash", "delete", "bump", "unassign",
                                  "assign", "move", "touch"}
       /\ "assign" \notin statements(todo)
  BY <1>4
<1> HIDE DEF n
<1> QED
  BY <1>1, <1>3, <1>4, <1>6, <1>8, <1>9, <1>10, ReadsItem

LEMMA BulkCollectionsAlone ==
    ASSUME Inv, Calm, ~disturbed', NEW r \in Requests, NEW u \in Users, NEW c \in Ciphers,
           NEW S \in SUBSET Collections, NEW o \in Orgs, NEW b \in BOOLEAN,
           BulkCollections(r, u, c, o, S, b)
    PROVE  Calm'
<1> DEFINE n == NewRequest(u, c, ciphers[c])
           A == IF b THEN {} ELSE S
           G == IF b THEN S ELSE {}
           first == IF b THEN "unassign" ELSE "assign"
           todo == <<first, "touch">>
<1>1. /\ ciphers[c] # None /\ ciphers[c].org = o
      /\ \A k \in S : collections[k] = o
  BY DEF BulkCollections, validCollections
<1>2. Begin(r, [n EXCEPT !.todo = todo, !.add = A, !.gone = G])
  BY DEF BulkCollections
<1>3. A \in SUBSET Collections /\ G \in SUBSET Collections /\ A \subseteq S
  OBVIOUS
<1>4. /\ todo \in Seq(Statement) /\ InOrder(todo) /\ statements(todo) = {first, "touch"}
      /\ first \in {"assign", "unassign"}
  <2>1. "assign" \in Statement /\ "unassign" \in Statement /\ "touch" \in Statement
    BY DEF Statement
  <2>2. first \in Statement /\ Stage[first] < Stage["touch"] /\ first \in {"assign", "unassign"}
    BY <2>1, Stages
  <2> HIDE DEF first
  <2> QED
    BY <2>1, <2>2, Pair
<1>5. n \in Request /\ n.folder = None
  BY <1>1, ReadRow, NewRequestType
<1> HIDE DEF A, G, first, todo
<1>6. Lined(todo)
  BY <1>4 DEF Lined, Together, Writes
<1>7. [n EXCEPT !.todo = todo, !.add = A, !.gone = G]
        = [n EXCEPT !.todo = todo, !.folder = None, !.add = A, !.gone = G]
  BY <1>5 DEF Request
<1>8. Begin(r, [NewRequest(u, c, ciphers[c]) EXCEPT
                  !.todo = todo, !.folder = None, !.add = A, !.gone = G])
  BY <1>2, <1>7
<1>9. None \in Folders \cup {None} /\ \A k \in A : collections[k] = ciphers[c].org
  BY <1>1, <1>3
<1>10. /\ statements(todo) \subseteq {"diff", "trash", "untrash", "delete", "bump", "unassign",
                                  "assign", "move", "touch"}
       /\ "diff" \notin statements(todo)
  BY <1>4
<1> HIDE DEF n
<1> QED
  BY <1>1, <1>3, <1>4, <1>6, <1>8, <1>9, <1>10, ReadsItem

LEMMA DeleteOrRestoreAlone ==
    ASSUME Inv, Calm, ~disturbed', NEW r \in Requests, NEW u \in Users, NEW c \in Ciphers,
           NEW todo \in {softDelete, restore, hardDelete}, DeleteOrRestore(r, u, c, todo)
    PROVE  Calm'
<1> DEFINE n == NewRequest(u, c, ciphers[c])
<1>1. ciphers[c] # None
  BY DEF DeleteOrRestore, Access
<1>2. Begin(r, [n EXCEPT !.todo = todo])
  BY DEF DeleteOrRestore
<1>3. PICK s \in {"trash", "untrash", "delete"} : todo = <<s, "bump">>
  BY DEF softDelete, restore, hardDelete
<1>4. /\ todo \in Seq(Statement) /\ InOrder(todo) /\ statements(todo) = {s, "bump"}
  <2>1. s \in Statement /\ "bump" \in Statement /\ Stage[s] < Stage["bump"]
    BY Stages DEF Statement
  <2> QED
    BY <1>3, <2>1, Pair
<1>5. n \in Request /\ n.folder = None /\ n.add = {} /\ n.gone = {}
  BY <1>1, ReadRow, NewRequestType
<1>6. Lined(todo)
  BY <1>4 DEF Lined, Together, Writes
<1>7. [n EXCEPT !.todo = todo]
        = [n EXCEPT !.todo = todo, !.folder = None, !.add = {}, !.gone = {}]
  BY <1>5 DEF Request
<1>8. Begin(r, [NewRequest(u, c, ciphers[c]) EXCEPT
                  !.todo = todo, !.folder = None, !.add = {}, !.gone = {}])
  BY <1>2, <1>7
<1>9. None \in Folders \cup {None} /\ {} \in SUBSET Collections
  OBVIOUS
<1>10. /\ statements(todo) \subseteq {"diff", "trash", "untrash", "delete", "bump", "unassign",
                                  "assign", "move", "touch"}
       /\ "diff" \notin statements(todo) /\ "assign" \notin statements(todo)
  BY <1>4
<1> HIDE DEF n
<1> QED
  BY <1>1, <1>4, <1>6, <1>8, <1>9, <1>10, ReadsItem

LEMMA MoveSelectedAlone ==
    ASSUME Inv, Calm, ~disturbed', NEW r \in Requests, NEW u \in Users, NEW c \in Ciphers,
           NEW f \in Folders \cup {None}, MoveSelected(r, u, c, f)
    PROVE  Calm'
<1> DEFINE n == NewRequest(u, c, ciphers[c])
           todo == <<"move", "touch">>
<1>1. ciphers[c] # None /\ f \in OwnFolders(u) \cup {None}
  BY DEF MoveSelected, Access
<1>2. Begin(r, [n EXCEPT !.todo = todo, !.folder = f])
  BY DEF MoveSelected
<1>3. todo \in Seq(Statement) /\ InOrder(todo) /\ statements(todo) = {"move", "touch"}
  <2>1. "move" \in Statement /\ "touch" \in Statement /\ Stage["move"] < Stage["touch"]
    BY Stages DEF Statement
  <2> QED
    BY <2>1, Pair
<1>4. n \in Request /\ n.add = {} /\ n.gone = {}
  BY <1>1, ReadRow, NewRequestType
<1> HIDE DEF todo
<1>5. Lined(todo)
  BY <1>3 DEF Lined, Together, Writes
<1>6. [n EXCEPT !.todo = todo, !.folder = f]
        = [n EXCEPT !.todo = todo, !.folder = f, !.add = {}, !.gone = {}]
  BY <1>4 DEF Request
<1>7. Begin(r, [NewRequest(u, c, ciphers[c]) EXCEPT
                  !.todo = todo, !.folder = f, !.add = {}, !.gone = {}])
  BY <1>2, <1>6
<1>8. /\ f # None => folders[f] # None
      /\ {} \in SUBSET Collections
  BY <1>1, OwnFolder
<1>10. /\ statements(todo) \subseteq {"diff", "trash", "untrash", "delete", "bump", "unassign",
                                  "assign", "move", "touch"}
       /\ "diff" \notin statements(todo) /\ "assign" \notin statements(todo)
  BY <1>3
<1> HIDE DEF n
<1> QED
  BY <1>1, <1>3, <1>5, <1>7, <1>8, <1>10, ReadsItem

LEMMA ImportAlone ==
    ASSUME Inv, Calm, ~disturbed', NEW r \in Requests, NEW u \in Users, NEW c \in Ciphers,
           NEW f \in Folders \cup {None}, Import(r, u, c, f)
    PROVE  Calm'
<1> DEFINE x == updateCipherFromData(newCipherShell(u), u, None)
           n == NewRequest(u, c, x)
           first == IF f \in UnusedFolders THEN <<"newFolder">> ELSE <<>>
           todo == first \o Write \o <<"touch">>
           q == [n EXCEPT !.todo = todo, !.folder = f]
<1>1. x \in Cipher /\ x.org = None
  BY NewRow
<1>2. /\ Begin(r, q) /\ c \in UnusedCiphers
      /\ f \in OwnFolders(u) \cup UnusedFolders \cup {None}
  BY DEF Import
<1>a. /\ "newFolder" \in Statement /\ "touch" \in Statement
  BY DEF Statement
<1>3. /\ first \in Seq(Statement) /\ InOrder(first) /\ statements(first) \subseteq {"newFolder"}
      /\ f \notin UnusedFolders \/ "newFolder" \in statements(first)
  <2>1. CASE f \in UnusedFolders
    BY <1>a, <2>1, Single
  <2>2. CASE f \notin UnusedFolders
    BY <2>2, Empty
  <2> QED
    BY <2>1, <2>2
<1>4. PICK S : S = statements(first)
  OBVIOUS
<1>5. /\ <<"touch">> \in Seq(Statement) /\ InOrder(<<"touch">>)
      /\ statements(<<"touch">>) = {"touch"}
  BY <1>a, Single
<1>6. statements(first) \subseteq {"newFolder", "newCollection"}
  BY <1>3
<1> HIDE DEF x, first
<1>7. /\ todo \in Seq(Statement) /\ InOrder(todo)
      /\ statements(todo) = {"upsert", "move", "bump"} \cup (S \cup {"touch"})
  BY <1>3, <1>4, <1>5, <1>6, AroundWrite
<1>8. n \in Request /\ n.row = x /\ n.cipher = c /\ n.add = {}
  BY <1>1, NewRequestType
<1> HIDE DEF n, todo
<1>9. /\ q \in Request /\ q.row = x /\ q.cipher = c /\ q.todo = todo /\ q.folder = f
  BY <1>7, <1>8 DEF Request
<1> HIDE DEF q
<1>10. assigned[q.cipher] = {}
  BY <1>2, <1>9, UnusedItem DEF Calm, UnusedCiphers
<1>11. "newFolder" \notin S /\ q.folder # None => folders[q.folder] # None
  BY <1>2, <1>3, <1>4, <1>9, OwnFolder
<1>12. /\ S \cup {"touch"} \in SUBSET {"newFolder", "newCollection", "valid", "unassign",
                                       "assign", "touch"}
       /\ "newCollection" \notin S \cup {"touch"} /\ "assign" \notin S \cup {"touch"}
  BY <1>3, <1>4
<1>13. q.row.org \in orgs \cup {None}
  BY <1>1, <1>9
<1>14. PICK U : U = S \cup {"touch"}
  OBVIOUS
<1>15. /\ U \in SUBSET {"newFolder", "newCollection", "valid", "unassign", "assign", "touch"}
       /\ "touch" \in U /\ "newCollection" \notin U /\ "assign" \notin U
       /\ "newFolder" \notin U /\ q.folder # None => folders[q.folder] # None
       /\ InOrder(q.todo) /\ statements(q.todo) = {"upsert", "move", "bump"} \cup U
  BY <1>7, <1>9, <1>11, <1>12, <1>14
<1>16. /\ Lined(q.todo)
       /\ ItemReady(q, statements(q.todo)) /\ CollectionsReady(q, statements(q.todo))
       /\ FilingReady(q, statements(q.todo)) /\ DropReady(q, statements(q.todo))
  BY <1>10, <1>13, <1>15, SavesReady
<1> QED
  BY <1>2, <1>9, <1>16, Begins

LEMMA ImportOrganizationAlone ==
    ASSUME Inv, Calm, ~disturbed', NEW r \in Requests, NEW u \in Users, NEW c \in Ciphers,
           NEW o \in Orgs, NEW k \in Collections, ImportOrganization(r, u, o, c, k)
    PROVE  Calm'
<1> DEFINE x == updateCipherFromData(newCipherShell(u), u, o)
           n == NewRequest(u, c, x)
           todo == <<"newCollection">> \o Write \o <<"assign">>
           q == [n EXCEPT !.todo = todo, !.add = {k}]
           U == {"newCollection", "assign"}
<1>1. x \in Cipher /\ x.org = o
  BY NewRow
<1>2. /\ Begin(r, q) /\ c \in UnusedCiphers /\ k \in UnusedCollections
      /\ members[<<u, o>>] # None
  BY NoneAssumption DEF ImportOrganization
<1>3. /\ <<"newCollection">> \in Seq(Statement) /\ InOrder(<<"newCollection">>)
      /\ statements(<<"newCollection">>) = {"newCollection"}
      /\ <<"assign">> \in Seq(Statement) /\ InOrder(<<"assign">>)
      /\ statements(<<"assign">>) = {"assign"}
  <2>1. /\ "newCollection" \in Statement /\ "assign" \in Statement
    BY DEF Statement
  <2> QED
    BY <2>1, Single
<1>4. /\ todo \in Seq(Statement) /\ InOrder(todo)
      /\ statements(todo) = {"upsert", "move", "bump"} \cup U
  <2>1. /\ statements(<<"newCollection">>) \subseteq {"newFolder", "newCollection"}
        /\ statements(<<"assign">>) \subseteq {"assign", "touch"}
        /\ statements(<<"newCollection">>) \cup statements(<<"assign">>) = U
    BY <1>3
  <2>2. /\ todo \in Seq(Statement) /\ InOrder(todo)
        /\ statements(todo) = {"upsert", "move", "bump"}
             \cup (statements(<<"newCollection">>) \cup statements(<<"assign">>))
    BY <1>3, <2>1, AroundWrite
  <2> QED
    BY <2>1, <2>2
<1> HIDE DEF x, todo
<1>5. n \in Request /\ n.row = x /\ n.cipher = c /\ n.folder = None
  BY <1>1, NewRequestType
<1> HIDE DEF n
<1>6. /\ q \in Request /\ q.row = x /\ q.cipher = c /\ q.todo = todo /\ q.folder = None
      /\ q.add = {k}
  BY <1>4, <1>5 DEF Request
<1> HIDE DEF q
<1>7. assigned[q.cipher] = {} /\ q.row.org \in orgs \cup {None}
  BY <1>1, <1>2, <1>6, UnusedItem DEF Calm, UnusedCiphers, Seated
<1>8. \A j \in q.add : collections[j] = None
  BY <1>2, <1>6 DEF UnusedCollections
<1>9. /\ Lined(q.todo)
      /\ ItemReady(q, statements(q.todo)) /\ CollectionsReady(q, statements(q.todo))
      /\ FilingReady(q, statements(q.todo)) /\ DropReady(q, statements(q.todo))
  BY <1>4, <1>6, <1>7, <1>8, SavesReady
<1> QED
  BY <1>2, <1>6, <1>9, Begins

\* The handlers that begin with no item.
LEMMA BeginsFree ==
    ASSUME Inv, Calm, ~disturbed', NEW r \in Requests, NEW u \in Users,
           NEW o \in Orgs \cup {None}, NEW todo \in Seq(Statement), Lined(todo),
           NEW f \in Folders \cup {None}, NEW list \in SUBSET Ciphers,
           statements(todo) \subseteq {"next", "dropFolders", "touch", "dropCiphers", "dropOrg",
                                      "newFolder", "empty", "dropFolder"},
           "dropOrg" \in statements(todo) => "dropCiphers" \in statements(todo),
           Begin(r, [NewRequest(u, None, updateCipherFromData(newCipherShell(u), u, o))
                       EXCEPT !.todo = todo, !.folder = f, !.list = list])
    PROVE  Calm'
<1> DEFINE x == updateCipherFromData(newCipherShell(u), u, o)
           n == NewRequest(u, None, x)
           q == [n EXCEPT !.todo = todo, !.folder = f, !.list = list]
<1>1. x \in Cipher
  BY NewRow
<1>2. Begin(r, q)
  OBVIOUS
<1> HIDE DEF x
<1>3. n \in Request
  BY <1>1, NewItemFreeType
<1> HIDE DEF n
<1>4. q \in Request /\ q.todo = todo
  BY <1>3 DEF Request
<1> HIDE DEF q
<1>5. PICK T : T = statements(todo)
  OBVIOUS
<1>6. Lined(q.todo) /\ statements(q.todo) = T
  BY <1>4, <1>5
<1>7. /\ ItemReady(q, T) /\ CollectionsReady(q, T)
      /\ FilingReady(q, T) /\ DropReady(q, T)
  BY <1>4, <1>5, <1>6, OthersReady
<1> QED
  BY <1>2, <1>4, <1>6, <1>7, Begins

LEMMA PurgeAlone ==
    ASSUME Inv, Calm, ~disturbed', NEW r \in Requests, NEW u \in Users,
           NEW o \in Orgs \cup {None}, Purge(r, u, o)
    PROVE  Calm'
<1> DEFINE x == updateCipherFromData(newCipherShell(u), u, o)
           n == NewRequest(u, None, x)
           rest == IF o = None THEN <<"dropFolders", "touch">> ELSE <<>>
           todo == <<"next">> \o rest
           list == {c \in Ciphers : /\ ciphers[c] # None
                                    /\ ciphers[c].user = x.user
                                    /\ ciphers[c].org = o}
<1>1. Begin(r, [n EXCEPT !.todo = todo, !.list = list])
  BY DEF Purge
<1>2. /\ todo \in Seq(Statement) /\ InOrder(todo)
      /\ statements(todo) \subseteq {"next", "dropFolders", "touch"}
      /\ "dropFolders" \in statements(todo) => "touch" \in statements(todo)
  <2>1. /\ {"next", "dropFolders", "touch"} \subseteq Statement
        /\ Stage["dropFolders"] < Stage["touch"]
        /\ \A b \in {"dropFolders", "touch"} : Stage["next"] < Stage[b]
    BY Stages DEF Statement
  <2>2. /\ <<"dropFolders", "touch">> \in Seq(Statement)
        /\ InOrder(<<"dropFolders", "touch">>)
        /\ statements(<<"dropFolders", "touch">>) = {"dropFolders", "touch"}
    BY <2>1, Pair
  <2>3. /\ <<"next">> \in Seq(Statement) /\ InOrder(<<"next">>)
        /\ statements(<<"next">>) = {"next"}
    BY <2>1, Single
  <2>4. /\ rest \in Seq(Statement) /\ InOrder(rest)
        /\ statements(rest) = {"dropFolders", "touch"} \/ statements(rest) = {}
    BY <2>2, Empty
  <2>5. \A a \in statements(<<"next">>), b \in statements(rest) : Stage[a] < Stage[b]
    BY <2>1, <2>3, <2>4
  <2> HIDE DEF rest
  <2>6. /\ todo \in Seq(Statement) /\ InOrder(todo)
        /\ statements(todo) = statements(<<"next">>) \cup statements(rest)
    BY <2>3, <2>4, <2>5, InOrderJoin
  <2> QED
    BY <2>3, <2>4, <2>6
<1>3. list \in SUBSET Ciphers
  OBVIOUS
<1>4. x \in Cipher
  BY NewRow
<1> HIDE DEF todo, list, x
<1>5. n \in Request /\ n.folder = None
  BY <1>4, NewItemFreeType
<1>6. Lined(todo)
  BY <1>2 DEF Lined, Together, Writes
<1>7. [n EXCEPT !.todo = todo, !.list = list]
        = [n EXCEPT !.todo = todo, !.folder = None, !.list = list]
  BY <1>5 DEF Request
<1>8. Begin(r, [NewRequest(u, None, updateCipherFromData(newCipherShell(u), u, o))
                  EXCEPT !.todo = todo, !.folder = None, !.list = list])
  BY <1>1, <1>7 DEF x
<1>9. /\ None \in Folders \cup {None}
      /\ statements(todo) \subseteq {"next", "dropFolders", "touch", "dropCiphers", "dropOrg",
                                    "newFolder", "empty", "dropFolder"}
      /\ "dropOrg" \notin statements(todo)
  BY <1>2
<1> HIDE DEF n
<1> QED
  BY <1>2, <1>3, <1>6, <1>8, <1>9, BeginsFree

LEMMA DeleteOrgAlone ==
    ASSUME Inv, Calm, ~disturbed', NEW r \in Requests, NEW u \in Users,
           NEW o \in Orgs, DeleteOrg(r, u, o)
    PROVE  Calm'
<1> DEFINE n == NewRequest(u, None, updateCipherFromData(newCipherShell(u), u, o))
           todo == <<"dropCiphers", "dropOrg">>
<1>1. Begin(r, [n EXCEPT !.todo = todo])
  BY DEF DeleteOrg
<1>2. /\ todo \in Seq(Statement) /\ InOrder(todo)
      /\ statements(todo) = {"dropCiphers", "dropOrg"}
  <2>1. /\ "dropCiphers" \in Statement /\ "dropOrg" \in Statement
        /\ Stage["dropCiphers"] < Stage["dropOrg"]
    BY Stages DEF Statement
  <2> QED
    BY <2>1, Pair
<1>3. n \in Request /\ n.folder = None /\ n.list = {}
  BY NewRow, NewItemFreeType
<1> HIDE DEF todo
<1>4. Lined(todo)
  BY <1>2 DEF Lined, Together, Writes
<1>5. [n EXCEPT !.todo = todo] = [n EXCEPT !.todo = todo, !.folder = None, !.list = {}]
  BY <1>3 DEF Request
<1>6. Begin(r, [NewRequest(u, None, updateCipherFromData(newCipherShell(u), u, o))
                  EXCEPT !.todo = todo, !.folder = None, !.list = {}])
  BY <1>1, <1>5
<1>7. /\ None \in Folders \cup {None} /\ {} \in SUBSET Ciphers /\ o \in Orgs \cup {None}
      /\ statements(todo) \subseteq {"next", "dropFolders", "touch", "dropCiphers", "dropOrg",
                                    "newFolder", "empty", "dropFolder"}
      /\ "dropCiphers" \in statements(todo)
  BY <1>2
<1> HIDE DEF n
<1> QED
  BY <1>2, <1>4, <1>6, <1>7, BeginsFree

LEMMA FoldersAlone ==
    ASSUME Inv, Calm, ~disturbed', NEW r \in Requests, NEW u \in Users,
           NEW f \in Folders, CreateFolder(r, u, f) \/ deleteFolder(r, u, f)
    PROVE  Calm'
<1> DEFINE n == NewRequest(u, None, updateCipherFromData(newCipherShell(u), u, None))
<1>1. PICK todo \in Seq(Statement) :
        /\ Begin(r, [n EXCEPT !.todo = todo, !.folder = f])
        /\ InOrder(todo) /\ "touch" \in statements(todo)
        /\ statements(todo) \subseteq {"newFolder", "empty", "dropFolder", "touch"}
  <2> HIDE DEF n
  <2>1. /\ {"newFolder", "empty", "dropFolder", "touch"} \subseteq Statement
        /\ Stage["newFolder"] < Stage["touch"]
        /\ Stage["empty"] < Stage["dropFolder"] /\ Stage["dropFolder"] < Stage["touch"]
    BY Stages DEF Statement
  <2>2. /\ <<"newFolder", "touch">> \in Seq(Statement) /\ InOrder(<<"newFolder", "touch">>)
        /\ statements(<<"newFolder", "touch">>) = {"newFolder", "touch"}
    BY <2>1, Pair
  <2>3. /\ <<"empty", "dropFolder", "touch">> \in Seq(Statement)
        /\ InOrder(<<"empty", "dropFolder", "touch">>)
        /\ statements(<<"empty", "dropFolder", "touch">>) = {"empty", "dropFolder", "touch"}
    BY <2>1, Triple
  <2>4. CASE CreateFolder(r, u, f)
    <3>1. Begin(r, [n EXCEPT !.todo = <<"newFolder", "touch">>, !.folder = f])
      BY <2>4 DEF CreateFolder, n
    <3> QED
      BY <2>2, <3>1
  <2>5. CASE deleteFolder(r, u, f)
    <3>1. Begin(r, [n EXCEPT !.todo = <<"empty", "dropFolder", "touch">>, !.folder = f])
      BY <2>5 DEF deleteFolder, n
    <3> QED
      BY <2>3, <3>1
  <2> QED
    BY <2>4, <2>5
<1>2. n \in Request /\ n.list = {}
  BY NewRow, NewItemFreeType
<1>3. Lined(todo)
  BY <1>1 DEF Lined, Together, Writes
<1>4. [n EXCEPT !.todo = todo, !.folder = f]
        = [n EXCEPT !.todo = todo, !.folder = f, !.list = {}]
  BY <1>2 DEF Request
<1>5. Begin(r, [NewRequest(u, None, updateCipherFromData(newCipherShell(u), u, None))
                  EXCEPT !.todo = todo, !.folder = f, !.list = {}])
  BY <1>1, <1>4
<1>6. /\ f \in Folders \cup {None} /\ {} \in SUBSET Ciphers /\ None \in Orgs \cup {None}
      /\ statements(todo) \subseteq {"next", "dropFolders", "touch", "dropCiphers", "dropOrg",
                                    "newFolder", "empty", "dropFolder"}
      /\ "dropOrg" \notin statements(todo)
  BY <1>1
<1> HIDE DEF n
<1> QED
  BY <1>3, <1>5, <1>6, BeginsFree

LEMMA ArriveAlone ==
    ASSUME Inv, Calm, ~disturbed', NEW r \in Requests, NEW u \in Users, Arrive(r, u)
    PROVE  Calm'
BY CreateCipherAlone, EditCipherAlone, ShareCipherAlone, UpdateCipherCollectionsAlone,
   BulkCollectionsAlone, DeleteOrRestoreAlone, PurgeAlone, ImportAlone,
   ImportOrganizationAlone, DeleteOrgAlone, MoveSelectedAlone, FoldersAlone
   DEF Arrive

----------------------------------------------------------------------------
(***************************************************************************)
(* Statements of a request alone                                           *)
(***************************************************************************)
\* What is ready stays so when the tables it is about do: T is left of S.
LEMMA StaysReady ==
    ASSUME NEW p, NEW q, q.row = p.row, q.cipher = p.cipher, q.folder = p.folder,
           \A k \in q.add : k \in p.add,
           NEW S, NEW T,
           \A s \in {"upsert", "valid", "newCollection", "newFolder", "dropCiphers"} :
             s \in T <=> s \in S,
           \A s \in {"assign", "diff", "dropOrg"} : s \in T => s \in S,
           T \cap Filings # {} => S \cap Filings # {},
           UNCHANGED <<orgs, collections, ciphers, folders>>,
           "upsert" \in T => UNCHANGED assigned,
           ItemReady(p, S), CollectionsReady(p, S), FilingReady(p, S), DropReady(p, S)
    PROVE  /\ ItemReady(q, T)' /\ CollectionsReady(q, T)'
           /\ FilingReady(q, T)' /\ DropReady(q, T)'
<1>1. ItemReady(q, T)'
  BY DEF ItemReady
<1>2. CollectionsReady(q, T)'
  BY DEF CollectionsReady
<1>3. FilingReady(q, T)'
  BY DEF FilingReady
<1>4. DropReady(q, T)'
  BY DEF DropReady, ofOrganization
<1> QED
  BY <1>1, <1>2, <1>3, <1>4

\* Who is still to be told.
LEMMA AccessStays ==
    ASSUME NEW p, UNCHANGED <<members, grants, assigned>>
    PROVE  usersWithCipherAccess(p.row, p.cipher)' = usersWithCipherAccess(p.row, p.cipher)
BY DEF usersWithCipherAccess, CollectionRights

\* The bump finds whom a request's write has to be told to.
LEMMA ReadersStillFound ==
    ASSUME Inv, NEW r \in Requests, requests[r] # None, NEW p, p = requests[r],
           UNCHANGED <<members, grants, assigned>>
    PROVE  Readers(p.row, assigned[p.cipher])
             \subseteq usersWithCipherAccess(p.row, p.cipher)'
<1>1. p.row \in Cipher /\ InOneVault(p.row)
  BY Running
<1> QED
  BY <1>1, AccessStays, ReadersHaveAccess

LEMMA StillTold ==
    ASSUME NEW p, NEW q, q.row = p.row, q.cipher = p.cipher, q.user = p.user,
           NEW S, NEW T, UNCHANGED <<members, grants, assigned, unaware>>,
           \A s \in {"bump", "touch", "assign"} \cup Writes : s \in T <=> s \in S,
           Told(p, S)
    PROVE  Told(q, T)'
<1>1. usersWithCipherAccess(p.row, p.cipher)' = usersWithCipherAccess(p.row, p.cipher)
  BY AccessStays
<1>2. T \cap Writes = {} <=> S \cap Writes = {}
  OBVIOUS
<1> QED
  BY <1>1, <1>2 DEF Told

\* When no bump is left, it does not matter who has access.
LEMMA StillToldNoBump ==
    ASSUME NEW p, NEW q, q.user = p.user, NEW S, NEW T, UNCHANGED unaware,
           "bump" \notin S \/ S \cap Writes # {},
           "touch" \in S /\ "assign" \notin S => "touch" \in T /\ "assign" \notin T,
           Told(p, S)
    PROVE  Told(q, T)'
BY DEF Told

\* At a statement that writes, those who are told later are the user only.
LEMMA ToldOfWrite ==
    ASSUME NEW p, NEW h \in Writes, NEW T, h \notin T, T \cap Writes = {}, "bump" \in T,
           UNCHANGED <<members, grants>>,
           NEW N, N \subseteq usersWithCipherAccess(p.row, p.cipher)',
           unaware' \subseteq unaware \cup N,
           Told(p, T \cup {h})
    PROVE  Told(p, T)'
<1>1. h \notin {"touch", "assign"}
  BY DEF Writes
<1> QED
  BY <1>1 DEF Told

LEMMA UpsertAlone ==
    ASSUME Inv, Calm, ~disturbed, NEW r \in Requests, Upsert(r)
    PROVE  Calm'
<1>1. PICK p : p = requests[r]
  OBVIOUS
<1>2. PICK T : T = statements(Rest(r))
  OBVIOUS
<1>3. PICK c, x : c = p.cipher /\ x = p.row
  OBVIOUS
<1>4. PICK h : h = "upsert" /\ h = Head(requests[r].todo)
  BY DEF Upsert, At
<1>5. /\ requests[r] # None /\ Go(r)
      /\ ciphers' = [ciphers EXCEPT ![c] = x]
      /\ unaware' = unaware \cup Readers(p.row, assigned[p.cipher])
      /\ UNCHANGED <<orgs, members, collections, grants, assigned, folders>>
  BY <1>1, <1>3 DEF Upsert, At, Change, sharing, filing
<1>6. /\ p \in Request /\ Steady(p) /\ statements(p.todo) = T \cup {h} /\ h \notin T
      /\ \A s \in T : Stage[h] < Stage[s]
      /\ Together(T) /\ Together(T \cup {h})
  BY <1>1, <1>2, <1>4, <1>5, RunningAlone
<1>7. /\ ItemReady(p, T \cup {h}) /\ CollectionsReady(p, T \cup {h})
      /\ FilingReady(p, T \cup {h}) /\ DropReady(p, T \cup {h}) /\ Told(p, T \cup {h})
  BY <1>6 DEF Steady
<1>8. /\ "newFolder" \notin T /\ "newCollection" \notin T
      /\ T \cap {"diff", "trash", "untrash", "delete", "dropOrg"} = {}
      /\ "bump" \in T
  <2>1. "newFolder" \notin T /\ "newCollection" \notin T
    BY <1>4, <1>6, Stages
  <2>2. /\ "bump" \in T \cup {h}
        /\ (T \cup {h}) \cap {"diff", "trash", "untrash", "delete", "dropOrg"} = {}
    BY <1>4, <1>6 DEF Together, Writes
  <2> QED
    BY <1>4, <2>1, <2>2
<1>9. /\ x \in Cipher /\ x # None /\ x.org \in orgs \cup {None}
      /\ \/ assigned[c] = {}
         \/ ciphers[c] # None /\ ciphers[c].org = x.org
  <2>1. x \in Cipher
    BY <1>3, <1>6 DEF Request
  <2> QED
    BY <1>3, <1>4, <1>7, <2>1, NoneAssumption DEF ItemReady
<1>10. /\ ciphers \in [Ciphers -> Cipher \cup {None}]
       /\ Placed /\ Owned /\ Seated
  BY InvParts DEF Rows, Calm
<1>11. Placed' /\ Owned' /\ Seated'
  <2>1. \A d \in Ciphers : ciphers'[d] = IF d = c THEN x ELSE ciphers[d]
    BY <1>5, <1>10
  <2>2. Placed'
    BY <1>5, <1>9, <1>10, <2>1 DEF Placed
  <2>3. Owned'
    BY <1>5, <1>9, <1>10, <2>1 DEF Owned
  <2>4. Seated'
    BY <1>5, <1>10 DEF Seated
  <2> QED
    BY <2>2, <2>3, <2>4
<1>12. c \in Ciphers => ciphers'[c] = x
  BY <1>5, <1>10
<1>13. ItemReady(p, T)'
  BY <1>3, <1>4, <1>6, <1>8, <1>9, <1>12 DEF ItemReady
<1>14. CollectionsReady(p, T)'
  BY <1>4, <1>5, <1>7, <1>8 DEF CollectionsReady
<1>15. FilingReady(p, T)'
  BY <1>3, <1>4, <1>5, <1>7, <1>8, <1>9, <1>12 DEF FilingReady, Filings
<1>16. DropReady(p, T)'
  BY <1>8 DEF DropReady
<1>17. Told(p, T)'
  <2>1. T \cap Writes = {} /\ h \in Writes
    BY <1>4, <1>6, <1>8 DEF Writes
  <2>2. PICK N : N = Readers(p.row, assigned[p.cipher])
    OBVIOUS
  <2>3. N \subseteq usersWithCipherAccess(p.row, p.cipher)'
    BY <1>1, <1>5, <2>2, ReadersStillFound
  <2> QED
    BY <1>5, <1>6, <1>7, <1>8, <2>1, <2>2, <2>3, ToldOfWrite
<1> QED
  BY <1>1, <1>2, <1>5, <1>11, <1>13, <1>14, <1>15, <1>16, <1>17, GoesOnWith

\* The tables of items and organizations as they were.
LEMMA TablesStay ==
    ASSUME Calm, UNCHANGED <<orgs, members, collections, ciphers, assigned>>
    PROVE  Placed' /\ Owned' /\ Seated'
BY DEF Calm, Placed, Owned, Seated

\* moveToFolder: the mappings to take out and the one to put in come in between.
LEMMA MoveAlone ==
    ASSUME Inv, Calm, ~disturbed, NEW r \in Requests, Move(r)
    PROVE  Calm'
<1>1. PICK p : p = requests[r]
  OBVIOUS
<1>2. PICK T, rest : /\ T = statements(Rest(r)) /\ rest = Rest(r)
                     /\ T = statements(rest)
  OBVIOUS
<1>3. PICK h : h = "move" /\ h = Head(requests[r].todo)
  BY DEF Move, At
<1>4. /\ requests[r] # None
      /\ UNCHANGED <<orgs, members, collections, grants, ciphers, assigned, folders, unaware>>
  BY DEF Move, At, sharing, vault, filing
<1>5. /\ p \in Request /\ Steady(p) /\ statements(p.todo) = T \cup {h} /\ h \notin T
      /\ \A s \in T : Stage[h] < Stage[s]
      /\ T \subseteq Statement /\ rest \in Seq(Statement) /\ Lined(rest)
      /\ Together(T) /\ Together(T \cup {h})
  BY <1>1, <1>2, <1>3, <1>4, RunningAlone
<1>6. /\ ItemReady(p, T \cup {h}) /\ CollectionsReady(p, T \cup {h})
      /\ FilingReady(p, T \cup {h}) /\ DropReady(p, T \cup {h}) /\ Told(p, T \cup {h})
  BY <1>5 DEF Steady
<1>7. \A s \in T : 5 < Stage[s]
  <2>1. T \cap {"move", "unfile", "file"} = {}
    BY <1>3, <1>5 DEF Together
  <2>2. \A s \in Statement \ {"move", "unfile", "file"} : Stage[s] > 5 \/ Stage[s] < 3
    BY DEF Stage, Statement
  <2>3. Stage[h] = 3 /\ \A s \in Statement : Stage[s] \in Nat
    BY <1>3 DEF Stage, Statement
  <2> QED
    BY <1>5, <2>1, <2>2, <2>3
<1>8. PICK f \in Seq(Statement), S \in SUBSET Folders :
        /\ InOrder(f) /\ statements(f) \subseteq {"unfile", "file"}
        /\ Continue(r, [p EXCEPT !.from = S, !.todo = f \o rest])
  <2> DEFINE existing == {g \in OwnFolders(p.user) : <<p.cipher, g>> \in filed}
             first(S) == IF S = {} THEN <<>> ELSE <<"unfile">>
             last == IF p.folder = None THEN <<>> ELSE <<"file">>
  <2>1. existing \in SUBSET Folders
    BY DEF OwnFolders
  <2>2. /\ "unfile" \in Statement /\ "file" \in Statement
        /\ \A a \in {"unfile"}, b \in {"file"} : Stage[a] < Stage[b]
    BY Stages DEF Statement
  <2>3. /\ <<"unfile">> \in Seq(Statement) /\ InOrder(<<"unfile">>)
        /\ statements(<<"unfile">>) = {"unfile"}
        /\ <<"file">> \in Seq(Statement) /\ InOrder(<<"file">>)
        /\ statements(<<"file">>) = {"file"}
    BY <2>2, Single
  <2>4. \A S : /\ first(S) \in Seq(Statement) /\ InOrder(first(S))
               /\ statements(first(S)) \subseteq {"unfile"}
    BY <2>3, Empty
  <2>5. /\ last \in Seq(Statement) /\ InOrder(last) /\ statements(last) \subseteq {"file"}
    BY <2>3, Empty
  <2>6. \/ Continue(r, [p EXCEPT !.from = existing, !.todo = first(existing) \o last \o rest])
        \/ \E S \in SUBSET (existing \ {p.folder}) :
             Continue(r, [p EXCEPT !.from = S, !.todo = first(S) \o rest])
    BY <1>1, <1>2 DEF Move
  <2> HIDE DEF existing, first, last
  <2>7. CASE \E S \in SUBSET (existing \ {p.folder}) :
               Continue(r, [p EXCEPT !.from = S, !.todo = first(S) \o rest])
    <3>1. PICK S \in SUBSET (existing \ {p.folder}) :
            Continue(r, [p EXCEPT !.from = S, !.todo = first(S) \o rest])
      BY <2>7
    <3>2. statements(first(S)) \subseteq {"unfile", "file"} /\ S \in SUBSET Folders
      BY <2>1, <2>4
    <3> QED
      BY <2>4, <3>1, <3>2
  <2>8. CASE Continue(r, [p EXCEPT !.from = existing, !.todo = first(existing) \o last \o rest])
    <3> DEFINE f == first(existing) \o last
    <3>1. \A a \in statements(first(existing)), b \in statements(last) : Stage[a] < Stage[b]
      BY <2>2, <2>4, <2>5
    <3>2. /\ f \in Seq(Statement) /\ InOrder(f)
          /\ statements(f) = statements(first(existing)) \cup statements(last)
      BY <2>4, <2>5, <3>1, InOrderJoin
    <3>3. statements(f) \subseteq {"unfile", "file"}
      BY <2>4, <2>5, <3>2
    <3>4. Continue(r, [p EXCEPT !.from = existing, !.todo = f \o rest])
      BY <2>8
    <3> HIDE DEF f
    <3> QED
      BY <2>1, <3>2, <3>3, <3>4
  <2> QED
    BY <2>6, <2>7, <2>8
<1>9. PICK U : U = T \cup statements(f)
  OBVIOUS
<1>10. f \o rest \in Seq(Statement) /\ InOrder(f \o rest) /\ statements(f \o rest) = U
  <2>1. \A a \in {"unfile", "file"} : Stage[a] \in 4..5
    BY Stages
  <2>2. \A s \in T : Stage[s] \in Nat
    BY <1>5 DEF Stage, Statement
  <2>3. \A a \in statements(f), b \in statements(rest) : Stage[a] < Stage[b]
    BY <1>2, <1>7, <1>8, <2>1, <2>2
  <2>4. InOrder(rest)
    BY <1>5 DEF Lined
  <2> QED
    BY <1>2, <1>5, <1>8, <1>9, <2>3, <2>4, InOrderJoin
<1>11. PICK n : n = [p EXCEPT !.from = S, !.todo = f \o rest]
  OBVIOUS
<1>12. /\ n \in Request /\ n.row = p.row /\ n.cipher = p.cipher /\ n.folder = p.folder
       /\ n.user = p.user /\ n.add = p.add /\ n.todo = f \o rest
  BY <1>5, <1>8, <1>10, <1>11 DEF Request
<1>13. \A s : s \notin {"move", "unfile", "file"} => (s \in U <=> s \in T \cup {h})
  BY <1>3, <1>8, <1>9
<1>14. "move" \notin U /\ "move" \in T \cup {h}
  BY <1>3, <1>5, <1>8, <1>9
<1>15. Together(U)
  BY <1>5, <1>13, <1>14 DEF Together, Writes
<1>16. /\ ItemReady(n, U)' /\ CollectionsReady(n, U)'
       /\ FilingReady(n, U)' /\ DropReady(n, U)'
  <2>1. /\ \A s \in {"upsert", "valid", "newCollection", "newFolder", "dropCiphers"} :
             s \in U <=> s \in T \cup {h}
        /\ \A s \in {"assign", "diff", "dropOrg"} : s \in U => s \in T \cup {h}
        /\ (T \cup {h}) \cap Filings # {}
    BY <1>13, <1>14 DEF Filings
  <2> QED
    BY <1>4, <1>6, <1>12, <2>1, StaysReady
<1>17. Told(n, U)'
  <2>1. \A s \in {"bump", "touch", "assign"} \cup Writes : s \in U <=> s \in T \cup {h}
    BY <1>13 DEF Writes
  <2> QED
    BY <1>4, <1>6, <1>12, <2>1, StillTold
<1>18. Continue(r, n) /\ U = statements(n.todo) /\ Lined(n.todo)
  BY <1>8, <1>10, <1>11, <1>12, <1>15 DEF Lined
<1>19. Placed' /\ Owned' /\ Seated'
  BY <1>4, TablesStay
<1> QED
  BY <1>1, <1>4, <1>12, <1>16, <1>17, <1>18, <1>19, ContinuesWith

\* A statement that leaves those tables, and with less to do.
LEMMA PassesOn ==
    ASSUME Inv, Calm, NEW r \in Requests, requests[r] # None,
           NEW h, h = Head(requests[r].todo),
           h \notin {"upsert", "valid", "newCollection", "newFolder", "dropCiphers"},
           UNCHANGED <<orgs, members, collections, grants, ciphers, assigned, folders>>,
           NEW n \in Request, Continue(r, n), n.todo = Rest(r), n.row = requests[r].row,
           n.cipher = requests[r].cipher, n.folder = requests[r].folder,
           \A k \in n.add : k \in requests[r].add,
           NEW T, T = statements(Rest(r)), Told(n, T)'
    PROVE  Calm'
<1>1. PICK p : p = requests[r]
  OBVIOUS
<1>2. T = statements(n.todo)
  OBVIOUS
<1>3. /\ p \in Request /\ Steady(p) /\ statements(p.todo) = T \cup {h}
      /\ Lined(n.todo)
  BY <1>1, RunningAlone
<1>4. /\ ItemReady(p, T \cup {h}) /\ CollectionsReady(p, T \cup {h})
      /\ FilingReady(p, T \cup {h}) /\ DropReady(p, T \cup {h})
  BY <1>3 DEF Steady
<1>5. /\ ItemReady(n, T)' /\ CollectionsReady(n, T)'
      /\ FilingReady(n, T)' /\ DropReady(n, T)'
  <2>1. /\ \A s \in {"upsert", "valid", "newCollection", "newFolder", "dropCiphers"} :
             s \in T <=> s \in T \cup {h}
        /\ \A s \in {"assign", "diff", "dropOrg"} : s \in T => s \in T \cup {h}
        /\ T \cap Filings # {} => (T \cup {h}) \cap Filings # {}
    OBVIOUS
  <2> QED
    BY <1>1, <1>4, <2>1, StaysReady
<1>6. Placed' /\ Owned' /\ Seated'
  BY TablesStay
<1> QED
  BY <1>1, <1>2, <1>3, <1>5, <1>6, ContinuesWith

\* What PassesOn needs of a statement that drops itself.
LEMMA GoneOn ==
    ASSUME Inv, NEW r \in Requests, requests[r] # None, Go(r)
    PROVE  \E n \in Request :
             /\ Continue(r, n) /\ n.todo = Rest(r) /\ n.row = requests[r].row
             /\ n.cipher = requests[r].cipher /\ n.folder = requests[r].folder
             /\ n.user = requests[r].user
             /\ \A k \in n.add : k \in requests[r].add
<1>1. PICK p : p = requests[r]
  OBVIOUS
<1>2. p \in Request /\ Rest(r) \in Seq(Statement)
  BY <1>1, Running
<1>3. PICK n : n = [p EXCEPT !.todo = Rest(r)]
  OBVIOUS
<1>4. /\ n \in Request /\ n.todo = Rest(r) /\ n.row = p.row /\ n.cipher = p.cipher
      /\ n.folder = p.folder /\ n.user = p.user /\ n.add = p.add
  BY <1>2, <1>3 DEF Request
<1>5. Continue(r, n)
  BY <1>1, <1>3 DEF Go
<1> QED
  BY <1>1, <1>4, <1>5

\* The mappings of folders_ciphers go, or one comes: a request alone finds its
\* item and its folder.
LEMMA FilingAlone ==
    ASSUME Inv, Calm, ~disturbed, NEW r \in Requests, Unfile(r) \/ File(r)
    PROVE  Calm'
<1>1. PICK p : p = requests[r]
  OBVIOUS
<1>2. PICK T : T = statements(Rest(r))
  OBVIOUS
<1>3. PICK h \in {"unfile", "file"} : h = Head(requests[r].todo)
  BY DEF Unfile, File, At
<1>4. /\ requests[r] # None
      /\ UNCHANGED <<orgs, members, collections, grants, ciphers, assigned, folders, unaware>>
  BY DEF Unfile, File, At, sharing, vault
<1>5. /\ p \in Request /\ Steady(p) /\ statements(p.todo) = T \cup {h} /\ h \notin T
      /\ \A s \in T : Stage[h] < Stage[s]
  BY <1>1, <1>2, <1>3, <1>4, RunningAlone
<1>6. Told(p, T \cup {h}) /\ FilingReady(p, T \cup {h})
  BY <1>5 DEF Steady
<1>7. PICK n \in Request :
        /\ Continue(r, n) /\ n.todo = Rest(r) /\ n.row = p.row
        /\ n.cipher = p.cipher /\ n.folder = p.folder /\ n.user = p.user
        /\ \A k \in n.add : k \in p.add
  <2>1. CASE Unfile(r)
    <3>1. PICK n : n = [p EXCEPT !.from = {}, !.todo = Rest(r)]
      OBVIOUS
    <3>2. Rest(r) \in Seq(Statement)
      BY <1>4, Running
    <3>3. /\ n \in Request /\ n.todo = Rest(r) /\ n.row = p.row /\ n.cipher = p.cipher
          /\ n.folder = p.folder /\ n.user = p.user /\ n.add = p.add
      BY <1>5, <3>1, <3>2 DEF Request
    <3>4. Continue(r, n)
      BY <1>1, <2>1, <3>1 DEF Unfile
    <3> QED
      BY <3>3, <3>4
  <2>2. CASE File(r)
    <3>1. Held(p) /\ Head(p.todo) = "file"
      BY <1>1, <1>4, <2>2, Running DEF File, At
    <3>2. p.cipher \in Ciphers /\ p.folder \in Folders
      BY <1>5, <3>1, FilingHeld
    <3>3. h = "file"
      BY <1>1, <1>3, <3>1
    <3>4. "upsert" \notin T \cup {h} /\ "newFolder" \notin T \cup {h}
      BY <1>5, <3>3, Stages
    <3>5. p.folder # None
      BY <3>2, NoneAssumption
    <3>6. ciphers[p.cipher] # None /\ folders[p.folder] # None
      BY <1>6, <3>2, <3>3, <3>4, <3>5 DEF FilingReady, Filings
    <3>7. Go(r)
      BY <1>1, <2>2, <3>6 DEF File
    <3> QED
      BY <1>1, <1>4, <3>7, GoneOn
  <2> QED
    BY <2>1, <2>2
<1>8. Told(n, T)'
  <2>1. \A s \in {"bump", "touch", "assign"} \cup Writes : s \in T <=> s \in T \cup {h}
    BY DEF Writes
  <2> QED
    BY <1>4, <1>6, <1>7, <2>1, StillTold
<1>9. h \notin {"upsert", "valid", "newCollection", "newFolder", "dropCiphers"}
  OBVIOUS
<1> QED
  BY <1>1, <1>2, <1>3, <1>4, <1>7, <1>8, <1>9, PassesOn

\* The ones that tell users.
LEMMA BumpAlone ==
    ASSUME Inv, Calm, ~disturbed, NEW r \in Requests, Bump(r)
    PROVE  Calm'
<1>1. PICK p : p = requests[r]
  OBVIOUS
<1>2. PICK T : T = statements(Rest(r))
  OBVIOUS
<1>3. PICK h : h = "bump" /\ h = Head(requests[r].todo)
  BY DEF Bump, At
<1>4. /\ requests[r] # None /\ Go(r)
      /\ unaware' = unaware \ usersWithCipherAccess(p.row, p.cipher)
      /\ UNCHANGED <<orgs, members, collections, grants, ciphers, assigned, folders>>
  BY <1>1 DEF Bump, At, sharing, vault, filing
<1>5. /\ p \in Request /\ Steady(p) /\ statements(p.todo) = T \cup {h}
  BY <1>1, <1>2, <1>3, <1>4, RunningAlone
<1>6. Told(p, T \cup {h})
  BY <1>5 DEF Steady
<1>7. PICK n \in Request :
        /\ Continue(r, n) /\ n.todo = Rest(r) /\ n.row = p.row
        /\ n.cipher = p.cipher /\ n.folder = p.folder /\ n.user = p.user
        /\ \A k \in n.add : k \in p.add
  BY <1>1, <1>4, GoneOn
<1>8. Told(n, T)'
  BY <1>3, <1>4, <1>6, <1>7 DEF Told
<1>9. h \notin {"upsert", "valid", "newCollection", "newFolder", "dropCiphers"}
  BY <1>3
<1> QED
  BY <1>1, <1>2, <1>3, <1>4, <1>7, <1>8, <1>9, PassesOn

LEMMA TouchAlone ==
    ASSUME Inv, Calm, ~disturbed, NEW r \in Requests, touchUser(r)
    PROVE  Calm'
<1>1. PICK p : p = requests[r]
  OBVIOUS
<1>2. PICK T : T = statements(Rest(r))
  OBVIOUS
<1>3. PICK h : h = "touch" /\ h = Head(requests[r].todo)
  BY DEF touchUser, At
<1>4. /\ requests[r] # None /\ Go(r)
      /\ unaware' = unaware \ {p.user}
      /\ UNCHANGED <<orgs, members, collections, grants, ciphers, assigned, folders>>
  BY <1>1 DEF touchUser, At, sharing, vault, filing
<1>5. /\ p \in Request /\ Steady(p) /\ statements(p.todo) = T \cup {h}
      /\ T \subseteq Statement /\ \A s \in T : Stage[h] < Stage[s]
  BY <1>1, <1>2, <1>3, <1>4, RunningAlone
<1>6. Told(p, T \cup {h})
  BY <1>5 DEF Steady
<1>7. PICK n \in Request :
        /\ Continue(r, n) /\ n.todo = Rest(r) /\ n.row = p.row
        /\ n.cipher = p.cipher /\ n.folder = p.folder /\ n.user = p.user
        /\ \A k \in n.add : k \in p.add
  BY <1>1, <1>4, GoneOn
<1>8. Told(n, T)'
  <2>1. "bump" \notin T \cup {h}
    BY <1>3, <1>5, Stages
  <2>2. unaware \subseteq {p.user}
    BY <1>6, <2>1 DEF Told
  <2>3. unaware' = {}
    BY <1>4, <2>2
  <2> QED
    BY <2>3 DEF Told
<1>9. h \notin {"upsert", "valid", "newCollection", "newFolder", "dropCiphers"}
  BY <1>3
<1> QED
  BY <1>1, <1>2, <1>3, <1>4, <1>7, <1>8, <1>9, PassesOn

\* The collections of an item.
LEMMA ValidAlone ==
    ASSUME Inv, Calm, ~disturbed, NEW r \in Requests, Valid(r)
    PROVE  Calm'
<1>1. PICK p : p = requests[r]
  OBVIOUS
<1>2. PICK T : T = statements(Rest(r))
  OBVIOUS
<1>3. PICK h : h = "valid" /\ h = Head(requests[r].todo)
  BY DEF Valid, At
<1>4. PICK n : n = [p EXCEPT !.add = validCollections(p.add, p.row.org), !.todo = Rest(r)]
  OBVIOUS
<1>5. /\ requests[r] # None /\ Continue(r, n)
      /\ UNCHANGED <<orgs, members, collections, grants, ciphers, assigned, folders, unaware>>
  BY <1>1, <1>4 DEF Valid, At, sharing, vault, filing
<1>6. /\ p \in Request /\ Steady(p) /\ statements(p.todo) = T \cup {h} /\ h \notin T
      /\ \A s \in T : Stage[h] < Stage[s]
      /\ Lined(Rest(r)) /\ Rest(r) \in Seq(Statement)
  BY <1>1, <1>2, <1>3, <1>5, RunningAlone
<1>7. /\ ItemReady(p, T \cup {h}) /\ FilingReady(p, T \cup {h})
      /\ DropReady(p, T \cup {h}) /\ Told(p, T \cup {h})
  BY <1>6 DEF Steady
<1>8. /\ n \in Request /\ n.todo = Rest(r) /\ n.row = p.row /\ n.cipher = p.cipher
      /\ n.folder = p.folder /\ n.user = p.user
      /\ n.add = validCollections(p.add, p.row.org)
  <2>1. validCollections(p.add, p.row.org) \in SUBSET Collections
    BY <1>6 DEF validCollections, Request
  <2> QED
    BY <1>4, <1>6, <2>1 DEF Request
<1>9. "newCollection" \notin T /\ "bump" \notin T \cup {h}
  BY <1>3, <1>6, Stages
<1>10. CollectionsReady(n, T)'
  BY <1>5, <1>8, <1>9 DEF CollectionsReady, validCollections
<1>11. ItemReady(n, T)'
  BY <1>3, <1>5, <1>7, <1>8 DEF ItemReady
<1>12. FilingReady(n, T)'
  BY <1>3, <1>5, <1>7, <1>8 DEF FilingReady
<1>13. DropReady(n, T)'
  BY <1>3, <1>5, <1>7, <1>8 DEF DropReady, ofOrganization
<1>14. Told(n, T)'
  BY <1>3, <1>5, <1>7, <1>8, <1>9, StillToldNoBump
<1>15. Placed' /\ Owned' /\ Seated'
  BY <1>5, TablesStay
<1> QED
  BY <1>1, <1>2, <1>5, <1>6, <1>8, <1>10, <1>11, <1>12, <1>13, <1>14, <1>15, ContinuesWith

\* Whatever becomes of an item's collections, when those it gets are of the
\* organization the item is in.
LEMMA AssigningPlaces ==
    ASSUME Inv, Calm, NEW c, NEW S,
           UNCHANGED <<orgs, members, collections, ciphers>>,
           assigned' = [assigned EXCEPT ![c] = S],
           \A k \in S : \/ k \in assigned[c]
                        \/ /\ c \in Ciphers => ciphers[c] # None
                           /\ collections[k] # None
                           /\ c \in Ciphers => collections[k] = ciphers[c].org
    PROVE  Placed' /\ Owned' /\ Seated'
<1>1. assigned \in [Ciphers -> SUBSET Collections]
  BY InvParts DEF TablesOK
<1>2. Owned' /\ Seated'
  BY DEF Calm, Owned, Seated
<1>3. \A d \in Ciphers : assigned'[d] = IF d = c THEN S ELSE assigned[d]
  BY <1>1
<1>4. Placed'
  BY <1>3 DEF Calm, Placed
<1> QED
  BY <1>2, <1>4

\* A request alone, at a statement on collections, finds those it adds made and
\* of its item's organization.
LEMMA AssignAlone ==
    ASSUME Inv, Calm, ~disturbed, NEW r \in Requests, Assign(r)
    PROVE  Calm'
<1>1. PICK p : p = requests[r]
  OBVIOUS
<1>2. PICK T : T = statements(Rest(r))
  OBVIOUS
<1>3. PICK h : h = "assign" /\ h = Head(requests[r].todo)
  BY DEF Assign, At
<1>4. /\ requests[r] # None
      /\ UNCHANGED <<orgs, members, collections, grants, ciphers, folders, unaware>>
  BY DEF Assign, At, sharing, filing
<1>5. /\ p \in Request /\ Steady(p) /\ statements(p.todo) = T \cup {h} /\ h \notin T
      /\ \A s \in T : Stage[h] < Stage[s]
  BY <1>1, <1>2, <1>3, <1>4, RunningAlone
<1>6. PICK S : S = T \cup {h}
  OBVIOUS
<1>7. /\ ItemReady(p, S) /\ CollectionsReady(p, S) /\ FilingReady(p, S)
      /\ DropReady(p, S) /\ Told(p, S) /\ Lined(p.todo)
  BY <1>5, <1>6 DEF Steady
<1>8. /\ "upsert" \notin S /\ "valid" \notin S /\ "newCollection" \notin S
      /\ "bump" \notin S /\ "assign" \in S
  BY <1>3, <1>5, <1>6, Stages
<1>9. unaware = {}
  BY <1>7, <1>8 DEF Told
<1>10. CASE p.add = {}
  <2>1. Go(r) /\ UNCHANGED assigned
    BY <1>1, <1>10 DEF Assign
  <2>2. PICK n \in Request :
          /\ Continue(r, n) /\ n.todo = Rest(r) /\ n.row = p.row
          /\ n.cipher = p.cipher /\ n.folder = p.folder /\ n.user = p.user
          /\ \A k \in n.add : k \in p.add
    BY <1>1, <1>4, <2>1, GoneOn
  <2>3. Told(n, T)'
    BY <1>4, <1>9 DEF Told
  <2>4. h \notin {"upsert", "valid", "newCollection", "newFolder", "dropCiphers"}
    BY <1>3
  <2> QED
    BY <1>1, <1>2, <1>3, <1>4, <2>1, <2>2, <2>3, <2>4, PassesOn
<1>11. ASSUME NEW k \in p.add,
              IF ciphers[p.cipher] # None /\ collections[k] # None
              THEN /\ assigned' = [assigned EXCEPT ![p.cipher] = @ \cup {k}]
                   /\ Continue(r, [p EXCEPT !.add = @ \ {k}])
              ELSE Done(r) /\ UNCHANGED assigned
       PROVE  Calm'
  <2>1. CASE ~(ciphers[p.cipher] # None /\ collections[k] # None)
    <3>1. Done(r) /\ UNCHANGED assigned
      BY <1>11, <2>1
    <3>2. Placed' /\ Owned' /\ Seated' /\ unaware' = {}
      BY <1>4, <1>9, <3>1, TablesStay
    <3> QED
      BY <1>4, <3>1, <3>2, Stops
  <2>2. CASE ciphers[p.cipher] # None /\ collections[k] # None
    <3>1. PICK n : n = [p EXCEPT !.add = p.add \ {k}]
      OBVIOUS
    <3>2. /\ assigned' = [assigned EXCEPT ![p.cipher] = assigned[p.cipher] \cup {k}]
          /\ Continue(r, n)
      BY <1>11, <2>2, <3>1
    <3>3. /\ n \in Request /\ n.todo = p.todo /\ n.row = p.row /\ n.cipher = p.cipher
          /\ n.folder = p.folder /\ n.user = p.user /\ n.add = p.add \ {k}
      BY <1>5, <3>1 DEF Request
    <3>4. collections[k] = p.row.org
      BY <1>7, <1>8 DEF CollectionsReady
    <3>5. p.cipher \in Ciphers => ciphers[p.cipher].org = p.row.org
      BY <1>7, <1>8, <2>2 DEF ItemReady
    <3>6. Placed' /\ Owned' /\ Seated'
      <4>1. PICK B : B = assigned[p.cipher] \cup {k}
        OBVIOUS
      <4>2. assigned' = [assigned EXCEPT ![p.cipher] = B]
        BY <3>2, <4>1
      <4>3. \A j \in B : \/ j \in assigned[p.cipher]
                         \/ /\ p.cipher \in Ciphers => ciphers[p.cipher] # None
                            /\ collections[j] # None
                            /\ p.cipher \in Ciphers => collections[j] = ciphers[p.cipher].org
        BY <2>2, <3>4, <3>5, <4>1
      <4> QED
        BY <1>4, <4>2, <4>3, AssigningPlaces
    <3>7. /\ ItemReady(n, S)' /\ CollectionsReady(n, S)'
          /\ FilingReady(n, S)' /\ DropReady(n, S)'
      <4>1. \A j \in n.add : j \in p.add
        BY <3>3
      <4> QED
        BY <1>4, <1>7, <1>8, <3>3, <4>1, StaysReady
    <3>8. Told(n, S)'
      BY <1>4, <1>9 DEF Told
    <3>9. S = statements(n.todo) /\ Lined(n.todo)
      BY <1>5, <1>6, <1>7, <3>3
    <3> QED
      BY <1>1, <1>4, <3>2, <3>3, <3>6, <3>7, <3>8, <3>9, ContinuesWith
  <2> QED
    BY <2>1, <2>2
<1> QED
  BY <1>1, <1>10, <1>11 DEF Assign

LEMMA UnassignAlone ==
    ASSUME Inv, Calm, ~disturbed, NEW r \in Requests, Unassign(r)
    PROVE  Calm'
<1>1. PICK p : p = requests[r]
  OBVIOUS
<1>2. PICK T : T = statements(Rest(r))
  OBVIOUS
<1>3. PICK h : h = "unassign" /\ h = Head(requests[r].todo)
  BY DEF Unassign, At
<1>4. PICK n : n = [p EXCEPT !.gone = {}, !.todo = Rest(r)]
  OBVIOUS
<1>5. /\ requests[r] # None /\ Continue(r, n)
      /\ assigned' = [assigned EXCEPT ![p.cipher] = assigned[p.cipher] \ p.gone]
      /\ UNCHANGED <<orgs, members, collections, grants, ciphers, folders, unaware>>
  BY <1>1, <1>4 DEF Unassign, At, sharing, filing
<1>6. /\ p \in Request /\ Steady(p) /\ statements(p.todo) = T \cup {h} /\ h \notin T
      /\ \A s \in T : Stage[h] < Stage[s]
      /\ Lined(Rest(r)) /\ Rest(r) \in Seq(Statement)
  BY <1>1, <1>2, <1>3, <1>5, RunningAlone
<1>7. /\ ItemReady(p, T \cup {h}) /\ CollectionsReady(p, T \cup {h})
      /\ FilingReady(p, T \cup {h}) /\ DropReady(p, T \cup {h}) /\ Told(p, T \cup {h})
  BY <1>6 DEF Steady
<1>8. /\ n \in Request /\ n.todo = Rest(r) /\ n.row = p.row /\ n.cipher = p.cipher
      /\ n.folder = p.folder /\ n.user = p.user /\ n.add = p.add
  BY <1>4, <1>6 DEF Request
<1>9. "upsert" \notin T /\ "bump" \notin T \cup {h}
  BY <1>3, <1>6, Stages
<1>10. Placed' /\ Owned' /\ Seated'
  BY <1>5, AssigningPlaces
<1>11. /\ ItemReady(n, T)' /\ CollectionsReady(n, T)'
       /\ FilingReady(n, T)' /\ DropReady(n, T)'
  <2>1. /\ \A s \in {"upsert", "valid", "newCollection", "newFolder", "dropCiphers"} :
             s \in T <=> s \in T \cup {h}
        /\ \A s \in {"assign", "diff", "dropOrg"} : s \in T => s \in T \cup {h}
        /\ T \cap Filings # {} => (T \cup {h}) \cap Filings # {}
    BY <1>3
  <2> QED
    BY <1>5, <1>7, <1>8, <1>9, <2>1, StaysReady
<1>12. Told(n, T)'
  BY <1>3, <1>5, <1>7, <1>8, <1>9, StillToldNoBump
<1> QED
  BY <1>1, <1>2, <1>5, <1>6, <1>8, <1>10, <1>11, <1>12, ContinuesWith

LEMMA DiffAlone ==
    ASSUME Inv, Calm, ~disturbed, NEW r \in Requests, Diff(r)
    PROVE  Calm'
<1>1. PICK p : p = requests[r]
  OBVIOUS
<1>2. PICK T : T = statements(Rest(r))
  OBVIOUS
<1>3. PICK h : h = "diff" /\ h = Head(requests[r].todo)
  BY DEF Diff, At
<1>4. /\ requests[r] # None
      /\ UNCHANGED <<orgs, members, collections, grants, ciphers, folders>>
  BY DEF Diff, At, sharing, filing
<1>5. /\ p \in Request /\ Steady(p) /\ statements(p.todo) = T \cup {h} /\ h \notin T
      /\ \A s \in T : Stage[h] < Stage[s]
  BY <1>1, <1>2, <1>3, <1>4, RunningAlone
<1>6. PICK S : S = T \cup {h}
  OBVIOUS
<1>7. /\ ItemReady(p, S) /\ CollectionsReady(p, S) /\ FilingReady(p, S)
      /\ DropReady(p, S) /\ Told(p, S) /\ Lined(p.todo)
  BY <1>5, <1>6 DEF Steady
<1>8. "upsert" \notin S /\ "diff" \in S /\ S \cap Writes # {}
  BY <1>3, <1>5, <1>6, Stages DEF Writes
<1>9. CASE p.add \cup p.gone = {}
  <2>1. /\ Go(r) /\ UNCHANGED assigned
        /\ unaware' = unaware \cup Readers(p.row, assigned[p.cipher])
    BY <1>1, <1>9 DEF Diff, Change
  <2>2. PICK n \in Request :
          /\ Continue(r, n) /\ n.todo = Rest(r) /\ n.row = p.row
          /\ n.cipher = p.cipher /\ n.folder = p.folder /\ n.user = p.user
          /\ \A k \in n.add : k \in p.add
    BY <1>1, <1>4, <2>1, GoneOn
  <2>3. "bump" \in T /\ T \cap Writes = {} /\ h \in Writes
    BY <1>3, <1>5, <1>6, <1>7, Stages DEF Together, Writes, Lined
  <2>a. PICK N : N = Readers(p.row, assigned[p.cipher])
    OBVIOUS
  <2>b. N \subseteq usersWithCipherAccess(p.row, p.cipher)'
    BY <1>1, <1>4, <2>1, <2>a, ReadersStillFound
  <2>c. Told(p, T)'
    BY <1>4, <1>5, <1>6, <1>7, <2>1, <2>3, <2>a, <2>b, ToldOfWrite
  <2>4. Told(n, T)'
    BY <2>2, <2>c DEF Told
  <2>5. h \notin {"upsert", "valid", "newCollection", "newFolder", "dropCiphers"}
    BY <1>3
  <2> QED
    BY <1>1, <1>2, <1>3, <1>4, <2>1, <2>2, <2>4, <2>5, PassesOn
<1>10. ASSUME NEW k \in p.add \cup p.gone,
              NEW A, A = assigned[p.cipher], NEW B,
              B = (IF ~(ciphers[p.cipher] # None /\ collections[k] = p.row.org) THEN A
                   ELSE IF k \in p.add THEN A \cup {k} ELSE A \ {k}),
              assigned' = [assigned EXCEPT ![p.cipher] = B],
              Continue(r, [p EXCEPT !.add = p.add \ {k}, !.gone = p.gone \ {k}]),
              UNCHANGED unaware
       PROVE  Calm'
  <2>1. PICK n : n = [p EXCEPT !.add = p.add \ {k}, !.gone = p.gone \ {k}]
    OBVIOUS
  <2>2. Continue(r, n)
    BY <1>10, <2>1
  <2>3. /\ n \in Request /\ n.todo = p.todo /\ n.row = p.row /\ n.cipher = p.cipher
        /\ n.folder = p.folder /\ n.user = p.user /\ n.add = p.add \ {k}
    BY <1>5, <2>1 DEF Request
  <2>4. p.row.org # None
    BY <1>7, <1>8 DEF ItemReady
  <2>5. p.cipher \in Ciphers /\ ciphers[p.cipher] # None => ciphers[p.cipher].org = p.row.org
    BY <1>7, <1>8 DEF ItemReady
  <2>6. \A j \in B : \/ j \in A
                     \/ ciphers[p.cipher] # None /\ collections[j] = p.row.org
    BY <1>10
  <2>7. Placed' /\ Owned' /\ Seated'
    <3>1. \A j \in B : \/ j \in assigned[p.cipher]
                       \/ /\ p.cipher \in Ciphers => ciphers[p.cipher] # None
                          /\ collections[j] # None
                          /\ p.cipher \in Ciphers => collections[j] = ciphers[p.cipher].org
      BY <1>10, <2>4, <2>5, <2>6
    <3> QED
      BY <1>4, <1>10, <3>1, AssigningPlaces
  <2>8. /\ ItemReady(n, S)' /\ CollectionsReady(n, S)'
        /\ FilingReady(n, S)' /\ DropReady(n, S)'
    <3>1. \A j \in n.add : j \in p.add
      BY <2>3
    <3> QED
      BY <1>4, <1>7, <1>8, <2>3, <3>1, StaysReady
  <2>9. Told(n, S)'
    BY <1>7, <1>8, <1>10, <2>3, StillToldNoBump
  <2>10. S = statements(n.todo) /\ Lined(n.todo)
    BY <1>5, <1>6, <1>7, <2>3
  <2> QED
    BY <1>1, <1>4, <2>2, <2>3, <2>7, <2>8, <2>9, <2>10, ContinuesWith
<1>11. ASSUME p.add \cup p.gone # {} PROVE Calm'
  <2>1. PICK k \in p.add \cup p.gone :
          /\ assigned' =
               [assigned EXCEPT ![p.cipher] =
                  IF ~(ciphers[p.cipher] # None /\ collections[k] = p.row.org) THEN @
                  ELSE IF k \in p.add THEN @ \cup {k} ELSE @ \ {k}]
          /\ Continue(r, [p EXCEPT !.add = @ \ {k}, !.gone = @ \ {k}])
          /\ UNCHANGED unaware
    BY <1>1, <1>11 DEF Diff
  <2>2. PICK A : A = assigned[p.cipher]
    OBVIOUS
  <2>3. PICK B : B = (IF ~(ciphers[p.cipher] # None /\ collections[k] = p.row.org) THEN A
                      ELSE IF k \in p.add THEN A \cup {k} ELSE A \ {k})
    OBVIOUS
  <2>4. /\ assigned' = [assigned EXCEPT ![p.cipher] = B]
        /\ Continue(r, [p EXCEPT !.add = p.add \ {k}, !.gone = p.gone \ {k}])
        /\ UNCHANGED unaware
    BY <2>1, <2>2, <2>3
  <2> QED
    BY <1>10, <2>2, <2>3, <2>4
<1> QED
  BY <1>9, <1>11

\* An item goes to the trash, or comes back.
LEMMA SetDeletedAlone ==
    ASSUME Inv, Calm, ~disturbed, NEW r \in Requests, Trash(r) \/ Untrash(r)
    PROVE  Calm'
<1>1. PICK p : p = requests[r]
  OBVIOUS
<1>2. PICK T : T = statements(Rest(r))
  OBVIOUS
<1>3. PICK h \in {"trash", "untrash"}, deleted \in BOOLEAN : SetDeleted(r, h, deleted)
  BY DEF Trash, Untrash
<1>4. PICK c : c = p.cipher
  OBVIOUS
<1>5. h = Head(requests[r].todo)
  BY <1>3 DEF SetDeleted, At
<1>6. /\ requests[r] # None /\ Go(r)
      /\ ciphers' = IF ciphers[c] = None THEN ciphers
                    ELSE [ciphers EXCEPT ![c].deleted = deleted]
      /\ unaware' = unaware \cup Readers(p.row, assigned[p.cipher])
      /\ UNCHANGED <<orgs, members, collections, grants, assigned, folders>>
  BY <1>1, <1>3, <1>4 DEF SetDeleted, At, Change, sharing, filing
<1>7. /\ p \in Request /\ Steady(p) /\ statements(p.todo) = T \cup {h} /\ h \notin T
      /\ \A s \in T : Stage[h] < Stage[s]
      /\ Together(T \cup {h})
  BY <1>1, <1>2, <1>5, <1>6, RunningAlone
<1>8. /\ ItemReady(p, T \cup {h}) /\ CollectionsReady(p, T \cup {h})
      /\ DropReady(p, T \cup {h}) /\ Told(p, T \cup {h})
  BY <1>7 DEF Steady
<1>9. \A d \in Ciphers :
        /\ ciphers'[d] = None <=> ciphers[d] = None
        /\ ciphers[d] # None => ciphers'[d].org = ciphers[d].org
  <2>1. ASSUME NEW d \in Ciphers, ciphers[d] # None
        PROVE  ciphers'[d] # None /\ ciphers'[d].org = ciphers[d].org
    <3>1. ciphers[d] \in Cipher
      BY <2>1, ReadRow
    <3>2. PICK y : y = [ciphers[d] EXCEPT !.deleted = deleted]
      OBVIOUS
    <3>3. y \in Cipher /\ y.org = ciphers[d].org
      BY <3>1, <3>2 DEF Cipher
    <3>4. ciphers'[d] \in {ciphers[d], y}
      BY <1>6, <3>2, InvParts DEF Rows
    <3> QED
      BY <2>1, <3>3, <3>4, NoneAssumption
  <2>2. \A d \in Ciphers : ciphers[d] = None => ciphers'[d] = None
    BY <1>6, InvParts DEF Rows
  <2> QED
    BY <2>1, <2>2
<1>10. Placed' /\ Owned' /\ Seated'
  BY <1>6, <1>9 DEF Calm, Placed, Owned, Seated
<1>11. /\ "upsert" \notin T /\ "diff" \notin T /\ "trash" \notin T /\ "untrash" \notin T
       /\ "delete" \notin T /\ "bump" \in T /\ T \cap Filings = {}
       /\ "newCollection" \notin T /\ "newFolder" \notin T /\ "upsert" \notin T \cup {h}
  <2>1. "bump" \in T \cup {h}
    BY <1>7 DEF Together, Writes
  <2>2. Stage[h] = 6
    BY Stages
  <2> QED
    BY <1>7, <2>1, <2>2, Stages DEF Filings
<1>12. ItemReady(p, T)'
  BY <1>8, <1>9, <1>11 DEF ItemReady
<1>13. CollectionsReady(p, T)'
  BY <1>6, <1>8, <1>11 DEF CollectionsReady
<1>14. FilingReady(p, T)'
  BY <1>11 DEF FilingReady
<1>15. DropReady(p, T)'
  BY <1>8, <1>9 DEF DropReady, ofOrganization
<1>16. Told(p, T)'
  <2>1. T \cap Writes = {} /\ h \in Writes
    BY <1>11 DEF Writes
  <2>2. PICK N : N = Readers(p.row, assigned[p.cipher])
    OBVIOUS
  <2>3. N \subseteq usersWithCipherAccess(p.row, p.cipher)'
    BY <1>1, <1>6, <2>2, ReadersStillFound
  <2> QED
    BY <1>6, <1>7, <1>8, <1>11, <2>1, <2>2, <2>3, ToldOfWrite
<1> QED
  BY <1>1, <1>2, <1>6, <1>10, <1>12, <1>13, <1>14, <1>15, <1>16, GoesOnWith

\* Rows of items go, and with them what they are in.
LEMMA DeletePlaces ==
    ASSUME Inv, Calm, NEW S, Delete(S), UNCHANGED <<orgs, members, collections>>
    PROVE  Placed' /\ Owned' /\ Seated'
<1>1. \A d \in Ciphers :
        /\ ciphers'[d] = IF d \in S THEN None ELSE ciphers[d]
        /\ assigned'[d] = IF d \in S THEN {} ELSE assigned[d]
  BY DEF Delete
<1> QED
  BY <1>1 DEF Calm, Placed, Owned, Seated

LEMMA DeleteReady ==
    ASSUME NEW p, NEW h, NEW T, NEW S, Delete(S), UNCHANGED <<orgs, collections>>,
           h \in {"delete", "dropCiphers"}, h \notin T,
           T \cap {"upsert", "move", "unfile", "file", "newCollection", "valid"} = {}
             \/ T \cap {"upsert", "move", "unfile", "file", "newCollection"} = {},
           ItemReady(p, T \cup {h}), CollectionsReady(p, T \cup {h})
    PROVE  ItemReady(p, T)' /\ CollectionsReady(p, T)' /\ FilingReady(p, T)'
<1>1. \A d \in Ciphers : ciphers'[d] # None => ciphers'[d] = ciphers[d]
  BY DEF Delete
<1>2. ItemReady(p, T)'
  BY <1>1 DEF ItemReady
<1>3. CollectionsReady(p, T)'
  BY DEF CollectionsReady
<1>4. FilingReady(p, T)'
  BY DEF FilingReady, Filings
<1> QED
  BY <1>2, <1>3, <1>4

\* deleteCipher: who reads the item without a collection, whom its bump still
\* finds.
LEMMA DeleteCipherAlone ==
    ASSUME Inv, Calm, ~disturbed, NEW r \in Requests, DeleteCipher(r)
    PROVE  Calm'
<1>1. PICK p : p = requests[r]
  OBVIOUS
<1>2. PICK T : T = statements(Rest(r))
  OBVIOUS
<1>3. PICK h : h = "delete" /\ h = Head(requests[r].todo)
  BY DEF DeleteCipher, At
<1>4. PICK N : N = Readers(p.row, {})
  OBVIOUS
<1>5. /\ requests[r] # None /\ Go(r) /\ Delete({p.cipher})
      /\ unaware' = unaware \cup N
      /\ UNCHANGED <<orgs, members, collections, grants, folders>>
  BY <1>1, <1>4 DEF DeleteCipher, At, Change, sharing
<1>6. /\ p \in Request /\ Steady(p) /\ statements(p.todo) = T \cup {h} /\ h \notin T
      /\ \A s \in T : Stage[h] < Stage[s]
      /\ Together(T \cup {h})
  BY <1>1, <1>2, <1>3, <1>5, RunningAlone
<1>7. /\ ItemReady(p, T \cup {h}) /\ CollectionsReady(p, T \cup {h})
      /\ DropReady(p, T \cup {h}) /\ Told(p, T \cup {h})
  BY <1>6 DEF Steady
<1>8. /\ "upsert" \notin T /\ "diff" \notin T /\ "trash" \notin T /\ "untrash" \notin T
      /\ "delete" \notin T /\ "bump" \in T
      /\ T \cap {"upsert", "move", "unfile", "file", "newCollection"} = {}
  <2>1. "bump" \in T \cup {h}
    BY <1>3, <1>6 DEF Together, Writes
  <2>2. Stage[h] = 6
    BY <1>3, Stages
  <2> QED
    BY <1>3, <1>6, <2>1, <2>2, Stages
<1>9. ItemReady(p, T)' /\ CollectionsReady(p, T)' /\ FilingReady(p, T)'
  BY <1>3, <1>5, <1>6, <1>7, <1>8, DeleteReady
<1>10. DropReady(p, T)'
  BY <1>3, <1>5, <1>7 DEF DropReady, ofOrganization, Delete
<1>11. Told(p, T)'
  <2>1. T \cap Writes = {} /\ h \in Writes
    BY <1>3, <1>8 DEF Writes
  <2>2. N \subseteq usersWithCipherAccess(p.row, p.cipher)'
    <3> SUFFICES ASSUME NEW u \in N
                 PROVE  u \in usersWithCipherAccess(p.row, p.cipher)'
      OBVIOUS
    <3>1. u \in Users /\ u # None /\ Restrictions(u, p.row, {}, FALSE)
      BY <1>4, NoneAssumption DEF Readers
    <3>2. p.row \in Cipher /\ InOneVault(p.row)
      BY <1>1, <1>5, Running
    <3>3. CASE p.row.user = u
      BY <3>1, <3>3 DEF usersWithCipherAccess
    <3>4. CASE p.row.user # u
      <4>1. p.row.org # None /\ members[<<u, p.row.org>>] = "full"
        BY <3>1, <3>4 DEF Restrictions
      <4>2. p.row.user = None
        BY <3>2, <4>1 DEF InOneVault
      <4> QED
        BY <1>5, <3>1, <4>1, <4>2 DEF usersWithCipherAccess
    <3> QED
      BY <3>3, <3>4
  <2> QED
    BY <1>5, <1>6, <1>7, <1>8, <2>1, <2>2, ToldOfWrite
<1>12. Placed' /\ Owned' /\ Seated'
  BY <1>5, DeletePlaces
<1> QED
  BY <1>1, <1>2, <1>5, <1>9, <1>10, <1>11, <1>12, GoesOnWith

\* An organization's items go first.
LEMMA DropCiphersAlone ==
    ASSUME Inv, Calm, ~disturbed, NEW r \in Requests, DropCiphers(r)
    PROVE  Calm'
<1>1. PICK p : p = requests[r]
  OBVIOUS
<1>2. PICK T : T = statements(Rest(r))
  OBVIOUS
<1>3. PICK h : h = "dropCiphers" /\ h = Head(requests[r].todo)
  BY DEF DropCiphers, At
<1>4. PICK S : S = ofOrganization(p.row.org)
  OBVIOUS
<1>5. /\ requests[r] # None /\ Go(r) /\ Delete(S)
      /\ UNCHANGED <<orgs, members, collections, grants, folders, unaware>>
  BY <1>1, <1>4 DEF DropCiphers, At, sharing
<1>6. /\ p \in Request /\ Steady(p) /\ statements(p.todo) = T \cup {h} /\ h \notin T
      /\ \A s \in T : Stage[h] < Stage[s]
  BY <1>1, <1>2, <1>3, <1>5, RunningAlone
<1>7. /\ ItemReady(p, T \cup {h}) /\ CollectionsReady(p, T \cup {h})
      /\ Told(p, T \cup {h})
  BY <1>6 DEF Steady
<1>8. /\ T \cap {"upsert", "move", "unfile", "file", "newCollection"} = {}
      /\ "bump" \notin T \cup {h}
  BY <1>3, <1>6, Stages
<1>9. ItemReady(p, T)' /\ CollectionsReady(p, T)' /\ FilingReady(p, T)'
  BY <1>3, <1>5, <1>6, <1>7, <1>8, DeleteReady
<1>10. DropReady(p, T)'
  BY <1>4, <1>5 DEF DropReady, ofOrganization, Delete
<1>11. Told(p, T)'
  BY <1>3, <1>5, <1>7, <1>8, StillToldNoBump
<1>12. Placed' /\ Owned' /\ Seated'
  BY <1>5, DeletePlaces
<1> QED
  BY <1>1, <1>2, <1>5, <1>9, <1>10, <1>11, <1>12, GoesOnWith

\* A purge takes its next item, to delete and to tell of; or it has no more.
LEMMA PurgeNextAlone ==
    ASSUME Inv, Calm, ~disturbed, NEW r \in Requests, PurgeNext(r)
    PROVE  Calm'
<1>1. PICK p : p = requests[r]
  OBVIOUS
<1>2. PICK T : T = statements(Rest(r))
  OBVIOUS
<1>3. PICK h : h = "next" /\ h = Head(requests[r].todo)
  BY DEF PurgeNext, At
<1>4. /\ requests[r] # None
      /\ UNCHANGED <<orgs, members, collections, grants, ciphers, assigned, folders, unaware>>
  BY DEF PurgeNext, At, sharing, vault, filing
<1>5. PICK S : S = T \cup {h}
  OBVIOUS
<1>6. /\ p \in Request /\ Steady(p) /\ statements(p.todo) = S /\ Together(S)
      /\ p.todo \in Seq(Statement) /\ InOrder(p.todo)
      /\ \A s \in T : Stage[h] < Stage[s]
      /\ S \subseteq Statement
  <2>1. /\ p \in Request /\ Steady(p) /\ statements(p.todo) = S /\ Together(S)
        /\ \A s \in T : Stage[h] < Stage[s]
        /\ T \subseteq Statement /\ h \in Statement
    BY <1>1, <1>2, <1>3, <1>4, <1>5, RunningAlone
  <2> QED
    BY <1>5, <2>1 DEF Steady, Lined, Request
<1>7. /\ ItemReady(p, S) /\ CollectionsReady(p, S) /\ FilingReady(p, S)
      /\ DropReady(p, S) /\ Told(p, S)
  BY <1>6 DEF Steady
<1>8. \A s \in S : 9 < Stage[s]
  <2>1. \A s \in Statement : Stage[s] \in Nat
    BY DEF Stage, Statement
  <2>2. Stage[h] = 10
    BY <1>3, Stages
  <2> QED
    BY <1>5, <1>6, <2>1, <2>2
<1>9. S \cap {"upsert", "move", "unfile", "file", "bump", "valid", "assign", "diff",
              "trash", "untrash", "delete", "newFolder", "newCollection"} = {}
  BY <1>8, Stages
<1>10. CASE Go(r)
  <2>1. PICK n \in Request :
          /\ Continue(r, n) /\ n.todo = Rest(r) /\ n.row = p.row
          /\ n.cipher = p.cipher /\ n.folder = p.folder /\ n.user = p.user
          /\ \A k \in n.add : k \in p.add
    BY <1>1, <1>4, <1>10, GoneOn
  <2>2. Told(n, T)'
    <3>1. "bump" \notin S
      BY <1>9
    <3>2. "touch" \in S /\ "assign" \notin S => "touch" \in T /\ "assign" \notin T
      BY <1>3, <1>5
    <3> QED
      BY <1>4, <1>7, <2>1, <3>1, <3>2, StillToldNoBump
  <2>3. h \notin {"upsert", "valid", "newCollection", "newFolder", "dropCiphers"}
    BY <1>3
  <2> QED
    BY <1>1, <1>2, <1>3, <1>4, <2>1, <2>2, <2>3, PassesOn
<1>11. CASE \E c \in p.list : Continue(r, [p EXCEPT !.list = p.list \ {c}, !.cipher = c,
                                                   !.todo = hardDelete \o p.todo])
  <2>1. PICK c \in p.list : Continue(r, [p EXCEPT !.list = p.list \ {c}, !.cipher = c,
                                                  !.todo = hardDelete \o p.todo])
    BY <1>11
  <2>2. PICK U : U = {"delete", "bump"} \cup S
    OBVIOUS
  <2>3. /\ hardDelete \o p.todo \in Seq(Statement) /\ InOrder(hardDelete \o p.todo)
        /\ statements(hardDelete \o p.todo) = U
    <3>1. "delete" \in Statement /\ "bump" \in Statement /\ Stage["delete"] < Stage["bump"]
      BY Stages DEF Statement
    <3>2. /\ hardDelete \in Seq(Statement) /\ InOrder(hardDelete)
          /\ statements(hardDelete) = {"delete", "bump"}
      BY <3>1, Pair DEF hardDelete
    <3>3. \A a \in {"delete", "bump"} : Stage[a] \in 6..7
      BY Stages
    <3>4. \A s \in S : Stage[s] \in Nat
      BY <1>6 DEF Stage, Statement
    <3>5. \A a \in statements(hardDelete), b \in statements(p.todo) : Stage[a] < Stage[b]
      BY <1>6, <1>8, <3>2, <3>3, <3>4
    <3> QED
      BY <1>6, <2>2, <3>2, <3>5, InOrderJoin
  <2>4. PICK n : n = [p EXCEPT !.list = p.list \ {c}, !.cipher = c,
                               !.todo = hardDelete \o p.todo]
    OBVIOUS
  <2>5. c \in Ciphers /\ p.list \ {c} \in SUBSET Ciphers
    BY <1>6 DEF Request
  <2>6. /\ n \in Request /\ n.row = p.row /\ n.add = p.add /\ n.user = p.user
        /\ n.todo = hardDelete \o p.todo /\ Continue(r, n)
    BY <1>6, <2>1, <2>3, <2>4, <2>5 DEF Request
  <2>7. Together(U)
    <3>1. U \cap {"upsert", "move", "newCollection", "assign"} = {} /\ "bump" \in U
      BY <1>9, <2>2
    <3>2. U \cap {"newFolder", "empty", "dropFolder", "dropFolders"} # {} => "touch" \in U
      BY <1>6, <2>2 DEF Together
    <3> QED
      BY <3>1, <3>2 DEF Together
  <2>8. ItemReady(n, U)' /\ CollectionsReady(n, U)' /\ FilingReady(n, U)'
    <3>1. U \cap {"upsert", "assign", "diff", "newCollection", "move", "unfile", "file"} = {}
      BY <1>9, <2>2
    <3> QED
      BY <3>1 DEF ItemReady, CollectionsReady, FilingReady, Filings
  <2>9. DropReady(n, U)'
    BY <1>4, <1>7, <2>2, <2>6 DEF DropReady, ofOrganization
  <2>10. Told(n, U)'
    <3>1. "bump" \notin S
      BY <1>9
    <3>2. "touch" \in S /\ "assign" \notin S => "touch" \in U /\ "assign" \notin U
      BY <2>2
    <3> QED
      BY <1>4, <1>7, <2>6, <3>1, <3>2, StillToldNoBump
  <2>11. Lined(n.todo) /\ U = statements(n.todo)
    BY <2>3, <2>6, <2>7 DEF Lined
  <2>12. Placed' /\ Owned' /\ Seated'
    BY <1>4, TablesStay
  <2> QED
    BY <1>1, <1>4, <2>6, <2>8, <2>9, <2>10, <2>11, <2>12, ContinuesWith
<1> QED
  BY <1>1, <1>10, <1>11 DEF PurgeNext

\* Folders come and go; the user is told last.
LEMMA FoldersAreAlone ==
    ASSUME Inv, Calm, ~disturbed, NEW r \in Requests,
           InsertFolder(r) \/ EmptyFolder(r) \/ DropFolders(r)
    PROVE  Calm'
<1>1. PICK p : p = requests[r]
  OBVIOUS
<1>2. PICK T : T = statements(Rest(r))
  OBVIOUS
<1>3. PICK h : /\ h \in {"newFolder", "empty", "dropFolder", "dropFolders"}
               /\ h = Head(requests[r].todo)
               /\ h = "newFolder" <=> InsertFolder(r)
  BY DEF InsertFolder, EmptyFolder, DropFolders, At
<1>4. /\ requests[r] # None /\ Go(r) /\ unaware' = unaware \cup {p.user}
      /\ UNCHANGED <<orgs, members, collections, grants, ciphers, assigned>>
  BY <1>1 DEF InsertFolder, EmptyFolder, DropFolders, Change, At, sharing, vault
<1>5. /\ p \in Request /\ Steady(p) /\ statements(p.todo) = T \cup {h} /\ h \notin T
      /\ \A s \in T : Stage[h] < Stage[s]
      /\ Together(T \cup {h})
  BY <1>1, <1>2, <1>3, <1>4, RunningAlone
<1>6. /\ ItemReady(p, T \cup {h}) /\ CollectionsReady(p, T \cup {h})
      /\ FilingReady(p, T \cup {h}) /\ DropReady(p, T \cup {h}) /\ Told(p, T \cup {h})
  BY <1>5 DEF Steady
<1>7. "touch" \in T /\ "assign" \notin T
  <2>1. "touch" \in T \cup {h} /\ "assign" \notin T \cup {h}
    BY <1>3, <1>5 DEF Together
  <2> QED
    BY <1>3, <2>1
<1>8. ItemReady(p, T)' /\ CollectionsReady(p, T)' /\ DropReady(p, T)'
  <2>1. ItemReady(p, T)'
    BY <1>3, <1>4, <1>6 DEF ItemReady
  <2>2. CollectionsReady(p, T)'
    BY <1>3, <1>4, <1>6 DEF CollectionsReady
  <2>3. DropReady(p, T)'
    BY <1>3, <1>4, <1>6 DEF DropReady, ofOrganization
  <2> QED
    BY <2>1, <2>2, <2>3
<1>9. FilingReady(p, T)'
  <2>1. CASE InsertFolder(r)
    <3>1. folders' = [folders EXCEPT ![p.folder] = p.user] /\ p.user # None
      BY <1>1, <1>5, <2>1, NoneAssumption DEF InsertFolder, Request
    <3>2. folders \in [Folders -> Users \cup {None}] /\ p.folder \in Folders \cup {None}
      BY <1>5, InvParts DEF TablesOK, Request
    <3>3. p.folder # None => folders'[p.folder] # None
      BY <3>1, <3>2
    <3>4. "upsert" \in T <=> "upsert" \in T \cup {h}
      BY <1>3
    <3>5. T \cap Filings # {} => (T \cup {h}) \cap Filings # {}
      OBVIOUS
    <3> QED
      BY <1>4, <1>6, <3>3, <3>4, <3>5 DEF FilingReady
  <2>2. CASE ~InsertFolder(r)
    <3>1. Stage[h] \in 11..12
      BY <1>3, <2>2, Stages
    <3>2. T \cap Filings = {}
      BY <1>5, <3>1, Stages DEF Filings
    <3> QED
      BY <3>2 DEF FilingReady
  <2> QED
    BY <2>1, <2>2
<1>10. Told(p, T)'
  <2>1. /\ "bump" \in T <=> "bump" \in T \cup {h}
        /\ T \cap Writes = {} <=> (T \cup {h}) \cap Writes = {}
    BY <1>3 DEF Writes
  <2>2. usersWithCipherAccess(p.row, p.cipher)' = usersWithCipherAccess(p.row, p.cipher)
    BY <1>4, AccessStays
  <2> QED
    BY <1>4, <1>6, <1>7, <2>1, <2>2 DEF Told
<1>11. Placed' /\ Owned' /\ Seated'
  BY <1>4, TablesStay
<1> QED
  BY <1>1, <1>2, <1>4, <1>8, <1>9, <1>10, <1>11, GoesOnWith

\* A collection for an import: none of its items were in it before.
LEMMA InsertCollectionAlone ==
    ASSUME Inv, Calm, ~disturbed, NEW r \in Requests, InsertCollection(r)
    PROVE  Calm'
<1>1. PICK p : p = requests[r]
  OBVIOUS
<1>2. PICK T : T = statements(Rest(r))
  OBVIOUS
<1>3. PICK h : h = "newCollection" /\ h = Head(requests[r].todo)
  BY DEF InsertCollection, At
<1>4. /\ requests[r] # None
      /\ UNCHANGED <<orgs, members, grants, ciphers, assigned, folders, unaware>>
  BY DEF InsertCollection, At, vault, filing
<1>5. /\ p \in Request /\ Steady(p) /\ statements(p.todo) = T \cup {h} /\ h \notin T
      /\ Together(T \cup {h})
  BY <1>1, <1>2, <1>3, <1>4, RunningAlone
<1>6. /\ ItemReady(p, T \cup {h}) /\ CollectionsReady(p, T \cup {h})
      /\ FilingReady(p, T \cup {h}) /\ DropReady(p, T \cup {h}) /\ Told(p, T \cup {h})
  BY <1>5 DEF Steady
<1>7. "upsert" \in T \cup {h} /\ "touch" \notin T \cup {h}
  BY <1>3, <1>5 DEF Together
<1>8. \A k \in p.add : collections[k] = None
  BY <1>3, <1>6 DEF CollectionsReady
<1>9. CASE p.row.org \in orgs
  <2>1. PICK o : o = p.row.org
    OBVIOUS
  <2>2. /\ Go(r)
        /\ collections' = [k \in Collections |-> IF k \in p.add THEN o ELSE collections[k]]
    BY <1>1, <1>9, <2>1 DEF InsertCollection
  <2>3. /\ collections \in [Collections -> Orgs \cup {None}] /\ p.add \subseteq Collections
        /\ assigned \in [Ciphers -> SUBSET Collections]
    BY <1>5, InvParts DEF TablesOK, Request
  <2>4. \A c \in Ciphers : \A k \in assigned[c] : collections'[k] = collections[k]
    <3>1. \A c \in Ciphers : \A k \in assigned[c] : collections[k] # None /\ k \in Collections
      BY <2>3 DEF Calm, Placed
    <3> QED
      BY <1>8, <2>2, <3>1
  <2>5. Placed' /\ Owned' /\ Seated'
    BY <1>4, <2>4 DEF Calm, Placed, Owned, Seated
  <2>6. CollectionsReady(p, T)'
    BY <1>3, <1>5, <2>1, <2>2, <2>3 DEF CollectionsReady
  <2>7. ItemReady(p, T)'
    BY <1>3, <1>4, <1>6 DEF ItemReady
  <2>8. FilingReady(p, T)'
    BY <1>3, <1>4, <1>6 DEF FilingReady, Filings
  <2>9. DropReady(p, T)'
    BY <1>3, <1>4, <1>6 DEF DropReady, ofOrganization
  <2>10. Told(p, T)'
    <3>1. \A s \in {"bump", "touch", "assign"} \cup Writes : s \in T <=> s \in T \cup {h}
      BY <1>3 DEF Writes
    <3> QED
      BY <1>4, <1>6, <3>1, StillTold
  <2> QED
    BY <1>1, <1>2, <1>4, <2>2, <2>5, <2>6, <2>7, <2>8, <2>9, <2>10, GoesOnWith
<1>10. CASE p.row.org \notin orgs
  <2>1. Done(r) /\ UNCHANGED collections
    BY <1>1, <1>10 DEF InsertCollection
  <2>2. unaware' = {}
    BY <1>4, <1>6, <1>7 DEF Told, Writes
  <2>3. Placed' /\ Owned' /\ Seated'
    BY <1>4, <2>1, TablesStay
  <2> QED
    BY <1>4, <2>1, <2>2, <2>3, Stops
<1> QED
  BY <1>9, <1>10

\* An organization goes when its items are gone.
LEMMA DropOrgAlone ==
    ASSUME Inv, Calm, ~disturbed, NEW r \in Requests, DropOrg(r)
    PROVE  Calm'
<1>1. PICK p : p = requests[r]
  OBVIOUS
<1>2. PICK T : T = statements(Rest(r))
  OBVIOUS
<1>3. PICK h : h = "dropOrg" /\ h = Head(requests[r].todo)
  BY DEF DropOrg, At
<1>4. PICK o : o = p.row.org
  OBVIOUS
<1>5. /\ requests[r] # None /\ Go(r)
      /\ UNCHANGED <<ciphers, folders, unaware>>
      /\ orgs' = orgs \ {o}
      /\ members' = [m \in DOMAIN members |-> IF m[2] = o THEN None ELSE members[m]]
      /\ collections' = [k \in Collections |->
                           IF collections[k] = o THEN None ELSE collections[k]]
      /\ assigned' = [c \in Ciphers |-> {k \in assigned[c] : collections[k] # o}]
  BY <1>1, <1>4 DEF DropOrg, At, filing
<1>6. /\ p \in Request /\ Steady(p) /\ statements(p.todo) = T \cup {h}
      /\ \A s \in T : Stage[h] < Stage[s]
  BY <1>1, <1>2, <1>3, <1>5, RunningAlone
<1>7. DropReady(p, T \cup {h}) /\ Told(p, T \cup {h})
  BY <1>6 DEF Steady
<1>8. T \cap {"upsert", "move", "unfile", "file", "bump", "valid", "assign", "diff",
              "newCollection", "dropCiphers", "dropOrg"} = {}
  <2>1. Stage[h] = 12
    BY <1>3, Stages
  <2> QED
    BY <1>6, <2>1, Stages
<1>9. \A c \in Ciphers : ciphers[c] # None => ciphers[c].org # o
  <2>1. ofOrganization(o) = {}
    BY <1>3, <1>4, <1>7, <1>8 DEF DropReady
  <2> QED
    BY <2>1 DEF ofOrganization
<1>10. /\ members \in [Users \X Orgs -> {"limited", "full", None}]
       /\ collections \in [Collections -> Orgs \cup {None}]
       /\ assigned \in [Ciphers -> SUBSET Collections]
       /\ Placed /\ Owned /\ Seated
  BY InvParts DEF TablesOK, Calm
<1>11. Placed'
  <2> SUFFICES ASSUME NEW c \in Ciphers, NEW k \in assigned'[c]
               PROVE  /\ ciphers'[c] # None /\ collections'[k] # None
                      /\ collections'[k] = ciphers'[c].org
    BY DEF Placed
  <2>1. k \in assigned[c] /\ collections[k] # o /\ k \in Collections
    BY <1>5, <1>10
  <2>2. collections'[k] = collections[k]
    BY <1>5, <2>1
  <2> QED
    BY <1>5, <1>10, <2>1, <2>2 DEF Placed
<1>12. Owned'
  BY <1>5, <1>9, <1>10 DEF Owned
<1>13. Seated'
  <2> SUFFICES ASSUME NEW u \in Users, NEW q \in Orgs, members'[<<u, q>>] # None
               PROVE  q \in orgs'
    BY DEF Seated
  <2>1. /\ <<u, q>> \in DOMAIN members
        /\ members'[<<u, q>>] = IF q = o THEN None ELSE members[<<u, q>>]
    BY <1>5, <1>10
  <2>2. q # o /\ members[<<u, q>>] # None
    BY <2>1
  <2> QED
    BY <1>5, <1>10, <2>2 DEF Seated
<1>14. /\ ItemReady(p, T)' /\ CollectionsReady(p, T)'
       /\ FilingReady(p, T)' /\ DropReady(p, T)'
  BY <1>8 DEF ItemReady, CollectionsReady, FilingReady, DropReady, Filings
<1>15. Told(p, T)'
  <2>1. "bump" \notin T \cup {h}
    BY <1>3, <1>8
  <2>2. "touch" \in T \cup {h} /\ "assign" \notin T \cup {h} => "touch" \in T /\ "assign" \notin T
    BY <1>3
  <2> QED
    BY <1>5, <1>7, <2>1, <2>2, StillToldNoBump
<1> QED
  BY <1>1, <1>2, <1>5, <1>11, <1>12, <1>13, <1>14, <1>15, GoesOnWith

LEMMA ProceedAlone ==
    ASSUME Inv, Calm, ~disturbed, ~disturbed', NEW r \in Requests, Proceed(r)
    PROVE  Calm'
<1>1. ~Fail(r)
  BY DEF Fail
<1> QED
  BY <1>1, UpsertAlone, MoveAlone, FilingAlone, BumpAlone, TouchAlone, ValidAlone,
     AssignAlone, UnassignAlone, DiffAlone, SetDeletedAlone, DeleteCipherAlone,
     PurgeNextAlone, FoldersAreAlone, InsertCollectionAlone, DropCiphersAlone, DropOrgAlone
     DEF Proceed

----------------------------------------------------------------------------
(***************************************************************************)
(* What happens outside of requests, and theorems about a vault in which   *)
(* no request has overlapped another or failed                             *)
(***************************************************************************)
\* The organizations' side, with no request in flight.
LEMMA SharingBetween ==
    ASSUME Inv, Calm, Outside, ~disturbed', Placed', Owned', Seated'
    PROVE  Calm'
<1>1. Active = {} /\ UNCHANGED <<requests, unaware>>
  BY DEF Outside
<1> QED
  BY <1>1, Between

LEMMA SeatsAlone ==
    ASSUME Inv, Calm, ~disturbed', NEW u \in Users, NEW o \in Orgs,
           \/ CreateOrg(u, o)
           \/ \E m \in {"limited", "full"} : Seat(u, o, m)
           \/ \E S \in SUBSET grants : Unseat(u, o, S)
    PROVE  Calm'
<1>1. /\ Outside /\ UNCHANGED <<collections, ciphers, assigned>>
      /\ \A c \in orgs : c \in orgs'
  BY DEF CreateOrg, Seat, Unseat, Outside
<1>2. PICK m \in {"limited", "full", None} :
        /\ members' = [members EXCEPT ![<<u, o>>] = m]
        /\ m # None => o \in orgs'
  <2>1. CASE CreateOrg(u, o)
    BY <2>1 DEF CreateOrg
  <2>2. CASE \E m \in {"limited", "full"} : Seat(u, o, m)
    BY <2>2 DEF Seat
  <2>3. CASE \E S \in SUBSET grants : Unseat(u, o, S)
    BY <2>3 DEF Unseat
  <2> QED
    BY <2>1, <2>2, <2>3
<1>3. members \in [Users \X Orgs -> {"limited", "full", None}]
  BY InvParts DEF TablesOK
<1>4. Seated'
  <2> SUFFICES ASSUME NEW v \in Users, NEW q \in Orgs, members'[<<v, q>>] # None
               PROVE  q \in orgs'
    BY DEF Seated
  <2>1. CASE v = u /\ q = o
    <3>1. members'[<<u, o>>] = m
      BY <1>2, <1>3
    <3> QED
      BY <1>2, <2>1, <3>1
  <2>2. CASE ~(v = u /\ q = o)
    <3>1. <<v, q>> # <<u, o>> /\ <<v, q>> \in DOMAIN members
      BY <1>3, <2>2
    <3>2. members'[<<v, q>>] = members[<<v, q>>]
      BY <1>2, <1>3, <3>1
    <3> QED
      BY <1>1, <3>2 DEF Calm, Seated
  <2> QED
    BY <2>1, <2>2
<1>5. Placed' /\ Owned'
  BY <1>1 DEF Calm, Placed, Owned
<1> QED
  BY <1>1, <1>4, <1>5, SharingBetween

LEMMA CollectionStepsAlone ==
    ASSUME Inv, Calm, ~disturbed', NEW k \in Collections,
           (\E o \in Orgs : CreateCollection(k, o)) \/ DeleteCollection(k)
    PROVE  Calm'
<1>1. Outside /\ UNCHANGED <<orgs, members, ciphers>>
  BY DEF CreateCollection, DeleteCollection, Outside
<1>2. /\ collections \in [Collections -> Orgs \cup {None}]
      /\ assigned \in [Ciphers -> SUBSET Collections]
      /\ Placed
  BY InvParts DEF TablesOK, Calm
<1>3. \A c \in Ciphers : \A j \in assigned'[c] :
        /\ j \in assigned[c] /\ collections'[j] = collections[j]
  <2>1. CASE DeleteCollection(k)
    BY <1>2, <2>1 DEF DeleteCollection
  <2>2. CASE \E o \in Orgs : CreateCollection(k, o)
    <3>1. /\ collections[k] = None /\ assigned' = assigned
          /\ \A j \in Collections \ {k} : collections'[j] = collections[j]
      BY <1>2, <2>2 DEF CreateCollection, UnusedCollections
    <3>2. \A c \in Ciphers : \A j \in assigned[c] : j \in Collections \ {k}
      BY <1>2, <3>1 DEF Placed
    <3> QED
      BY <3>1, <3>2
  <2> QED
    BY <2>1, <2>2
<1>4. Placed'
  BY <1>1, <1>2, <1>3 DEF Placed
<1>5. Owned' /\ Seated'
  BY <1>1 DEF Calm, Owned, Seated
<1> QED
  BY <1>1, <1>4, <1>5, SharingBetween

LEMMA GrantsAlone ==
    ASSUME Inv, Calm, ~disturbed',
           \/ \E g \in Grant : GrantAccess(g) \/ BulkAccess(g)
           \/ \E S \in SUBSET grants :
                \/ upsertGroup(S)
                \/ \E u \in Users, o \in Orgs : replaceMemberCollections(u, o, S)
    PROVE  Calm'
<1>1. Outside /\ UNCHANGED <<orgs, members, collections, assigned>>
  BY DEF GrantAccess, BulkAccess, upsertGroup, replaceMemberCollections, Withdraw
<1>2. Placed' /\ Owned' /\ Seated'
  BY <1>1, TablesStay DEF Outside
<1> QED
  BY <1>1, <1>2, SharingBetween

LEMMA PurgeTrashAlone ==
    ASSUME Inv, Calm, ~disturbed', NEW c \in Ciphers, PurgeTrash(c)
    PROVE  Calm'
<1>1. /\ Active = {} /\ Delete({c}) /\ UNCHANGED <<requests, unaware>>
      /\ UNCHANGED <<orgs, members, collections>>
  BY DEF PurgeTrash, sharing
<1>2. Placed' /\ Owned' /\ Seated'
  BY <1>1, DeletePlaces
<1> QED
  BY <1>1, <1>2, Between

LEMMA ElsewhereAlone ==
    ASSUME Inv, Calm, ~disturbed', Elsewhere
    PROVE  Calm'
<1>1. CASE \E u \in Users, o \in Orgs :
             \/ CreateOrg(u, o)
             \/ \E m \in {"limited", "full"} : Seat(u, o, m)
             \/ \E S \in SUBSET grants : Unseat(u, o, S)
  BY <1>1, SeatsAlone
<1>2. CASE \E k \in Collections :
             (\E o \in Orgs : CreateCollection(k, o)) \/ DeleteCollection(k)
  BY <1>2, CollectionStepsAlone
<1>3. CASE \E c \in Ciphers : PurgeTrash(c)
  BY <1>3, PurgeTrashAlone
<1> QED
  BY <1>1, <1>2, <1>3, GrantsAlone DEF Elsewhere

\* Once disturbed, for good.
LEMMA StaysDisturbed ==
    ASSUME [Next]_vars, ~disturbed'
    PROVE  ~disturbed
<1>1. CASE \E r \in Active : Proceed(r)
  <2>1. PICK r \in Active : Proceed(r)
    BY <1>1
  <2>2. Fail(r) \/ \E q : Continue(r, q)
    BY <2>1 DEF Proceed, Upsert, Move, Unfile, File, Bump, touchUser, Valid, Assign,
       Unassign, Diff, Trash, Untrash, SetDeleted, DeleteCipher, PurgeNext, InsertFolder,
       EmptyFolder, DropFolders, InsertCollection, DropCiphers, DropOrg, Go, Done
  <2> QED
    BY <2>2 DEF Fail, Continue
<1>2. CASE \E r \in Idle, u \in Users : Arrive(r, u)
  <2>1. PICK r \in Idle, u \in Users : Arrive(r, u)
    BY <1>2
  <2>2. \E q : Begin(r, q)
    BY <2>1 DEF Arrive, CreateCipher, EditCipher, ShareCipher, UpdateCipherCollections,
       BulkCollections, DeleteOrRestore, Purge, Import, ImportOrganization, DeleteOrg,
       MoveSelected, CreateFolder, deleteFolder
  <2> QED
    BY <2>2 DEF Begin
<1>3. CASE Elsewhere
  BY <1>3 DEF Elsewhere, CreateOrg, Seat, Unseat, CreateCollection, DeleteCollection,
     GrantAccess, BulkAccess, upsertGroup, replaceMemberCollections, Withdraw, PurgeTrash,
     Outside
<1>4. CASE UNCHANGED vars
  BY <1>4 DEF vars
<1> QED
  BY <1>1, <1>2, <1>3, <1>4 DEF Next

LEMMA InitCalm == Init => CalmInv
<1> SUFFICES ASSUME Init PROVE CalmInv
  OBVIOUS
<1>1. Active = {} /\ unaware = {}
  BY DEF Init, Active
<1>2. Placed /\ Owned /\ Seated
  BY DEF Init, Placed, Owned, Seated
<1> QED
  BY <1>1, <1>2, InitInv DEF CalmInv, Calm, Alone

LEMMA CalmKept == CalmInv /\ [Next]_vars => CalmInv'
<1> SUFFICES ASSUME CalmInv, [Next]_vars, ~disturbed' PROVE Calm'
  BY NextKeepsInv DEF CalmInv
<1>1. ~disturbed /\ Inv /\ Calm
  BY StaysDisturbed DEF CalmInv
<1>2. CASE \E r \in Active : Proceed(r)
  BY <1>1, <1>2, ProceedAlone DEF Active
<1>3. CASE \E r \in Idle, u \in Users : Arrive(r, u)
  BY <1>1, <1>3, ArriveAlone DEF Idle
<1>4. CASE Elsewhere
  BY <1>1, <1>4, ElsewhereAlone
<1>5. CASE UNCHANGED vars
  <2>1. /\ UNCHANGED <<orgs, members, collections, grants, ciphers, assigned, folders,
                       unaware, requests>>
    BY <1>5 DEF vars, sharing
  <2>2. Placed' /\ Owned' /\ Seated'
    BY <1>1, <2>1, TablesStay
  <2>3. Active' = Active /\ Alone'
    BY <1>1, <2>1 DEF Active, Alone, Calm
  <2>4. ASSUME NEW r \in Active PROVE Steady(requests[r])'
    <3>1. PICK q : q = requests[r]
      OBVIOUS
    <3>2. Steady(q)
      BY <1>1, <3>1 DEF Calm
    <3>3. Steady(q)'
      BY <2>1, <3>2 DEF Steady, ItemReady, CollectionsReady, FilingReady, DropReady, Told,
         ofOrganization, usersWithCipherAccess, CollectionRights
    <3> QED
      BY <2>1, <3>1, <3>3
  <2> QED
    BY <1>1, <2>1, <2>2, <2>3, <2>4 DEF Calm
<1> QED
  BY <1>2, <1>3, <1>4, <1>5 DEF Next

\* While no request has overlapped another or failed, an item is only in
\* collections of the organization it is in, between requests: sharing drops the
\* collections it had, and saving, importing and changing them look up whose the
\* new ones are, before the item is written or after.
THEOREM ItemsInOwnCollections == Spec => []CollectionsOfOwnOrg
<1>1. CalmInv => CollectionsOfOwnOrg
  BY DEF CalmInv, Calm, CollectionsOfOwnOrg, Quiet, Placed
<1> QED
  BY <1>1, InitCalm, CalmKept, PTL DEF Spec

\* Nor is an item of an organization that is gone: deleteOrg deletes the items,
\* then the organization, and a member whose organization is there wrote each.
THEOREM NoItemWithoutOwner == Spec => []ItemsHaveOwner
<1>1. CalmInv => ItemsHaveOwner
  BY DEF CalmInv, Calm, ItemsHaveOwner, Quiet, Owned
<1> QED
  BY <1>1, InitCalm, CalmKept, PTL DEF Spec

\* And whoever a sync shows an item when it is saved, trashed or restored, or when
\* its collections have been changed, has been told when the request is over: the
\* bump, which has a query of its own for those with access, finds them all.
THEOREM EveryoneTold == Spec => []EditsAnnounced
<1>1. CalmInv => EditsAnnounced
  BY DEF CalmInv, Calm, EditsAnnounced, Quiet
<1> QED
  BY <1>1, InitCalm, CalmKept, PTL DEF Spec
=============================================================================
