-------------------------------- MODULE Vault --------------------------------
(***************************************************************************)
(* The vault (services/ciphers.ts, services/vault.ts, api/ciphers.ts,      *)
(* api/folders.ts, the collections of api/organizations.ts, the groups of  *)
(* api/org-members.ts): items (ciphers) of users and of organizations, the *)
(* collections and folders they are in, who may read and write them, and   *)
(* who is told of a change by users.updatedAt, the revision that clients   *)
(* compare.                                                                *)
(*                                                                         *)
(* A handler first reads what it decides on, and then runs statement after *)
(* statement, each awaited: a request holds the rest as todo.  The         *)
(* contents of the items, favourites, archives and attachments are         *)
(* abstracted, and so are two refusals: of an outdated revision, and by    *)
(* the personal-ownership policy.                                          *)
(***************************************************************************)
EXTENDS Integers, Sequences, FiniteSets

CONSTANTS
    Users,
    Orgs,
    Collections,
    Ciphers,
    Folders,
    Requests,    \* requests in flight at the same time
    None,        \* no user, organization, member, row, item, folder or request
    MaxRows,     \* bound: rows, all tables but ciphers_collections and folders_ciphers
    Overlapping, \* bound: the statements of requests that overlap; "outside"
    Failures     \* may a statement fail, or a Worker be evicted, in between?

\* creator is a history.
Cipher == [user : Users \cup {None}, org : Orgs \cup {None},
           deleted : BOOLEAN, creator : Users]

\* A row of users_collections, or a group's row of collections_groups and one of
\* its members.
Grant == [user : Users, collection : Collections, write : BOOLEAN]

Statement == {"upsert", "move", "unfile", "file", "bump", "touch", "valid",
              "assign", "unassign", "diff", "trash", "untrash", "delete",
              "next", "newFolder", "empty", "dropFolder", "dropFolders",
              "newCollection", "dropCiphers", "dropOrg"}

Request == [todo : Seq(Statement), user : Users,
            cipher : Ciphers \cup {None}, row : Cipher,
            add : SUBSET Collections, gone : SUBSET Collections,
            folder : Folders \cup {None}, from : SUBSET Folders,
            list : SUBSET Ciphers]

ASSUME NoneAssumption ==
    None \notin Users \cup Orgs \cup Ciphers \cup Folders \cup Cipher \cup Request
              \cup {"limited", "full"}
ASSUME BoundAssumption == MaxRows \in Nat /\ Failures \in BOOLEAN

VARIABLES
    orgs,        \* the organizations there are
    members,     \* users_organizations, confirmed: None, "limited" or "full"
    collections, \* collection -> its organization, or None
    grants,
    ciphers,     \* item -> its row, or None
    assigned,    \* ciphers_collections
    folders,     \* folder -> its user, or None
    filed,       \* folders_ciphers
    unaware,     \* history: users to be told of a change, until disturbed;
                 \* to whom a sync would show it when it was made
    disturbed,   \* history: did requests ever overlap, or one fail?
    requests     \* what each request in flight has read, and has to do

sharing == <<orgs, members, collections, grants>>
vault == <<ciphers, assigned>>
filing == <<folders, filed>>
vars == <<orgs, members, collections, grants, ciphers, assigned, folders, filed,
          unaware, disturbed, requests>>

----------------------------------------------------------------------------
(***************************************************************************)
(* Access                                                                  *)
(***************************************************************************)
\* loadCipherSyncData: the user's rights to the collections of the
\* organizations the user is a confirmed member of.
CollectionRights(u, write) ==
    {g.collection : g \in {h \in grants : h.user = u /\ (write => h.write)}}
Reachable(u) ==
    {k \in Collections : collections[k] # None /\ members[<<u, collections[k]>>] # None}

\* getAccessRestrictions of the row x in the collections S: null, read-only or not.
Restrictions(u, x, S, write) ==
    \/ x.user = u
    \/ /\ x.org # None
       /\ \/ members[<<u, x.org>>] = "full"
          \/ /\ members[<<u, x.org>>] = "limited"
             /\ S \cap Reachable(u) \cap CollectionRights(u, write) # {}

Access(u, c, write) ==
    ciphers[c] # None /\ Restrictions(u, ciphers[c], assigned[c], write)

\* Mutant: members with collections of their own are forgotten.
usersWithFullAccess(x, c) ==
    IF x.user # None THEN {x.user} ELSE {u \in Users : members[<<u, x.org>>] = "full"}

\* usersWithCipherAccess, of the row a handler holds and the collections now: a
\* query of its own, not getAccessRestrictions.
usersWithCipherAccess(x, c) ==
    IF x.user # None THEN {x.user}
    ELSE {u \in Users :
            \/ members[<<u, x.org>>] = "full"
            \/ /\ members[<<u, x.org>>] = "limited"
               /\ assigned[c] \cap CollectionRights(u, FALSE) # {}}

----------------------------------------------------------------------------
Active == {r \in Requests : requests[r] # None}
At(r, s) == requests[r] # None /\ Head(requests[r].todo) = s
Rest(r) == Tail(requests[r].todo)
Continue(r, q) ==
    /\ requests' = [requests EXCEPT ![r] = IF q.todo = <<>> THEN None ELSE q]
    /\ UNCHANGED disturbed
Go(r) == Continue(r, [requests[r] EXCEPT !.todo = Rest(r)])
Done(r) == Continue(r, [requests[r] EXCEPT !.todo = <<>>])

UnusedCiphers == {c \in Ciphers : /\ ciphers[c] = None
                                  /\ \A r \in Active : requests[r].cipher # c}
UnusedFolders == {f \in Folders : /\ folders[f] = None
                                  /\ \A r \in Active : requests[r].folder # f}
UnusedCollections ==
    {k \in Collections : /\ collections[k] = None
                         /\ \A r \in Active : k \notin requests[r].add}
OwnFolders(u) == {f \in Folders : folders[f] = u}

statements(todo) == {todo[i] : i \in DOMAIN todo}
Idle == {r \in Requests : /\ requests[r] = None
                         /\ \A s \in Active :
                              statements(requests[s].todo) \subseteq Overlapping}

\* newCipherShell
newCipherShell(u) == [user |-> None, org |-> None, deleted |-> FALSE, creator |-> u]

NewRequest(u, c, x) ==
    [todo |-> <<>>, user |-> u, cipher |-> c, row |-> x, add |-> {}, gone |-> {},
     folder |-> None, from |-> {}, list |-> {}]

Begin(r, q) ==
    /\ Active # {} => statements(q.todo) \subseteq Overlapping
    /\ requests' = [requests EXCEPT ![r] = q]
    /\ disturbed' = (disturbed \/ Active # {})
    /\ UNCHANGED <<sharing, vault, filing, unaware>>

\* Bound.
HasRoom(n) ==
    n + Cardinality(orgs) + Cardinality(grants)
      + Cardinality({p \in DOMAIN members : members[p] # None})
      + Cardinality({k \in Collections : collections[k] # None})
      + Cardinality({c \in Ciphers : ciphers[c] # None})
      + Cardinality({f \in Folders : folders[f] # None}) <= MaxRows

\* A change that these users' clients have to fetch.
Change(S) == unaware' = IF disturbed THEN {} ELSE unaware \cup S

\* Whom a sync shows the row x in the collections S.
Readers(x, S) == {u \in Users : Restrictions(u, x, S, FALSE)}

----------------------------------------------------------------------------
(***************************************************************************)
(* Items                                                                   *)
(***************************************************************************)
\* Mutant: an item of an organization may be saved as one's own.
organizationMatchesAny(x, o) == x.org # None /\ o # None => x.org = o

\* "Organization mismatch" refuses.
organizationMatches(x, o) == x.org # None => x.org = o

\* updateCipherFromData: the row to write.
updateCipherFromData(x, u, o) ==
    [x EXCEPT !.org = o, !.user = IF o = None THEN u ELSE None]

Write == <<"upsert", "move", "bump">>

\* POST /ciphers, /ciphers/admin, /ciphers/create
CreateCipher(r, u, c, o, S, f) ==
    /\ c \in UnusedCiphers
    /\ HasRoom(1)
    /\ IF o = None THEN S = {}
       ELSE /\ members[<<u, o>>] # None
            /\ S # {} \/ members[<<u, o>>] = "full"
    /\ f \in OwnFolders(u) \cup {None}
    /\ Begin(r, [NewRequest(u, c, updateCipherFromData(newCipherShell(u), u, o)) EXCEPT
         !.todo = Write \o IF S = {} THEN <<>> ELSE <<"valid", "assign">>,
         !.folder = f, !.add = S])

\* updateCipherHandler.  An item of one's own moves to an organization when the
\* body names one, with no collection.
EditCipher(r, u, c, o, f) ==
    /\ Access(u, c, TRUE)
    /\ organizationMatches(ciphers[c], o)
    /\ o # None => members[<<u, o>>] # None
    /\ f \in OwnFolders(u) \cup {None}
    /\ Begin(r, [NewRequest(u, c, updateCipherFromData(ciphers[c], u, o)) EXCEPT
         !.todo = Write, !.folder = f])

\* Mutant: the collections of any organization.
validCollectionsAny(S, o) == {k \in S : collections[k] # None}

validCollections(S, o) == {k \in S : collections[k] = o}

\* shareCipher
ShareCipher(r, u, c, o, S, f) ==
    /\ Access(u, c, TRUE)
    /\ validCollections(S, o) # {}
    /\ organizationMatches(ciphers[c], o)
    /\ members[<<u, o>>] # None
    /\ f \in OwnFolders(u) \cup {None}
    /\ Begin(r, [NewRequest(u, c, updateCipherFromData(ciphers[c], u, o)) EXCEPT
         !.todo = Write \o <<"unassign", "assign">>,
         !.folder = f, !.gone = Collections, !.add = validCollections(S, o)])

\* updateCipherCollections: "Only allow changing collections the user can access".
UpdateCipherCollections(r, u, c, S) ==
    LET o == ciphers[c].org
        accessible == IF members[<<u, o>>] = "full" THEN Collections
                      ELSE CollectionRights(u, FALSE)
    IN  /\ Access(u, c, TRUE)
        /\ o # None
        /\ Begin(r, [NewRequest(u, c, ciphers[c]) EXCEPT
             !.todo = <<"diff", "bump">>,
             !.add = (S \ assigned[c]) \cap accessible,
             !.gone = (assigned[c] \ S) \cap accessible])

\* POST /ciphers/bulk-collections
BulkCollections(r, u, c, o, S, remove) ==
    /\ members[<<u, o>>] # None
    /\ S \subseteq validCollections(Collections, o)
    /\ members[<<u, o>>] = "limited" => S \subseteq CollectionRights(u, TRUE)
    /\ ciphers[c] # None /\ ciphers[c].org = o
    /\ Access(u, c, TRUE)
    /\ Begin(r, [NewRequest(u, c, ciphers[c]) EXCEPT
         !.todo = IF remove THEN <<"unassign", "touch">> ELSE <<"assign", "touch">>,
         !.add = IF remove THEN {} ELSE S, !.gone = IF remove THEN S ELSE {}])

softDelete == <<"trash", "bump">>
restore == <<"untrash", "bump">>
hardDelete == <<"delete", "bump">>

\* The routes for deleting and restoring items; those for many do so one by one.
DeleteOrRestore(r, u, c, todo) ==
    /\ Access(u, c, TRUE)
    /\ Begin(r, [NewRequest(u, c, ciphers[c]) EXCEPT !.todo = todo])

\* POST /ciphers/purge
Purge(r, u, o) ==
    /\ o # None => members[<<u, o>>] = "full"
    /\ LET x == updateCipherFromData(newCipherShell(u), u, o)
       IN  Begin(r, [NewRequest(u, None, x) EXCEPT
             !.todo = <<"next">> \o IF o = None THEN <<"dropFolders", "touch">> ELSE <<>>,
             !.list = {c \in Ciphers : /\ ciphers[c] # None
                                       /\ ciphers[c].user = x.user
                                       /\ ciphers[c].org = o}])

\* POST /ciphers/import, one item in an own or a new folder.
Import(r, u, c, f) ==
    /\ c \in UnusedCiphers
    /\ f \in OwnFolders(u) \cup UnusedFolders \cup {None}
    /\ HasRoom(IF f \in UnusedFolders THEN 2 ELSE 1)
    /\ Begin(r, [NewRequest(u, c, updateCipherFromData(newCipherShell(u), u, None)) EXCEPT
         !.todo = (IF f \in UnusedFolders THEN <<"newFolder">> ELSE <<>>)
                    \o Write \o <<"touch">>,
         !.folder = f])

\* POST /ciphers/import-organization, one collection with one item.
ImportOrganization(r, u, o, c, k) ==
    /\ members[<<u, o>>] = "full"
    /\ c \in UnusedCiphers
    /\ k \in UnusedCollections
    /\ HasRoom(2)
    /\ Begin(r, [NewRequest(u, c, updateCipherFromData(newCipherShell(u), u, o)) EXCEPT
         !.todo = <<"newCollection">> \o Write \o <<"assign">>,
         !.add = {k}])

\* deleteOrg: "Org ciphers don't FK-cascade from organizations".
DeleteOrg(r, u, o) ==
    /\ members[<<u, o>>] = "full"
    /\ Begin(r, [NewRequest(u, None, updateCipherFromData(newCipherShell(u), u, o)) EXCEPT
         !.todo = <<"dropCiphers", "dropOrg">>])

\* moveSelected, partialUpdate
MoveSelected(r, u, c, f) ==
    /\ Access(u, c, FALSE)
    /\ f \in OwnFolders(u) \cup {None}
    /\ Begin(r, [NewRequest(u, c, ciphers[c]) EXCEPT
         !.todo = <<"move", "touch">>, !.folder = f])

CreateFolder(r, u, f) ==
    /\ f \in UnusedFolders
    /\ HasRoom(1)
    /\ Begin(r, [NewRequest(u, None, updateCipherFromData(newCipherShell(u), u, None)) EXCEPT
         !.todo = <<"newFolder", "touch">>, !.folder = f])

deleteFolder(r, u, f) ==
    /\ f \in OwnFolders(u)
    /\ Begin(r, [NewRequest(u, None, updateCipherFromData(newCipherShell(u), u, None)) EXCEPT
         !.todo = <<"empty", "dropFolder", "touch">>, !.folder = f])

----------------------------------------------------------------------------
(***************************************************************************)
(* Statements                                                              *)
(***************************************************************************)
\* ON DELETE CASCADE
Delete(S) ==
    /\ ciphers' = [c \in Ciphers |-> IF c \in S THEN None ELSE ciphers[c]]
    /\ assigned' = [c \in Ciphers |-> IF c \in S THEN {} ELSE assigned[c]]
    /\ filed' = {p \in filed : p[1] \notin S}

\* INSERT ... ON CONFLICT DO UPDATE of the whole row; a row of a new or of a
\* deleted item is inserted.
Upsert(r) ==
    LET q == requests[r]
    IN  /\ At(r, "upsert")
        /\ ciphers' = [ciphers EXCEPT ![q.cipher] = q.row]
        /\ Change(Readers(q.row, assigned[q.cipher]))
        /\ Go(r)
        /\ UNCHANGED <<sharing, assigned, filing>>

\* moveToFolder.  More than one mapping of a user is what overlapping moves leave:
\* which go before the wanted one is found is up to the order of the rows.
Move(r) ==
    LET q == requests[r]
        existing == {f \in OwnFolders(q.user) : <<q.cipher, f>> \in filed}
    IN  /\ At(r, "move")
        /\ \/ /\ q.folder \notin existing
              /\ Continue(r, [q EXCEPT !.from = existing, !.todo =
                   (IF existing = {} THEN <<>> ELSE <<"unfile">>)
                     \o (IF q.folder = None THEN <<>> ELSE <<"file">>) \o Rest(r)])
           \/ /\ q.folder \in existing
              /\ \E S \in SUBSET (existing \ {q.folder}) :
                   Continue(r, [q EXCEPT !.from = S, !.todo =
                     (IF S = {} THEN <<>> ELSE <<"unfile">>) \o Rest(r)])
        /\ UNCHANGED <<sharing, vault, filing, unaware>>

unfiled(p, q) == p[1] = q.cipher /\ p[2] \in q.from

Unfile(r) ==
    LET q == requests[r]
    IN  /\ At(r, "unfile")
        /\ filed' = {p \in filed : ~unfiled(p, q)}
        /\ Continue(r, [q EXCEPT !.from = {}, !.todo = Rest(r)])
        /\ UNCHANGED <<sharing, vault, folders, unaware>>

\* A foreign key whose row is gone stops the handler.
File(r) ==
    LET q == requests[r]
    IN  /\ At(r, "file")
        /\ IF ciphers[q.cipher] # None /\ folders[q.folder] # None
           THEN filed' = filed \cup {<<q.cipher, q.folder>>} /\ Go(r)
           ELSE Done(r) /\ UNCHANGED filed
        /\ UNCHANGED <<sharing, vault, folders, unaware>>

\* updateUsersRevisionForCipher
Bump(r) ==
    /\ At(r, "bump")
    /\ unaware' = unaware \ usersWithCipherAccess(requests[r].row, requests[r].cipher)
    /\ Go(r)
    /\ UNCHANGED <<sharing, vault, filing>>

touchUser(r) ==
    /\ At(r, "touch")
    /\ unaware' = unaware \ {requests[r].user}
    /\ Go(r)
    /\ UNCHANGED <<sharing, vault, filing>>

\* createCipher reads the collections when the item is saved.
Valid(r) ==
    LET q == requests[r]
    IN  /\ At(r, "valid")
        /\ Continue(r, [q EXCEPT !.add = validCollections(@, q.row.org), !.todo = Rest(r)])
        /\ UNCHANGED <<sharing, vault, filing, unaware>>

Assign(r) ==
    LET q == requests[r]
    IN  /\ At(r, "assign")
        /\ \/ /\ q.add = {}
              /\ Go(r)
              /\ UNCHANGED assigned
           \/ \E k \in q.add :
                IF ciphers[q.cipher] # None /\ collections[k] # None
                THEN /\ assigned' = [assigned EXCEPT ![q.cipher] = @ \cup {k}]
                     /\ Continue(r, [q EXCEPT !.add = @ \ {k}])
                ELSE Done(r) /\ UNCHANGED assigned
        /\ UNCHANGED <<sharing, ciphers, filing, unaware>>

Unassign(r) ==
    LET q == requests[r]
    IN  /\ At(r, "unassign")
        /\ assigned' = [assigned EXCEPT ![q.cipher] = @ \ q.gone]
        /\ Continue(r, [q EXCEPT !.gone = {}, !.todo = Rest(r)])
        /\ UNCHANGED <<sharing, ciphers, filing, unaware>>

\* A collection that is gone or of another organization is passed over.  After the
\* last one, who reads the item now has to be told.
Diff(r) ==
    LET q == requests[r]
        mine(k) == ciphers[q.cipher] # None /\ collections[k] = q.row.org
    IN  /\ At(r, "diff")
        /\ \/ /\ q.add \cup q.gone = {}
              /\ Change(Readers(q.row, assigned[q.cipher]))
              /\ Go(r)
              /\ UNCHANGED assigned
           \/ \E k \in q.add \cup q.gone :
                /\ assigned' =
                     [assigned EXCEPT ![q.cipher] = IF ~mine(k) THEN @
                        ELSE IF k \in q.add THEN @ \cup {k} ELSE @ \ {k}]
                /\ Continue(r, [q EXCEPT !.add = @ \ {k}, !.gone = @ \ {k}])
                /\ UNCHANGED unaware
        /\ UNCHANGED <<sharing, ciphers, filing>>

SetDeleted(r, statement, deleted) ==
    LET q == requests[r]
    IN  /\ At(r, statement)
        /\ ciphers' = IF ciphers[q.cipher] = None THEN ciphers
                      ELSE [ciphers EXCEPT ![q.cipher].deleted = deleted]
        /\ Change(Readers(q.row, assigned[q.cipher]))
        /\ Go(r)
        /\ UNCHANGED <<sharing, assigned, filing>>

Trash(r) == SetDeleted(r, "trash", TRUE)
Untrash(r) == SetDeleted(r, "untrash", FALSE)

\* deleteCipher.  Its bump comes after the cascade: who reads the item by a
\* collection only is not told.
DeleteCipher(r) ==
    LET q == requests[r]
    IN  /\ At(r, "delete")
        /\ Delete({q.cipher})
        /\ Change(Readers(q.row, {}))
        /\ Go(r)
        /\ UNCHANGED <<sharing, folders>>

PurgeNext(r) ==
    LET q == requests[r]
    IN  /\ At(r, "next")
        /\ \/ q.list = {} /\ Go(r)
           \/ \E c \in q.list :
                Continue(r, [q EXCEPT !.list = @ \ {c}, !.cipher = c,
                                      !.todo = hardDelete \o @])
        /\ UNCHANGED <<sharing, vault, filing, unaware>>

InsertFolder(r) ==
    LET q == requests[r]
    IN  /\ At(r, "newFolder")
        /\ folders' = [folders EXCEPT ![q.folder] = q.user]
        /\ Change({q.user})
        /\ Go(r)
        /\ UNCHANGED <<sharing, vault, filed>>

\* deleteFolder's statements, and those folders of a purge.
EmptyFolder(r) ==
    LET q == requests[r]
    IN  /\ At(r, "empty")
        /\ filed' = {p \in filed : p[2] # q.folder}
        /\ Change({q.user})
        /\ Go(r)
        /\ UNCHANGED <<sharing, vault, folders>>

DropFolders(r) ==
    LET q == requests[r]
        S == IF At(r, "dropFolder") THEN {q.folder} ELSE OwnFolders(q.user)
    IN  /\ At(r, "dropFolder") \/ At(r, "dropFolders")
        /\ folders' = [f \in Folders |-> IF f \in S THEN None ELSE folders[f]]
        /\ filed' = {p \in filed : p[2] \notin S}
        /\ Change({q.user})
        /\ Go(r)
        /\ UNCHANGED <<sharing, vault>>

InsertCollection(r) ==
    LET q == requests[r]
    IN  /\ At(r, "newCollection")
        /\ IF q.row.org \in orgs
           THEN /\ collections' = [k \in Collections |->
                     IF k \in q.add THEN q.row.org ELSE collections[k]]
                /\ Go(r)
           ELSE Done(r) /\ UNCHANGED collections
        /\ UNCHANGED <<orgs, members, grants, vault, filing, unaware>>

\* Mutant: the items are left behind.
ofOrganizationNone(o) == {}

ofOrganization(o) == {c \in Ciphers : ciphers[c] # None /\ ciphers[c].org = o}

DropCiphers(r) ==
    /\ At(r, "dropCiphers")
    /\ Delete(ofOrganization(requests[r].row.org))
    /\ Go(r)
    /\ UNCHANGED <<sharing, folders, unaware>>

\* Cascades to the memberships, the collections and what hangs on them.
DropOrg(r) ==
    LET o == requests[r].row.org
    IN  /\ At(r, "dropOrg")
        /\ orgs' = orgs \ {o}
        /\ members' = [p \in DOMAIN members |-> IF p[2] = o THEN None ELSE members[p]]
        /\ collections' = [k \in Collections |->
                             IF collections[k] = o THEN None ELSE collections[k]]
        /\ grants' = {g \in grants : collections[g.collection] # o}
        /\ assigned' = [c \in Ciphers |-> {k \in assigned[c] : collections[k] # o}]
        /\ Go(r)
        /\ UNCHANGED <<ciphers, filing, unaware>>

Fail(r) ==
    /\ Failures
    /\ requests[r] # None
    /\ requests' = [requests EXCEPT ![r] = None]
    /\ disturbed' = TRUE
    /\ unaware' = {}
    /\ UNCHANGED <<sharing, vault, filing>>

----------------------------------------------------------------------------
(***************************************************************************)
(* The organizations' side, a statement each: what memberships and grants  *)
(* of access the handlers of organizations leave is arbitrary.             *)
(***************************************************************************)
Outside == /\ Active = {} \/ "outside" \in Overlapping
           /\ disturbed' = (disturbed \/ Active # {})
           /\ UNCHANGED <<ciphers, filing, unaware, requests>>

CreateOrg(u, o) ==
    /\ Outside
    /\ o \notin orgs
    /\ \A c \in Ciphers : ciphers[c] # None => ciphers[c].org # o
    /\ \A r \in Active : requests[r].row.org # o
    /\ HasRoom(2)
    /\ orgs' = orgs \cup {o}
    /\ members' = [members EXCEPT ![<<u, o>>] = "full"]
    /\ UNCHANGED <<collections, grants, assigned>>

\* A membership is confirmed, restored or changed.
Seat(u, o, m) ==
    /\ Outside
    /\ o \in orgs
    /\ members[<<u, o>>] # m
    /\ members[<<u, o>>] = None => HasRoom(1)
    /\ members' = [members EXCEPT ![<<u, o>>] = m]
    /\ UNCHANGED <<orgs, collections, grants, assigned>>

\* It is revoked, or removed: that cascades to groups_users.
Unseat(u, o, S) ==
    /\ Outside
    /\ members[<<u, o>>] # None
    /\ members' = [members EXCEPT ![<<u, o>>] = None]
    /\ \A g \in S : g.user = u /\ collections[g.collection] = o
    /\ grants' = grants \ S
    /\ UNCHANGED <<orgs, collections, assigned>>

CreateCollection(k, o) ==
    /\ Outside
    /\ k \in UnusedCollections
    /\ o \in orgs
    /\ HasRoom(1)
    /\ collections' = [collections EXCEPT ![k] = o]
    /\ UNCHANGED <<orgs, members, grants, assigned>>

DeleteCollection(k) ==
    /\ Outside
    /\ collections[k] # None
    /\ collections' = [collections EXCEPT ![k] = None]
    /\ grants' = {g \in grants : g.collection # k}
    /\ assigned' = [c \in Ciphers |-> assigned[c] \ {k}]
    /\ UNCHANGED <<orgs, members>>

\* updateCollection, the users of a collection, the collections of a member, the
\* collections and the members of a group: rows are deleted, then inserted one by
\* one.
GrantAccess(g) ==
    /\ Outside
    /\ collections[g.collection] # None
    /\ HasRoom(1)
    /\ g \notin grants
    /\ grants' = grants \cup {g}
    /\ UNCHANGED <<orgs, members, collections, assigned>>

Withdraw(S) ==
    /\ Outside
    /\ S # {}
    /\ grants' = grants \ S
    /\ UNCHANGED <<orgs, members, collections, assigned>>

\* replaceMemberCollections, replaceMemberGroups: those in one organization.
replaceMemberCollections(u, o, S) ==
    /\ \A g \in S : g.user = u /\ collections[g.collection] = o
    /\ Withdraw(S)

\* upsertGroup, deleteGroup: a group's rows, whose collections are not looked at.
upsertGroup(S) == Withdraw(S)

\* POST /organizations/:orgId/collections/bulk-access: ON CONFLICT DO UPDATE.
BulkAccess(g) ==
    /\ Outside
    /\ g \in grants
    /\ grants' = (grants \ {g}) \cup {[g EXCEPT !.write = ~@]}
    /\ UNCHANGED <<orgs, members, collections, assigned>>

\* jobs/scheduled.ts, weekly: an item whose time in the trash is over.
PurgeTrash(c) ==
    /\ ciphers[c] # None /\ ciphers[c].deleted
    /\ Delete({c})
    /\ disturbed' = (disturbed \/ Active # {})
    /\ UNCHANGED <<sharing, folders, unaware, requests>>

----------------------------------------------------------------------------
Init ==
    /\ orgs = {}
    /\ members = [p \in Users \X Orgs |-> None]
    /\ collections = [k \in Collections |-> None]
    /\ grants = {}
    /\ ciphers = [c \in Ciphers |-> None]
    /\ assigned = [c \in Ciphers |-> {}]
    /\ folders = [f \in Folders |-> None]
    /\ filed = {}
    /\ unaware = {}
    /\ disturbed = FALSE
    /\ requests = [r \in Requests |-> None]

Arrive(r, u) ==
    \/ \E c \in Ciphers, o \in Orgs \cup {None}, S \in SUBSET Collections,
          f \in Folders \cup {None} : CreateCipher(r, u, c, o, S, f)
    \/ \E c \in Ciphers, o \in Orgs \cup {None}, f \in Folders \cup {None} :
         EditCipher(r, u, c, o, f)
    \/ \E c \in Ciphers, o \in Orgs, S \in SUBSET Collections,
          f \in Folders \cup {None} : ShareCipher(r, u, c, o, S, f)
    \/ \E c \in Ciphers, S \in SUBSET Collections : UpdateCipherCollections(r, u, c, S)
    \/ \E c \in Ciphers, o \in Orgs, S \in SUBSET Collections, b \in BOOLEAN :
         BulkCollections(r, u, c, o, S, b)
    \/ \E c \in Ciphers, todo \in {softDelete, restore, hardDelete} :
         DeleteOrRestore(r, u, c, todo)
    \/ \E o \in Orgs \cup {None} : Purge(r, u, o)
    \/ \E c \in Ciphers, f \in Folders \cup {None} : Import(r, u, c, f)
    \/ \E o \in Orgs, c \in Ciphers, k \in Collections : ImportOrganization(r, u, o, c, k)
    \/ \E o \in Orgs : DeleteOrg(r, u, o)
    \/ \E c \in Ciphers, f \in Folders \cup {None} : MoveSelected(r, u, c, f)
    \/ \E f \in Folders : CreateFolder(r, u, f)
    \/ \E f \in Folders : deleteFolder(r, u, f)

Proceed(r) ==
    \/ Upsert(r) \/ Move(r) \/ Unfile(r) \/ File(r) \/ Bump(r) \/ touchUser(r)
    \/ Valid(r) \/ Assign(r) \/ Unassign(r) \/ Diff(r) \/ Trash(r) \/ Untrash(r)
    \/ DeleteCipher(r) \/ PurgeNext(r) \/ InsertFolder(r) \/ EmptyFolder(r)
    \/ DropFolders(r) \/ InsertCollection(r) \/ DropCiphers(r) \/ DropOrg(r) \/ Fail(r)

Elsewhere ==
    \/ \E u \in Users, o \in Orgs :
         \/ CreateOrg(u, o)
         \/ \E m \in {"limited", "full"} : Seat(u, o, m)
         \/ \E S \in SUBSET grants : Unseat(u, o, S)
    \/ \E k \in Collections :
         \/ \E o \in Orgs : CreateCollection(k, o)
         \/ DeleteCollection(k)
    \/ \E g \in Grant : GrantAccess(g) \/ BulkAccess(g)
    \/ \E S \in SUBSET grants :
         \/ upsertGroup(S)
         \/ \E u \in Users, o \in Orgs : replaceMemberCollections(u, o, S)
    \/ \E c \in Ciphers : PurgeTrash(c)

Next == \/ \E r \in Active : Proceed(r)
        \/ \E r \in Idle, u \in Users : Arrive(r, u)
        \/ Elsewhere

Spec == Init /\ [][Next]_vars

----------------------------------------------------------------------------
\* Rows have their columns, and a request in flight has a statement left and a
\* row that may be written.
TypeOK ==
    /\ orgs \subseteq Orgs
    /\ members \in [Users \X Orgs -> {"limited", "full", None}]
    /\ collections \in [Collections -> Orgs \cup {None}]
    /\ grants \subseteq Grant
    /\ ciphers \in [Ciphers -> Cipher \cup {None}]
    /\ assigned \in [Ciphers -> SUBSET Collections]
    /\ folders \in [Folders -> Users \cup {None}]
    /\ filed \subseteq Ciphers \X Folders
    /\ unaware \subseteq Users
    /\ disturbed \in BOOLEAN
    /\ requests \in [Requests -> Request \cup {None}]
    /\ \A r \in Active : requests[r].todo # <<>>

Quiet == ~disturbed /\ Active = {}

\* However requests overlap or fail, an item is in one vault: an organization's,
\* or its creator's and never another user's.
PersonalToCreator ==
    \A c \in Ciphers : ciphers[c] # None =>
      ciphers[c].user = IF ciphers[c].org = None THEN ciphers[c].creator ELSE None

\* An item is only in collections of the organization it is in.
CollectionsOfOwnOrg ==
    Quiet => \A c \in Ciphers : \A k \in assigned[c] : collections[k] = ciphers[c].org

\* No organization is deleted without its items.
ItemsHaveOwner ==
    Quiet => \A c \in Ciphers : ciphers[c] # None => ciphers[c].org \in orgs \cup {None}

\* Whoever a sync shows an item gets a new revision, when the item is saved,
\* trashed or restored and when its collections have been changed; when it is
\* deleted, who reads it without a collection; when folders come or go, their
\* user.  Who comes to read an item only by collections that creating or sharing
\* it assigns after the save, or that are assigned in bulk, is not told.
EditsAnnounced == Quiet => unaware = {}
=============================================================================
