------------------------- MODULE SecondFactorsProofs -------------------------
(***************************************************************************)
(* Proofs about SecondFactors, for any devices, providers, addresses, keys *)
(* and requests in flight, and for any bounds.                             *)
(*                                                                         *)
(* Inv holds however requests overlap or fail: what a request has left to  *)
(* do is part of a program, and the row that it names is still of the type *)
(* it took it for.  CalmInv adds what holds until requests overlap or one  *)
(* fails: what the only request in flight knows of the account, and what   *)
(* of the properties the statements it has left are still to restore.      *)
(***************************************************************************)
EXTENDS SecondFactors, FiniteSetTheorems, TLAPS

(***************************************************************************)
(* What a request has to do                                                *)
(*                                                                         *)
(* A todo list is a suffix of one of a few programs, and in each of them   *)
(* the statements come in the order of their stages; so a list is known by *)
(* the set of its statements, and its first is the one of the least stage. *)
(***************************************************************************)
Stage(s) ==
    CASE s \in {"totp", "code", "send", "take", "offer", "wipe", "enable"} -> 1
      [] s \in {"used", "write", "untake"} -> 2
      [] s = "assert" -> 3
      [] s \in {"save", "drop"} -> 4
      [] s \in {"insert", "update"} -> 5
      [] s \in {"protect", "unprotect"} -> 6
      [] s \in {"clear", "remember"} -> 7
      [] OTHER -> 8

Left(todo) == {todo[i] : i \in 1 .. Len(todo)}
Ordered(todo) == \A i, j \in 1 .. Len(todo) :
                   i < j => Stage(todo[i]) < Stage(todo[j])

\* Logins; settings.
Programs == {
    {"totp", "remember"}, {"used", "remember"},
    {"code", "remember"}, {"write", "remember"}, {"send"},
    {"take", "untake", "assert", "save", "remember"},
    {"insert", "remember"}, {"update", "remember"},
    {"offer", "drop", "insert"}, {"wipe", "unprotect", "remember"},
    {"totp", "drop", "insert", "protect", "clear"},
    {"used", "drop", "insert", "protect", "clear"},
    {"take", "untake", "assert", "save", "protect", "clear"},
    {"update", "protect", "clear"}, {"enable", "protect", "clear"},
    {"wipe", "unprotect", "clear"}, {"drop", "clear", "remaining"}}
InProgram(S) == \E P \in Programs : S \subseteq P

(***************************************************************************)
(* However requests overlap or fail                                        *)
(***************************************************************************)
\* A row as a handler makes it, and as the table holds it.
WellFormed(x) ==
    /\ x.type = "email" <=> x.address # None
    /\ x.keys # {} => x.type = "webauthn"
MadeRow(x) == /\ WellFormed(x)
              /\ x.enabled <=> x.type \in Types \ {"email"}
StoredRow(x) == /\ x \in Row /\ x.id # 0 /\ WellFormed(x)
                /\ x.type \in Types \ {"email"} => x.enabled
                /\ x.enabled => x.type \in Types

Distinct(T) == \A x, y \in T : x.id = y.id => x = y

\* An UPDATE by the uuid i hits a row of a type of X, or none.
Hits(i, T, X) == \A x \in T : x.id = i => x.type \in X

\* What a request that has S left to do may rely on.
Holds(S, q, T, pr) ==
    /\ {"code", "write", "enable"} \cap S # {} => q.row.address # None
    /\ {"write", "enable"} \cap S # {} => Hits(q.row.id, T, {"email"})
    /\ "enable" \in S => q.row.address \in pr
    /\ "update" \in S => Hits(q.row.id, T, {"webauthn"})
    /\ "insert" \in S => MadeRow(q.row)
    /\ "save" \in S /\ "assert" \notin S =>
         MadeRow(q.row) /\ q.row.type = "webauthn"
    /\ "remember" \in S => q.device \in Devices

RowsOK == /\ IsFiniteSet(rows) /\ Distinct(rows)
          /\ \A x \in rows : StoredRow(x)
RequestsOK ==
    /\ requests \in [Requests -> Request \cup {None}]
    /\ \A r \in Active :
         LET q == requests[r]
         IN  /\ q.todo # <<>> /\ Ordered(q.todo) /\ InProgram(Left(q.todo))
             /\ Holds(Left(q.todo), q, rows, proven)
TableOK == /\ recover \in BOOLEAN /\ disturbed \in BOOLEAN
           /\ remember \in [Devices -> {None} \cup SUBSET (1 .. MaxRows)]
           /\ step \in 1 .. MaxStep
           /\ guesses \in 0 .. EMAIL_ATTEMPTS_LIMIT
           /\ proven \subseteq Addresses
Inv == RowsOK /\ TableOK /\ RequestsOK

(***************************************************************************)
(* While no requests have overlapped and none has failed                   *)
(***************************************************************************)
\* No type has two rows, and no code that was accepted is fresh.
CalmRows(T) ==
    /\ \A x, y \in T : x.type = y.type => x = y
    /\ \A x \in T : /\ x.code => x.type = "email"
                    /\ \A s \in x.accepted : s <= x.last

\* Guesses at the code of the row are counted in it.
Counted(x, g) ==
    x.code => g <= x.attempts /\ x.attempts < EMAIL_ATTEMPTS_LIMIT

\* What the request that has S left to do knows of the account.
Knows(S, q, T, rec, now, g) ==
    /\ "take" \in S => q.row.type \in Challenges
    /\ "untake" \in S /\ "take" \notin S => Hits(q.row.id, T, Challenges)
    /\ "save" \in S => \/ {"protect", "clear"} \subseteq S
                       \/ \E x \in T : x.type = "webauthn"
    /\ "save" \in S /\ "assert" \notin S => q.row.accepted = {} /\ ~q.row.code
    /\ "used" \in S => \A x \in T : x.id = q.row.id => x.last < q.row.last
    /\ "insert" \in S =>
         /\ "drop" \notin S => \A x \in T : x.type # q.row.type
         /\ q.row.enabled => {"protect", "clear"} \subseteq S
         /\ q.row.code => q.row.type = "email" /\ q.row.attempts = 0
         /\ q.row.type # "authenticator" => q.row.accepted = {}
         /\ \A s \in q.row.accepted :
              IF "totp" \in S
              THEN \E x \in T : x.type = "authenticator" /\ s \in x.accepted
              ELSE s <= now
    /\ "enable" \in S => {"protect", "clear"} \subseteq S /\ ~q.row.code
    /\ "protect" \in S => (q.recover => rec)
    /\ "unprotect" \in S /\ "wipe" \notin S => \A x \in T : ~x.enabled
    /\ "remember" \in S => \A x \in T : x.enabled => x.id \in q.ids
    /\ {"code", "write"} \cap S # {} => Counted(q.row, g)
    /\ "write" \in S => \A x \in T : x.type = "email" => x.id = q.row.id

\* What the rest of the account is like while S is left to be done.
Settled(S, T, rec, rem, g) ==
    /\ \/ rec
       \/ \A x \in T : ~x.enabled
       \/ S \subseteq {"protect", "clear"} /\ "protect" \in S
    /\ \/ \A d \in Devices : rem[d] # None =>
            \A x \in T : x.enabled => x.id \in rem[d]
       \/ S \subseteq {"protect", "clear"} /\ "clear" \in S
    /\ "write" \notin S => \A x \in T : Counted(x, g)

Undisturbed ==
    /\ CalmRows(rows)
    /\ \A r, s \in Active : r = s
    /\ Active = {} => Settled({}, rows, recover, remember, guesses)
    /\ \A r \in Active :
         LET S == Left(requests[r].todo)
         IN  /\ Knows(S, requests[r], rows, recover, step, guesses)
             /\ Settled(S, rows, recover, remember, guesses)

CalmInv == Inv /\ (disturbed \/ Undisturbed)
----------------------------------------------------------------------------
\* The statements of a list are those of its first and of its rest.
LEMMA TailLeft ==
    ASSUME NEW todo \in Seq(Statement), todo # <<>>, Ordered(todo)
    PROVE  /\ Head(todo) \in Left(todo)
           /\ Tail(todo) \in Seq(Statement) /\ Ordered(Tail(todo))
           /\ Left(Tail(todo)) = Left(todo) \ {Head(todo)}
           /\ \A s \in Left(todo) :
                s # Head(todo) => Stage(Head(todo)) < Stage(s)
<1> DEFINE rest == Tail(todo)
<1>1. /\ Len(todo) \in Nat \ {0} /\ Head(todo) = todo[1]
      /\ rest \in Seq(Statement) /\ Len(rest) = Len(todo) - 1
      /\ \A i \in 1 .. Len(rest) : rest[i] = todo[i + 1]
  OBVIOUS
<1> HIDE DEF rest
<1>2. Ordered(rest)
  BY <1>1 DEF Ordered
<1>3. Left(rest) \subseteq Left(todo)
  BY <1>1 DEF Left
<1>4. \A s \in Left(todo) : s = todo[1] \/ s \in Left(rest)
  <2> SUFFICES ASSUME NEW i \in 1 .. Len(todo), i # 1
               PROVE  todo[i] \in Left(rest)
    BY DEF Left
  <2>1. i - 1 \in 1 .. Len(rest) /\ rest[i - 1] = todo[i]
    BY <1>1
  <2> QED
    BY <2>1 DEF Left
<1>5. \A i \in 1 .. Len(todo) : i # 1 => Stage(todo[1]) < Stage(todo[i])
  BY <1>1 DEF Ordered
<1>6. ASSUME NEW s \in Left(rest)
      PROVE  Stage(todo[1]) < Stage(s)
  <2>1. PICK i \in 1 .. Len(rest) : s = rest[i]
    BY DEF Left
  <2>2. i + 1 \in 1 .. Len(todo) /\ i + 1 # 1 /\ s = todo[i + 1]
    BY <1>1, <2>1
  <2> QED
    BY <1>5, <2>2
<1>7. \A s \in Statement : Stage(s) \in Nat
  BY DEF Stage
<1>8. todo[1] \in Left(todo) /\ todo[1] \in Statement
  BY <1>1 DEF Left
<1>9. todo[1] \notin Left(rest)
  BY <1>6, <1>7, <1>8
<1> QED
  BY <1>1, <1>2, <1>3, <1>4, <1>5, <1>6, <1>8, <1>9 DEF rest

\* A list in front of another one.
LEMMA ConcatLeft ==
    ASSUME NEW t \in Seq(Statement), NEW u \in Seq(Statement),
           Ordered(t), Ordered(u),
           \A x \in Left(t), y \in Left(u) : Stage(x) < Stage(y)
    PROVE  /\ t \o u \in Seq(Statement) /\ Ordered(t \o u)
           /\ Left(t \o u) = Left(t) \cup Left(u)
<1> DEFINE v == t \o u
<1>1. /\ v \in Seq(Statement) /\ Len(v) = Len(t) + Len(u)
      /\ Len(t) \in Nat /\ Len(u) \in Nat
      /\ \A i \in 1 .. Len(v) :
           v[i] = IF i <= Len(t) THEN t[i] ELSE u[i - Len(t)]
  OBVIOUS
<1> HIDE DEF v
<1>2. Ordered(v)
  <2> SUFFICES ASSUME NEW i \in 1 .. Len(v), NEW j \in 1 .. Len(v), i < j
               PROVE  Stage(v[i]) < Stage(v[j])
    BY DEF Ordered
  <2>1. CASE j <= Len(t)
    BY <1>1, <2>1 DEF Ordered
  <2>2. CASE i > Len(t)
    <3>1. /\ i - Len(t) \in 1 .. Len(u) /\ j - Len(t) \in 1 .. Len(u)
          /\ i - Len(t) < j - Len(t)
          /\ v[i] = u[i - Len(t)] /\ v[j] = u[j - Len(t)]
      BY <1>1, <2>2
    <3> QED
      BY <3>1 DEF Ordered
  <2>3. CASE i <= Len(t) /\ j > Len(t)
    <3>1. /\ i \in 1 .. Len(t) /\ j - Len(t) \in 1 .. Len(u)
          /\ v[i] = t[i] /\ v[j] = u[j - Len(t)]
      BY <1>1, <2>3
    <3> QED
      BY <3>1 DEF Left
  <2> QED
    BY <1>1, <2>1, <2>2, <2>3
<1>3. Left(v) \subseteq Left(t) \cup Left(u)
  BY <1>1 DEF Left
<1>4. Left(t) \subseteq Left(v)
  BY <1>1 DEF Left
<1>5. Left(u) \subseteq Left(v)
  <2> SUFFICES ASSUME NEW i \in 1 .. Len(u)
               PROVE  u[i] \in Left(v)
    BY DEF Left
  <2>1. /\ Len(t) + i \in 1 .. Len(v) /\ ~(Len(t) + i <= Len(t))
        /\ (Len(t) + i) - Len(t) = i
    BY <1>1
  <2> QED
    BY <1>1, <2>1 DEF Left
<1> QED
  BY <1>1, <1>2, <1>3, <1>4, <1>5 DEF v

\* A list of statements in order, and what is on it.
List(t, S) == t \in Seq(Statement) /\ Ordered(t) /\ Left(t) = S

\* Lists written out.
LEMMA EmptyList ==
    List(<<>>,
         {})
  BY DEF List, Ordered, Left

\* One statement alone.
LEMMA OneStatement ==
    ASSUME NEW a \in Statement
    PROVE  List(<<a>>, {a})
  BY DEF List, Ordered, Left

\* The lists of the handlers: what ends every activation; ...
LEMMA ActivateList ==
    List(<<"drop", "insert", "protect", "clear">>,
         {"drop", "insert", "protect", "clear"})
<1> DEFINE t == <<"drop", "insert", "protect", "clear">>
<1>1. /\ t \in Seq(Statement) /\ Len(t) = 4
      /\ t[1] = "drop" /\ t[2] = "insert" /\ t[3] = "protect"
      /\ t[4] = "clear"
  BY DEF Statement
<1> HIDE DEF t
<1>2. Ordered(t)
  BY <1>1 DEF Ordered, Stage
<1>3. Left(t) = {"drop", "insert", "protect", "clear"}
  BY <1>1 DEF Left
<1> QED
  BY <1>1, <1>2, <1>3 DEF List, t

\* ... DeleteAuthenticator; ...
LEMMA DeleteList ==
    List(<<"drop", "clear">>,
         {"drop", "clear"})
<1> DEFINE t == <<"drop", "clear">>
<1>1. /\ t \in Seq(Statement) /\ Len(t) = 2
      /\ t[1] = "drop" /\ t[2] = "clear"
  BY DEF Statement
<1> HIDE DEF t
<1>2. Ordered(t)
  BY <1>1 DEF Ordered, Stage
<1>3. Left(t) = {"drop", "clear"}
  BY <1>1 DEF Left
<1> QED
  BY <1>1, <1>2, <1>3 DEF List, t

\* ... DisableTwofactor; ...
LEMMA DisableList ==
    List(<<"drop", "clear", "remaining">>,
         {"drop", "clear", "remaining"})
<1> DEFINE t == <<"drop", "clear", "remaining">>
<1>1. /\ t \in Seq(Statement) /\ Len(t) = 3
      /\ t[1] = "drop" /\ t[2] = "clear" /\ t[3] = "remaining"
  BY DEF Statement
<1> HIDE DEF t
<1>2. Ordered(t)
  BY <1>1 DEF Ordered, Stage
<1>3. Left(t) = {"drop", "clear", "remaining"}
  BY <1>1 DEF Left
<1> QED
  BY <1>1, <1>2, <1>3 DEF List, t

\* ... SetupEmail and StartRegistration; ...
LEMMA SetupList ==
    List(<<"drop", "insert">>,
         {"drop", "insert"})
<1> DEFINE t == <<"drop", "insert">>
<1>1. /\ t \in Seq(Statement) /\ Len(t) = 2
      /\ t[1] = "drop" /\ t[2] = "insert"
  BY DEF Statement
<1> HIDE DEF t
<1>2. Ordered(t)
  BY <1>1 DEF Ordered, Stage
<1>3. Left(t) = {"drop", "insert"}
  BY <1>1 DEF Left
<1> QED
  BY <1>1, <1>2, <1>3 DEF List, t

\* ... EnableEmail; ...
LEMMA EnableList ==
    List(<<"enable", "protect", "clear">>,
         {"enable", "protect", "clear"})
<1> DEFINE t == <<"enable", "protect", "clear">>
<1>1. /\ t \in Seq(Statement) /\ Len(t) = 3
      /\ t[1] = "enable" /\ t[2] = "protect" /\ t[3] = "clear"
  BY DEF Statement
<1> HIDE DEF t
<1>2. Ordered(t)
  BY <1>1 DEF Ordered, Stage
<1>3. Left(t) = {"enable", "protect", "clear"}
  BY <1>1 DEF Left
<1> QED
  BY <1>1, <1>2, <1>3 DEF List, t

\* ... FinishRegistration; ...
LEMMA RegisterList ==
    List(<<"take", "untake", "assert", "save", "protect", "clear">>,
         {"take", "untake", "assert", "save", "protect", "clear"})
<1> DEFINE t == <<"take", "untake", "assert", "save", "protect", "clear">>
<1>1. /\ t \in Seq(Statement) /\ Len(t) = 6
      /\ t[1] = "take" /\ t[2] = "untake" /\ t[3] = "assert"
      /\ t[4] = "save" /\ t[5] = "protect" /\ t[6] = "clear"
  BY DEF Statement
<1> HIDE DEF t
<1>2. Ordered(t)
  BY <1>1 DEF Ordered, Stage
<1>3. Left(t) = {"take", "untake", "assert", "save", "protect", "clear"}
  BY <1>1 DEF Left
<1> QED
  BY <1>1, <1>2, <1>3 DEF List, t

\* ... a login with a security key; ...
LEMMA AssertList ==
    List(<<"take", "untake", "assert", "save">>,
         {"take", "untake", "assert", "save"})
<1> DEFINE t == <<"take", "untake", "assert", "save">>
<1>1. /\ t \in Seq(Statement) /\ Len(t) = 4
      /\ t[1] = "take" /\ t[2] = "untake" /\ t[3] = "assert"
      /\ t[4] = "save"
  BY DEF Statement
<1> HIDE DEF t
<1>2. Ordered(t)
  BY <1>1 DEF Ordered, Stage
<1>3. Left(t) = {"take", "untake", "assert", "save"}
  BY <1>1 DEF Left
<1> QED
  BY <1>1, <1>2, <1>3 DEF List, t

\* ... one that offers it; ...
LEMMA OfferList ==
    List(<<"offer", "drop", "insert">>,
         {"offer", "drop", "insert"})
<1> DEFINE t == <<"offer", "drop", "insert">>
<1>1. /\ t \in Seq(Statement) /\ Len(t) = 3
      /\ t[1] = "offer" /\ t[2] = "drop" /\ t[3] = "insert"
  BY DEF Statement
<1> HIDE DEF t
<1>2. Ordered(t)
  BY <1>1 DEF Ordered, Stage
<1>3. Left(t) = {"offer", "drop", "insert"}
  BY <1>1 DEF Left
<1> QED
  BY <1>1, <1>2, <1>3 DEF List, t

\* ... Recover; ...
LEMMA RecoverList ==
    List(<<"wipe", "unprotect", "clear">>,
         {"wipe", "unprotect", "clear"})
<1> DEFINE t == <<"wipe", "unprotect", "clear">>
<1>1. /\ t \in Seq(Statement) /\ Len(t) = 3
      /\ t[1] = "wipe" /\ t[2] = "unprotect" /\ t[3] = "clear"
  BY DEF Statement
<1> HIDE DEF t
<1>2. Ordered(t)
  BY <1>1 DEF Ordered, Stage
<1>3. Left(t) = {"wipe", "unprotect", "clear"}
  BY <1>1 DEF Left
<1> QED
  BY <1>1, <1>2, <1>3 DEF List, t

\* ... AdminRemove, and a login with the recovery code.
LEMMA WipeList ==
    List(<<"wipe", "unprotect">>,
         {"wipe", "unprotect"})
<1> DEFINE t == <<"wipe", "unprotect">>
<1>1. /\ t \in Seq(Statement) /\ Len(t) = 2
      /\ t[1] = "wipe" /\ t[2] = "unprotect"
  BY DEF Statement
<1> HIDE DEF t
<1>2. Ordered(t)
  BY <1>1 DEF Ordered, Stage
<1>3. Left(t) = {"wipe", "unprotect"}
  BY <1>1 DEF Left
<1> QED
  BY <1>1, <1>2, <1>3 DEF List, t

----------------------------------------------------------------------------
\* What can be left once a statement has been done.
LEMMA AfterLogin ==
    ASSUME NEW S, InProgram(S), NEW h \in S,
           \A s \in S : s # h => Stage(h) < Stage(s)
    PROVE  /\ h \in {"totp", "used"} =>
                \/ S \ {h} \subseteq {"remember"}
                \/ S \ {h} \subseteq {"drop", "insert", "protect", "clear"}
           /\ h \in {"code", "write"} => S \ {h} \subseteq {"remember"}
           /\ h \in {"send", "remember", "remaining"} => S \ {h} = {}
           /\ h = "offer" => S \ {h} \subseteq {"drop", "insert"}
           /\ h = "take" =>
                \/ S \ {h} \subseteq {"untake", "assert", "save", "remember"}
                \/ S \ {h} \subseteq {"untake", "assert", "save", "protect", "clear"}
           /\ h = "untake" =>
                \/ S \ {h} \subseteq {"assert", "save", "remember"}
                \/ S \ {h} \subseteq {"assert", "save", "protect", "clear"}
           /\ h = "assert" => \/ S \ {h} \subseteq {"save", "remember"}
                              \/ S \ {h} \subseteq {"save", "protect", "clear"}
<1>1. PICK P \in Programs : S \subseteq P
  BY DEF InProgram
<1>2. CASE h \in {"totp", "used", "code", "write", "send", "remember"}
  BY <1>1, <1>2 DEF Programs, Stage
<1>3. CASE h \in {"remaining", "offer", "take", "untake", "assert"}
  BY <1>1, <1>3 DEF Programs, Stage
<1> QED
  BY <1>2, <1>3

\* The same for the statements of the settings.
LEMMA AfterSetting ==
    ASSUME NEW S, InProgram(S), NEW h \in S,
           \A s \in S : s # h => Stage(h) < Stage(s)
    PROVE  /\ h \in {"save", "insert", "update"} =>
                S \ {h} \subseteq {"remember"} \/ S \ {h} \subseteq {"protect", "clear"}
           /\ h = "enable" => S \ {h} \subseteq {"protect", "clear"}
           /\ h = "drop" => \/ S \ {h} \subseteq {"insert", "protect", "clear"}
                            \/ S \ {h} \subseteq {"clear", "remaining"}
           /\ h = "wipe" => \/ S \ {h} \subseteq {"unprotect", "remember"}
                            \/ S \ {h} \subseteq {"unprotect", "clear"}
           /\ h = "protect" => S \ {h} \subseteq {"clear"}
           /\ h = "unprotect" => \/ S \ {h} \subseteq {"remember"}
                                \/ S \ {h} \subseteq {"clear"}
           /\ h = "clear" => S \ {h} \subseteq {"remaining"}
<1>1. PICK P \in Programs : S \subseteq P
  BY DEF InProgram
<1>2. CASE h \in {"save", "insert", "update"}
  BY <1>1, <1>2 DEF Programs, Stage
<1>3. CASE h \in {"enable", "drop", "wipe"}
  BY <1>1, <1>3 DEF Programs, Stage
<1>4. CASE h \in {"protect", "unprotect", "clear"}
  BY <1>1, <1>4 DEF Programs, Stage
<1> QED
  BY <1>2, <1>3, <1>4

\* The request that goes on.
LEMMA Going ==
    ASSUME Inv, NEW r \in Active
    PROVE  LET q == requests[r]
               h == Head(q.todo)
               S == Left(q.todo)
           IN  /\ q \in Request /\ q.row \in Row /\ q.todo # <<>>
               /\ h \in S /\ S \subseteq Statement
               /\ Rest(r) \in Seq(Statement) /\ Ordered(Rest(r))
               /\ Left(Rest(r)) = S \ {h}
               /\ InProgram(S) /\ InProgram(S \ {h})
               /\ \A s \in S : s # h => Stage(h) < Stage(s)
               /\ Holds(S, q, rows, proven)
<1> DEFINE q == requests[r]
<1>1. /\ q \in Request /\ q.todo # <<>> /\ Ordered(q.todo)
      /\ InProgram(Left(q.todo)) /\ Holds(Left(q.todo), q, rows, proven)
  BY DEF Inv, RequestsOK, Active
<1>2. q.todo \in Seq(Statement) /\ q.row \in Row
  BY <1>1 DEF Request
<1>3. Left(q.todo) \subseteq Statement
  BY <1>2 DEF Left
<1>4. InProgram(Left(q.todo) \ {Head(q.todo)})
  BY <1>1 DEF InProgram
<1> QED
  BY <1>1, <1>2, <1>3, <1>4, TailLeft DEF Rest

\* A request relies on nothing but the types of the rows it names, and on
\* addresses that stay proven.
LEMMA HoldsLater ==
    ASSUME NEW S, NEW q, NEW T, NEW U, NEW pr, NEW ps,
           Holds(S, q, T, pr), pr \subseteq ps,
           \A y \in U : \/ \E x \in T : x.id = y.id /\ x.type = y.type
                        \/ y.id # q.row.id
    PROVE  Holds(S, q, U, ps)
<1>1. ASSUME NEW X, Hits(q.row.id, T, X) PROVE Hits(q.row.id, U, X)
  BY <1>1 DEF Hits
<1> QED
  BY <1>1 DEF Holds

\* A request goes on, beside others that hold what they held.
LEMMA GoOn ==
    ASSUME CalmInv, NEW r \in Active, NEW q \in Request, Continue(r, q),
           Ordered(q.todo), InProgram(Left(q.todo)),
           Holds(Left(q.todo), q, rows', proven'),
           RowsOK', TableOK', proven \subseteq proven',
           \A s \in Active : s # r =>
             \A y \in rows' : \/ \E x \in rows : x.id = y.id /\ x.type = y.type
                              \/ y.id # requests[s].row.id,
           ~disturbed =>
             /\ CalmRows(rows')
             /\ Knows(Left(q.todo), q, rows', recover', step', guesses')
             /\ Settled(Left(q.todo), rows', recover', remember', guesses')
    PROVE  CalmInv'
<1>1. /\ requests \in [Requests -> Request \cup {None}] /\ r \in Requests
      /\ requests' = [requests EXCEPT ![r] = IF q.todo = <<>> THEN None ELSE q]
      /\ disturbed' = disturbed
  BY DEF CalmInv, Inv, RequestsOK, Continue, Active
<1>2. q # None
  BY NoneAssumption
<1>3. /\ \A s \in Requests : s # r => requests'[s] = requests[s]
      /\ q.todo = <<>> => requests'[r] = None
      /\ q.todo # <<>> => requests'[r] = q
      /\ requests' \in [Requests -> Request \cup {None}]
  BY <1>1
<1>4. RequestsOK'
  <2> SUFFICES ASSUME NEW s \in Active'
               PROVE  /\ requests'[s].todo # <<>> /\ Ordered(requests'[s].todo)
                      /\ InProgram(Left(requests'[s].todo))
                      /\ Holds(Left(requests'[s].todo), requests'[s], rows',
                               proven')
    BY <1>3 DEF RequestsOK
  <2>1. CASE s = r
    BY <1>3, <2>1 DEF Active
  <2>2. CASE s # r
    <3>1. s \in Active /\ requests'[s] = requests[s]
      BY <1>3, <2>2 DEF Active
    <3>2. /\ requests[s].todo # <<>> /\ Ordered(requests[s].todo)
          /\ InProgram(Left(requests[s].todo))
          /\ Holds(Left(requests[s].todo), requests[s], rows, proven)
      BY <3>1 DEF CalmInv, Inv, RequestsOK
    <3> QED
      BY <2>2, <3>1, <3>2, HoldsLater
  <2> QED
    BY <2>1, <2>2
<1>5. ASSUME ~disturbed
      PROVE  Undisturbed'
  <2>1. Active = {r}
    BY <1>5 DEF CalmInv, Undisturbed
  <2>2. \A s \in Active' : s = r /\ q.todo # <<>> /\ requests'[s] = q
    BY <1>3, <2>1 DEF Active
  <2>3. CASE q.todo = <<>>
    <3>1. Active' = {}
      BY <2>2, <2>3
    <3>2. Left(q.todo) = {}
      BY <2>3, EmptyList DEF List
    <3> QED
      BY <1>5, <3>1, <3>2 DEF Undisturbed
  <2>4. CASE q.todo # <<>>
    <3>1. Active' = {r} /\ requests'[r] = q
      BY <1>2, <1>3, <2>2, <2>4 DEF Active
    <3> QED
      BY <1>5, <3>1 DEF Undisturbed
  <2> QED
    BY <2>3, <2>4
<1> QED
  BY <1>1, <1>4, <1>5 DEF CalmInv, Inv

\* A request that begins beside nothing finds the account settled.
LEMMA BeginStep ==
    ASSUME CalmInv, NEW r \in Requests, requests[r] = None, NEW q \in Request,
           requests' = [requests EXCEPT ![r] = q],
           disturbed' = (disturbed \/ Active # {}),
           q.todo # <<>>, Ordered(q.todo), InProgram(Left(q.todo)),
           proven \subseteq proven', proven' \subseteq Addresses,
           UNCHANGED <<rows, recover, remember, step, guesses>>,
           Holds(Left(q.todo), q, rows, proven'),
           ~disturbed /\ Active = {} =>
             Knows(Left(q.todo), q, rows, recover, step, guesses)
    PROVE  CalmInv'
<1>1. /\ requests \in [Requests -> Request \cup {None}] /\ q # None
      /\ requests' \in [Requests -> Request \cup {None}]
      /\ requests'[r] = q
      /\ \A s \in Requests : s # r => requests'[s] = requests[s]
  BY NoneAssumption DEF CalmInv, Inv, RequestsOK
<1>2. RowsOK' /\ TableOK'
  BY DEF CalmInv, Inv, RowsOK, TableOK
<1>3. RequestsOK'
  <2> SUFFICES ASSUME NEW s \in Active'
               PROVE  /\ requests'[s].todo # <<>> /\ Ordered(requests'[s].todo)
                      /\ InProgram(Left(requests'[s].todo))
                      /\ Holds(Left(requests'[s].todo), requests'[s], rows',
                               proven')
    BY <1>1 DEF RequestsOK
  <2>1. CASE s = r
    BY <1>1, <2>1
  <2>2. CASE s # r
    <3>1. s \in Active /\ requests'[s] = requests[s]
      BY <1>1, <2>2 DEF Active
    <3>2. /\ requests[s].todo # <<>> /\ Ordered(requests[s].todo)
          /\ InProgram(Left(requests[s].todo))
          /\ Holds(Left(requests[s].todo), requests[s], rows, proven)
      BY <3>1 DEF CalmInv, Inv, RequestsOK
    <3> QED
      BY <3>1, <3>2, HoldsLater
  <2> QED
    BY <2>1, <2>2
<1>4. ASSUME ~disturbed'
      PROVE  Undisturbed'
  <2>1. ~disturbed /\ Active = {} /\ Undisturbed
    BY <1>4 DEF CalmInv
  <2>2. Active' = {r} /\ requests'[r] = q
    BY <1>1, <2>1 DEF Active
  <2>3. Settled({}, rows, recover, remember, guesses)
    BY <2>1 DEF Undisturbed
  <2>4. Settled(Left(q.todo), rows, recover, remember, guesses)
    BY <2>3 DEF Settled
  <2> QED
    BY <2>1, <2>2, <2>4 DEF Undisturbed
<1> QED
  BY <1>2, <1>3, <1>4 DEF CalmInv, Inv

----------------------------------------------------------------------------
\* What a handler makes sure of before its first statement.
Ready(S, d, row) ==
    /\ S \cap {"write", "enable", "used"} = {}
    /\ "remember" \in S => d \in Devices
    /\ "code" \in S => /\ row.address # None
                       /\ ~disturbed /\ Active = {} => Counted(row, guesses)
    /\ "take" \in S => row.type \in Challenges
    /\ "untake" \in S => "take" \in S
    /\ "save" \in S => /\ "assert" \in S
                       /\ \/ {"protect", "clear"} \subseteq S
                          \/ \E x \in rows : x.type = "webauthn"
    /\ "update" \in S => Hits(row.id, rows, {"webauthn"})
    /\ "insert" \in S =>
         /\ MadeRow(row) /\ "drop" \in S
         /\ row.enabled => {"protect", "clear"} \subseteq S
         /\ row.code => row.type = "email" /\ row.attempts = 0
         /\ \/ row.accepted = {}
            \/ /\ row.type = "authenticator" /\ "totp" \in S
               /\ row.accepted = UNION {x.accepted : x \in RowsOf("authenticator")}
    /\ "unprotect" \in S => "wipe" \in S

\* A handler that is ready has what its request relies on.
LEMMA BeginReady ==
    ASSUME CalmInv, NEW r \in Idle, NEW d \in Devices \cup {None},
           NEW todo \in Seq(Statement), NEW row \in Row,
           Begin(r, d, todo, row), Ordered(todo), InProgram(Left(todo)),
           Ready(Left(todo), d, row)
    PROVE  CalmInv'
<1> DEFINE S == Left(todo)
           i == IF d = None \/ disturbed \/ Active # {} THEN {} ELSE ids(Enabled)
           q == [todo |-> todo, row |-> row, recover |-> recover, device |-> d,
                 ids |-> i]
<1>1. /\ r \in Requests /\ requests[r] = None /\ todo # <<>>
      /\ requests' = [requests EXCEPT ![r] = q]
      /\ disturbed' = (disturbed \/ Active # {})
      /\ UNCHANGED <<rows, recover, remember, step, guesses, proven>>
  BY DEF Begin, Idle, table
<1>2. /\ \A x \in rows : x.id \in 1 .. MaxRows /\ x.enabled \in BOOLEAN
      /\ recover \in BOOLEAN /\ proven \subseteq Addresses
  BY BoundAssumption DEF CalmInv, Inv, RowsOK, TableOK, StoredRow, Row
<1>3. i \subseteq 1 .. MaxRows
  BY <1>2 DEF ids, Enabled
<1>4. d \in Devices /\ ~disturbed /\ Active = {} =>
        \A x \in rows : x.enabled => x.id \in i
  BY NoneAssumption DEF ids, Enabled
<1> HIDE DEF i
<1>5. /\ q \in Request
      /\ q.todo = todo /\ q.row = row /\ q.recover = recover
      /\ q.device = d /\ q.ids = i
  BY <1>2, <1>3 DEF Request
<1> HIDE DEF q
<1>6. Holds(S, q, rows, proven)
  BY <1>5 DEF Ready, Holds
<1>7. ASSUME ~disturbed, Active = {}
      PROVE  Knows(S, q, rows, recover, step, guesses)
  <2>1. /\ "take" \in S => q.row.type \in Challenges
        /\ "untake" \in S => "take" \in S
        /\ "save" \in S => \/ {"protect", "clear"} \subseteq S
                           \/ \E x \in rows : x.type = "webauthn"
        /\ "save" \in S => "assert" \in S
        /\ "used" \notin S /\ "enable" \notin S /\ "write" \notin S
        /\ "protect" \in S => (q.recover => recover)
        /\ "unprotect" \in S => "wipe" \in S
        /\ "remember" \in S => \A x \in rows : x.enabled => x.id \in q.ids
        /\ "code" \in S => Counted(q.row, guesses)
    BY <1>4, <1>5, <1>7 DEF Ready
  <2>2. "insert" \in S =>
          /\ "drop" \in S
          /\ q.row.enabled => {"protect", "clear"} \subseteq S
          /\ q.row.code => q.row.type = "email" /\ q.row.attempts = 0
          /\ q.row.type # "authenticator" => q.row.accepted = {}
    BY <1>5 DEF Ready
  <2>3. "insert" \in S => \A s \in q.row.accepted :
          "totp" \in S /\ \E x \in rows : x.type = "authenticator" /\ s \in x.accepted
    BY <1>5 DEF Ready, RowsOf
  <2> HIDE DEF S
  <2> QED
    BY <2>1, <2>2, <2>3 DEF Knows
<1> QED
  BY <1>1, <1>2, <1>5, <1>6, <1>7, BeginStep

\* The rows that handlers make up.
LEMMA NewRows ==
    ASSUME NEW type \in Types \cup Challenges
    PROVE  LET n == NewRow(type)
           IN  /\ n \in Row /\ n.id = 0 /\ n.type = type
               /\ n.enabled <=> type \in Types \ {"email"}
               /\ n.accepted = {} /\ n.keys = {} /\ n.address = None
               /\ ~n.code /\ n.attempts = 0
               /\ type # "email" => MadeRow(n)
<1> DEFINE e == type \in Types \ {"email"}
           n == [id |-> 0, type |-> type, enabled |-> e, last |-> 0,
                 accepted |-> {}, address |-> None, code |-> FALSE,
                 attempts |-> 0, keys |-> {}]
<1>1. NewRow(type) = n
  BY DEF NewRow
<1>2. e \in BOOLEAN /\ 0 \in 0 .. MaxRows
  BY BoundAssumption
<1>3. e <=> type \in Types \ {"email"}
  OBVIOUS
<1> HIDE DEF e
<1>4. n \in Row
  BY <1>2 DEF Row
<1>5. MadeRow(n) \/ type = "email"
  BY <1>3 DEF MadeRow, WellFormed
<1> QED
  BY <1>1, <1>3, <1>4, <1>5

\* A list in front of another one.
LEMMA Concat ==
    ASSUME NEW t, NEW u, NEW S, NEW R, List(t, S), List(u, R),
           \A x \in S, y \in R : Stage(x) < Stage(y)
    PROVE  List(t \o u, S \cup R)
BY ConcatLeft DEF List

\* The programs of the settings.
LEMMA SettingPrograms ==
    /\ InProgram({"totp", "drop", "insert", "protect", "clear"})
    /\ InProgram({"drop", "insert", "protect", "clear"})
    /\ InProgram({"drop", "clear"}) /\ InProgram({"drop", "clear", "remaining"})
    /\ InProgram({"drop", "insert"}) /\ InProgram({"enable", "protect", "clear"})
    /\ InProgram({"take", "untake", "assert", "save", "protect", "clear"})
    /\ InProgram({"update"}) /\ InProgram({"drop"}) /\ InProgram({"send"})
    /\ InProgram({"wipe", "unprotect", "clear"})
    /\ InProgram({"wipe", "unprotect"}) /\ InProgram({"unprotect"})
BY DEF InProgram, Programs

\* ActivateAuthenticator checks a code first.
LEMMA TotpActivateList ==
    List(<<"totp">> \o activated, {"totp", "drop", "insert", "protect", "clear"})
<1> DEFINE A == {"drop", "insert", "protect", "clear"}
<1>1. List(activated, A) /\ List(<<"totp">>, {"totp"})
  BY ActivateList, OneStatement DEF activated, Statement
<1>2. \A y \in A : Stage("totp") < Stage(y)
  BY DEF Stage
<1>3. {"totp"} \cup A = {"totp", "drop", "insert", "protect", "clear"}
  OBVIOUS
<1> HIDE DEF A
<1>4. List(<<"totp">> \o activated, {"totp"} \cup A)
  BY <1>1, <1>2, Concat
<1> QED
  BY <1>3, <1>4

\* A handler begins with a list that is part of a program.
LEMMA BeginListed ==
    ASSUME CalmInv, NEW r \in Idle, NEW d \in Devices \cup {None}, NEW todo,
           NEW S, List(todo, S), InProgram(S), NEW row \in Row,
           Begin(r, d, todo, row), Ready(S, d, row)
    PROVE  CalmInv'
BY BeginReady DEF List

\* The row of the factor of a login, or none that matters.
LEMMA SelectedRow ==
    ASSUME CalmInv, NEW f, NEW x \in Selected(f)
    PROVE  /\ x \in Row
           /\ \/ /\ f \in Offered \ {"webauthn"} /\ x \in rows
                 /\ x.type = f /\ StoredRow(x)
              \/ f \notin Offered \ {"webauthn"} /\ x = NewRow("login")
<1>1. CASE f \in Offered \ {"webauthn"}
  BY <1>1 DEF Selected, Enabled, CalmInv, Inv, RowsOK, StoredRow
<1>2. CASE f \notin Offered \ {"webauthn"}
  BY <1>2, NewRows DEF Selected, Challenges
<1> QED
  BY <1>1, <1>2

\* twofactorAuth: whichever factor the client names, the handler is ready for
\* what it goes on to do.
LEMMA LoginStep ==
    ASSUME CalmInv, NEW r \in Idle, NEW d \in Devices,
           NEW f \in Types \cup {"remember", "recovery", None},
           NEW right \in BOOLEAN, NEW keep \in BOOLEAN,
           Login(r, d, f, right, keep)
    PROVE  CalmInv'
<1> DEFINE u == IF keep THEN <<"remember">> ELSE <<>>
           R == IF keep THEN {"remember"} ELSE {}
           todo == IF Passes(d, f, right) THEN Verify(f) \o u
                   ELSE IF f = "recovery" \/ f \in Offered THEN <<>> ELSE Offer
<1>1. PICK x \in Selected(f) : Begin(r, d, todo, x)
  BY DEF Login
<1>2. x \in Row /\ todo # <<>>
  BY <1>1, SelectedRow DEF Begin
<1>3. List(u, R) /\ R \subseteq {"remember"}
  BY EmptyList, OneStatement DEF Statement
<1>l. /\ NewRow("login").type = "login" /\ MadeRow(NewRow("login"))
      /\ NewRow("login").accepted = {} /\ ~NewRow("login").code
      /\ ~NewRow("login").enabled
  <2>1. "login" \in Challenges /\ "login" # "email" /\ "login" \notin Types
    BY ServicesAssumption DEF Challenges, Types
  <2> QED
    BY <2>1, NewRows
<1> HIDE DEF u, R
<1>4. CASE Passes(d, f, right) /\ f = "authenticator"
  <2>1. List(<<"totp">> \o u, {"totp"} \cup R)
    BY <1>3, OneStatement, Concat DEF Statement, Stage
  <2>2. InProgram({"totp"} \cup R) /\ Ready({"totp"} \cup R, d, x)
    BY <1>3 DEF InProgram, Programs, Ready
  <2>3. todo = <<"totp">> \o u
    BY <1>4 DEF Verify
  <2> QED
    BY <1>1, <1>2, <2>1, <2>2, <2>3, BeginListed
<1>5. CASE Passes(d, f, right) /\ f = "email"
  <2>1. List(<<"code">> \o u, {"code"} \cup R)
    BY <1>3, OneStatement, Concat DEF Statement, Stage
  <2>2. f \in Offered
    BY <1>5 DEF Passes
  <2>3. x \in rows /\ x.address # None
    BY <1>5, <2>2, SelectedRow DEF StoredRow, WellFormed
  <2>4. ~disturbed /\ Active = {} => Counted(x, guesses)
    BY <2>3 DEF CalmInv, Undisturbed, Settled
  <2>5. InProgram({"code"} \cup R) /\ Ready({"code"} \cup R, d, x)
    BY <1>3, <2>3, <2>4 DEF InProgram, Programs, Ready
  <2>6. todo = <<"code">> \o u
    BY <1>5 DEF Verify
  <2> QED
    BY <1>1, <1>2, <2>1, <2>5, <2>6, BeginListed
<1>6. CASE Passes(d, f, right) /\ f = "webauthn"
  <2> DEFINE A == {"take", "untake", "assert", "save"}
             t == <<"take", "untake", "assert", "save">>
  <2>1. \A a \in A, b \in {"remember"} : Stage(a) < Stage(b)
    BY DEF Stage
  <2>2. List(t \o u, A \cup R)
    <3> HIDE DEF A, t
    <3>1. List(t, A)
      BY AssertList DEF A, t
    <3> QED
      BY <1>3, <2>1, <3>1, Concat
  <2>3. f \in Offered
    BY <1>6 DEF Passes
  <2>4. x = NewRow("login") /\ x.type = "login"
    BY <1>6, <1>l, SelectedRow
  <2>5. \E y \in rows : y.type = "webauthn"
    BY <1>6, <2>3 DEF Offered, Enabled
  <2>6. InProgram(A \cup R) /\ Ready(A \cup R, d, x)
    BY <1>3, <2>4, <2>5 DEF InProgram, Programs, Ready, Challenges
  <2>7. todo = t \o u
    BY <1>6 DEF Verify
  <2> HIDE DEF A, t
  <2> QED
    BY <1>1, <1>2, <2>2, <2>6, <2>7, BeginListed
<1>7. CASE Passes(d, f, right) /\ f = "recovery"
  <2> DEFINE A == {"wipe", "unprotect"}
             t == <<"wipe", "unprotect">>
  <2>1. \A a \in A, b \in {"remember"} : Stage(a) < Stage(b)
    BY DEF Stage
  <2>2. List(t \o u, A \cup R)
    <3> HIDE DEF A, t
    <3>1. List(t, A)
      BY WipeList DEF A, t
    <3> QED
      BY <1>3, <2>1, <3>1, Concat
  <2>3. InProgram(A \cup R) /\ Ready(A \cup R, d, x)
    BY <1>3 DEF InProgram, Programs, Ready
  <2>4. todo = t \o u
    BY <1>7 DEF Verify
  <2> HIDE DEF A, t
  <2> QED
    BY <1>1, <1>2, <2>2, <2>3, <2>4, BeginListed
<1>8. CASE /\ Passes(d, f, right)
           /\ f \notin {"authenticator", "email", "webauthn", "recovery"}
  <2>1. List(<<>> \o u, {} \cup R)
    BY <1>3, EmptyList, Concat
  <2>2. InProgram({} \cup R) /\ Ready({} \cup R, d, x)
    BY <1>3 DEF InProgram, Programs, Ready
  <2>3. todo = <<>> \o u
    BY <1>8 DEF Verify
  <2> QED
    BY <1>1, <1>2, <2>1, <2>2, <2>3, BeginListed
<1>9. CASE ~Passes(d, f, right)
  <2>1. f \notin Offered /\ todo = Offer
    BY <1>2, <1>9
  <2>2. x = NewRow("login")
    BY <2>1, SelectedRow
  <2>3. CASE todo = <<"offer", "drop", "insert">>
    <3> DEFINE A == {"offer", "drop", "insert"}
    <3>1. List(todo, A)
      BY <2>3, OfferList
    <3>2. InProgram(A) /\ Ready(A, d, x)
      BY <1>l, <2>2 DEF InProgram, Programs, Ready
    <3> HIDE DEF A, todo
    <3> QED
      BY <1>1, <1>2, <3>1, <3>2, BeginListed
  <2>4. CASE todo = <<"send">>
    <3>1. List(todo, {"send"})
      BY <2>4, OneStatement DEF Statement
    <3>2. InProgram({"send"}) /\ Ready({"send"}, d, x)
      BY SettingPrograms DEF Ready
    <3> HIDE DEF todo
    <3> QED
      BY <1>1, <1>2, <3>1, <3>2, BeginListed
  <2> QED
    BY <1>2, <2>1, <2>3, <2>4 DEF Offer
<1> QED
  BY <1>4, <1>5, <1>6, <1>7, <1>8, <1>9

\* The handlers of the settings that make up a row.
LEMMA SettingStep ==
    ASSUME CalmInv, NEW r \in Idle,
           \/ ActivateAuthenticator(r) \/ DeleteAuthenticator(r)
           \/ \E type \in Types \cup Challenges : DisableTwofactor(r, type)
           \/ \E a \in Addresses : SetupEmail(r, a)
           \/ StartRegistration(r) \/ FinishRegistration(r)
           \/ \E type \in Services : ActivateService(r, type)
           \/ RemoveYubikeys(r) \/ SendEmailLogin(r) \/ Recover(r) \/ AdminRemove(r)
    PROVE  CalmInv'
<1>0. /\ {"authenticator", "email", "webauthn"} \subseteq Types
      /\ "yubikey" \in Services => "yubikey" \in Types
      /\ Services \subseteq Types \ {"authenticator", "email", "webauthn"}
      /\ Challenges = {"registration", "login"} /\ Challenges \cap Types = {}
  BY ServicesAssumption DEF Types, Challenges
<1>1. CASE ActivateAuthenticator(r)
  <2> DEFINE A == {"totp", "drop", "insert", "protect", "clear"}
             n == NewRow("authenticator")
             acc == UNION {x.accepted : x \in RowsOf("authenticator")}
             row == [n EXCEPT !.accepted = acc]
  <2>1. acc \subseteq Nat
    BY DEF RowsOf, CalmInv, Inv, RowsOK, StoredRow, Row
  <2>2. n \in Row /\ MadeRow(n) /\ n.type = "authenticator" /\ ~n.code
    BY <1>0, NewRows
  <2>3. Begin(r, None, <<"totp">> \o activated, row)
    BY <1>1 DEF ActivateAuthenticator
  <2> HIDE DEF acc, n
  <2>4. /\ row \in Row /\ row.type = "authenticator" /\ ~row.code
        /\ row.accepted = acc /\ MadeRow(row)
    BY <2>1, <2>2 DEF Row, MadeRow, WellFormed
  <2> HIDE DEF row
  <2>5. Ready(A, None, row)
    BY <2>4 DEF Ready, acc
  <2>6. List(<<"totp">> \o activated, A) /\ InProgram(A)
    BY TotpActivateList, SettingPrograms
  <2> HIDE DEF A
  <2> QED
    BY <2>3, <2>4, <2>5, <2>6, BeginListed
<1>2. ASSUME NEW type \in Services, ActivateService(r, type)
      PROVE  CalmInv'
  <2> DEFINE A == {"drop", "insert", "protect", "clear"}
             n == NewRow(type)
  <2>1. n \in Row /\ MadeRow(n) /\ ~n.code /\ n.accepted = {}
    BY <1>0, NewRows
  <2>2. Begin(r, None, activated, n)
    BY <1>2 DEF ActivateService
  <2> HIDE DEF n
  <2>3. Ready(A, None, n)
    BY <2>1 DEF Ready
  <2>4. List(activated, A) /\ InProgram(A)
    BY ActivateList, SettingPrograms DEF activated
  <2> HIDE DEF A
  <2> QED
    BY <2>1, <2>2, <2>3, <2>4, BeginListed
<1>3. ASSUME NEW type \in Types \cup Challenges, NEW todo,
             NEW A \in {{"drop", "clear"}, {"drop", "clear", "remaining"},
                        {"drop"}, {"send"}, {"wipe", "unprotect"},
                        {"wipe", "unprotect", "clear"}},
             List(todo, A), Begin(r, None, todo, NewRow(type))
      PROVE  CalmInv'
  <2>1. InProgram(A)
    BY SettingPrograms
  <2>2. NewRow(type) \in Row
    BY NewRows
  <2>3. Ready(A, None, NewRow(type))
    BY DEF Ready
  <2> QED
    BY <1>3, <2>1, <2>2, <2>3, BeginListed
<1>4. CASE DeleteAuthenticator(r)
  BY <1>0, <1>3, <1>4, DeleteList DEF DeleteAuthenticator
<1>5. ASSUME NEW type \in Types \cup Challenges, DisableTwofactor(r, type)
      PROVE  CalmInv'
  BY <1>3, <1>5, DisableList DEF DisableTwofactor
<1>6. CASE RemoveYubikeys(r)
  <2>1. List(<<"drop">>, {"drop"})
    BY OneStatement DEF Statement
  <2> QED
    BY <1>0, <1>3, <1>6, <2>1 DEF RemoveYubikeys
<1>7. CASE SendEmailLogin(r)
  <2>1. List(<<"send">>, {"send"})
    BY OneStatement DEF Statement
  <2> QED
    BY <1>0, <1>3, <1>7, <2>1 DEF SendEmailLogin
<1>8. CASE Recover(r)
  BY <1>0, <1>3, <1>8, RecoverList DEF Recover
<1>9. CASE AdminRemove(r)
  BY <1>0, <1>3, <1>9, WipeList DEF AdminRemove
<1>10. ASSUME NEW a \in Addresses, SetupEmail(r, a)
       PROVE  CalmInv'
  <2> DEFINE A == {"drop", "insert"}
             n == NewRow("email")
             c == TRUE
             row == [n EXCEPT !.address = a, !.code = c]
  <2>1. /\ n \in Row /\ n.type = "email" /\ ~n.enabled /\ n.keys = {}
        /\ n.accepted = {} /\ n.attempts = 0
    BY <1>0, NewRows
  <2>2. Begin(r, None, <<"drop", "insert">>, row)
    BY <1>10 DEF SetupEmail
  <2>3. c \in BOOLEAN /\ a # None
    BY NoneAssumption
  <2> HIDE DEF c, n
  <2>4. /\ row \in Row /\ MadeRow(row) /\ row.type = "email" /\ ~row.enabled
        /\ row.accepted = {} /\ row.attempts = 0
    BY <2>1, <2>3 DEF Row, MadeRow, WellFormed
  <2> HIDE DEF row
  <2>5. Ready(A, None, row)
    BY <2>4 DEF Ready
  <2>6. List(<<"drop", "insert">>, A) /\ InProgram(A)
    BY SetupList, SettingPrograms
  <2> HIDE DEF A
  <2> QED
    BY <2>2, <2>4, <2>5, <2>6, BeginListed
<1>11. CASE StartRegistration(r)
  <2> DEFINE A == {"drop", "insert"}
             row == NewRow("registration")
  <2>1. /\ row \in Row /\ MadeRow(row) /\ ~row.code /\ row.accepted = {}
        /\ ~row.enabled
    BY <1>0, NewRows
  <2>2. Begin(r, None, <<"drop", "insert">>, row)
    BY <1>11 DEF StartRegistration
  <2> HIDE DEF row
  <2>3. Ready(A, None, row)
    BY <2>1 DEF Ready
  <2>4. List(<<"drop", "insert">>, A) /\ InProgram(A)
    BY SetupList, SettingPrograms
  <2> HIDE DEF A
  <2> QED
    BY <2>1, <2>2, <2>3, <2>4, BeginListed
<1>12. CASE FinishRegistration(r)
  <2> DEFINE A == {"take", "untake", "assert", "save", "protect", "clear"}
             todo == <<"take", "untake", "assert", "save", "protect", "clear">>
             row == NewRow("registration")
  <2>1. row \in Row /\ row.type \in Challenges
    BY <1>0, NewRows
  <2>2. Begin(r, None, todo, row)
    BY <1>12 DEF FinishRegistration
  <2> HIDE DEF row
  <2>3. Ready(A, None, row)
    BY <2>1 DEF Ready
  <2>4. List(todo, A) /\ InProgram(A)
    BY RegisterList, SettingPrograms
  <2> HIDE DEF A, todo
  <2> QED
    BY <2>1, <2>2, <2>3, <2>4, BeginListed
<1> QED
  BY <1>1, <1>2, <1>4, <1>5, <1>6, <1>7, <1>8, <1>9, <1>10, <1>11, <1>12

\* The deletion of a security key names the row that it has read.
LEMMA DeleteRegistrationStep ==
    ASSUME CalmInv, NEW r \in Idle, NEW k \in Keys, DeleteRegistration(r, k)
    PROVE  CalmInv'
<1> DEFINE e == FALSE
<1>1. PICK x \in RowsOf("webauthn") :
        Begin(r, None, <<"update">>, [x EXCEPT !.keys = @ \ {k}, !.enabled = e])
  BY DEF DeleteRegistration
<1>2. e \in BOOLEAN
  OBVIOUS
<1> HIDE DEF e
<1> DEFINE row == [x EXCEPT !.keys = x.keys \ {k}, !.enabled = e]
<1>3. x \in rows /\ x \in Row /\ x.type = "webauthn"
  BY DEF RowsOf, CalmInv, Inv, RowsOK, StoredRow
<1>4. row \in Row /\ row.id = x.id
  BY <1>2, <1>3 DEF Row
<1>5. Hits(row.id, rows, {"webauthn"})
  BY <1>3, <1>4 DEF Hits, CalmInv, Inv, RowsOK, Distinct
<1>6. Begin(r, None, <<"update">>, row)
  BY <1>1
<1> HIDE DEF row
<1>7. Ready({"update"}, None, row)
  BY <1>5 DEF Ready
<1>8. List(<<"update">>, {"update"}) /\ InProgram({"update"})
  BY OneStatement, SettingPrograms DEF Statement
<1> QED
  BY <1>4, <1>6, <1>7, <1>8, BeginListed

\* The e-mail provider is enabled for an address whose owner has just returned
\* the code.
LEMMA EnableEmailStep ==
    ASSUME CalmInv, NEW r \in Idle, NEW a \in Addresses, NEW right \in BOOLEAN,
           EnableEmail(r, a, right)
    PROVE  CalmInv'
<1> DEFINE c == FALSE
           todo == <<"enable", "protect", "clear">>
           A == {"enable", "protect", "clear"}
<1>1. PICK x \in RowsOf("email") :
        /\ emailToken(x, a, right)
        /\ requests' = [requests EXCEPT ![r] =
             [todo |-> todo, row |-> [x EXCEPT !.code = c, !.attempts = 0],
              recover |-> recover, device |-> None, ids |-> {}]]
        /\ disturbed' = (disturbed \/ Active # {})
        /\ proven' = IF right THEN proven \cup {x.address} ELSE proven
        /\ UNCHANGED <<rows, recover, remember, step, guesses>>
  BY DEF EnableEmail
<1>2. c \in BOOLEAN /\ ~c
  OBVIOUS
<1> HIDE DEF c
<1> DEFINE row == [x EXCEPT !.code = c, !.attempts = 0]
           q == [todo |-> todo, row |-> row, recover |-> recover,
                 device |-> None, ids |-> {}]
<1>3. /\ x \in rows /\ x \in Row /\ x.type = "email" /\ x.address = a
      /\ proven' = proven \cup {a} /\ recover \in BOOLEAN
      /\ proven \subseteq Addresses /\ a # None
  BY <1>1, NoneAssumption
     DEF RowsOf, CalmInv, Inv, RowsOK, TableOK, StoredRow, emailToken
<1>4. row \in Row /\ row.id = x.id /\ row.address = a /\ ~row.code
  BY <1>2, <1>3 DEF Row
<1>5. Hits(row.id, rows, {"email"})
  BY <1>3, <1>4 DEF Hits, CalmInv, Inv, RowsOK, Distinct
<1>6. List(todo, A) /\ InProgram(A) /\ todo # <<>>
  <2>1. todo # <<>>
    OBVIOUS
  <2> QED
    BY <2>1, EnableList, SettingPrograms
<1>a. requests' = [requests EXCEPT ![r] = q]
  BY <1>1
<1> HIDE DEF row, todo
<1>7. /\ q \in Request /\ q.todo = todo /\ q.row = row /\ q.recover = recover
  BY <1>3, <1>4, <1>6 DEF Request, List
<1> HIDE DEF q
<1>8. Holds(A, q, rows, proven')
  BY <1>3, <1>4, <1>5, <1>7 DEF Holds
<1>9. Knows(A, q, rows, recover, step, guesses)
  BY <1>4, <1>7 DEF Knows
<1> HIDE DEF A
<1> QED
  BY <1>1, <1>a, <1>3, <1>6, <1>7, <1>8, <1>9, BeginStep DEF Idle, List

\* Whatever begins is ready for it.
LEMMA ArriveStep ==
    ASSUME CalmInv, NEW r \in Idle, Arrive(r)
    PROVE  CalmInv'
BY LoginStep, SettingStep, DeleteRegistrationStep, EnableEmailStep DEF Arrive

----------------------------------------------------------------------------
\* An UPDATE leaves the table in order, and each row of it its type.
LEMMA Updated ==
    ASSUME NEW T, NEW g, NEW U, \A x \in T : g[x] \in U,
           \A y \in U : \E x \in T : y = g[x],
           IsFiniteSet(T), Distinct(T),
           \A x \in T : g[x].id = x.id /\ g[x].type = x.type /\ StoredRow(g[x])
    PROVE  /\ IsFiniteSet(U) /\ Distinct(U) /\ \A y \in U : StoredRow(y)
           /\ \A y \in U : \E x \in T :
                x.id = y.id /\ x.type = y.type /\ y = g[x]
           /\ (/\ CalmRows(T)
               /\ \A x \in T : /\ g[x].code => x.type = "email"
                               /\ \A s \in g[x].accepted : s <= g[x].last)
                => CalmRows(U)
<1> DEFINE h == [x \in T |-> g[x]]
<1>1. IsFiniteSet(U)
  <2>1. h \in Surjection(T, U)
    BY DEF Surjection
  <2> HIDE DEF h
  <2> QED
    BY <2>1, FS_Surjection
<1> HIDE DEF h
<1>2. \A y \in U : \E x \in T : x.id = y.id /\ x.type = y.type /\ y = g[x]
  OBVIOUS
<1>3. Distinct(U)
  BY <1>2 DEF Distinct
<1>4. ASSUME CalmRows(T),
             \A x \in T : /\ g[x].code => x.type = "email"
                          /\ \A s \in g[x].accepted : s <= g[x].last
      PROVE  CalmRows(U)
  <2>1. \A y, z \in U : y.type = z.type => y = z
    BY <1>2, <1>4 DEF CalmRows
  <2>2. \A y \in U : /\ y.code => y.type = "email"
                     /\ \A s \in y.accepted : s <= y.last
    BY <1>2, <1>4
  <2> QED
    BY <2>1, <2>2 DEF CalmRows
<1> QED
  BY <1>1, <1>2, <1>3, <1>4

\* A DELETE leaves it in order, too.
LEMMA Deleted ==
    ASSUME NEW T, NEW U \in SUBSET T, IsFiniteSet(T), Distinct(T),
           \A x \in T : StoredRow(x)
    PROVE  /\ IsFiniteSet(U) /\ Distinct(U) /\ \A y \in U : StoredRow(y)
           /\ CalmRows(T) => CalmRows(U)
BY FS_Subset DEF Distinct, CalmRows

\* A statement that leaves the tables alone leaves them in order.
LEMMA TableStays ==
    ASSUME CalmInv, UNCHANGED table, UNCHANGED disturbed
    PROVE  TableOK'
BY DEF table, TableOK, CalmInv, Inv

\* A request ends early.
LEMMA DoneStep ==
    ASSUME CalmInv, NEW r \in Active, Done(r),
           UNCHANGED <<rows, recover, remember, step, guesses, proven>>,
           ~disturbed => Settled({}, rows, recover, remember, guesses)
    PROVE  CalmInv'
<1> DEFINE q == [requests[r] EXCEPT !.todo = <<>>]
<1>1. requests[r] \in Request
  BY Going DEF CalmInv
<1>2. q \in Request /\ q.todo = <<>>
  BY <1>1, EmptyList DEF Request, List
<1>3. Continue(r, q)
  BY DEF Done
<1> HIDE DEF q
<1>4. List(q.todo, {}) /\ InProgram({})
  BY <1>2, EmptyList DEF InProgram, Programs
<1>5. /\ Holds({}, q, rows', proven')
      /\ Knows({}, q, rows', recover', step', guesses')
  BY DEF Holds, Knows
<1>6. RowsOK' /\ TableOK'
  BY <1>3 DEF CalmInv, Inv, RowsOK, TableOK, Continue
<1>7. ~disturbed => CalmRows(rows')
  BY DEF CalmInv, Undisturbed
<1> QED
  BY <1>2, <1>3, <1>4, <1>5, <1>6, <1>7, GoOn DEF List

\* What a request goes on with has the form of what it has had.
LEMMA NextList ==
    ASSUME CalmInv, NEW r \in Active, NEW t, NEW S, List(t, S),
           \A x \in S, y \in Left(Rest(r)) : Stage(x) < Stage(y)
    PROVE  List(t \o Rest(r), S \cup Left(Rest(r)))
<1>1. List(Rest(r), Left(Rest(r)))
  BY Going DEF CalmInv, List
<1> QED
  BY <1>1, Concat

\* A request goes on, and leaves the account as it is.
LEMMA StayStep ==
    ASSUME CalmInv, NEW r \in Active, NEW q \in Request, Continue(r, q),
           UNCHANGED rows, UNCHANGED table,
           NEW R, List(q.todo, R), InProgram(R), Holds(R, q, rows, proven),
           ~disturbed =>
             /\ Knows(R, q, rows, recover, step, guesses)
             /\ Settled(R, rows, recover, remember, guesses)
    PROVE  CalmInv'
<1>1. RowsOK' /\ TableOK'
  BY TableStays DEF Continue, CalmInv, Inv, RowsOK
<1>2. ~disturbed => CalmRows(rows')
  BY DEF CalmInv, Undisturbed
<1>3. UNCHANGED <<recover, remember, step, guesses, proven>>
  BY DEF table
<1> QED
  BY <1>1, <1>2, <1>3, GoOn DEF List

\* A request goes on to its next statement.
LEMMA GoStep ==
    ASSUME CalmInv, NEW r \in Active, Go(r),
           RowsOK', TableOK', proven \subseteq proven',
           \A s \in Active : s # r =>
             \A y \in rows' : \/ \E x \in rows : x.id = y.id /\ x.type = y.type
                              \/ y.id # requests[s].row.id,
           NEW R, R = Left(requests[r].todo) \ {Head(requests[r].todo)},
           Holds(R, requests[r], rows', proven'),
           ~disturbed =>
             /\ CalmRows(rows')
             /\ Knows(R, requests[r], rows', recover', step', guesses')
             /\ Settled(R, rows', recover', remember', guesses')
    PROVE  CalmInv'
<1> DEFINE q == [requests[r] EXCEPT !.todo = Rest(r)]
<1>1. /\ requests[r] \in Request /\ List(Rest(r), R) /\ InProgram(R)
  BY Going DEF CalmInv, List
<1>2. /\ q \in Request /\ q.todo = Rest(r)
      /\ q.row = requests[r].row /\ q.recover = requests[r].recover
      /\ q.device = requests[r].device /\ q.ids = requests[r].ids
  BY <1>1 DEF Request, List
<1>3. Continue(r, q)
  BY DEF Go
<1> HIDE DEF q
<1>4. Holds(R, q, rows', proven')
  BY <1>2 DEF Holds
<1>5. ASSUME ~disturbed
      PROVE  Knows(R, q, rows', recover', step', guesses')
  <2>1. Knows(R, requests[r], rows', recover', step', guesses')
    BY <1>5
  <2> QED
    BY <1>2, <2>1 DEF Knows
<1> QED
  BY <1>1, <1>2, <1>3, <1>4, <1>5, GoOn DEF List

\* What holds for a request still holds for the rest of it.
LEMMA HoldsRest ==
    ASSUME NEW S, NEW R \in SUBSET S, NEW q, NEW T, NEW pr, Holds(S, q, T, pr),
           "assert" \in S => "assert" \in R \/ "save" \notin R
    PROVE  Holds(R, q, T, pr)
BY DEF Holds

\* The account stays settled while no provider is enabled.
LEMMA SettledAfter ==
    ASSUME NEW S, NEW T, NEW rec, NEW rem, NEW g, Settled(S, T, rec, rem, g),
           ~(S \subseteq {"protect", "clear"}),
           NEW R, NEW U, NEW n,
           \A y \in U : y.enabled => \E x \in T : x.id = y.id /\ x.enabled,
           "write" \notin R => \A y \in U : Counted(y, n)
    PROVE  Settled(R, U, rec, rem, n)
BY DEF Settled

\* What the request that goes on knows, and what the account is like.
LEMMA Known ==
    ASSUME CalmInv, NEW r \in Active, ~disturbed
    PROVE  LET S == Left(requests[r].todo)
           IN  /\ CalmRows(rows) /\ Active = {r}
               /\ Knows(S, requests[r], rows, recover, step, guesses)
               /\ Settled(S, rows, recover, remember, guesses)
BY DEF CalmInv, Undisturbed

----------------------------------------------------------------------------
\* The request ends, and nothing was left that the account needs.
LEMMA RefusedStep ==
    ASSUME CalmInv, NEW r \in Active, Refused(r)
    PROVE  CalmInv'
<1> DEFINE S == Left(requests[r].todo)
           h == Head(requests[r].todo)
<1>1. /\ h \in S /\ h \in {"totp", "code", "send", "offer", "take", "assert"}
      /\ InProgram(S) /\ \A s \in S : s # h => Stage(h) < Stage(s)
  BY Going DEF CalmInv, Refused
<1>2. "write" \notin S
  BY <1>1, AfterLogin
<1>3. ASSUME ~disturbed
      PROVE  Settled({}, rows, recover, remember, guesses)
  <2>1. Settled(S, rows, recover, remember, guesses)
    BY <1>3, Known
  <2> HIDE DEF S, h
  <2>2. \A x \in rows : Counted(x, guesses)
    BY <1>2, <2>1 DEF Settled
  <2> QED
    BY <1>1, <2>1, <2>2, SettledAfter
<1> QED
  BY <1>3, DoneStep DEF Refused, table

\* The challenge is still to be made.
LEMMA OfferChallengeStep ==
    ASSUME CalmInv, NEW r \in Active, OfferChallenge(r)
    PROVE  CalmInv'
<1> DEFINE q == requests[r]
           S == Left(q.todo)
           R == S \ {"offer"}
<1>1. /\ "offer" \in S /\ Head(q.todo) = "offer" /\ InProgram(S)
      /\ \A s \in S : s # "offer" => Stage("offer") < Stage(s)
      /\ Holds(S, q, rows, proven)
  BY Going DEF CalmInv, OfferChallenge, At
<1>2. R \subseteq {"drop", "insert"}
  BY <1>1, AfterLogin
<1>3. RowsOK' /\ TableOK' /\ proven' = proven /\ rows' = rows
  BY TableStays DEF OfferChallenge, Go, Continue, CalmInv, Inv, RowsOK, table
<1>4. Holds(R, q, rows, proven)
  BY <1>1, <1>2, HoldsRest
<1>5. ASSUME ~disturbed
      PROVE  /\ Knows(R, q, rows, recover, step, guesses)
             /\ Settled(R, rows, recover, remember, guesses)
  <2>1. /\ Knows(S, q, rows, recover, step, guesses)
        /\ Settled(S, rows, recover, remember, guesses)
    BY <1>5, Known
  <2>2. "write" \notin S /\ "totp" \notin S
    BY <1>2
  <2> HIDE DEF S, q
  <2>3. Knows(R, q, rows, recover, step, guesses)
    BY <1>2, <2>1, <2>2 DEF Knows
  <2>4. \A x \in rows : Counted(x, guesses)
    BY <2>1, <2>2 DEF Settled
  <2> QED
    BY <1>1, <2>1, <2>3, <2>4, SettledAfter
<1>6. /\ UNCHANGED <<recover, remember, step, guesses>>
      /\ ~disturbed => CalmRows(rows)
  BY Known DEF OfferChallenge, table
<1> QED
  BY <1>1, <1>3, <1>4, <1>5, <1>6, GoStep DEF OfferChallenge

----------------------------------------------------------------------------
\* What a request still knows when it has done a statement.
LEMMA KnowsAfter ==
    ASSUME NEW S, NEW q, NEW T, NEW rec, NEW now, NEW g,
           Knows(S, q, T, rec, now, g),
           NEW R \in SUBSET S, NEW U, NEW n, "totp" \notin S,
           {"take", "untake", "used", "enable", "code", "write"} \cap R = {},
           S \cap {"protect", "clear", "assert"} \subseteq R,
           "insert" \in R /\ "drop" \notin R => \A y \in U : y.type # q.row.type,
           "unprotect" \in R /\ "wipe" \notin R => \A y \in U : ~y.enabled,
           "remember" \in R => \A y \in U : y.enabled =>
             \E x \in T : x.id = y.id /\ x.enabled,
           "save" \in R /\ (\E x \in T : x.type = "webauthn") =>
             \E y \in U : y.type = "webauthn"
    PROVE  Knows(R, q, U, rec, now, n)
<1>1. "insert" \in R =>
        /\ q.row.enabled => {"protect", "clear"} \subseteq R
        /\ q.row.code => q.row.type = "email" /\ q.row.attempts = 0
        /\ q.row.type # "authenticator" => q.row.accepted = {}
        /\ \A s \in q.row.accepted : s <= now
  BY DEF Knows
<1>2. "save" \in R => \/ {"protect", "clear"} \subseteq R
                      \/ \E y \in U : y.type = "webauthn"
  BY DEF Knows
<1>3. "save" \in R /\ "assert" \notin R => q.row.accepted = {} /\ ~q.row.code
  BY DEF Knows
<1>4. "protect" \in R => (q.recover => rec)
  BY DEF Knows
<1>5. "remember" \in R => \A y \in U : y.enabled => y.id \in q.ids
  BY DEF Knows
<1>6. "totp" \notin R
  OBVIOUS
<1> QED
  BY <1>1, <1>2, <1>3, <1>4, <1>5, <1>6 DEF Knows

\* A request that has done an UPDATE.
LEMMA GoUpdate ==
    ASSUME CalmInv, NEW r \in Active, Go(r), UNCHANGED table,
           NEW g, rows' = {g[x] : x \in rows},
           \A x \in rows : g[x].id = x.id /\ g[x].type = x.type /\ StoredRow(g[x]),
           NEW h, h = Head(requests[r].todo), h # "assert",
           NEW R, R = Left(requests[r].todo) \ {h},
           ~disturbed =>
             /\ \A x \in rows : /\ g[x].code => x.type = "email"
                                /\ \A s \in g[x].accepted : s <= g[x].last
             /\ Knows(R, requests[r], rows', recover, step, guesses)
             /\ Settled(R, rows', recover, remember, guesses)
    PROVE  CalmInv'
<1>1. /\ IsFiniteSet(rows) /\ Distinct(rows)
      /\ ~disturbed => CalmRows(rows)
  BY Known DEF CalmInv, Inv, RowsOK
<1>2. /\ RowsOK'
      /\ \A y \in rows' : \E x \in rows : x.id = y.id /\ x.type = y.type
      /\ ~disturbed => CalmRows(rows')
  <2>1. /\ IsFiniteSet(rows') /\ Distinct(rows')
        /\ \A y \in rows' : StoredRow(y)
        /\ \A y \in rows' : \E x \in rows :
             x.id = y.id /\ x.type = y.type /\ y = g[x]
        /\ ~disturbed => CalmRows(rows')
    <3>1. /\ \A x \in rows : g[x] \in rows'
          /\ \A y \in rows' : \E x \in rows : y = g[x]
      OBVIOUS
    <3>2. \A x \in rows :
            g[x].id = x.id /\ g[x].type = x.type /\ StoredRow(g[x])
      OBVIOUS
    <3>3. ~disturbed =>
            \A x \in rows : /\ g[x].code => x.type = "email"
                            /\ \A s \in g[x].accepted : s <= g[x].last
      OBVIOUS
    <3>4. ASSUME NEW U, U = rows', NEW T, T = rows
          PROVE  /\ IsFiniteSet(U) /\ Distinct(U) /\ \A y \in U : StoredRow(y)
                 /\ \A y \in U : \E x \in T :
                      x.id = y.id /\ x.type = y.type /\ y = g[x]
                 /\ ~disturbed => CalmRows(U)
      <4>1. /\ \A x \in T : g[x] \in U
            /\ \A y \in U : \E x \in T : y = g[x]
            /\ IsFiniteSet(T) /\ Distinct(T)
            /\ \A x \in T :
                 g[x].id = x.id /\ g[x].type = x.type /\ StoredRow(g[x])
        BY <1>1, <3>1, <3>2, <3>4
      <4>2. /\ IsFiniteSet(U) /\ Distinct(U) /\ \A y \in U : StoredRow(y)
            /\ \A y \in U : \E x \in T :
                 x.id = y.id /\ x.type = y.type /\ y = g[x]
        BY <4>1, Updated
      <4>3. ASSUME ~disturbed PROVE CalmRows(U)
        <5>1. /\ CalmRows(T)
              /\ \A x \in T : /\ g[x].code => x.type = "email"
                              /\ \A s \in g[x].accepted : s <= g[x].last
          BY <1>1, <3>3, <3>4, <4>3
        <5> QED
          BY <4>1, <5>1, Updated
      <4> QED
        BY <4>2, <4>3
    <3> QED
      BY <3>4
  <2> QED
    BY <2>1 DEF RowsOK
<1>3. TableOK' /\ UNCHANGED <<recover, remember, step, guesses, proven>>
  BY TableStays DEF Go, Continue, table
<1>4. Holds(R, requests[r], rows, proven)
  <2>1. Holds(Left(requests[r].todo), requests[r], rows, proven)
    BY Going DEF CalmInv
  <2> QED
    BY <2>1, HoldsRest
<1>5. Holds(R, requests[r], rows', proven')
  BY <1>2, <1>3, <1>4, HoldsLater
<1> QED
  BY <1>2, <1>3, <1>5, GoStep

\* The step of the code that is accepted becomes the last one.
LEMMA WriteUsedStep ==
    ASSUME CalmInv, NEW r \in Active, WriteUsed(r)
    PROVE  CalmInv'
<1> DEFINE q == requests[r]
           S == Left(q.todo)
           R == S \ {"used"}
           a == [x \in rows |->
                  IF q.device = None \/ disturbed THEN x.accepted
                  ELSE x.accepted \cup {q.row.last}]
           g == [x \in rows |-> IF x.id = q.row.id
                   THEN [x EXCEPT !.last = q.row.last, !.accepted = a[x]] ELSE x]
<1>1. /\ "used" \in S /\ Head(q.todo) = "used" /\ InProgram(S)
      /\ \A s \in S : s # "used" => Stage("used") < Stage(s)
      /\ q.row.last \in Nat
  BY Going DEF CalmInv, WriteUsed, At, Row
<1>2. \/ R \subseteq {"remember"}
      \/ R \subseteq {"drop", "insert", "protect", "clear"}
  BY <1>1, AfterLogin
<1>3. rows' = {g[x] : x \in rows}
  BY DEF WriteUsed, UpdateRow
<1>4. \A x \in rows : x \in Row /\ StoredRow(x)
  BY DEF CalmInv, Inv, RowsOK, StoredRow
<1>5. \A x \in rows : a[x] \in SUBSET Nat
  BY <1>1, <1>4 DEF Row
<1>7. \A x \in rows : \A s \in a[x] : s \in x.accepted \/ s = q.row.last
  OBVIOUS
<1> HIDE DEF a
<1>6. \A x \in rows :
        /\ x.id # q.row.id => g[x] = x
        /\ x.id = q.row.id => g[x].last = q.row.last /\ g[x].accepted = a[x]
        /\ g[x].id = x.id /\ g[x].type = x.type /\ g[x].enabled = x.enabled
        /\ g[x].address = x.address /\ g[x].code = x.code
        /\ g[x].attempts = x.attempts /\ g[x].keys = x.keys
        /\ g[x] \in Row
  <2> SUFFICES ASSUME NEW x \in rows
               PROVE  /\ x.id # q.row.id => g[x] = x
                      /\ x.id = q.row.id =>
                           g[x].last = q.row.last /\ g[x].accepted = a[x]
                      /\ g[x].id = x.id /\ g[x].type = x.type
                      /\ g[x].enabled = x.enabled /\ g[x].keys = x.keys
                      /\ g[x].address = x.address /\ g[x].code = x.code
                      /\ g[x].attempts = x.attempts /\ g[x] \in Row
    OBVIOUS
  <2>1. x.id # q.row.id => g[x] = x
    OBVIOUS
  <2>2. x.id = q.row.id =>
          g[x] = [x EXCEPT !.last = q.row.last, !.accepted = a[x]]
    OBVIOUS
  <2> HIDE DEF g
  <2>3. x \in Row /\ a[x] \in SUBSET Nat
    BY <1>4, <1>5
  <2> QED
    BY <1>1, <2>1, <2>2, <2>3 DEF Row
<1> HIDE DEF g
<1>8. \A x \in rows : StoredRow(g[x])
  BY <1>4, <1>6 DEF StoredRow, WellFormed
<1>9. ASSUME ~disturbed
      PROVE  /\ \A x \in rows : /\ g[x].code => x.type = "email"
                                /\ \A s \in g[x].accepted : s <= g[x].last
             /\ Knows(R, requests[r], rows', recover, step, guesses)
             /\ Settled(R, rows', recover, remember, guesses)
  <2>1. /\ CalmRows(rows) /\ Knows(S, q, rows, recover, step, guesses)
        /\ Settled(S, rows, recover, remember, guesses)
    BY <1>9, Known
  <2>2. "write" \notin S /\ "totp" \notin S
    BY <1>2
  <2>3. \A y \in rows' : \E x \in rows :
          x.id = y.id /\ x.type = y.type /\ x.enabled = y.enabled
    BY <1>3, <1>6
  <2>4. \A y \in rows' : Counted(y, guesses)
    <3>1. \A x \in rows : Counted(x, guesses)
      BY <2>1, <2>2 DEF Settled
    <3> QED
      BY <1>3, <1>6, <3>1 DEF Counted
  <2>5. \A x \in rows : \A s \in g[x].accepted : s <= g[x].last
    <3> SUFFICES ASSUME NEW x \in rows, NEW s \in g[x].accepted
                 PROVE  s <= g[x].last
      OBVIOUS
    <3>1. x.id # q.row.id => s <= g[x].last
      BY <1>6, <2>1 DEF CalmRows
    <3>2. ASSUME x.id = q.row.id PROVE s <= g[x].last
      <4>1. g[x].last = q.row.last /\ (s \in x.accepted \/ s = q.row.last)
        BY <1>6, <1>7, <3>2
      <4>2. x.last < q.row.last /\ (s \in x.accepted => s <= x.last)
        BY <1>1, <2>1, <3>2 DEF Knows, CalmRows
      <4>3. x.last \in Nat /\ (s \in x.accepted => s \in Nat)
        BY <1>4 DEF Row
      <4> QED
        BY <1>1, <4>1, <4>2, <4>3
    <3> QED
      BY <3>1, <3>2
  <2> HIDE DEF S, q
  <2>6. Settled(R, rows', recover, remember, guesses)
    BY <1>1, <2>1, <2>3, <2>4, SettledAfter
  <2>7. "insert" \in R /\ "drop" \notin R => \A y \in rows' : y.type # q.row.type
    BY <2>1, <2>3 DEF Knows
  <2>9. \A y \in rows' : y.enabled => \E x \in rows : x.id = y.id /\ x.enabled
    BY <2>3
  <2>10. /\ R \subseteq S /\ S \cap {"protect", "clear", "assert"} \subseteq R
         /\ R \subseteq {"remember", "drop", "insert", "protect", "clear"}
    BY <1>2
  <2> HIDE DEF R
  <2>8. Knows(R, q, rows', recover, step, guesses)
    BY <2>1, <2>2, <2>7, <2>9, <2>10, KnowsAfter
  <2> QED
    BY <1>6, <2>1, <2>5, <2>6, <2>8 DEF CalmRows, q
<1> QED
  BY <1>1, <1>3, <1>6, <1>8, <1>9, GoUpdate DEF WriteUsed

\* The row that is written to is the only one that may hold a code.
LEMMA WriteEmailStep ==
    ASSUME CalmInv, NEW r \in Active, WriteEmail(r)
    PROVE  CalmInv'
<1> DEFINE q == requests[r]
           S == Left(q.todo)
           R == S \ {"write"}
           d == q.row
           g == [x \in rows |-> IF x.id = d.id
                   THEN [x EXCEPT !.address = d.address, !.code = d.code,
                                  !.attempts = d.attempts] ELSE x]
<1>1. /\ "write" \in S /\ Head(q.todo) = "write" /\ InProgram(S)
      /\ \A s \in S : s # "write" => Stage("write") < Stage(s)
      /\ d \in Row /\ Holds(S, q, rows, proven)
  BY Going DEF CalmInv, WriteEmail, At
<1>2. R \subseteq {"remember"}
  BY <1>1, AfterLogin
<1>3. rows' = {g[x] : x \in rows}
  BY DEF WriteEmail, UpdateRow
<1>4. /\ \A x \in rows : x \in Row /\ StoredRow(x)
      /\ d.address # None /\ \A x \in rows : x.id = d.id => x.type = "email"
  BY <1>1 DEF CalmInv, Inv, RowsOK, StoredRow, Holds, Hits
<1>5. \A x \in rows :
        /\ x.id # d.id => g[x] = x
        /\ x.id = d.id => /\ g[x].address = d.address /\ g[x].code = d.code
                          /\ g[x].attempts = d.attempts
        /\ g[x].id = x.id /\ g[x].type = x.type /\ g[x].enabled = x.enabled
        /\ g[x].last = x.last /\ g[x].accepted = x.accepted
        /\ g[x].keys = x.keys
        /\ g[x] \in Row
  BY <1>1, <1>4 DEF Row
<1> HIDE DEF g, d
<1>6. \A x \in rows : StoredRow(g[x])
  BY <1>4, <1>5 DEF StoredRow, WellFormed
<1>7. ASSUME ~disturbed
      PROVE  /\ \A x \in rows : /\ g[x].code => x.type = "email"
                                /\ \A s \in g[x].accepted : s <= g[x].last
             /\ Knows(R, requests[r], rows', recover, step, guesses)
             /\ Settled(R, rows', recover, remember, guesses)
  <2>1. /\ CalmRows(rows) /\ Knows(S, q, rows, recover, step, guesses)
        /\ Settled(S, rows, recover, remember, guesses)
    BY <1>7, Known
  <2>2. "totp" \notin S
    BY <1>2
  <2>3. \A y \in rows' : \E x \in rows :
          x.id = y.id /\ x.type = y.type /\ x.enabled = y.enabled
    BY <1>3, <1>5
  <2>4. \A x \in rows : Counted(g[x], guesses) /\ (g[x].code => x.type = "email")
    <3>1. Counted(d, guesses) /\ \A x \in rows : x.type = "email" => x.id = d.id
      BY <1>1, <2>1 DEF Knows, d
    <3>2. \A x \in rows : x.code => x.type = "email"
      BY <2>1 DEF CalmRows
    <3> QED
      BY <1>4, <1>5, <3>1, <3>2 DEF Counted
  <2> HIDE DEF S, q
  <2>5. Settled(R, rows', recover, remember, guesses)
    BY <1>1, <1>3, <2>1, <2>3, <2>4, SettledAfter
  <2>9. \A y \in rows' : y.enabled => \E x \in rows : x.id = y.id /\ x.enabled
    BY <2>3
  <2>6. Knows(R, q, rows', recover, step, guesses)
    BY <1>2, <2>1, <2>2, <2>3, <2>9, KnowsAfter
  <2> QED
    BY <1>5, <2>1, <2>4, <2>5, <2>6 DEF CalmRows, q
<1> QED
  BY <1>1, <1>3, <1>5, <1>6, <1>7, GoUpdate DEF WriteEmail

\* A provider is enabled; the recovery code and the devices are still to be seen
\* to.
LEMMA WriteEnabledStep ==
    ASSUME CalmInv, NEW r \in Active, WriteEnabled(r)
    PROVE  CalmInv'
<1> DEFINE q == requests[r]
           S == Left(q.todo)
           R == S \ {"enable"}
           d == q.row
           e == TRUE
           g == [x \in rows |-> IF x.id = d.id
                   THEN [x EXCEPT !.enabled = e, !.address = d.address,
                                  !.code = d.code, !.attempts = d.attempts]
                   ELSE x]
<1>1. /\ "enable" \in S /\ Head(q.todo) = "enable" /\ InProgram(S)
      /\ \A s \in S : s # "enable" => Stage("enable") < Stage(s)
      /\ d \in Row /\ Holds(S, q, rows, proven) /\ e \in BOOLEAN
  BY Going DEF CalmInv, WriteEnabled, At
<1>2. R \subseteq {"protect", "clear"}
  BY <1>1, AfterSetting
<1>3. rows' = {g[x] : x \in rows}
  BY DEF WriteEnabled, UpdateRow
<1>4. /\ \A x \in rows : x \in Row /\ StoredRow(x)
      /\ d.address # None /\ \A x \in rows : x.id = d.id => x.type = "email"
  BY <1>1 DEF CalmInv, Inv, RowsOK, StoredRow, Holds, Hits
<1> HIDE DEF e
<1>5. \A x \in rows :
        /\ x.id # d.id => g[x] = x
        /\ x.id = d.id => /\ g[x].address = d.address /\ g[x].code = d.code
                          /\ g[x].attempts = d.attempts
        /\ g[x].id = x.id /\ g[x].type = x.type
        /\ g[x].last = x.last /\ g[x].accepted = x.accepted
        /\ g[x].keys = x.keys
        /\ g[x] \in Row
  BY <1>1, <1>4 DEF Row
<1> HIDE DEF g, d
<1>6. \A x \in rows : StoredRow(g[x])
  BY <1>4, <1>5 DEF StoredRow, WellFormed, Types
<1>7. ASSUME ~disturbed
      PROVE  /\ \A x \in rows : /\ g[x].code => x.type = "email"
                                /\ \A s \in g[x].accepted : s <= g[x].last
             /\ Knows(R, requests[r], rows', recover, step, guesses)
             /\ Settled(R, rows', recover, remember, guesses)
  <2>1. /\ CalmRows(rows) /\ Knows(S, q, rows, recover, step, guesses)
        /\ Settled(S, rows, recover, remember, guesses)
    BY <1>7, Known
  <2>2. "totp" \notin S /\ "write" \notin S
    BY <1>2
  <2>3. {"protect", "clear"} \subseteq S /\ ~d.code
    BY <1>1, <2>1 DEF Knows, d
  <2>4. \A x \in rows : Counted(g[x], guesses) /\ (g[x].code => x.type = "email")
    <3>1. \A x \in rows : Counted(x, guesses)
      BY <2>1, <2>2 DEF Settled
    <3>2. \A x \in rows : x.code => x.type = "email"
      BY <2>1 DEF CalmRows
    <3> QED
      BY <1>4, <1>5, <2>3, <3>1, <3>2 DEF Counted
  <2> HIDE DEF S, q
  <2>5. Settled(R, rows', recover, remember, guesses)
    BY <1>2, <1>3, <2>3, <2>4 DEF Settled
  <2>6. Knows(R, q, rows', recover, step, guesses)
    BY <1>2, <2>1, <2>2, KnowsAfter
  <2> QED
    BY <1>5, <2>1, <2>4, <2>5, <2>6 DEF CalmRows, q
<1> QED
  BY <1>1, <1>3, <1>5, <1>6, <1>7, GoUpdate DEF WriteEnabled

\* The row that is hit is WebAuthn's, which is enabled already.
LEMMA UpdateRegistrationsStep ==
    ASSUME CalmInv, NEW r \in Active, UpdateRegistrations(r)
    PROVE  CalmInv'
<1> DEFINE q == requests[r]
           S == Left(q.todo)
           R == S \ {"update"}
           d == q.row
           e(x) == x.enabled \/ d.enabled
           g == [x \in rows |-> IF x.id = d.id
                   THEN [x EXCEPT !.keys = d.keys, !.enabled = e(x)] ELSE x]
<1>1. /\ "update" \in S /\ Head(q.todo) = "update" /\ InProgram(S)
      /\ \A s \in S : s # "update" => Stage("update") < Stage(s)
      /\ d \in Row /\ Holds(S, q, rows, proven)
  BY Going DEF CalmInv, UpdateRegistrations, At
<1>2. R \subseteq {"remember"} \/ R \subseteq {"protect", "clear"}
  BY <1>1, AfterSetting
<1>3. rows' = {g[x] : x \in rows}
  BY DEF UpdateRegistrations, UpdateRow
<1>4. /\ \A x \in rows : x \in Row /\ StoredRow(x)
      /\ \A x \in rows : x.id = d.id => x.type = "webauthn" /\ x.enabled
  BY <1>1 DEF CalmInv, Inv, RowsOK, StoredRow, Holds, Hits, Types
<1>5. \A x \in rows : e(x) \in BOOLEAN /\ (x.enabled => e(x))
  OBVIOUS
<1> HIDE DEF e
<1>6. \A x \in rows :
        /\ x.id # d.id => g[x] = x
        /\ x.id = d.id => g[x].keys = d.keys
        /\ g[x].id = x.id /\ g[x].type = x.type
        /\ g[x].last = x.last /\ g[x].accepted = x.accepted
        /\ g[x].code = x.code /\ g[x].attempts = x.attempts
        /\ g[x].address = x.address
        /\ g[x] \in Row
  BY <1>1, <1>4, <1>5 DEF Row
<1>7. \A x \in rows : g[x].enabled => x.enabled
  BY <1>4
<1>8. \A x \in rows : x.enabled => g[x].enabled
  BY <1>4, <1>5 DEF Row
<1> HIDE DEF g, d
<1>9. \A x \in rows : StoredRow(g[x])
  BY <1>4, <1>6, <1>7, <1>8 DEF StoredRow, WellFormed, Types
<1>10. ASSUME ~disturbed
      PROVE  /\ \A x \in rows : /\ g[x].code => x.type = "email"
                                /\ \A s \in g[x].accepted : s <= g[x].last
             /\ Knows(R, requests[r], rows', recover, step, guesses)
             /\ Settled(R, rows', recover, remember, guesses)
  <2>1. /\ CalmRows(rows) /\ Knows(S, q, rows, recover, step, guesses)
        /\ Settled(S, rows, recover, remember, guesses)
    BY <1>10, Known
  <2>2. "totp" \notin S /\ "write" \notin S
    BY <1>2
  <2>3. \A y \in rows' : \E x \in rows : x.id = y.id /\ (y.enabled => x.enabled)
    BY <1>3, <1>6, <1>7
  <2>4. \A x \in rows : Counted(g[x], guesses)
    <3>1. \A x \in rows : Counted(x, guesses)
      BY <2>1, <2>2 DEF Settled
    <3> QED
      BY <1>6, <3>1 DEF Counted
  <2> HIDE DEF S, q
  <2>5. Settled(R, rows', recover, remember, guesses)
    BY <1>1, <1>3, <2>1, <2>3, <2>4, SettledAfter
  <2>9. \A y \in rows' : y.enabled => \E x \in rows : x.id = y.id /\ x.enabled
    BY <2>3
  <2>6. Knows(R, q, rows', recover, step, guesses)
    BY <1>2, <2>1, <2>2, <2>3, <2>9, KnowsAfter
  <2> QED
    BY <1>6, <2>1, <2>5, <2>6 DEF CalmRows, q
<1> QED
  BY <1>1, <1>3, <1>6, <1>9, <1>10, GoUpdate DEF UpdateRegistrations

----------------------------------------------------------------------------
\* A request that has done a DELETE.
LEMMA GoDelete ==
    ASSUME CalmInv, NEW r \in Active, Go(r), UNCHANGED table,
           rows' \subseteq rows,
           NEW h, h = Head(requests[r].todo), h # "assert",
           NEW R, R = Left(requests[r].todo) \ {h},
           ~disturbed =>
             /\ Knows(R, requests[r], rows', recover, step, guesses)
             /\ Settled(R, rows', recover, remember, guesses)
    PROVE  CalmInv'
<1>1. /\ IsFiniteSet(rows) /\ Distinct(rows) /\ \A x \in rows : StoredRow(x)
      /\ ~disturbed => CalmRows(rows)
  BY Known DEF CalmInv, Inv, RowsOK
<1>2. RowsOK' /\ (~disturbed => CalmRows(rows'))
  BY <1>1, Deleted DEF RowsOK
<1>3. TableOK' /\ UNCHANGED <<recover, remember, step, guesses, proven>>
  BY TableStays DEF Go, Continue, table
<1>4. Holds(R, requests[r], rows, proven)
  <2>1. Holds(Left(requests[r].todo), requests[r], rows, proven)
    BY Going DEF CalmInv
  <2> QED
    BY <2>1, HoldsRest
<1>5. Holds(R, requests[r], rows', proven')
  BY <1>3, <1>4, HoldsLater
<1> QED
  BY <1>2, <1>3, <1>5, GoStep

\* The row of the uuid is a challenge, so the registrations stay.
LEMMA DeleteChallengeStep ==
    ASSUME CalmInv, NEW r \in Active, DeleteChallenge(r)
    PROVE  CalmInv'
<1> DEFINE q == requests[r]
           S == Left(q.todo)
           R == S \ {"untake"}
<1>1. /\ "untake" \in S /\ Head(q.todo) = "untake" /\ InProgram(S)
      /\ \A s \in S : s # "untake" => Stage("untake") < Stage(s)
  BY Going DEF CalmInv, DeleteChallenge, At
<1>2. \/ R \subseteq {"assert", "save", "remember"}
      \/ R \subseteq {"assert", "save", "protect", "clear"}
  BY <1>1, AfterLogin
<1>3. rows' = {x \in rows : x.id # q.row.id}
  BY DEF DeleteChallenge
<1>4. ASSUME ~disturbed
      PROVE  /\ Knows(R, q, rows', recover, step, guesses)
             /\ Settled(R, rows', recover, remember, guesses)
  <2>1. /\ Knows(S, q, rows, recover, step, guesses)
        /\ Settled(S, rows, recover, remember, guesses)
    BY <1>4, Known
  <2>2. "write" \notin S /\ "totp" \notin S /\ "take" \notin S
    BY <1>2
  <2>3. \A x \in rows : x.type = "webauthn" => x \in rows'
    BY <1>1, <1>3, <2>1, <2>2 DEF Knows, Hits, Challenges
  <2>4. \A y \in rows' : Counted(y, guesses)
    BY <1>3, <2>1, <2>2 DEF Settled
  <2> HIDE DEF S, q
  <2>5. Settled(R, rows', recover, remember, guesses)
    BY <1>1, <1>3, <2>1, <2>4, SettledAfter
  <2>6. /\ R \subseteq S /\ S \cap {"protect", "clear", "assert"} \subseteq R
        /\ R \subseteq {"assert", "save", "remember", "protect", "clear"}
    BY <1>2
  <2> HIDE DEF R
  <2>7. \A y \in rows' : y.enabled => \E x \in rows : x.id = y.id /\ x.enabled
    BY <1>3
  <2>8. Knows(R, q, rows', recover, step, guesses)
    BY <2>1, <2>2, <2>3, <2>6, <2>7, KnowsAfter
  <2> QED
    BY <2>5, <2>8
<1> QED
  BY <1>1, <1>3, <1>4, GoDelete DEF DeleteChallenge

\* Rows of the type go, so one can be inserted.
LEMMA DropStep ==
    ASSUME CalmInv, NEW r \in Active, Drop(r)
    PROVE  CalmInv'
<1> DEFINE q == requests[r]
           S == Left(q.todo)
           R == S \ {"drop"}
<1>1. /\ "drop" \in S /\ Head(q.todo) = "drop" /\ InProgram(S)
      /\ \A s \in S : s # "drop" => Stage("drop") < Stage(s)
  BY Going DEF CalmInv, Drop, At
<1>2. \/ R \subseteq {"insert", "protect", "clear"}
      \/ R \subseteq {"clear", "remaining"}
  BY <1>1, AfterSetting
<1>3. rows' = {x \in rows : x.type # q.row.type}
  BY DEF Drop
<1>4. ASSUME ~disturbed
      PROVE  /\ Knows(R, q, rows', recover, step, guesses)
             /\ Settled(R, rows', recover, remember, guesses)
  <2>1. /\ Knows(S, q, rows, recover, step, guesses)
        /\ Settled(S, rows, recover, remember, guesses)
    BY <1>4, Known
  <2>2. "write" \notin S /\ "totp" \notin S
    BY <1>2
  <2>3. \A y \in rows' : Counted(y, guesses)
    BY <1>3, <2>1, <2>2 DEF Settled
  <2> HIDE DEF S, q
  <2>4. Settled(R, rows', recover, remember, guesses)
    BY <1>1, <1>3, <2>1, <2>3, SettledAfter
  <2>5. /\ R \subseteq S /\ S \cap {"protect", "clear", "assert"} \subseteq R
        /\ R \subseteq {"insert", "protect", "clear", "remaining"}
    BY <1>2
  <2> HIDE DEF R
  <2>6. \A y \in rows' : y.type # q.row.type
    BY <1>3
  <2>7. Knows(R, q, rows', recover, step, guesses)
    BY <2>1, <2>2, <2>5, <2>6, KnowsAfter
  <2> QED
    BY <2>4, <2>7
<1> QED
  BY <1>1, <1>3, <1>4, GoDelete DEF Drop

\* All rows go, and with them the need of a recovery code.
LEMMA WipeStep ==
    ASSUME CalmInv, NEW r \in Active, Wipe(r)
    PROVE  CalmInv'
<1> DEFINE q == requests[r]
           S == Left(q.todo)
           R == S \ {"wipe"}
<1>1. /\ "wipe" \in S /\ Head(q.todo) = "wipe" /\ InProgram(S)
      /\ \A s \in S : s # "wipe" => Stage("wipe") < Stage(s)
  BY Going DEF CalmInv, Wipe, At
<1>2. R \subseteq {"unprotect", "remember"} \/ R \subseteq {"unprotect", "clear"}
  BY <1>1, AfterSetting
<1>3. rows' = {}
  BY DEF Wipe
<1>4. ASSUME ~disturbed
      PROVE  /\ Knows(R, q, rows', recover, step, guesses)
             /\ Settled(R, rows', recover, remember, guesses)
  <2>1. Knows(S, q, rows, recover, step, guesses)
    BY <1>4, Known
  <2>2. "totp" \notin S
    BY <1>2
  <2> HIDE DEF S, q
  <2>3. Settled(R, rows', recover, remember, guesses)
    BY <1>3 DEF Settled
  <2>4. /\ R \subseteq S /\ S \cap {"protect", "clear", "assert"} \subseteq R
        /\ R \subseteq {"unprotect", "remember", "clear"}
    BY <1>2
  <2> HIDE DEF R
  <2>5. Knows(R, q, rows', recover, step, guesses)
    BY <1>3, <2>1, <2>2, <2>4, KnowsAfter
  <2> QED
    BY <2>3, <2>5
<1> QED
  BY <1>1, <1>3, <1>4, GoDelete DEF Wipe

----------------------------------------------------------------------------
\* A request that has done a statement of which the table knows nothing.
LEMMA GoBeside ==
    ASSUME CalmInv, NEW r \in Active, Go(r), UNCHANGED rows,
           UNCHANGED <<step, guesses, proven>>, recover' \in BOOLEAN,
           remember' \in [Devices -> {None} \cup SUBSET (1 .. MaxRows)],
           NEW h, h = Head(requests[r].todo), h # "assert",
           NEW R, R = Left(requests[r].todo) \ {h},
           ~disturbed =>
             /\ Knows(R, requests[r], rows, recover', step, guesses)
             /\ Settled(R, rows, recover', remember', guesses)
    PROVE  CalmInv'
<1>1. RowsOK' /\ (~disturbed => CalmRows(rows'))
  BY Known DEF CalmInv, Inv, RowsOK
<1>2. TableOK'
  BY DEF Go, Continue, CalmInv, Inv, TableOK
<1>3. Holds(R, requests[r], rows', proven')
  <2>1. Holds(Left(requests[r].todo), requests[r], rows, proven)
    BY Going DEF CalmInv
  <2> QED
    BY <2>1, HoldsRest
<1> QED
  BY <1>1, <1>2, <1>3, GoStep

\* If the account had a code it still has it, and otherwise it gets one.
LEMMA ProtectStep ==
    ASSUME CalmInv, NEW r \in Active, Protect(r)
    PROVE  CalmInv'
<1> DEFINE q == requests[r]
           S == Left(q.todo)
           R == S \ {"protect"}
<1>1. /\ "protect" \in S /\ Head(q.todo) = "protect" /\ InProgram(S)
      /\ \A s \in S : s # "protect" => Stage("protect") < Stage(s)
  BY Going DEF CalmInv, Protect, At
<1>2. R \subseteq {"clear"}
  BY <1>1, AfterSetting
<1>3. /\ recover' \in BOOLEAN /\ ((q.recover => recover) => recover')
      /\ remember \in [Devices -> {None} \cup SUBSET (1 .. MaxRows)]
  BY DEF Protect, ensureRecoveryCode, CalmInv, Inv, TableOK
<1>4. ASSUME ~disturbed
      PROVE  /\ Knows(R, q, rows, recover', step, guesses)
             /\ Settled(R, rows, recover', remember, guesses)
  <2>1. /\ Knows(S, q, rows, recover, step, guesses)
        /\ Settled(S, rows, recover, remember, guesses)
    BY <1>4, Known
  <2>2. recover'
    BY <1>1, <1>3, <2>1 DEF Knows
  <2> HIDE DEF S, q
  <2>3. Settled(R, rows, recover', remember, guesses)
    BY <1>2, <2>1, <2>2 DEF Settled
  <2>4. Knows(R, q, rows, recover', step, guesses)
    BY <1>2 DEF Knows
  <2> QED
    BY <2>3, <2>4
<1> QED
  BY <1>1, <1>3, <1>4, GoBeside DEF Protect

\* The recovery code goes when no provider is enabled.
LEMMA UnprotectStep ==
    ASSUME CalmInv, NEW r \in Active, Unprotect(r)
    PROVE  CalmInv'
<1> DEFINE q == requests[r]
           S == Left(q.todo)
           R == S \ {"unprotect"}
<1>1. /\ "unprotect" \in S /\ Head(q.todo) = "unprotect" /\ InProgram(S)
      /\ \A s \in S : s # "unprotect" => Stage("unprotect") < Stage(s)
  BY Going DEF CalmInv, Unprotect, At
<1>2. R \subseteq {"remember"} \/ R \subseteq {"clear"}
  BY <1>1, AfterSetting
<1>3. /\ recover' \in BOOLEAN
      /\ remember \in [Devices -> {None} \cup SUBSET (1 .. MaxRows)]
  BY DEF Unprotect, CalmInv, Inv, TableOK
<1>4. ASSUME ~disturbed
      PROVE  /\ Knows(R, q, rows, recover', step, guesses)
             /\ Settled(R, rows, recover', remember, guesses)
  <2>1. /\ Knows(S, q, rows, recover, step, guesses)
        /\ Settled(S, rows, recover, remember, guesses)
    BY <1>4, Known
  <2>2. "wipe" \notin S /\ "write" \notin S
    BY <1>2
  <2>3. \A x \in rows : ~x.enabled
    BY <1>1, <2>1, <2>2 DEF Knows
  <2> HIDE DEF S, q
  <2>4. Settled(R, rows, recover', remember, guesses)
    BY <2>1, <2>2, <2>3 DEF Settled
  <2>5. Knows(R, q, rows, recover', step, guesses)
    BY <1>2, <2>3 DEF Knows
  <2> QED
    BY <2>4, <2>5
<1> QED
  BY <1>1, <1>3, <1>4, GoBeside DEF Unprotect

\* No device is remembered.
LEMMA ClearStep ==
    ASSUME CalmInv, NEW r \in Active, clearTwofactorRemember(r)
    PROVE  CalmInv'
<1> DEFINE q == requests[r]
           S == Left(q.todo)
           R == S \ {"clear"}
<1>1. /\ "clear" \in S /\ Head(q.todo) = "clear" /\ InProgram(S)
      /\ \A s \in S : s # "clear" => Stage("clear") < Stage(s)
  BY Going DEF CalmInv, clearTwofactorRemember, At
<1>2. R \subseteq {"remaining"}
  BY <1>1, AfterSetting
<1>3. /\ recover' \in BOOLEAN /\ recover' = recover
      /\ remember' = [d \in Devices |-> None]
      /\ remember' \in [Devices -> {None} \cup SUBSET (1 .. MaxRows)]
  BY DEF clearTwofactorRemember, CalmInv, Inv, TableOK
<1>4. ASSUME ~disturbed
      PROVE  /\ Knows(R, q, rows, recover', step, guesses)
             /\ Settled(R, rows, recover', remember', guesses)
  <2>1. /\ Knows(S, q, rows, recover, step, guesses)
        /\ Settled(S, rows, recover, remember, guesses)
    BY <1>4, Known
  <2>2. "write" \notin S /\ "protect" \notin S
    BY <1>2
  <2>3. \A d \in Devices : remember'[d] = None
    BY <1>3
  <2> HIDE DEF S, q
  <2>4. Settled(R, rows, recover, remember', guesses)
    BY <2>1, <2>2, <2>3 DEF Settled
  <2>5. Knows(R, q, rows, recover', step, guesses)
    BY <1>2 DEF Knows
  <2> QED
    BY <1>3, <2>4, <2>5
<1> QED
  BY <1>1, <1>3, <1>4, GoBeside DEF clearTwofactorRemember

\* The device is remembered for the providers that are enabled.
LEMMA RememberStep ==
    ASSUME CalmInv, NEW r \in Active, Remember(r)
    PROVE  CalmInv'
<1> DEFINE q == requests[r]
           S == Left(q.todo)
           R == S \ {"remember"}
<1>1. /\ "remember" \in S /\ Head(q.todo) = "remember" /\ InProgram(S)
      /\ \A s \in S : s # "remember" => Stage("remember") < Stage(s)
      /\ Holds(S, q, rows, proven) /\ q \in Request
  BY Going DEF CalmInv, Remember, At
<1>2. R = {} /\ S = {"remember"}
  BY <1>1, AfterLogin
<1>3. q.device \in Devices /\ q.ids \subseteq 1 .. MaxRows
  BY <1>1 DEF Holds, Request
<1>4. /\ recover' \in BOOLEAN /\ recover' = recover
      /\ \A d \in Devices :
           remember'[d] = IF d = q.device THEN q.ids ELSE remember[d]
      /\ remember' \in [Devices -> {None} \cup SUBSET (1 .. MaxRows)]
  BY <1>3 DEF Remember, CalmInv, Inv, TableOK
<1>5. ASSUME ~disturbed
      PROVE  /\ Knows(R, q, rows, recover', step, guesses)
             /\ Settled(R, rows, recover', remember', guesses)
  <2>1. /\ Knows(S, q, rows, recover, step, guesses)
        /\ Settled(S, rows, recover, remember, guesses)
    BY <1>5, Known
  <2>2. \A x \in rows : x.enabled => x.id \in q.ids
    BY <1>2, <2>1 DEF Knows
  <2> HIDE DEF S, q
  <2>3. Settled(R, rows, recover, remember', guesses)
    BY <1>2, <1>4, <2>1, <2>2 DEF Settled
  <2>4. Knows(R, q, rows, recover', step, guesses)
    BY <1>2 DEF Knows
  <2> QED
    BY <1>4, <2>3, <2>4
<1> QED
  BY <1>1, <1>4, <1>5, GoBeside DEF Remember

----------------------------------------------------------------------------
\* A request that looks for a row, and goes on with what it has found.
LEMMA TotpStep ==
    ASSUME CalmInv, NEW r \in Active, NEW s \in 0 .. MaxStep + 1, Totp(r, s)
    PROVE  CalmInv'
<1> DEFINE q == requests[r]
           S == Left(q.todo)
           R == S \ {"totp"}
<1>1. /\ "totp" \in S /\ Head(q.todo) = "totp" /\ InProgram(S)
      /\ \A t \in S : t # "totp" => Stage("totp") < Stage(t)
      /\ Left(Rest(r)) = R /\ Holds(S, q, rows, proven) /\ q \in Request
      /\ q.row \in Row
  BY Going DEF CalmInv, Totp, At
<1>2. \/ R \subseteq {"remember"}
      \/ R \subseteq {"drop", "insert", "protect", "clear"}
  BY <1>1, AfterLogin
<1>3. /\ recover \in BOOLEAN /\ step \in Nat /\ s \in Nat /\ s <= step + 1
      /\ remember \in [Devices -> {None} \cup SUBSET (1 .. MaxRows)]
      /\ \A x \in rows : x.last \in Nat /\ x.accepted \subseteq Nat
                         /\ x.id \in 0 .. MaxRows
  <2>1. /\ recover \in BOOLEAN /\ step \in 1 .. MaxStep /\ MaxStep \in Nat
        /\ remember \in [Devices -> {None} \cup SUBSET (1 .. MaxRows)]
    BY BoundAssumption DEF CalmInv, Inv, TableOK
  <2>2. s \in step - 1 .. step + 1
    BY DEF Totp
  <2>3. \A x \in rows : x \in Row
    BY DEF CalmInv, Inv, RowsOK, StoredRow
  <2> QED
    BY <2>1, <2>2, <2>3 DEF Row
<1>4. UNCHANGED <<rows, recover, remember, step, guesses, proven>>
  BY DEF Totp, table
<1>5. ASSUME ~disturbed
      PROVE  /\ Knows(S, q, rows, recover, step, guesses)
             /\ Settled(S, rows, recover, remember, guesses)
             /\ CalmRows(rows)
  BY <1>5, Known
<1>6. ASSUME ~disturbed, NEW A, A = R \/ A = R \cup {"used"}
      PROVE  Settled(A, rows, recover, remember, guesses)
  <2>1. \A x \in rows : Counted(x, guesses)
    BY <1>2, <1>5, <1>6 DEF Settled
  <2> HIDE DEF S, R
  <2>2. ~(S \subseteq {"protect", "clear"})
    BY <1>1
  <2> QED
    BY <1>5, <1>6, <2>1, <2>2, SettledAfter
<1>7. CASE RowsOf("authenticator") = {} /\ Go(r)
  <2>1. ASSUME ~disturbed
        PROVE  Knows(R, q, rows, recover, step, guesses)
    <3>1. Knows(S, q, rows, recover, step, guesses)
      BY <1>5, <2>1
    <3>2. \A x \in rows : x.type # "authenticator"
      BY <1>7 DEF RowsOf
    <3>3. /\ R \subseteq S /\ S \cap {"protect", "clear"} \subseteq R
          /\ R \subseteq {"remember", "drop", "insert", "protect", "clear"}
          /\ "drop" \in S => "drop" \in R
      BY <1>2
    <3> HIDE DEF R, S, q
    <3>4. "insert" \in R =>
            /\ "drop" \notin R => \A x \in rows : x.type # q.row.type
            /\ q.row.enabled => {"protect", "clear"} \subseteq R
            /\ q.row.code => q.row.type = "email" /\ q.row.attempts = 0
            /\ q.row.type # "authenticator" => q.row.accepted = {}
      BY <3>1, <3>3 DEF Knows
    <3>5. "insert" \in R => q.row.accepted = {}
      BY <1>1, <3>1, <3>2, <3>3 DEF Knows
    <3>6. /\ "protect" \in R => (q.recover => recover)
          /\ "remember" \in R => \A x \in rows : x.enabled => x.id \in q.ids
      BY <3>1, <3>3 DEF Knows
    <3> QED
      BY <3>3, <3>4, <3>5, <3>6 DEF Knows
  <2> QED
    BY <1>1, <1>3, <1>4, <1>6, <1>7, <2>1, GoBeside
<1>8. ASSUME NEW x \in RowsOf("authenticator"), totpFresh(x, s),
             Continue(r, [q EXCEPT !.todo = <<"used">> \o Rest(r),
                                   !.row.id = x.id, !.row.last = s])
      PROVE  CalmInv'
  <2> DEFINE t == <<"used">> \o Rest(r)
             p == [q EXCEPT !.todo = t, !.row.id = x.id, !.row.last = s]
             A == {"used"} \cup R
  <2>1. List(t, A)
    <3>1. List(<<"used">>, {"used"})
      BY OneStatement DEF Statement
    <3>2. \A a \in {"used"}, b \in R : Stage(a) < Stage(b)
      BY <1>2 DEF Stage
    <3> QED
      BY <1>1, <3>1, <3>2, NextList
  <2>2. x \in rows /\ x.type = "authenticator" /\ x.last < s
    BY <1>8 DEF RowsOf, totpFresh
  <2> HIDE DEF t
  <2>3. t \in Seq(Statement)
    BY <2>1 DEF List
  <2>4. /\ p \in Request /\ p.todo = t /\ p.recover = q.recover
        /\ p.device = q.device /\ p.ids = q.ids
        /\ p.row.id = x.id /\ p.row.last = s
        /\ p.row.type = q.row.type /\ p.row.enabled = q.row.enabled
        /\ p.row.accepted = q.row.accepted /\ p.row.address = q.row.address
        /\ p.row.code = q.row.code /\ p.row.attempts = q.row.attempts
        /\ p.row.keys = q.row.keys
    BY <1>1, <1>3, <2>2, <2>3 DEF Request, Row
  <2>5. Continue(r, p)
    BY <1>8 DEF t
  <2> HIDE DEF p
  <2>6. InProgram(A)
    BY <1>2 DEF InProgram, Programs
  <2>7. Holds(A, p, rows, proven)
    <3>1. "insert" \in S => MadeRow(q.row)
      BY <1>1 DEF Holds
    <3>2. "insert" \in A => MadeRow(p.row)
      BY <2>4, <3>1 DEF MadeRow, WellFormed
    <3>3. "remember" \in A => p.device \in Devices
      BY <1>1, <2>4 DEF Holds
    <3> QED
      BY <1>2, <3>2, <3>3 DEF Holds
  <2>8. ASSUME ~disturbed
        PROVE  Knows(A, p, rows, recover, step, guesses)
    <3>1. Knows(S, q, rows, recover, step, guesses) /\ CalmRows(rows)
      BY <1>5, <2>8
    <3>2. \A y \in rows : y.id = p.row.id => y.last < p.row.last
      BY <1>3, <2>2, <2>4 DEF CalmInv, Inv, RowsOK, Distinct
    <3>3. /\ S \cap {"protect", "clear"} \subseteq A /\ A \ {"used"} \subseteq S
          /\ A \subseteq {"used", "remember", "drop", "insert", "protect", "clear"}
          /\ "drop" \in S => "drop" \in A
      BY <1>2
    <3>4. "insert" \in A => \A n \in p.row.accepted : n <= step
      <4> SUFFICES ASSUME "insert" \in A, NEW n \in q.row.accepted
                   PROVE  n <= step
        BY <2>4
      <4>1. PICK y \in rows : y.type = "authenticator" /\ n \in y.accepted
        BY <1>1, <3>1, <3>3 DEF Knows
      <4>2. y = x /\ n <= x.last
        BY <2>2, <3>1, <4>1 DEF CalmRows
      <4>3. n \in Nat
        BY <1>3, <4>1
      <4> QED
        BY <1>3, <2>2, <4>2, <4>3
    <3>5. "insert" \in A =>
            /\ "drop" \notin A => \A y \in rows : y.type # p.row.type
            /\ p.row.enabled => {"protect", "clear"} \subseteq A
            /\ p.row.code => p.row.type = "email" /\ p.row.attempts = 0
            /\ p.row.type # "authenticator" => p.row.accepted = {}
      <4> HIDE DEF A, S, q
      <4> QED
        BY <2>4, <3>1, <3>3 DEF Knows
    <3>6. /\ "protect" \in A => (p.recover => recover)
          /\ "remember" \in A => \A y \in rows : y.enabled => y.id \in p.ids
      BY <2>4, <3>1, <3>3 DEF Knows
    <3> HIDE DEF A
    <3> QED
      BY <3>2, <3>3, <3>4, <3>5, <3>6 DEF Knows
  <2>9. ~disturbed => Settled(A, rows, recover, remember, guesses)
    BY <1>6
  <2> HIDE DEF A
  <2> QED
    BY <1>4, <2>1, <2>4, <2>5, <2>6, <2>7, <2>8, <2>9, StayStep DEF table
<1> QED
  BY <1>7, <1>8 DEF Totp

\* The row that a code is looked up in, and what is then to be stored, with or
\* without a rest.
LEMMA WriteNext ==
    ASSUME CalmInv, NEW r \in Active, NEW x \in RowsOf("email"),
           NEW q \in Request, Continue(r, q),
           NEW R, R \subseteq {"remember"}, R \subseteq Left(requests[r].todo),
           ~(Left(requests[r].todo) \subseteq {"protect", "clear"}),
           List(q.todo, {"write"} \cup R),
           q.device = requests[r].device, q.ids = requests[r].ids,
           q.row.id = x.id, q.row.address # None,
           UNCHANGED <<rows, recover, remember, step>>,
           guesses' \in 0 .. EMAIL_ATTEMPTS_LIMIT,
           proven \subseteq proven', proven' \subseteq Addresses,
           ~disturbed => Counted(q.row, guesses')
    PROVE  CalmInv'
<1> DEFINE S == Left(requests[r].todo)
           A == {"write"} \cup R
<1>1. Holds(S, requests[r], rows, proven)
  BY Going DEF CalmInv
<1>2. /\ x \in rows /\ x.type = "email" /\ Distinct(rows)
      /\ RowsOK' /\ TableOK'
  BY DEF RowsOf, CalmInv, Inv, RowsOK, TableOK, Continue
<1>3. Hits(q.row.id, rows, {"email"})
  BY <1>2 DEF Hits, Distinct
<1>4. Holds(A, q, rows, proven')
  BY <1>1, <1>3 DEF Holds
<1>5. InProgram(A)
  BY DEF InProgram, Programs
<1>6. ASSUME ~disturbed
      PROVE  /\ CalmRows(rows) /\ Knows(A, q, rows, recover, step, guesses')
             /\ Settled(A, rows, recover, remember, guesses')
  <2>1. /\ CalmRows(rows) /\ Knows(S, requests[r], rows, recover, step, guesses)
        /\ Settled(S, rows, recover, remember, guesses)
    BY <1>6, Known
  <2>2. \A y \in rows : y.type = "email" => y.id = q.row.id
    BY <1>2, <2>1 DEF CalmRows
  <2>3. "remember" \in R => \A y \in rows : y.enabled => y.id \in q.ids
    BY <2>1 DEF Knows
  <2>4. Counted(q.row, guesses')
    BY <1>6
  <2>5. Knows(A, q, rows, recover, step, guesses')
    BY <2>2, <2>3, <2>4 DEF Knows
  <2>6. Settled(A, rows, recover, remember, guesses')
    BY <2>1 DEF Settled
  <2> QED
    BY <2>1, <2>5, <2>6
<1> HIDE DEF A
<1>7. List(q.todo, A)
  BY DEF A
<1> QED
  BY <1>2, <1>4, <1>5, <1>6, <1>7, GoOn DEF List

\* A wrong guess is counted in the data that is then written.
LEMMA CodeStep ==
    ASSUME CalmInv, NEW r \in Active, NEW right \in BOOLEAN, Code(r, right)
    PROVE  CalmInv'
<1> DEFINE q == requests[r]
           S == Left(q.todo)
           d == q.row
           R == IF right THEN S \ {"code"} ELSE {}
           u == IF right THEN Rest(r) ELSE <<>>
           n == IF right THEN 0 ELSE d.attempts + 1
           c == ~right /\ d.attempts + 1 < EMAIL_ATTEMPTS_LIMIT
<1>1. /\ "code" \in S /\ Head(q.todo) = "code" /\ InProgram(S)
      /\ \A s \in S : s # "code" => Stage("code") < Stage(s)
      /\ Left(Rest(r)) = S \ {"code"} /\ Holds(S, q, rows, proven)
      /\ q \in Request /\ d \in Row /\ List(Rest(r), S \ {"code"})
  BY Going DEF CalmInv, Code, At, List
<1>2. R \subseteq {"remember"} /\ R \subseteq S
  BY <1>1, AfterLogin
<1>3. PICK x \in RowsOf("email") :
        Continue(r, [q EXCEPT !.todo = <<"write">> \o u,
          !.row = [(IF right THEN [d EXCEPT !.code = FALSE, !.attempts = 0]
                             ELSE wrongGuess(d)) EXCEPT !.id = x.id]])
  BY DEF Code
<1>4. /\ d.code /\ UNCHANGED <<rows, recover, remember, step>>
      /\ proven' = IF right THEN proven \cup {d.address} ELSE proven
      /\ guesses' = IF right \/ disturbed THEN guesses ELSE guesses + 1
  BY DEF Code
<1>5. /\ d.address # None /\ d.address \in Addresses /\ d.attempts \in Nat
      /\ EMAIL_ATTEMPTS_LIMIT \in Nat /\ guesses \in 0 .. EMAIL_ATTEMPTS_LIMIT
      /\ proven \subseteq Addresses /\ x.id \in 0 .. MaxRows
  BY <1>1, BoundAssumption DEF Holds, Row, CalmInv, Inv, TableOK, RowsOK,
     StoredRow, RowsOf
<1>6. c \in BOOLEAN /\ n \in Nat
  BY <1>5
<1>7. List(<<"write">> \o u, {"write"} \cup R)
  <2>1. List(u, R)
    BY <1>1, EmptyList
  <2>2. List(<<"write">>, {"write"})
    BY OneStatement DEF Statement
  <2>3. \A a \in {"write"}, b \in R : Stage(a) < Stage(b)
    BY <1>2 DEF Stage
  <2> HIDE DEF R, u
  <2> QED
    BY <2>1, <2>2, <2>3, Concat
<1>8. ~disturbed => guesses <= d.attempts /\ d.attempts < EMAIL_ATTEMPTS_LIMIT
  BY <1>1, <1>4, Known DEF Knows, Counted
<1> DEFINE t == <<"write">> \o u
           y == [d EXCEPT !.code = c, !.attempts = n, !.id = x.id]
           p == [q EXCEPT !.todo = t, !.row = y]
<1>9. Continue(r, p)
  <2>1. [(IF right THEN [d EXCEPT !.code = FALSE, !.attempts = 0]
                   ELSE wrongGuess(d)) EXCEPT !.id = x.id] = y
    <3>1. CASE right
      <4>1. c = FALSE /\ n = 0
        BY <3>1
      <4> QED
        BY <1>1, <3>1, <4>1 DEF Row
    <3>2. CASE ~right
      <4>1. /\ c = (d.attempts + 1 < EMAIL_ATTEMPTS_LIMIT)
            /\ n = d.attempts + 1
        BY <3>2
      <4> HIDE DEF c, n
      <4> QED
        BY <1>1, <3>2, <4>1 DEF wrongGuess, Row
    <3> QED
      BY <3>1, <3>2
  <2> QED
    BY <1>3, <2>1
<1>10. /\ guesses' \in 0 .. EMAIL_ATTEMPTS_LIMIT
       /\ proven \subseteq proven' /\ proven' \subseteq Addresses
  BY <1>4, <1>5, <1>8
<1>11. ~disturbed => (c => guesses' <= n /\ n < EMAIL_ATTEMPTS_LIMIT)
  BY <1>4, <1>5, <1>8
<1> HIDE DEF c, n, t
<1>12. /\ y \in Row /\ y.id = x.id /\ y.address = d.address
       /\ y.code = c /\ y.attempts = n
  BY <1>1, <1>5, <1>6 DEF Row
<1> HIDE DEF y
<1>13. /\ p \in Request /\ p.todo = t /\ p.row = y
       /\ p.device = q.device /\ p.ids = q.ids
  BY <1>1, <1>7, <1>12 DEF Request, List, t
<1> HIDE DEF p
<1>14. ~disturbed => Counted(p.row, guesses')
  BY <1>11, <1>12, <1>13 DEF Counted
<1>15. List(p.todo, {"write"} \cup R)
  BY <1>7, <1>13 DEF t
<1> HIDE DEF R
<1> QED
  BY <1>1, <1>2, <1>4, <1>5, <1>9, <1>10, <1>12, <1>13, <1>14, <1>15, WriteNext

\* A new code has not been guessed at.
LEMMA SendStep ==
    ASSUME CalmInv, NEW r \in Active, Send(r)
    PROVE  CalmInv'
<1> DEFINE q == requests[r]
           S == Left(q.todo)
           c == TRUE
<1>1. /\ "send" \in S /\ Head(q.todo) = "send" /\ InProgram(S)
      /\ \A s \in S : s # "send" => Stage("send") < Stage(s)
      /\ Left(Rest(r)) = S \ {"send"}
      /\ q \in Request /\ List(Rest(r), S \ {"send"})
  BY Going DEF CalmInv, Send, At, List
<1>2. S \ {"send"} = {}
  BY <1>1, AfterLogin
<1>3. PICK x \in RowsOf("email") :
        Continue(r, [q EXCEPT !.todo = <<"write">> \o Rest(r),
                              !.row = [x EXCEPT !.code = c, !.attempts = 0]])
  BY DEF Send
<1>4. guesses' = 0 /\ UNCHANGED <<rows, recover, remember, step, proven>>
  BY DEF Send
<1>5. /\ x \in Row /\ x.address # None /\ proven \subseteq Addresses
      /\ EMAIL_ATTEMPTS_LIMIT \in Nat \ {0}
  BY BoundAssumption
     DEF CalmInv, Inv, TableOK, RowsOK, StoredRow, WellFormed, RowsOf
<1>6. List(<<"write">> \o Rest(r), {"write"} \cup {})
  <2>1. List(<<"write">>, {"write"})
    BY OneStatement DEF Statement
  <2> QED
    BY <1>1, <1>2, <2>1, NextList
<1> DEFINE t == <<"write">> \o Rest(r)
           y == [x EXCEPT !.code = c, !.attempts = 0]
           p == [q EXCEPT !.todo = t, !.row = y]
<1>7. Continue(r, p) /\ c \in BOOLEAN
  BY <1>3
<1> HIDE DEF c, t
<1>8. /\ y \in Row /\ y.id = x.id /\ y.address = x.address /\ y.attempts = 0
  BY <1>5, <1>7 DEF Row
<1> HIDE DEF y
<1>9. /\ p \in Request /\ p.todo = t /\ p.row = y
      /\ p.device = q.device /\ p.ids = q.ids
  BY <1>1, <1>6, <1>8 DEF Request, List, t
<1> HIDE DEF p
<1>10. Counted(p.row, guesses')
  BY <1>4, <1>5, <1>8, <1>9 DEF Counted
<1>11. List(p.todo, {"write"} \cup {})
  BY <1>6, <1>9 DEF t
<1>12. guesses' \in 0 .. EMAIL_ATTEMPTS_LIMIT
  BY <1>4, <1>5
<1> DEFINE R == {}
<1>13. /\ R \subseteq {"remember"} /\ R \subseteq S
       /\ ~(S \subseteq {"protect", "clear"})
  BY <1>1
<1>14. List(p.todo, {"write"} \cup R)
  BY <1>11
<1> HIDE DEF R, S
<1> QED
  BY <1>4, <1>5, <1>7, <1>8, <1>9, <1>10, <1>12, <1>13, <1>14, WriteNext DEF S

\* The row that is found is a challenge.
LEMMA TakeChallengeStep ==
    ASSUME CalmInv, NEW r \in Active, TakeChallenge(r)
    PROVE  CalmInv'
<1> DEFINE q == requests[r]
           S == Left(q.todo)
           R == S \ {"take"}
           t == Rest(r)
<1>1. /\ "take" \in S /\ Head(q.todo) = "take" /\ InProgram(S) /\ InProgram(R)
      /\ \A s \in S : s # "take" => Stage("take") < Stage(s)
      /\ Holds(S, q, rows, proven)
      /\ q \in Request /\ q.row \in Row /\ List(t, R)
  BY Going DEF CalmInv, TakeChallenge, At, List
<1>2. \/ R \subseteq {"untake", "assert", "save", "remember"}
      \/ R \subseteq {"untake", "assert", "save", "protect", "clear"}
  BY <1>1, AfterLogin
<1>3. PICK x \in RowsOf(q.row.type) :
        Continue(r, [q EXCEPT !.todo = t, !.row.id = x.id])
  BY DEF TakeChallenge
<1>4. /\ x \in rows /\ x.type = q.row.type /\ x.id \in 0 .. MaxRows
      /\ Distinct(rows)
  BY DEF RowsOf, CalmInv, Inv, RowsOK, StoredRow, Row
<1> DEFINE p == [q EXCEPT !.todo = t, !.row.id = x.id]
<1> HIDE DEF t
<1>5. /\ p \in Request /\ p.todo = t /\ p.recover = q.recover
      /\ p.device = q.device /\ p.ids = q.ids
      /\ p.row.id = x.id /\ p.row.type = q.row.type
      /\ p.row.enabled = q.row.enabled /\ p.row.address = q.row.address
      /\ p.row.keys = q.row.keys /\ p.row.accepted = q.row.accepted
      /\ p.row.code = q.row.code
  BY <1>1, <1>4 DEF Request, Row, List
<1>6. Continue(r, p)
  BY <1>3
<1> HIDE DEF p
<1>7. Holds(R, p, rows, proven)
  <2>1. "save" \in R /\ "assert" \notin R =>
          MadeRow(p.row) /\ p.row.type = "webauthn"
    BY <1>1, <1>5 DEF Holds, MadeRow, WellFormed
  <2>2. "remember" \in R => p.device \in Devices
    BY <1>1, <1>5 DEF Holds
  <2> QED
    BY <1>2, <2>1, <2>2 DEF Holds
<1>8. ASSUME ~disturbed
      PROVE  /\ Knows(R, p, rows, recover, step, guesses)
             /\ Settled(R, rows, recover, remember, guesses)
  <2>1. /\ Knows(S, q, rows, recover, step, guesses)
        /\ Settled(S, rows, recover, remember, guesses)
    BY <1>8, Known
  <2>2. Hits(p.row.id, rows, Challenges)
    BY <1>1, <1>4, <1>5, <2>1 DEF Knows, Hits, Distinct
  <2>3. /\ S \cap {"protect", "clear", "assert"} \subseteq R /\ R \subseteq S
        /\ R \subseteq {"untake", "assert", "save", "remember", "protect", "clear"}
        /\ "write" \notin S
    BY <1>2
  <2>4. \A y \in rows : Counted(y, guesses)
    BY <2>1, <2>3 DEF Settled
  <2> HIDE DEF R, S, q
  <2>5. Knows(R, p, rows, recover, step, guesses)
    BY <1>5, <2>1, <2>2, <2>3 DEF Knows
  <2>6. Settled(R, rows, recover, remember, guesses)
    BY <1>1, <2>1, <2>4, SettledAfter
  <2> QED
    BY <2>5, <2>6
<1> HIDE DEF R
<1> QED
  BY <1>1, <1>5, <1>6, <1>7, <1>8, StayStep DEF TakeChallenge

\* The registrations with the key that has signed.
LEMMA AssertKeyStep ==
    ASSUME CalmInv, NEW r \in Active, NEW k \in Keys, AssertKey(r, k)
    PROVE  CalmInv'
<1> DEFINE q == requests[r]
           S == Left(q.todo)
           R == S \ {"assert"}
           t == Rest(r)
           w == NewRow("webauthn")
<1>1. /\ "assert" \in S /\ Head(q.todo) = "assert"
      /\ InProgram(S) /\ InProgram(R)
      /\ \A s \in S : s # "assert" => Stage("assert") < Stage(s)
      /\ Holds(S, q, rows, proven)
      /\ q \in Request /\ List(t, R)
  BY Going DEF CalmInv, AssertKey, At, List
<1>2. R \subseteq {"save", "remember"} \/ R \subseteq {"save", "protect", "clear"}
  BY <1>1, AfterLogin
<1>3. /\ w \in Row /\ w.id = 0 /\ w.type = "webauthn" /\ w.enabled
      /\ w.accepted = {} /\ w.address = None /\ ~w.code
  BY NewRows DEF Types
<1>4. PICK K \in SUBSET Keys :
        Continue(r, [q EXCEPT !.todo = t, !.row = [w EXCEPT !.keys = K]])
  <2>1. CASE /\ RowsOf("webauthn") = {}
             /\ Continue(r, [q EXCEPT !.todo = t, !.row = [w EXCEPT !.keys = {k}]])
    BY <2>1
  <2>2. ASSUME NEW x \in RowsOf("webauthn"),
               Continue(r, [q EXCEPT !.todo = t,
                              !.row = [w EXCEPT !.keys = x.keys \cup {k}]])
        PROVE  \E K \in SUBSET Keys :
                 Continue(r, [q EXCEPT !.todo = t, !.row = [w EXCEPT !.keys = K]])
    <3>1. x.keys \cup {k} \in SUBSET Keys
      BY DEF RowsOf, CalmInv, Inv, RowsOK, StoredRow, Row
    <3> QED
      BY <2>2, <3>1
  <2> HIDE DEF w, t
  <2> QED
    BY <2>1, <2>2 DEF AssertKey, w, t
<1> HIDE DEF w, t
<1> DEFINE y == [w EXCEPT !.keys = K]
<1>5. /\ y \in Row /\ y.type = "webauthn" /\ y.enabled
      /\ y.accepted = {} /\ y.address = None /\ ~y.code
  BY <1>3 DEF Row
<1>6. MadeRow(y)
  BY <1>5 DEF MadeRow, WellFormed, Types
<1> HIDE DEF y
<1> DEFINE p == [q EXCEPT !.todo = t, !.row = y]
<1>7. /\ p \in Request /\ p.todo = t /\ p.recover = q.recover
      /\ p.device = q.device /\ p.ids = q.ids /\ p.row = y
  BY <1>1, <1>5 DEF Request, List
<1>8. Continue(r, p)
  BY <1>4 DEF y
<1> HIDE DEF p
<1>9. Holds(R, p, rows, proven)
  <2>1. "remember" \in R => p.device \in Devices
    BY <1>1, <1>7 DEF Holds
  <2> QED
    BY <1>2, <1>5, <1>6, <1>7, <2>1 DEF Holds
<1>10. ASSUME ~disturbed
       PROVE  /\ Knows(R, p, rows, recover, step, guesses)
              /\ Settled(R, rows, recover, remember, guesses)
  <2>1. /\ Knows(S, q, rows, recover, step, guesses)
        /\ Settled(S, rows, recover, remember, guesses)
    BY <1>10, Known
  <2>2. /\ S \cap {"protect", "clear"} \subseteq R /\ R \subseteq S
        /\ R \subseteq {"save", "remember", "protect", "clear"}
        /\ "write" \notin S
    BY <1>2
  <2>3. \A x \in rows : Counted(x, guesses)
    BY <2>1, <2>2 DEF Settled
  <2> HIDE DEF R, S, q
  <2>4. Knows(R, p, rows, recover, step, guesses)
    BY <1>5, <1>7, <2>1, <2>2 DEF Knows
  <2>5. Settled(R, rows, recover, remember, guesses)
    BY <1>1, <2>1, <2>3, SettledAfter
  <2> QED
    BY <2>4, <2>5
<1>11. UNCHANGED rows /\ UNCHANGED table
  BY DEF AssertKey
<1> HIDE DEF R
<1> QED
  BY <1>1, <1>7, <1>8, <1>9, <1>10, <1>11, StayStep

\* A row of WebAuthn is written to if there is one, and made if not.
LEMMA SaveRegistrationsStep ==
    ASSUME CalmInv, NEW r \in Active, SaveRegistrations(r)
    PROVE  CalmInv'
<1> DEFINE q == requests[r]
           S == Left(q.todo)
           R == S \ {"save"}
<1>1. /\ "save" \in S /\ Head(q.todo) = "save" /\ InProgram(S)
      /\ \A s \in S : s # "save" => Stage("save") < Stage(s)
      /\ Left(Rest(r)) = R /\ Holds(S, q, rows, proven)
      /\ q \in Request /\ q.row \in Row
  BY Going DEF CalmInv, SaveRegistrations, At
<1>2. R \subseteq {"remember"} \/ R \subseteq {"protect", "clear"}
  BY <1>1, AfterSetting
<1>3. /\ MadeRow(q.row) /\ q.row.type = "webauthn"
      /\ "remember" \in R => q.device \in Devices
  BY <1>1, <1>2 DEF Holds
<1>4. UNCHANGED rows /\ UNCHANGED table
  BY DEF SaveRegistrations
<1>5. ASSUME NEW s \in {"insert", "update"}
      PROVE  List(<<s>> \o Rest(r), {s} \cup R) /\ InProgram({s} \cup R)
  <2>1. List(<<s>>, {s})
    BY OneStatement DEF Statement
  <2>2. \A a \in {s}, b \in R : Stage(a) < Stage(b)
    BY <1>2 DEF Stage
  <2>3. InProgram({s} \cup R)
    BY <1>2 DEF InProgram, Programs
  <2> HIDE DEF R, q, S
  <2> QED
    BY <1>1, <2>1, <2>2, <2>3, NextList
<1>6. ASSUME ~disturbed
      PROVE  /\ Knows(S, q, rows, recover, step, guesses)
             /\ Settled(S, rows, recover, remember, guesses)
             /\ q.row.accepted = {} /\ ~q.row.code
  <2>1. /\ Knows(S, q, rows, recover, step, guesses)
        /\ Settled(S, rows, recover, remember, guesses)
    BY <1>6, Known
  <2> QED
    BY <1>1, <1>2, <2>1 DEF Knows
<1>7. ASSUME ~disturbed, NEW s \in {"insert", "update"}
      PROVE  Settled({s} \cup R, rows, recover, remember, guesses)
  <2>1. \A x \in rows : Counted(x, guesses)
    BY <1>2, <1>6, <1>7 DEF Settled
  <2> HIDE DEF S, R
  <2>2. ~(S \subseteq {"protect", "clear"})
    BY <1>1
  <2> QED
    BY <1>6, <1>7, <2>1, <2>2, SettledAfter
<1>8. CASE /\ RowsOf("webauthn") = {}
           /\ Continue(r, [q EXCEPT !.todo = <<"insert">> \o Rest(r)])
  <2> DEFINE t == <<"insert">> \o Rest(r)
             p == [q EXCEPT !.todo = t]
             A == {"insert"} \cup R
  <2>1. List(t, A) /\ InProgram(A)
    BY <1>5
  <2> HIDE DEF t
  <2>2. /\ p \in Request /\ p.todo = t /\ p.recover = q.recover
        /\ p.device = q.device /\ p.ids = q.ids /\ p.row = q.row
    BY <1>1, <2>1 DEF Request, List
  <2>3. Continue(r, p)
    BY <1>8 DEF t
  <2> HIDE DEF p
  <2>4. Holds(A, p, rows, proven)
    BY <1>2, <1>3, <2>2 DEF Holds
  <2>5. ASSUME ~disturbed
        PROVE  Knows(A, p, rows, recover, step, guesses)
    <3>1. \A x \in rows : x.type # "webauthn"
      BY <1>8 DEF RowsOf
    <3>2. Knows(S, q, rows, recover, step, guesses)
      BY <1>6, <2>5
    <3>3. {"protect", "clear"} \subseteq A
      BY <1>1, <3>1, <3>2 DEF Knows
    <3>4. A \subseteq {"insert", "protect", "clear"}
      BY <1>2, <3>3
    <3>5. p.row.accepted = {} /\ ~p.row.code /\ p.row.type = "webauthn"
      BY <1>3, <1>6, <2>2, <2>5
    <3>6. p.recover => recover
      BY <2>2, <3>2, <3>3 DEF Knows
    <3> HIDE DEF A
    <3> QED
      BY <3>1, <3>3, <3>4, <3>5, <3>6 DEF Knows
  <2>6. ~disturbed => Settled(A, rows, recover, remember, guesses)
    BY <1>7
  <2> HIDE DEF A
  <2> QED
    BY <1>4, <2>1, <2>2, <2>3, <2>4, <2>5, <2>6, StayStep
<1>9. ASSUME NEW x \in RowsOf("webauthn"),
             Continue(r, [q EXCEPT !.todo = <<"update">> \o Rest(r),
                                   !.row.id = x.id])
      PROVE  CalmInv'
  <2> DEFINE t == <<"update">> \o Rest(r)
             p == [q EXCEPT !.todo = t, !.row.id = x.id]
             A == {"update"} \cup R
  <2>1. List(t, A) /\ InProgram(A)
    BY <1>5
  <2>2. /\ x \in rows /\ x.type = "webauthn" /\ x.id \in 0 .. MaxRows
        /\ Distinct(rows)
    BY DEF RowsOf, CalmInv, Inv, RowsOK, StoredRow, Row
  <2> HIDE DEF t
  <2>3. /\ p \in Request /\ p.todo = t /\ p.recover = q.recover
        /\ p.device = q.device /\ p.ids = q.ids /\ p.row.id = x.id
    BY <1>1, <2>1, <2>2 DEF Request, Row, List
  <2>4. Continue(r, p)
    BY <1>9 DEF t
  <2> HIDE DEF p
  <2>5. Hits(p.row.id, rows, {"webauthn"})
    BY <2>2, <2>3 DEF Hits, Distinct
  <2>6. Holds(A, p, rows, proven)
    BY <1>2, <1>3, <2>3, <2>5 DEF Holds
  <2>7. ASSUME ~disturbed
        PROVE  Knows(A, p, rows, recover, step, guesses)
    <3>1. Knows(S, q, rows, recover, step, guesses)
      BY <1>6, <2>7
    <3>2. /\ "protect" \in A => (p.recover => recover)
          /\ "remember" \in A => \A y \in rows : y.enabled => y.id \in p.ids
      BY <2>3, <3>1 DEF Knows
    <3>3. A \subseteq {"update", "remember", "protect", "clear"}
      BY <1>2
    <3> HIDE DEF A
    <3> QED
      BY <3>2, <3>3 DEF Knows
  <2>8. ~disturbed => Settled(A, rows, recover, remember, guesses)
    BY <1>7
  <2> HIDE DEF A
  <2> QED
    BY <1>4, <2>1, <2>3, <2>4, <2>6, <2>7, <2>8, StayStep
<1> QED
  BY <1>8, <1>9 DEF SaveRegistrations

\* The recovery code goes only if no row is a provider's.
LEMMA RemainingStep ==
    ASSUME CalmInv, NEW r \in Active, Remaining(r)
    PROVE  CalmInv'
<1> DEFINE q == requests[r]
           S == Left(q.todo)
           some == \E x \in rows : x.type \in Types
           t == IF some THEN <<>> ELSE <<"unprotect">>
           R == IF some THEN {} ELSE {"unprotect"}
           p == [q EXCEPT !.todo = t]
<1>1. "remaining" \in S /\ q \in Request /\ "write" \notin S
  <2>1. /\ "remaining" \in S /\ Head(q.todo) = "remaining" /\ InProgram(S)
        /\ \A s \in S : s # "remaining" => Stage("remaining") < Stage(s)
        /\ q \in Request
    BY Going DEF CalmInv, Remaining, At
  <2>2. S \ {"remaining"} = {}
    BY <2>1, AfterLogin
  <2> QED
    BY <2>1, <2>2
<1>2. Continue(r, p) /\ UNCHANGED rows /\ UNCHANGED table
  BY DEF Remaining
<1>3. R \subseteq {"unprotect"} /\ ("unprotect" \in R => ~some)
  OBVIOUS
<1>4. List(t, R)
  BY EmptyList, OneStatement DEF Statement
<1> HIDE DEF t, R
<1>5. p \in Request /\ p.todo = t
  BY <1>1, <1>4 DEF Request, List
<1> HIDE DEF p
<1>6. InProgram(R) /\ Holds(R, p, rows, proven)
  BY <1>3 DEF InProgram, Programs, Holds
<1>7. ASSUME ~disturbed
      PROVE  /\ Knows(R, p, rows, recover, step, guesses)
             /\ Settled(R, rows, recover, remember, guesses)
  <2>1. Settled(S, rows, recover, remember, guesses)
    BY <1>7, Known
  <2>2. \A x \in rows : Counted(x, guesses)
    BY <1>1, <2>1 DEF Settled
  <2>3. "unprotect" \in R => \A x \in rows : ~x.enabled
    BY <1>3 DEF CalmInv, Inv, RowsOK, StoredRow
  <2> HIDE DEF S, some
  <2>4. Knows(R, p, rows, recover, step, guesses)
    BY <1>3, <2>3 DEF Knows
  <2>5. Settled(R, rows, recover, remember, guesses)
    BY <1>1, <2>1, <2>2, SettledAfter
  <2> QED
    BY <2>4, <2>5
<1> QED
  BY <1>2, <1>4, <1>5, <1>6, <1>7, StayStep

\* The row that a request has made up is stored, under an identifier of its own.
LEMMA InsertStep ==
    ASSUME CalmInv, NEW r \in Active, Insert(r)
    PROVE  CalmInv'
<1> DEFINE q == requests[r]
           d == q.row
           S == Left(q.todo)
           R == S \ {"insert"}
           i == CHOOSE n \in Unused : TRUE
           l == IF d.type = "authenticator" THEN step ELSE 0
           y == [d EXCEPT !.id = i, !.last = l]
<1>1. /\ "insert" \in S /\ Head(q.todo) = "insert" /\ InProgram(S)
      /\ \A s \in S : s # "insert" => Stage("insert") < Stage(s)
      /\ Holds(S, q, rows, proven) /\ q \in Request /\ d \in Row
  BY Going DEF CalmInv, Insert, At
<1>2. R \subseteq {"remember"} \/ R \subseteq {"protect", "clear"}
  BY <1>1, AfterSetting
<1>3. i \in Unused
  BY DEF Insert
<1> HIDE DEF i
<1>4. /\ i \in 1 .. MaxRows
      /\ \A x \in rows : x.id # i
      /\ \A s \in Active : requests[s].row.id # i
  <2>1. i \in 1 .. MaxRows /\ i \notin ids(rows)
    BY <1>3 DEF Unused
  <2>2. \A s \in Active : i \notin {requests[s].row.id} \cup requests[s].ids
    BY <1>3 DEF Unused
  <2> QED
    BY <2>1, <2>2 DEF ids
<1>5. /\ step \in Nat /\ MaxRows \in Nat /\ l \in Nat
      /\ d.type = "authenticator" => l = step
  BY BoundAssumption DEF CalmInv, Inv, TableOK
<1> HIDE DEF l
<1>6. /\ y \in Row /\ y.id = i /\ y.last = l /\ y.type = d.type
      /\ y.enabled = d.enabled /\ y.accepted = d.accepted
      /\ y.address = d.address /\ y.code = d.code
      /\ y.attempts = d.attempts /\ y.keys = d.keys
  <2>1. i \in 0 .. MaxRows
    BY <1>4, <1>5
  <2> HIDE DEF q
  <2> QED
    BY <1>1, <1>5, <2>1 DEF Row
<1>7. /\ rows' = rows \cup {y}
      /\ guesses' = IF d.code THEN 0 ELSE guesses
      /\ UNCHANGED <<recover, remember, step, proven>>
  BY DEF Insert, i, l
<1> HIDE DEF y
<1>8. MadeRow(d)
  BY <1>1 DEF Holds
<1>9. StoredRow(y)
  BY <1>4, <1>6, <1>8 DEF StoredRow, MadeRow, WellFormed
<1>10. RowsOK'
  <2>1. IsFiniteSet(rows) /\ Distinct(rows) /\ \A x \in rows : StoredRow(x)
    BY DEF CalmInv, Inv, RowsOK
  <2>2. IsFiniteSet(rows')
    BY <1>7, <2>1, FS_AddElement
  <2>3. Distinct(rows')
    BY <1>4, <1>6, <1>7, <2>1 DEF Distinct
  <2> QED
    BY <1>7, <1>9, <2>1, <2>2, <2>3 DEF RowsOK
<1>11. TableOK' /\ guesses \in Nat
  <2>1. TableOK /\ UNCHANGED disturbed /\ EMAIL_ATTEMPTS_LIMIT \in Nat
    BY BoundAssumption DEF Insert, Go, Continue, CalmInv, Inv
  <2>2. guesses' \in 0 .. EMAIL_ATTEMPTS_LIMIT /\ guesses \in Nat
    BY <1>7, <2>1 DEF TableOK
  <2> QED
    BY <1>7, <2>1, <2>2 DEF TableOK
<1>12. \A s \in Active : s # r =>
         \A x \in rows' : \/ \E z \in rows : z.id = x.id /\ z.type = x.type
                          \/ x.id # requests[s].row.id
  BY <1>4, <1>6, <1>7
<1>13. Holds(R, q, rows', proven')
  BY <1>1, <1>2, <1>7 DEF Holds
<1>14. ASSUME ~disturbed
       PROVE  /\ CalmRows(rows')
              /\ Knows(R, q, rows', recover', step', guesses')
              /\ Settled(R, rows', recover', remember', guesses')
  <2>1. /\ Knows(S, q, rows, recover, step, guesses)
        /\ Settled(S, rows, recover, remember, guesses)
        /\ CalmRows(rows)
    BY <1>14, Known
  <2>2. "drop" \notin S /\ "totp" \notin S /\ "write" \notin S
    BY <1>2
  <2>3. /\ \A x \in rows : x.type # d.type
        /\ d.enabled => {"protect", "clear"} \subseteq S
        /\ d.code => d.type = "email" /\ d.attempts = 0
        /\ d.type # "authenticator" => d.accepted = {}
        /\ \A s \in d.accepted : s <= step
    BY <1>1, <2>1, <2>2 DEF Knows
  <2>4. CalmRows(rows')
    <3>1. \A x, z \in rows' : x.type = z.type => x = z
      BY <1>6, <1>7, <2>1, <2>3 DEF CalmRows
    <3>2. (y.code => y.type = "email") /\ \A s \in y.accepted : s <= y.last
      BY <1>5, <1>6, <2>3
    <3> QED
      BY <1>7, <2>1, <3>1, <3>2 DEF CalmRows
  <2>5. /\ \A x \in rows : Counted(x, guesses)
        /\ \A x \in rows : x.attempts \in Nat
    BY <2>1, <2>2 DEF Settled, CalmInv, Inv, RowsOK, StoredRow, Row
  <2>6. \A x \in rows' : Counted(x, guesses')
    <3>1. Counted(y, guesses')
      BY <1>6, <1>7, <2>3, BoundAssumption DEF Counted
    <3>2. \A x \in rows : Counted(x, guesses')
      BY <1>7, <1>11, <2>5 DEF Counted
    <3> QED
      BY <1>7, <3>1, <3>2
  <2>7. y.enabled => R = {"protect", "clear"}
    BY <1>2, <1>6, <2>3
  <2>8. Settled(R, rows', recover, remember, guesses')
    <3>1. CASE y.enabled
      BY <2>6, <2>7, <3>1 DEF Settled
    <3>2. CASE ~y.enabled
      <4> HIDE DEF S, R
      <4> QED
        BY <1>1, <1>7, <2>1, <2>6, <3>2, SettledAfter
    <3> QED
      BY <3>1, <3>2
  <2>9. "remember" \in R => \A x \in rows' : x.enabled => x \in rows
    BY <1>7, <2>7
  <2>10. /\ R \subseteq S /\ S \cap {"protect", "clear", "assert"} \subseteq R
         /\ R \subseteq {"remember", "protect", "clear"}
    BY <1>2
  <2> HIDE DEF S, R, q
  <2>11. Knows(R, q, rows', recover, step, guesses')
    BY <2>1, <2>2, <2>9, <2>10, KnowsAfter
  <2> QED
    BY <1>7, <2>4, <2>8, <2>11
<1> HIDE DEF R
<1> QED
  BY <1>1, <1>7, <1>10, <1>11, <1>12, <1>13, <1>14, GoStep DEF Insert, R

----------------------------------------------------------------------------
\* A request that fails disturbs the account, and no other request.
LEMMA FailStep ==
    ASSUME CalmInv, NEW r \in Active, Fail(r)
    PROVE  CalmInv'
<1>1. /\ r \in Requests /\ requests \in [Requests -> Request \cup {None}]
      /\ requests' = [requests EXCEPT ![r] = None] /\ disturbed'
      /\ disturbed' \in BOOLEAN
      /\ UNCHANGED <<rows, recover, remember, step, guesses, proven>>
  BY DEF Fail, table, Active, CalmInv, Inv, RequestsOK
<1>2. /\ requests' \in [Requests -> Request \cup {None}]
      /\ \A s \in Active' : s \in Active /\ requests'[s] = requests[s]
  BY <1>1 DEF Active
<1>3. RequestsOK'
  <2> SUFFICES ASSUME NEW s \in Active'
               PROVE  /\ requests'[s].todo # <<>> /\ Ordered(requests'[s].todo)
                      /\ InProgram(Left(requests'[s].todo))
                      /\ Holds(Left(requests'[s].todo), requests'[s], rows',
                               proven')
    BY <1>2 DEF RequestsOK
  <2>1. /\ requests[s].todo # <<>> /\ Ordered(requests[s].todo)
        /\ InProgram(Left(requests[s].todo))
        /\ Holds(Left(requests[s].todo), requests[s], rows, proven)
    BY <1>2 DEF CalmInv, Inv, RequestsOK
  <2> QED
    BY <1>1, <1>2, <2>1
<1>4. RowsOK' /\ TableOK'
  BY <1>1 DEF CalmInv, Inv, RowsOK, TableOK
<1> QED
  BY <1>1, <1>3, <1>4 DEF CalmInv, Inv

\* Time passes beside every request.
LEMMA TickStep ==
    ASSUME CalmInv, Tick
    PROVE  CalmInv'
<1>1. /\ step' = step + 1 /\ step < MaxStep /\ MaxStep \in Nat
      /\ UNCHANGED <<rows, recover, remember, guesses, proven, disturbed,
                     requests>>
  BY BoundAssumption DEF Tick
<1>2. Active' = Active
  BY <1>1 DEF Active
<1>3. RowsOK' /\ TableOK' /\ RequestsOK'
  BY <1>1, <1>2 DEF CalmInv, Inv, RowsOK, TableOK, RequestsOK
<1>4. ASSUME ~disturbed
      PROVE  Undisturbed'
  <2>1. /\ Undisturbed /\ step \in Nat
    BY <1>4 DEF CalmInv, Inv, TableOK
  <2>2. ASSUME NEW r \in Active
        PROVE  Knows(Left(requests[r].todo), requests[r], rows, recover, step',
                     guesses)
    <3> DEFINE S == Left(requests[r].todo)
               q == requests[r]
    <3>1. Knows(S, q, rows, recover, step, guesses) /\ q \in Request
      <4>1. q \in Request
        BY DEF Active, CalmInv, Inv, RequestsOK
      <4> QED
        BY <2>1, <4>1 DEF Undisturbed
    <3>2. q.row.accepted \subseteq Nat
      BY <3>1 DEF Request, Row
    <3>3. \A s \in q.row.accepted : s <= step => s <= step'
      BY <1>1, <2>1, <3>2
    <3> HIDE DEF S, q
    <3>4. Knows(S, q, rows, recover, step', guesses)
      BY <3>1, <3>3 DEF Knows
    <3> QED
      BY <3>4 DEF S, q
  <2> QED
    BY <1>1, <1>2, <2>1, <2>2 DEF Undisturbed
<1> QED
  BY <1>1, <1>3, <1>4 DEF CalmInv, Inv

\* Nothing changes.
LEMMA StutterStep ==
    ASSUME CalmInv, UNCHANGED vars
    PROVE  CalmInv'
<1>1. UNCHANGED <<rows, recover, remember, step, guesses, proven, disturbed,
                  requests>>
  BY DEF vars
<1>2. Active' = Active
  BY <1>1 DEF Active
<1>3. RowsOK' /\ TableOK' /\ RequestsOK'
  BY <1>1, <1>2 DEF CalmInv, Inv, RowsOK, TableOK, RequestsOK
<1>4. Undisturbed => Undisturbed'
  BY <1>1, <1>2 DEF Undisturbed
<1> QED
  BY <1>1, <1>3, <1>4 DEF CalmInv, Inv

\* An account begins without second factors.
LEMMA InitCalm == Init => CalmInv
<1> SUFFICES ASSUME Init PROVE CalmInv
  OBVIOUS
<1>1. /\ rows = {} /\ recover = FALSE /\ remember = [d \in Devices |-> None]
      /\ step = 1 /\ guesses = 0 /\ proven = {} /\ disturbed = FALSE
      /\ requests = [r \in Requests |-> None]
  BY DEF Init
<1>2. Active = {}
  BY <1>1 DEF Active
<1>3. RowsOK
  BY <1>1, FS_EmptySet DEF RowsOK, Distinct
<1>4. TableOK
  <2>1. /\ 1 \in 1 .. MaxStep /\ 0 \in 0 .. EMAIL_ATTEMPTS_LIMIT
        /\ remember \in [Devices -> {None} \cup SUBSET (1 .. MaxRows)]
    BY <1>1, BoundAssumption
  <2> QED
    BY <1>1, <2>1 DEF TableOK
<1>5. RequestsOK
  BY <1>1, <1>2 DEF RequestsOK
<1>6. Undisturbed
  BY <1>1, <1>2 DEF Undisturbed, CalmRows, Settled
<1> QED
  BY <1>3, <1>4, <1>5, <1>6 DEF CalmInv, Inv

\* Whatever a request does next.
LEMMA ProceedStep ==
    ASSUME CalmInv, NEW r \in Active, Proceed(r)
    PROVE  CalmInv'
<1>1. CASE \/ Refused(r) \/ WriteUsed(r) \/ Send(r) \/ WriteEmail(r)
           \/ OfferChallenge(r) \/ TakeChallenge(r) \/ DeleteChallenge(r)
           \/ SaveRegistrations(r) \/ UpdateRegistrations(r) \/ Remember(r)
  BY <1>1, RefusedStep, WriteUsedStep, SendStep, WriteEmailStep,
     OfferChallengeStep, TakeChallengeStep, DeleteChallengeStep,
     SaveRegistrationsStep, UpdateRegistrationsStep, RememberStep
<1>2. CASE \/ WriteEnabled(r) \/ Drop(r) \/ Insert(r) \/ Wipe(r) \/ Protect(r)
           \/ Remaining(r) \/ Unprotect(r) \/ clearTwofactorRemember(r) \/ Fail(r)
  BY <1>2, WriteEnabledStep, DropStep, InsertStep, WipeStep, ProtectStep,
     RemainingStep, UnprotectStep, ClearStep, FailStep
<1>3. CASE \/ \E s \in 0 .. MaxStep + 1 : Totp(r, s)
           \/ \E right \in BOOLEAN : Code(r, right)
           \/ \E k \in Keys : AssertKey(r, k)
  BY <1>3, TotpStep, CodeStep, AssertKeyStep
<1> QED
  BY <1>1, <1>2, <1>3 DEF Proceed

\* CalmInv is an invariant.
THEOREM CalmInvariant == Spec => []CalmInv
<1>1. CalmInv /\ [Next]_vars => CalmInv'
  BY ProceedStep, ArriveStep, TickStep, StutterStep DEF Next
<1> QED
  BY <1>1, InitCalm, PTL DEF Spec

----------------------------------------------------------------------------
(***************************************************************************)
(* What the runs check, for every value of the constants                   *)
(***************************************************************************)
\* No two rows share their identifier, so there are as many of one as of the
\* other.
LEMMA RowsNamed ==
    ASSUME RowsOK
    PROVE  Cardinality(ids(rows)) = Cardinality(rows)
<1> DEFINE f == [x \in rows |-> x.id]
<1>1. f \in Surjection(rows, ids(rows))
  BY DEF Surjection, ids
<1>2. f \in Injection(rows, ids(rows))
  BY DEF Injection, IsInjective, ids, RowsOK, Distinct
<1>3. IsFiniteSet(rows)
  BY DEF RowsOK
<1> HIDE DEF f
<1> QED
  BY <1>1, <1>2, <1>3, FS_Surjection

\* The types are right: in the table a uuid is one row's, a row has an address
\* just when it is the e-mail provider's, and keys only when it is WebAuthn's,
\* whichever row an UPDATE by uuid hits, and whichever requests overlap or fail.
THEOREM TypeCorrect == Spec => []TypeOK
<1>1. CalmInv => TypeOK
  <2> SUFFICES ASSUME CalmInv PROVE TypeOK
    OBVIOUS
  <2>1. RowsOK /\ TableOK /\ RequestsOK
    BY DEF CalmInv, Inv
  <2>2. /\ rows \subseteq Row
        /\ Cardinality(ids(rows)) = Cardinality(rows)
        /\ \A x \in rows : /\ x.type = "email" <=> x.address # None
                           /\ x.keys # {} => x.type = "webauthn"
    BY <2>1, RowsNamed DEF RowsOK, StoredRow, WellFormed
  <2>3. \A d \in Devices : remember[d] # None => remember[d] \subseteq 1 .. MaxRows
    BY <2>1 DEF TableOK
  <2>4. \A r \in Active : /\ requests[r] \in Request
                          /\ requests[r].todo # <<>>
    BY <2>1 DEF RequestsOK, Active
  <2> QED
    BY <2>1, <2>2, <2>3, <2>4 DEF TypeOK, TableOK
<1> QED
  BY <1>1, CalmInvariant, PTL

\* After any requests that neither overlap nor fail, an account with an enabled
\* provider has a recovery code.
THEOREM RecoverableWhileProtected == Spec => []RecoveryCodeWhileProtected
<1>1. CalmInv => RecoveryCodeWhileProtected
  BY DEF CalmInv, Undisturbed, Settled, RecoveryCodeWhileProtected, Quiet, Enabled
<1> QED
  BY <1>1, CalmInvariant, PTL

\* After such requests a code of the authenticator that a login passes with is
\* one that no login has passed with, however often the same key is set up anew.
THEOREM NoCodeTwice == Spec => []CodeAcceptedOnce
<1>1. CalmInv => CodeAcceptedOnce
  <2> SUFFICES ASSUME CalmInv, ~disturbed, NEW r \in Active, At(r, "used"),
                      NEW x \in rows, x.id = requests[r].row.id
               PROVE  requests[r].row.last \notin x.accepted
    BY DEF CodeAcceptedOnce
  <2> DEFINE q == requests[r]
  <2>1. /\ q \in Request /\ q.todo # <<>> /\ Ordered(q.todo)
        /\ Knows(Left(q.todo), q, rows, recover, step, guesses)
        /\ CalmRows(rows) /\ x \in Row
    BY NoneAssumption DEF CalmInv, Inv, RequestsOK, RowsOK, StoredRow, Undisturbed, Active
  <2>2. "used" \in Left(q.todo)
    BY <2>1, TailLeft DEF At, Request
  <2>3. x.last < q.row.last /\ \A s \in x.accepted : s <= x.last
    BY <2>1, <2>2 DEF Knows, CalmRows
  <2>4. x.last \in Nat /\ q.row.last \in Nat
    BY <2>1 DEF Row, Request
  <2> QED
    BY <2>3, <2>4
<1> QED
  BY <1>1, CalmInvariant, PTL

\* After such requests a remembered device was remembered when each provider
\* that is enabled now already was.
THEOREM RememberedForProviders == Spec => []RememberFollowsProviders
<1>1. CalmInv => RememberFollowsProviders
  BY DEF CalmInv, Undisturbed, Settled, RememberFollowsProviders, Quiet,
     Enabled, ids
<1> QED
  BY <1>1, CalmInvariant, PTL

\* After such requests a mailed code that still counts has been guessed at less
\* often than EMAIL_ATTEMPTS_LIMIT.
THEOREM FewGuesses == Spec => []GuessesBounded
<1>1. CalmInv => GuessesBounded
  <2> SUFFICES ASSUME CalmInv, Quiet, NEW x \in rows, x.code
               PROVE  guesses < EMAIL_ATTEMPTS_LIMIT
    BY DEF GuessesBounded
  <2>1. guesses <= x.attempts /\ x.attempts < EMAIL_ATTEMPTS_LIMIT
    BY DEF CalmInv, Undisturbed, Settled, Counted, Quiet
  <2>2. guesses \in Nat /\ x.attempts \in Nat /\ EMAIL_ATTEMPTS_LIMIT \in Nat
    BY BoundAssumption DEF CalmInv, Inv, TableOK, RowsOK, StoredRow, Row
  <2> QED
    BY <2>1, <2>2
<1> QED
  BY <1>1, CalmInvariant, PTL

\* One step enables the e-mail provider only for a proven address.
LEMMA EnabledStep ==
    ASSUME CalmInv, [Next]_vars, NEW y \in rows', y.type = "email", y.enabled
    PROVE  \/ \E x \in rows : x.id = y.id /\ x.enabled
           \/ y.address \in proven
<1> DEFINE G == \/ \E x \in rows : x.id = y.id /\ x.enabled
                \/ y.address \in proven
<1>1. \A x \in rows : x \in Row /\ x.enabled \in BOOLEAN
  BY DEF CalmInv, Inv, RowsOK, StoredRow, Row
<1>2. CASE rows' \subseteq rows
  BY <1>2
<1>3. ASSUME NEW r \in Active, WriteUsed(r)
      PROVE  G
  <2> DEFINE d == requests[r].row
             a == [x \in rows |->
                     IF requests[r].device = None \/ disturbed THEN x.accepted
                     ELSE x.accepted \cup {d.last}]
  <2>1. PICK x \in rows :
          \/ y = x
          \/ y = [x EXCEPT !.last = d.last, !.accepted = a[x]]
    BY <1>3 DEF WriteUsed, UpdateRow
  <2> HIDE DEF a
  <2>2. x.id = y.id /\ (y.enabled => x.enabled)
    BY <1>1, <2>1 DEF Row
  <2> QED
    BY <2>2
<1>4. ASSUME NEW r \in Active, WriteEmail(r)
      PROVE  G
  <2> DEFINE d == requests[r].row
  <2>1. PICK x \in rows :
          \/ y = x
          \/ y = [x EXCEPT !.address = d.address, !.code = d.code,
                           !.attempts = d.attempts]
    BY <1>4 DEF WriteEmail, UpdateRow
  <2>2. x.id = y.id /\ (y.enabled => x.enabled)
    BY <1>1, <2>1 DEF Row
  <2> QED
    BY <2>2
<1>5. ASSUME NEW r \in Active, WriteEnabled(r)
      PROVE  G
  <2> DEFINE d == requests[r].row
             e == TRUE
  <2>1. d.address \in proven
    BY <1>5, Going DEF CalmInv, Holds, WriteEnabled, At
  <2>2. PICK x \in rows :
          \/ y = x
          \/ y = [x EXCEPT !.enabled = e, !.address = d.address,
                           !.code = d.code, !.attempts = d.attempts]
    BY <1>5 DEF WriteEnabled, UpdateRow
  <2> HIDE DEF d, e
  <2>3. y = x \/ y.address = d.address
    BY <1>1, <2>2 DEF Row
  <2> QED
    BY <2>1, <2>3
<1>6. ASSUME NEW r \in Active, UpdateRegistrations(r)
      PROVE  G
  <2> DEFINE d == requests[r].row
  <2>1. Hits(d.id, rows, {"webauthn"})
    BY <1>6, Going DEF CalmInv, Holds, UpdateRegistrations, At
  <2> DEFINE e == [x \in rows |-> x.enabled \/ d.enabled]
  <2>2. PICK x \in rows :
          \/ y = x
          \/ x.id = d.id /\ y = [x EXCEPT !.keys = d.keys, !.enabled = e[x]]
    BY <1>6 DEF UpdateRegistrations, UpdateRow
  <2> HIDE DEF d, e
  <2>3. y = x \/ y.type = "webauthn"
    BY <1>1, <2>1, <2>2 DEF Row, Hits
  <2> QED
    BY <2>3
<1>7. ASSUME NEW r \in Active, Insert(r)
      PROVE  G
  <2> DEFINE d == requests[r].row
  <2>1. d \in Row /\ MadeRow(d)
    BY <1>7, Going DEF CalmInv, Holds, Insert, At
  <2> DEFINE a == CHOOSE i \in Unused : TRUE
             b == IF d.type = "authenticator" THEN step ELSE 0
  <2>2. y \in rows \/ y = [d EXCEPT !.id = a, !.last = b]
    BY <1>7 DEF Insert
  <2> HIDE DEF d, a, b
  <2>3. y \in rows \/ (y.type = d.type /\ (y.enabled => d.enabled))
    BY <2>1, <2>2 DEF Row
  <2> QED
    BY <2>1, <2>3 DEF MadeRow
<1>8. ASSUME NEW r \in Active, Proceed(r)
      PROVE  G
  <2>1. CASE \/ DeleteChallenge(r) \/ Drop(r) \/ Wipe(r)
    <3>1. rows' \subseteq rows
      BY <2>1 DEF DeleteChallenge, Drop, Wipe
    <3> QED
      BY <1>2, <3>1
  <2>2. CASE \/ Refused(r) \/ Send(r) \/ OfferChallenge(r) \/ TakeChallenge(r)
             \/ SaveRegistrations(r) \/ Remember(r) \/ Protect(r)
             \/ Remaining(r) \/ Unprotect(r) \/ clearTwofactorRemember(r)
             \/ Fail(r)
    <3>1. rows' = rows
      BY <2>2 DEF Refused, Send, OfferChallenge, TakeChallenge,
         SaveRegistrations, Remember, Protect, Remaining, Unprotect,
         clearTwofactorRemember, Fail
    <3> QED
      BY <1>2, <3>1
  <2>3. CASE \/ \E s \in 0 .. MaxStep + 1 : Totp(r, s)
             \/ \E right \in BOOLEAN : Code(r, right)
             \/ \E k \in Keys : AssertKey(r, k)
    <3>1. rows' = rows
      BY <2>3 DEF Totp, Code, AssertKey
    <3> QED
      BY <1>2, <3>1
  <2> HIDE DEF G
  <2> QED
    BY <1>3, <1>4, <1>5, <1>6, <1>7, <1>8, <2>1, <2>2, <2>3 DEF Proceed
<1>9. ASSUME NEW r \in Idle, Arrive(r)
      PROVE  G
  <2>1. rows' = rows
    <3>1. ASSUME NEW d, NEW t, NEW x, Begin(r, d, t, x) PROVE rows' = rows
      BY <3>1 DEF Begin
    <3>2. CASE \E d \in Devices, right \in BOOLEAN, keep \in BOOLEAN :
                 \E f \in Types \cup {"remember", "recovery", None} :
                   Login(r, d, f, right, keep)
      BY <3>1, <3>2 DEF Login
    <3>3. CASE \/ ActivateAuthenticator(r) \/ DeleteAuthenticator(r)
               \/ \E type \in Types \cup Challenges : DisableTwofactor(r, type)
               \/ StartRegistration(r) \/ FinishRegistration(r)
      BY <3>1, <3>3 DEF ActivateAuthenticator, DeleteAuthenticator,
         DisableTwofactor, StartRegistration, FinishRegistration
    <3>4. CASE \/ \E k \in Keys : DeleteRegistration(r, k)
               \/ \E type \in Services : ActivateService(r, type)
               \/ RemoveYubikeys(r) \/ SendEmailLogin(r) \/ Recover(r)
               \/ AdminRemove(r)
      BY <3>1, <3>4 DEF DeleteRegistration, ActivateService, RemoveYubikeys,
         SendEmailLogin, Recover, AdminRemove
    <3>5. CASE \E a \in Addresses :
                 SetupEmail(r, a) \/ \E b \in BOOLEAN : EnableEmail(r, a, b)
      BY <3>1, <3>5 DEF SetupEmail, EnableEmail
    <3> QED
      BY <1>9, <3>2, <3>3, <3>4, <3>5 DEF Arrive
  <2> QED
    BY <1>2, <2>1
<1>10. CASE Tick \/ UNCHANGED vars
  BY <1>2, <1>10 DEF Tick, vars
<1> HIDE DEF G
<1> QED
  BY <1>8, <1>9, <1>10 DEF Next, G

\* However requests overlap or fail, the e-mail provider is enabled only for an
\* address whose owner has returned the code that was mailed to it.
THEOREM EnablingProven == Spec => EnabledByOwner
<1> DEFINE A == \A y \in rows' : y.type = "email" /\ y.enabled =>
                  \/ \E x \in rows : x.id = y.id /\ x.enabled
                  \/ y.address \in proven
<1>1. CalmInv /\ [Next]_vars => [A]_vars
  BY EnabledStep
<1> HIDE DEF A
<1>2. Spec => [][A]_vars
  BY <1>1, CalmInvariant, PTL DEF Spec
<1> QED
  BY <1>2, PTL DEF EnabledByOwner, A
=============================================================================
