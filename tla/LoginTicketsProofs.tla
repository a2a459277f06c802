------------------------- MODULE LoginTicketsProofs --------------------------
(***************************************************************************)
(* What LoginTickets guarantees for any number of requests to log in,      *)
(* authorizations, secrets and identities.                                 *)
(*                                                                         *)
(* A handler in flight is at a suffix of its program, the statements it    *)
(* has still to do; the definitions below name those suffixes, and Fits    *)
(* says which row and which identity each of them is about.  The invariant *)
(* Inv is TypeOK, that every request fits, and Calm of the runs in which   *)
(* nothing overlapped or failed (history # None), of which alone the       *)
(* properties speak: the rows still there have let nobody pass (Agrees),   *)
(* and the one request in flight answers a row that is open, redeems one   *)
(* that has let nobody pass, and links the identity that the account has   *)
(* or is to get (Pending).  DeniedStaysOut, UsedOnce and OneIdentity are   *)
(* not inductive: a row about to let somebody pass again breaks them only  *)
(* one statement later.                                                    *)
(***************************************************************************)
EXTENDS LoginTickets, SequenceTheorems, FiniteSetTheorems, TLAPS

(***************************************************************************)
(* What the handlers have still to do                                      *)
(***************************************************************************)
Counting == {<<"count", "record">>, <<"record">>}
Authorizing == {<<"drop", "insert">>, <<"insert">>, <<"drop">>}
Identifying == {<<"exchange", "save", "resolve">>, <<"save", "resolve">>, <<"resolve">>}
Linking == {<<"provision", "complete", "redeem", "link", "login">>,
            <<"complete", "redeem", "link", "login">>, <<"redeem", "link", "login">>,
            <<"link", "login">>}
Linked == {<<"provision", "complete", "redeem", "login">>,
           <<"complete", "redeem", "login">>, <<"redeem", "login">>, <<"login">>}
SigningIn == Identifying \cup Linking \cup Linked
OneStatement == {<<"answer">>, <<"callback">>, <<"consume">>}
Programs == Counting \cup Authorizing \cup SigningIn \cup OneStatement

\* A request shows what its handler is about, and whoever signs in is somebody.
Fits(q) ==
    /\ q.todo \in Programs
    /\ q.todo \in Authorizing \cup SigningIn \cup {<<"callback">>} => q.ticket \in States
    /\ q.todo = <<"answer">> => q.ticket \in Asks
    /\ q.todo = <<"consume">> => q.ticket \in Secrets
    /\ q.todo \in SigningIn => q.identity \in Identities

\* What is there has let nobody pass, or has been approved and never denied; who
\* has logged in is linked.
Agrees(h, as, ss, sec, lnk) ==
    /\ \A a \in Asks : as[a] # None /\ as[a].approved # "yes" => a \notin h.passed
    /\ \A a \in Asks : as[a] # None /\ as[a].approved # "no" => a \notin h.denied
    /\ h.denied \cap h.passed = {}
    /\ \A s \in States : ss[s] # None => h.uses[s] = 0
    /\ \A k \in Secrets : sec[k] # None => h.uses[k] = 0
    /\ \A t \in States \cup Secrets : h.uses[t] <= 1
    /\ \A i \in h.logged : i = lnk /\ i # None

\* What is to be redeemed has let nobody pass, and is gone when the login does.
Pending(q, h, as, ss, lnk) ==
    /\ q.todo = <<"answer">> /\ as[q.ticket] # None => as[q.ticket].approved = "open"
    /\ q.todo \in SigningIn \cup {<<"consume">>} => h.uses[q.ticket] = 0
    /\ q.todo \in {<<"link", "login">>, <<"login">>} => ss[q.ticket] = None
    /\ q.todo \in Linking => lnk = None
    /\ q.todo \in Linked => lnk = q.identity

AllFit == \A r \in Active : Fits(requests[r])
Calm == /\ \A r, s \in Active : r = s
        /\ Agrees(history, asks, sso, secrets, link)
        /\ \A r \in Active : Pending(requests[r], history, asks, sso, link)

Inv == TypeOK /\ AllFit /\ (history # None => Calm)

\* TypeOK but for the requests in flight.
TablesOK ==
    /\ asks \in [Asks -> Ask \cup {None}]
    /\ sso \in [States -> SsoAuth \cup {None}]
    /\ secrets \in [Secrets -> {"valid", "expired", None}]
    /\ account \in {"absent", "shell", "full"}
    /\ link \in Identities \cup {None}
    /\ link # None => account # "absent"
    /\ failures \in Counter
    /\ failures.count = 0 <=> failures.ttl = 0
    /\ history \in History \cup {None}

----------------------------------------------------------------------------
(***************************************************************************)
(* Sequences of statements                                                 *)
(***************************************************************************)
\* Each program begins with its first statement, and leaves a program or nothing.
LEMMA CountingTail ==
    ASSUME NEW t \in Counting
    PROVE  /\ Head(t) = "count" => t = <<"count", "record">> /\ Tail(t) = <<"record">>
           /\ Head(t) = "record" => t = <<"record">> /\ Tail(t) = <<>>
           /\ Head(t) \in {"count", "record"} /\ t # <<>> /\ t \in Seq(Statement)
<1>1. /\ Head(<<"count", "record">>) = "count"
      /\ Tail(<<"count", "record">>) = <<"record">>
      /\ <<"count", "record">> \in Seq(Statement) /\ <<"count", "record">> # <<>>
  BY DEF Statement
<1>2. /\ Head(<<"record">>) = "record" /\ Tail(<<"record">>) = <<>>
      /\ <<"record">> \in Seq(Statement) /\ <<"record">> # <<>>
  BY DEF Statement
<1>3. t = <<"count", "record">> \/ t = <<"record">>
  BY DEF Counting
<1> QED
  BY <1>1, <1>2, <1>3, Zenon

\* The suffix of each program that its first statement leaves.
LEMMA AuthorizingTail ==
    ASSUME NEW t \in Authorizing
    PROVE  /\ Head(t) = "drop" => Tail(t) \in {<<"insert">>, <<>>}
           /\ Head(t) = "insert" => Tail(t) = <<>>
           /\ Head(t) \in {"drop", "insert"} /\ t # <<>> /\ t \in Seq(Statement)
<1>1. /\ Head(<<"drop", "insert">>) = "drop"
      /\ Tail(<<"drop", "insert">>) = <<"insert">>
      /\ <<"drop", "insert">> \in Seq(Statement) /\ <<"drop", "insert">> # <<>>
  BY DEF Statement
<1>2. /\ Head(<<"insert">>) = "insert" /\ Tail(<<"insert">>) = <<>>
      /\ <<"insert">> \in Seq(Statement) /\ <<"insert">> # <<>>
  BY DEF Statement
<1>3. /\ Head(<<"drop">>) = "drop" /\ Tail(<<"drop">>) = <<>>
      /\ <<"drop">> \in Seq(Statement) /\ <<"drop">> # <<>>
  BY DEF Statement
<1>4. t = <<"drop", "insert">> \/ t = <<"insert">> \/ t = <<"drop">>
  BY DEF Authorizing
<1> QED
  BY <1>1, <1>2, <1>3, <1>4, Zenon

LEMMA IdentifyingTail ==
    ASSUME NEW t \in Identifying
    PROVE  /\ Head(t) = "exchange" => Tail(t) \in Identifying
           /\ Head(t) = "save" => Tail(t) \in Identifying
           /\ Head(t) \in {"exchange", "save", "resolve"}
           /\ t # <<>> /\ t \in Seq(Statement)
<1>1. /\ Head(<<"exchange", "save", "resolve">>) = "exchange"
      /\ Tail(<<"exchange", "save", "resolve">>) = <<"save", "resolve">>
      /\ <<"exchange", "save", "resolve">> \in Seq(Statement)
      /\ <<"exchange", "save", "resolve">> # <<>>
  BY DEF Statement
<1>2. /\ Head(<<"save", "resolve">>) = "save"
      /\ Tail(<<"save", "resolve">>) = <<"resolve">>
      /\ <<"save", "resolve">> \in Seq(Statement) /\ <<"save", "resolve">> # <<>>
  BY DEF Statement
<1>3. /\ Head(<<"resolve">>) = "resolve"
      /\ <<"resolve">> \in Seq(Statement) /\ <<"resolve">> # <<>>
  BY DEF Statement
<1>4. /\ t = <<"exchange", "save", "resolve">> \/ t = <<"save", "resolve">>
           \/ t = <<"resolve">>
      /\ <<"save", "resolve">> \in Identifying /\ <<"resolve">> \in Identifying
  BY DEF Identifying
<1> QED
  BY <1>1, <1>2, <1>3, <1>4, Zenon

LEMMA LinkingTail ==
    ASSUME NEW t \in Linking
    PROVE  /\ Head(t) \in {"provision", "complete"} => /\ Tail(t) \in Linking
                                                      /\ Tail(t) # <<"link", "login">>
           /\ Head(t) = "redeem" => Tail(t) = <<"link", "login">>
           /\ Head(t) = "link" => t = <<"link", "login">> /\ Tail(t) = <<"login">>
           /\ Head(t) \in {"provision", "complete", "redeem", "link"}
           /\ t # <<>> /\ t \in Seq(Statement)
<1>1. /\ Head(<<"provision", "complete", "redeem", "link", "login">>) = "provision"
      /\ Tail(<<"provision", "complete", "redeem", "link", "login">>)
           = <<"complete", "redeem", "link", "login">>
      /\ <<"provision", "complete", "redeem", "link", "login">> \in Seq(Statement)
      /\ <<"provision", "complete", "redeem", "link", "login">> # <<>>
  BY DEF Statement
<1>2. /\ Head(<<"complete", "redeem", "link", "login">>) = "complete"
      /\ Tail(<<"complete", "redeem", "link", "login">>) = <<"redeem", "link", "login">>
      /\ <<"complete", "redeem", "link", "login">> \in Seq(Statement)
      /\ <<"complete", "redeem", "link", "login">> # <<>>
  BY DEF Statement
<1>3. /\ Head(<<"redeem", "link", "login">>) = "redeem"
      /\ Tail(<<"redeem", "link", "login">>) = <<"link", "login">>
      /\ <<"redeem", "link", "login">> \in Seq(Statement)
      /\ <<"redeem", "link", "login">> # <<>>
  BY DEF Statement
<1>4. /\ Head(<<"link", "login">>) = "link" /\ Tail(<<"link", "login">>) = <<"login">>
      /\ <<"link", "login">> \in Seq(Statement) /\ <<"link", "login">> # <<>>
  BY DEF Statement
<1>5. /\ \/ t = <<"provision", "complete", "redeem", "link", "login">>
         \/ t = <<"complete", "redeem", "link", "login">>
         \/ t = <<"redeem", "link", "login">>
         \/ t = <<"link", "login">>
      /\ <<"complete", "redeem", "link", "login">> \in Linking
      /\ <<"redeem", "link", "login">> \in Linking
      /\ <<"complete", "redeem", "link", "login">> # <<"link", "login">>
      /\ <<"redeem", "link", "login">> # <<"link", "login">>
  BY DEF Linking
<1> QED
  BY <1>1, <1>2, <1>3, <1>4, <1>5, Zenon

LEMMA LinkedTail ==
    ASSUME NEW t \in Linked
    PROVE  /\ Head(t) \in {"provision", "complete"} => /\ Tail(t) \in Linked
                                                      /\ Tail(t) # <<"login">>
           /\ Head(t) = "redeem" => Tail(t) = <<"login">>
           /\ Head(t) = "login" => t = <<"login">> /\ Tail(t) = <<>>
           /\ Head(t) \in {"provision", "complete", "redeem", "login"}
           /\ t # <<>> /\ t \in Seq(Statement)
<1>1. /\ Head(<<"provision", "complete", "redeem", "login">>) = "provision"
      /\ Tail(<<"provision", "complete", "redeem", "login">>)
           = <<"complete", "redeem", "login">>
      /\ <<"provision", "complete", "redeem", "login">> \in Seq(Statement)
      /\ <<"provision", "complete", "redeem", "login">> # <<>>
  BY DEF Statement
<1>2. /\ Head(<<"complete", "redeem", "login">>) = "complete"
      /\ Tail(<<"complete", "redeem", "login">>) = <<"redeem", "login">>
      /\ <<"complete", "redeem", "login">> \in Seq(Statement)
      /\ <<"complete", "redeem", "login">> # <<>>
  BY DEF Statement
<1>3. /\ Head(<<"redeem", "login">>) = "redeem" /\ Tail(<<"redeem", "login">>) = <<"login">>
      /\ <<"redeem", "login">> \in Seq(Statement) /\ <<"redeem", "login">> # <<>>
  BY DEF Statement
<1>4. /\ Head(<<"login">>) = "login" /\ Tail(<<"login">>) = <<>>
      /\ <<"login">> \in Seq(Statement) /\ <<"login">> # <<>>
  BY DEF Statement
<1>5. /\ \/ t = <<"provision", "complete", "redeem", "login">>
         \/ t = <<"complete", "redeem", "login">>
         \/ t = <<"redeem", "login">>
         \/ t = <<"login">>
      /\ <<"complete", "redeem", "login">> \in Linked
      /\ <<"redeem", "login">> \in Linked
      /\ <<"complete", "redeem", "login">> # <<"login">>
      /\ <<"redeem", "login">> # <<"login">>
  BY DEF Linked
<1> QED
  BY <1>1, <1>2, <1>3, <1>4, <1>5, Zenon

LEMMA OneStatementTail ==
    ASSUME NEW t \in OneStatement
    PROVE  /\ \A s \in {"answer", "callback", "consume"} : Head(t) = s => t = <<s>>
           /\ Head(t) \in {"answer", "callback", "consume"} /\ Tail(t) = <<>>
           /\ t # <<>> /\ t \in Seq(Statement)
<1>1. ASSUME NEW s \in {"answer", "callback", "consume"}
      PROVE  /\ Head(<<s>>) = s /\ Tail(<<s>>) = <<>>
             /\ <<s>> \in Seq(Statement) /\ <<s>> # <<>>
  BY DEF Statement
<1>2. t = <<"answer">> \/ t = <<"callback">> \/ t = <<"consume">>
  BY DEF OneStatement
<1> QED
  BY <1>1, <1>2

\* A program with one more statement.
LEMMA LongerBy ==
    ASSUME NEW S, NEW s \in Seq(S), NEW t \in Seq(S), NEW x \in S, Len(t) = Len(s) + 1,
           \A i \in 1 .. Len(s) : t[i] = s[i], t[Len(t)] = x
    PROVE  s \o <<x>> = t
<1>1. Append(s, x) = s \o <<x>>
  BY AppendIsConcat
<1>2. Append(s, x) = t
  BY AppendProperties, SeqEqual
<1> QED
  BY <1>1, <1>2

LEMMA Longer ==
    /\ \A a, x : <<a>> \o <<x>> = <<a, x>>
    /\ \A a, b, x : <<a, b>> \o <<x>> = <<a, b, x>>
    /\ \A a, b, c, x : <<a, b, c>> \o <<x>> = <<a, b, c, x>>
    /\ \A a, b, c, d, x : <<a, b, c, d>> \o <<x>> = <<a, b, c, d, x>>
<1>1. ASSUME NEW a, NEW x PROVE <<a>> \o <<x>> = <<a, x>>
  <2> DEFINE S == {a, x}
             s == <<a>>
             t == <<a, x>>
  <2>1. s \in Seq(S) /\ t \in Seq(S) /\ x \in S /\ Len(s) = 1 /\ Len(t) = 2
    OBVIOUS
  <2>2. t[1] = s[1] /\ t[2] = x
    OBVIOUS
  <2>3. \A i \in 1 .. 1 : i = 1
    OBVIOUS
  <2> HIDE DEF s, t, S
  <2>4. Len(t) = Len(s) + 1 /\ t[Len(t)] = x
    BY <2>1, <2>2
  <2>5. \A i \in 1 .. Len(s) : t[i] = s[i]
    BY <2>1, <2>2, <2>3
  <2>6. s \o <<x>> = t
    BY <2>1, <2>4, <2>5, LongerBy, Zenon
  <2> QED
    BY <2>6 DEF s, t
<1>2. ASSUME NEW a, NEW b, NEW x PROVE <<a, b>> \o <<x>> = <<a, b, x>>
  <2> DEFINE S == {a, b, x}
             s == <<a, b>>
             t == <<a, b, x>>
  <2>1. s \in Seq(S) /\ t \in Seq(S) /\ x \in S /\ Len(s) = 2 /\ Len(t) = 3
    OBVIOUS
  <2>2. t[1] = s[1] /\ t[2] = s[2] /\ t[3] = x
    OBVIOUS
  <2>3. \A i \in 1 .. 2 : i = 1 \/ i = 2
    OBVIOUS
  <2> HIDE DEF s, t, S
  <2>4. Len(t) = Len(s) + 1 /\ t[Len(t)] = x
    BY <2>1, <2>2
  <2>5. \A i \in 1 .. Len(s) : t[i] = s[i]
    BY <2>1, <2>2, <2>3
  <2>6. s \o <<x>> = t
    BY <2>1, <2>4, <2>5, LongerBy, Zenon
  <2> QED
    BY <2>6 DEF s, t
<1>3. ASSUME NEW a, NEW b, NEW c, NEW x PROVE <<a, b, c>> \o <<x>> = <<a, b, c, x>>
  <2> DEFINE S == {a, b, c, x}
             s == <<a, b, c>>
             t == <<a, b, c, x>>
  <2>1. s \in Seq(S) /\ t \in Seq(S) /\ x \in S /\ Len(s) = 3 /\ Len(t) = 4
    OBVIOUS
  <2>2. t[1] = s[1] /\ t[2] = s[2] /\ t[3] = s[3] /\ t[4] = x
    OBVIOUS
  <2>3. \A i \in 1 .. 3 : i = 1 \/ i = 2 \/ i = 3
    OBVIOUS
  <2> HIDE DEF s, t, S
  <2>4. Len(t) = Len(s) + 1 /\ t[Len(t)] = x
    BY <2>1, <2>2
  <2>5. \A i \in 1 .. Len(s) : t[i] = s[i]
    BY <2>1, <2>2, <2>3
  <2>6. s \o <<x>> = t
    BY <2>1, <2>4, <2>5, LongerBy, Zenon
  <2> QED
    BY <2>6 DEF s, t
<1>4. ASSUME NEW a, NEW b, NEW c, NEW d, NEW x PROVE <<a, b, c, d>> \o <<x>> = <<a, b, c, d, x>>
  <2> DEFINE S == {a, b, c, d, x}
             s == <<a, b, c, d>>
             t == <<a, b, c, d, x>>
  <2>1. s \in Seq(S) /\ t \in Seq(S) /\ x \in S /\ Len(s) = 4 /\ Len(t) = 5
    OBVIOUS
  <2>2. t[1] = s[1] /\ t[2] = s[2] /\ t[3] = s[3] /\ t[4] = s[4] /\ t[5] = x
    OBVIOUS
  <2>3. \A i \in 1 .. 4 : i = 1 \/ i = 2 \/ i = 3 \/ i = 4
    OBVIOUS
  <2> HIDE DEF s, t, S
  <2>4. Len(t) = Len(s) + 1 /\ t[Len(t)] = x
    BY <2>1, <2>2
  <2>5. \A i \in 1 .. Len(s) : t[i] = s[i]
    BY <2>1, <2>2, <2>3
  <2>6. s \o <<x>> = t
    BY <2>1, <2>4, <2>5, LongerBy, Zenon
  <2> QED
    BY <2>6 DEF s, t
<1> QED
  BY <1>1, <1>2, <1>3, <1>4

\* Programs of different handlers are different.
LEMMA Kinds ==
    ASSUME NEW t
    PROVE  /\ t \in Counting => t \notin Authorizing \cup SigningIn \cup OneStatement
           /\ t \in Authorizing => t \notin SigningIn \cup OneStatement
           /\ t \in SigningIn => t \notin OneStatement
           /\ t \in Identifying => t \notin Linking \cup Linked
           /\ t \in Linking => t \notin Linked
<1>1. t \in Linking => t \notin Linked
  BY DEF Linking, Linked
<1>2. /\ t \in Counting => Head(t) \in {"count", "record"}
      /\ t \in Authorizing => Head(t) \in {"drop", "insert"}
      /\ t \in Identifying => Head(t) \in {"exchange", "save", "resolve"}
      /\ t \in Linking => Head(t) \in {"provision", "complete", "redeem", "link"}
      /\ t \in Linked => Head(t) \in {"provision", "complete", "redeem", "login"}
      /\ t \in OneStatement => Head(t) \in {"answer", "callback", "consume"}
  BY CountingTail, AuthorizingTail, IdentifyingTail, LinkingTail, LinkedTail,
     OneStatementTail
<1> QED
  BY <1>1, <1>2 DEF SigningIn

\* What a handler is about shows in its next statement.
LEMMA ProgramOf ==
    ASSUME NEW t \in Programs
    PROVE  /\ t # <<>> /\ t \in Seq(Statement)
           /\ Head(t) \in {"count", "record"} => t \in Counting
           /\ Head(t) \in {"drop", "insert"} => t \in Authorizing
           /\ Head(t) \in {"exchange", "save", "resolve"} => t \in Identifying
           /\ Head(t) = "link" => t \in Linking
           /\ Head(t) = "login" => t \in Linked
           /\ Head(t) \in {"provision", "complete", "redeem"} => t \in Linking \cup Linked
           /\ Head(t) \in {"answer", "callback", "consume"} => t \in OneStatement
<1>1. /\ t \in Counting => Head(t) \in {"count", "record"}
      /\ t \in Authorizing => Head(t) \in {"drop", "insert"}
      /\ t \in Identifying => Head(t) \in {"exchange", "save", "resolve"}
      /\ t \in Linking => Head(t) \in {"provision", "complete", "redeem", "link"}
      /\ t \in Linked => Head(t) \in {"provision", "complete", "redeem", "login"}
      /\ t \in OneStatement => Head(t) \in {"answer", "callback", "consume"}
  BY CountingTail, AuthorizingTail, IdentifyingTail, LinkingTail, LinkedTail,
     OneStatementTail
<1>2. t # <<>> /\ t \in Seq(Statement)
  BY CountingTail, AuthorizingTail, IdentifyingTail, LinkingTail, LinkedTail,
     OneStatementTail DEF Programs, SigningIn
<1>3. t \in Counting \cup Authorizing \cup Identifying \cup Linking \cup Linked \cup OneStatement
  BY DEF Programs, SigningIn
<1> QED
  BY <1>1, <1>2, <1>3

\* The programs that begin, or are left.
LEMMA Beginnings ==
    /\ <<"count", "record">> \in Counting /\ <<"record">> \in Counting
    /\ <<"count", "record">> # <<"record">>
    /\ <<"drop", "insert">> \in Authorizing /\ <<"insert">> \in Authorizing
    /\ <<"drop">> \in Authorizing
    /\ <<"exchange", "save">> \o <<"resolve">> \in Identifying
    /\ <<>> \o <<"resolve">> \in Identifying
    /\ <<"link", "login">> \in Linking /\ <<"login">> \in Linked
    /\ <<"answer">> \in OneStatement /\ <<"callback">> \in OneStatement
    /\ <<"consume">> \in OneStatement
<1>1. <<>> \o <<"resolve">> \in Identifying
  BY DEF Identifying
<1>2. <<"exchange", "save">> \o <<"resolve">> \in Identifying
  BY Longer DEF Identifying
<1> QED
  BY <1>1, <1>2 DEF Counting, Authorizing, Linking, Linked, OneStatement

\* What is left once it is known who this is.
LEMMA ResolvedProgram ==
    ASSUME NEW absent \in BOOLEAN, NEW full \in BOOLEAN, ~(absent /\ full)
    PROVE  LET todo(same) ==
                 (IF absent THEN <<"provision">> ELSE <<>>)
                   \o (IF full THEN <<>> ELSE <<"complete">>)
                   \o <<"redeem">>
                   \o (IF same THEN <<>> ELSE <<"link">>) \o <<"login">>
           IN  /\ todo(TRUE) \in Linked /\ todo(TRUE) # <<"login">>
               /\ todo(FALSE) \in Linking /\ todo(FALSE) # <<"link", "login">>
<1>1. CASE absent
  <2>1. <<"provision">> \o <<"complete">> = <<"provision", "complete">>
    BY Longer
  <2>2. <<"provision", "complete">> \o <<"redeem">> = <<"provision", "complete", "redeem">>
    BY Longer
  <2>3. <<"provision", "complete", "redeem">> \o <<>> = <<"provision", "complete", "redeem">>
    OBVIOUS
  <2>4. <<"provision", "complete", "redeem">> \o <<"login">>
          = <<"provision", "complete", "redeem", "login">>
    BY Longer
  <2>5. <<"provision", "complete", "redeem">> \o <<"link">>
          = <<"provision", "complete", "redeem", "link">>
    BY Longer
  <2>6. <<"provision", "complete", "redeem", "link">> \o <<"login">>
          = <<"provision", "complete", "redeem", "link", "login">>
    BY Longer
  <2>7. <<"provision", "complete", "redeem", "login">> \in Linked
        /\ <<"provision", "complete", "redeem", "login">> # <<"login">>
        /\ <<"provision", "complete", "redeem", "link", "login">> \in Linking
        /\ <<"provision", "complete", "redeem", "link", "login">> # <<"link", "login">>
    BY DEF Linked, Linking
  <2> QED
    BY <1>1, <2>1, <2>2, <2>3, <2>4, <2>5, <2>6, <2>7, Zenon
<1>2. CASE ~absent /\ ~full
  <2>1. <<>> \o <<"complete">> = <<"complete">>
    OBVIOUS
  <2>2. <<"complete">> \o <<"redeem">> = <<"complete", "redeem">>
    BY Longer
  <2>3. <<"complete", "redeem">> \o <<>> = <<"complete", "redeem">>
    OBVIOUS
  <2>4. <<"complete", "redeem">> \o <<"login">> = <<"complete", "redeem", "login">>
    BY Longer
  <2>5. <<"complete", "redeem">> \o <<"link">> = <<"complete", "redeem", "link">>
    BY Longer
  <2>6. <<"complete", "redeem", "link">> \o <<"login">>
          = <<"complete", "redeem", "link", "login">>
    BY Longer
  <2>7. <<"complete", "redeem", "login">> \in Linked
        /\ <<"complete", "redeem", "login">> # <<"login">>
        /\ <<"complete", "redeem", "link", "login">> \in Linking
        /\ <<"complete", "redeem", "link", "login">> # <<"link", "login">>
    BY DEF Linked, Linking
  <2> QED
    BY <1>2, <2>1, <2>2, <2>3, <2>4, <2>5, <2>6, <2>7, Zenon
<1>3. CASE ~absent /\ full
  <2>1. <<>> \o <<>> = <<>> /\ <<>> \o <<"redeem">> = <<"redeem">>
        /\ <<"redeem">> \o <<>> = <<"redeem">>
    OBVIOUS
  <2>2. <<"redeem">> \o <<"login">> = <<"redeem", "login">>
    BY Longer
  <2>3. <<"redeem">> \o <<"link">> = <<"redeem", "link">>
    BY Longer
  <2>4. <<"redeem", "link">> \o <<"login">> = <<"redeem", "link", "login">>
    BY Longer
  <2>5. <<"redeem", "login">> \in Linked /\ <<"redeem", "login">> # <<"login">>
        /\ <<"redeem", "link", "login">> \in Linking
        /\ <<"redeem", "link", "login">> # <<"link", "login">>
    BY DEF Linked, Linking
  <2> QED
    BY <1>3, <2>1, <2>2, <2>3, <2>4, <2>5, Zenon
<1> QED
  BY <1>1, <1>2, <1>3

----------------------------------------------------------------------------
(***************************************************************************)
(* Steps of requests, and steps without one                                *)
(***************************************************************************)
LEMMA RequestStep ==
    ASSUME Inv, TablesOK', NEW r \in Requests, NEW q \in Request \cup {None},
           q # None => Fits(q), requests' = [requests EXCEPT ![r] = q],
           history' # None =>
             /\ history # None /\ \A s \in Active : s = r
             /\ Agrees(history', asks', sso', secrets', link')
             /\ q # None => Pending(q, history', asks', sso', link')
    PROVE  Inv'
<1>1. requests \in [Requests -> Request \cup {None}]
  BY DEF Inv, TypeOK
<1>2. requests'[r] = q /\ \A s \in Requests : s # r => requests'[s] = requests[s]
  BY <1>1
<1>3. requests' \in [Requests -> Request \cup {None}]
  BY <1>1
<1>4. q # None => q.todo # <<>>
  BY ProgramOf DEF Fits
<1>5. TypeOK'
  <2>1. \A s \in Active' : requests'[s].todo # <<>>
    BY <1>2, <1>4 DEF Inv, TypeOK, Active
  <2> QED
    BY <1>3, <2>1 DEF TypeOK, TablesOK
<1>6. AllFit'
  BY <1>2 DEF Inv, AllFit, Active
<1>7. ASSUME history' # None PROVE Calm'
  <2>1. \A s \in Requests : s # r => requests'[s] = None
    BY <1>2, <1>7 DEF Active
  <2>2. Active' = IF q = None THEN {} ELSE {r}
    BY <1>2, <2>1 DEF Active
  <2> QED
    BY <1>2, <1>7, <2>2 DEF Calm
<1> QED
  BY <1>5, <1>6, <1>7 DEF Inv

\* A request in flight.
LEMMA Running ==
    ASSUME Inv, NEW r \in Requests, requests[r] # None
    PROVE  /\ requests[r] \in Request /\ Fits(requests[r])
           /\ requests[r].todo \in Programs
           /\ history # None =>
                /\ history \in History
                /\ \A s \in Active : s = r
                /\ Agrees(history, asks, sso, secrets, link)
                /\ Pending(requests[r], history, asks, sso, link)
BY DEF Inv, TypeOK, AllFit, Calm, Active, Fits

LEMMA GoesOn ==
    ASSUME Inv, TablesOK', NEW r \in Requests, requests[r] # None,
           NEW q \in Request, q.todo # <<>> => Fits(q), Continue(r, q),
           history' # None =>
             /\ history # None
             /\ Agrees(history', asks', sso', secrets', link')
             /\ q.todo # <<>> => Pending(q, history', asks', sso', link')
    PROVE  Inv'
<1>1. PICK p \in Request \cup {None} : p = IF q.todo = <<>> THEN None ELSE q
  OBVIOUS
<1>2. requests' = [requests EXCEPT ![r] = p] /\ (p # None => Fits(p))
  BY <1>1 DEF Continue
<1>3. history # None => \A s \in Active : s = r
  BY Running
<1> QED
  BY <1>1, <1>2, <1>3, RequestStep

LEMMA Begins ==
    ASSUME Inv, NEW r \in Requests, requests[r] = None, NEW q \in Request, Fits(q),
           Begin(r, q, history),
           history # None /\ Agrees(history, asks, sso, secrets, link) =>
             Pending(q, history, asks, sso, link)
    PROVE  Inv'
<1>1. /\ UNCHANGED <<asks, sso, secrets, account, link, failures>>
      /\ requests' = [requests EXCEPT ![r] = q]
      /\ history' = IF Active # {} \/ history = None THEN None ELSE history
  BY DEF Begin, Unless, tickets, accounts
<1>2. q # None
  BY NoneAssumption
<1>3. ASSUME history' # None
      PROVE  /\ history # None /\ history' = history /\ Active = {}
             /\ Agrees(history, asks, sso, secrets, link)
  BY <1>1, <1>3 DEF Inv, Calm
<1>4. TablesOK'
  BY <1>1, <1>3 DEF Inv, TypeOK, TablesOK
<1>5. history' # None =>
        /\ history # None /\ \A s \in Active : s = r
        /\ Agrees(history', asks', sso', secrets', link')
        /\ Pending(q, history', asks', sso', link')
  BY <1>1, <1>2, <1>3
<1> QED
  BY <1>1, <1>4, <1>5, RequestStep

\* A handler with one statement.
LEMMA AtOnceStep ==
    ASSUME Inv, NEW h, AtOnce(h),
           asks' \in [Asks -> Ask \cup {None}], UNCHANGED sso,
           secrets' \in [Secrets -> {"valid", "expired", None}],
           account' \in {"absent", "shell", "full"}, link' \in Identities \cup {None},
           link' # None => account' # "absent",
           UNCHANGED failures,
           history # None /\ Agrees(history, asks, sso, secrets, link) =>
             h \in History /\ Agrees(h, asks', sso', secrets', link')
    PROVE  Inv'
<1>1. /\ requests' = requests
      /\ history' = IF Active # {} \/ history = None THEN None ELSE h
  BY DEF AtOnce, Unless
<1>2. Active' = Active
  BY <1>1 DEF Active
<1>3. ASSUME history' # None
      PROVE  /\ history # None /\ history' = h /\ Active = {}
             /\ Agrees(history, asks, sso, secrets, link)
  BY <1>1, <1>3 DEF Inv, Calm
<1>4. TypeOK'
  BY <1>1, <1>2, <1>3 DEF Inv, TypeOK
<1>5. history' # None => Calm'
  BY <1>2, <1>3 DEF Calm
<1> QED
  BY <1>1, <1>2, <1>4, <1>5 DEF Inv, AllFit

\* Time passes, or the job goes on, whatever is in flight.
LEMMA AsideStep ==
    ASSUME Inv, TablesOK', UNCHANGED requests,
           history' # None => history # None,
           history' # None /\ Agrees(history, asks, sso, secrets, link) =>
             /\ Agrees(history', asks', sso', secrets', link')
             /\ \A q \in Request : /\ Fits(q) /\ Pending(q, history, asks, sso, link)
                                 => Pending(q, history', asks', sso', link')
    PROVE  Inv'
<1>1. Active' = Active /\ requests' = requests
  BY DEF Active
<1>2. TypeOK' /\ AllFit'
  BY <1>1 DEF Inv, TypeOK, TablesOK, AllFit
<1>3. ASSUME history' # None PROVE Calm'
  <2>1. Calm
    BY <1>3 DEF Inv
  <2>2. Agrees(history', asks', sso', secrets', link')
    BY <1>3, <2>1 DEF Calm
  <2>3. ASSUME NEW q \in Request, Fits(q), Pending(q, history, asks, sso, link)
        PROVE  Pending(q, history', asks', sso', link')
    BY <1>3, <2>1, <2>3 DEF Calm
  <2>4. \A r \in Active : requests[r] \in Request /\ Fits(requests[r])
    BY DEF Inv, TypeOK, AllFit, Active
  <2> QED
    BY <1>1, <2>1, <2>2, <2>3, <2>4 DEF Calm
<1> QED
  BY <1>2, <1>3 DEF Inv

----------------------------------------------------------------------------
(***************************************************************************)
(* Requests that arrive                                                    *)
(***************************************************************************)
LEMMA NewRequestType ==
    ASSUME NEW ticket \in Asks \cup States \cup Secrets \cup {None}, NEW todo \in Programs
    PROVE  LET q == NewRequest(ticket, todo)
           IN  /\ q \in Request /\ q.todo = todo /\ q.ticket = ticket
               /\ q.identity = None /\ q.yes = FALSE /\ q.count = 0
<1>1. todo \in Seq(Statement)
  BY ProgramOf
<1> QED
  BY <1>1 DEF NewRequest, Request

\* Which facts about a request its program selects.
LEMMA Selected ==
    ASSUME NEW q
    PROVE  /\ q.todo \in Counting => /\ q.todo \in Programs
                                     /\ q.todo \notin Authorizing \cup SigningIn
                                     /\ q.todo \notin {<<"answer">>, <<"callback">>, <<"consume">>}
                                     /\ q.todo \notin {<<"link", "login">>, <<"login">>}
                                     /\ q.todo \notin Linking \cup Linked
           /\ q.todo \in Authorizing \cup OneStatement =>
                /\ q.todo \in Programs
                /\ q.todo \notin SigningIn \cup Linking \cup Linked
                /\ q.todo \notin {<<"link", "login">>, <<"login">>}
               
                /\ q.todo \notin {<<"count", "record">>, <<"record">>}
           /\ q.todo \in SigningIn =>
                /\ q.todo \in Programs
                /\ q.todo \notin Authorizing \cup OneStatement
                /\ q.todo \notin {<<"answer">>, <<"callback">>, <<"consume">>}
                /\ q.todo \notin {<<"count", "record">>, <<"record">>}
           /\ q.todo \in Authorizing =>
                q.todo \notin {<<"answer">>, <<"callback">>, <<"consume">>}
<1>1. /\ <<"count", "record">> \in Counting /\ <<"record">> \in Counting
      /\ <<"link", "login">> \in Linking /\ <<"login">> \in Linked
      /\ <<"answer">> \in OneStatement /\ <<"callback">> \in OneStatement
      /\ <<"consume">> \in OneStatement
  BY Beginnings
<1>2. q.todo \in Linking \cup Linked \cup Identifying <=> q.todo \in SigningIn
  BY DEF SigningIn
<1>3. q.todo \in Counting \cup Authorizing \cup SigningIn \cup OneStatement => q.todo \in Programs
  BY DEF Programs
<1> QED
  BY <1>1, <1>2, <1>3, Kinds

\* A guess that was wrong has to be counted.
LEMMA WrongGuess ==
    ASSUME Inv, NEW r \in Requests, requests[r] = None,
           Begin(r, NewRequest(None, recordFailure), history)
    PROVE  Inv'
<1>1. recordFailure \in Counting /\ recordFailure \in Programs
  BY Beginnings DEF recordFailure, Programs
<1>2. PICK q \in Request : q = NewRequest(None, recordFailure) /\ q.todo = recordFailure
  BY <1>1, NewRequestType
<1>3. q.todo \in Counting
  BY <1>1, <1>2
<1>4. Fits(q) /\ Pending(q, history, asks, sso, link)
  BY <1>3, Selected DEF Fits, Pending
<1> QED
  BY <1>2, <1>4, Begins

LEMMA AnswerKeepsInv ==
    ASSUME Inv, NEW r \in Requests, requests[r] = None, NEW a \in Asks, NEW yes \in BOOLEAN,
           Answer(r, a, yes)
    PROVE  Inv'
<1>1. PICK p \in Request : /\ p = NewRequest(a, <<"answer">>)
                           /\ p.todo = <<"answer">> /\ p.ticket = a
  BY Beginnings, NewRequestType DEF Programs
<1>2. PICK q : q = [p EXCEPT !.yes = yes]
  OBVIOUS
<1>3. q \in Request /\ q.todo = <<"answer">> /\ q.ticket = a
  BY <1>1, <1>2 DEF Request
<1>4. q.todo \in OneStatement /\ q.todo \notin {<<"callback">>, <<"consume">>}
  BY <1>3 DEF OneStatement
<1>5. Fits(q)
  BY <1>3, <1>4, Selected DEF Fits
<1>6. asks[a].approved = "open"
  BY DEF Answer, mayAnswer
<1>7. Pending(q, history, asks, sso, link)
  BY <1>3, <1>4, <1>6, Selected DEF Pending
<1>8. Begin(r, q, history)
  BY <1>1, <1>2 DEF Answer
<1> QED
  BY <1>3, <1>5, <1>7, <1>8, Begins

LEMMA AuthorizeKeepsInv ==
    ASSUME Inv, NEW r \in Requests, requests[r] = None, NEW s \in States, Authorize(r, s)
    PROVE  Inv'
<1>1. PICK q \in Request : /\ q = NewRequest(s, <<"drop", "insert">>)
                           /\ q.todo = <<"drop", "insert">> /\ q.ticket = s
  BY Beginnings, NewRequestType DEF Programs
<1>2. q.todo \in Authorizing
  BY <1>1, Beginnings
<1>3. Fits(q)
  BY <1>1, <1>2, Selected DEF Fits
<1>4. Pending(q, history, asks, sso, link)
  BY <1>2, Selected DEF Pending
<1>5. Begin(r, q, history)
  BY <1>1 DEF Authorize
<1> QED
  BY <1>3, <1>4, <1>5, Begins

LEMMA CallbackKeepsInv ==
    ASSUME Inv, NEW r \in Requests, requests[r] = None, NEW s \in States,
           NEW i \in Identities \cup {None}, NEW error \in BOOLEAN, Callback(r, s, i, error)
    PROVE  Inv'
<1>1. PICK p \in Request : /\ p = NewRequest(s, <<"callback">>)
                           /\ p.todo = <<"callback">> /\ p.ticket = s
  BY Beginnings, NewRequestType DEF Programs
<1>2. PICK q : q = [p EXCEPT !.identity = i, !.yes = error]
  OBVIOUS
<1>3. q \in Request /\ q.todo = <<"callback">> /\ q.ticket = s
  BY <1>1, <1>2 DEF Request
<1>4. q.todo \in OneStatement /\ q.todo \notin {<<"answer">>, <<"consume">>}
  BY <1>3 DEF OneStatement
<1>5. Fits(q)
  BY <1>3, <1>4, Selected DEF Fits
<1>6. Pending(q, history, asks, sso, link)
  BY <1>4, Selected DEF Pending
<1>7. Begin(r, q, history)
  BY <1>1, <1>2 DEF Callback
<1> QED
  BY <1>3, <1>5, <1>6, <1>7, Begins

LEMMA SsoLoginKeepsInv ==
    ASSUME Inv, NEW r \in Requests, requests[r] = None, NEW s \in States, SsoLogin(r, s)
    PROVE  Inv'
<1>1. PICK x \in SsoAuth : x = sso[s] /\ sso[s] # None /\ x.code # None
  BY DEF SsoLogin, Inv, TypeOK
<1>2. PICK todo : todo = (IF x.identity = None THEN <<"exchange", "save">> ELSE <<>>)
                           \o <<"resolve">>
  OBVIOUS
<1>3. todo \in Identifying
  BY <1>2, Beginnings
<1>4. PICK i : i = IF x.identity = None THEN x.code ELSE x.identity
  OBVIOUS
<1>5. i \in Identities
  BY <1>1, <1>4 DEF SsoAuth
<1>6. todo \in SigningIn /\ todo \in Programs
  BY <1>3 DEF SigningIn, Programs
<1>7. PICK p \in Request : /\ p = NewRequest(s, todo) /\ p.todo = todo /\ p.ticket = s
  BY <1>6, NewRequestType
<1>8. PICK q : q = [p EXCEPT !.identity = i]
  OBVIOUS
<1>9. q \in Request /\ q.todo = todo /\ q.ticket = s /\ q.identity = i
  BY <1>5, <1>7, <1>8 DEF Request
<1>10. Fits(q)
  BY <1>5, <1>6, <1>9, Selected, Kinds DEF Fits
<1>11. ASSUME Agrees(history, asks, sso, secrets, link)
       PROVE  Pending(q, history, asks, sso, link)
  <2>1. history.uses[s] = 0
    BY <1>1, <1>11 DEF Agrees
  <2>2. q.todo \notin Linking \cup Linked
    BY <1>3, <1>9, Kinds
  <2>3. q.todo \notin {<<"link", "login">>, <<"login">>}
    BY <2>2, Beginnings
  <2> QED
    BY <1>6, <1>9, <2>1, <2>2, <2>3, Selected DEF Pending
<1>12. Begin(r, q, history)
  BY <1>1, <1>2, <1>4, <1>7, <1>8 DEF SsoLogin
<1> QED
  BY <1>9, <1>10, <1>11, <1>12, Begins

LEMMA SsoErrorKeepsInv ==
    ASSUME Inv, NEW r \in Requests, requests[r] = None, NEW s \in States, SsoError(r, s)
    PROVE  Inv'
<1>1. PICK q \in Request : /\ q = NewRequest(s, <<"drop">>)
                           /\ q.todo = <<"drop">> /\ q.ticket = s
  BY Beginnings, NewRequestType DEF Programs
<1>2. q.todo \in Authorizing
  BY <1>1, Beginnings
<1>3. Fits(q) /\ Pending(q, history, asks, sso, link)
  BY <1>1, <1>2, Selected DEF Fits, Pending
<1>4. Begin(r, q, history)
  BY <1>1 DEF SsoError
<1> QED
  BY <1>3, <1>4, Begins

LEMMA TakeKeepsInv ==
    ASSUME Inv, NEW r \in Requests, requests[r] = None, NEW k \in Secrets, Take(r, k)
    PROVE  Inv'
<1>1. PICK p \in Request : /\ p = NewRequest(k, <<"consume">>)
                           /\ p.todo = <<"consume">> /\ p.ticket = k
  BY Beginnings, NewRequestType DEF Programs
<1>2. PICK valid \in BOOLEAN : valid = (secrets[k] = "valid")
  OBVIOUS
<1>3. PICK q : q = [p EXCEPT !.yes = valid]
  OBVIOUS
<1>4. q \in Request /\ q.todo = <<"consume">> /\ q.ticket = k
  BY <1>1, <1>3 DEF Request
<1>5. q.todo \in OneStatement /\ q.todo \notin {<<"answer">>, <<"callback">>}
  BY <1>4 DEF OneStatement
<1>6. Fits(q)
  BY <1>4, <1>5, Selected DEF Fits
<1>7. Agrees(history, asks, sso, secrets, link) => Pending(q, history, asks, sso, link)
  BY <1>4, <1>5, Selected DEF Pending, Agrees, Take
<1>8. Begin(r, q, history)
  BY <1>1, <1>2, <1>3 DEF Take
<1> QED
  BY <1>4, <1>6, <1>7, <1>8, Begins

\* The requests that arrive.
LEMMA ArriveKeepsInv ==
    ASSUME Inv, NEW r \in Idle, Arrive(r)
    PROVE  Inv'
<1>1. r \in Requests /\ requests[r] = None
  BY DEF Idle
<1>2. ASSUME WrongPassword(r) \/ \E a \in Asks : WrongDeviceLogin(r, a)
      PROVE  Inv'
  BY <1>1, <1>2, WrongGuess DEF WrongPassword, WrongDeviceLogin
<1> QED
  BY <1>1, <1>2, AnswerKeepsInv, AuthorizeKeepsInv, CallbackKeepsInv, SsoLoginKeepsInv,
     SsoErrorKeepsInv, TakeKeepsInv DEF Arrive

----------------------------------------------------------------------------
(***************************************************************************)
(* Requests that go on                                                     *)
(***************************************************************************)
\* The request that goes on with the rest of its program, ...
LEMMA GoesTo ==
    ASSUME Inv, NEW r \in Requests, requests[r] # None, Go(r),
           Tail(requests[r].todo) \in Programs
    PROVE  \E q \in Request : /\ requests' = [requests EXCEPT ![r] = q]
                              /\ q.todo = Tail(requests[r].todo)
                              /\ q.ticket = requests[r].ticket
                              /\ q.identity = requests[r].identity
<1>1. PICK p \in Request : p = requests[r]
  BY Running
<1>2. PICK t \in Programs : t = Tail(p.todo)
  BY <1>1
<1>3. PICK q : q = [p EXCEPT !.todo = t]
  OBVIOUS
<1>4. t \in Seq(Statement) /\ t # <<>>
  BY ProgramOf
<1>5. /\ q \in Request /\ q.todo = t
      /\ q.ticket = p.ticket /\ q.identity = p.identity
  BY <1>3, <1>4 DEF Request
<1>6. requests' = [requests EXCEPT ![r] = q]
  BY <1>1, <1>2, <1>3, <1>4, <1>5 DEF Go, Rest, Continue
<1> QED
  BY <1>1, <1>2, <1>5, <1>6

\* ... and the one that ends.
LEMMA EndsIt ==
    ASSUME Inv, NEW r \in Requests, requests[r] # None,
           Done(r) \/ (Go(r) /\ Tail(requests[r].todo) = <<>>)
    PROVE  requests' = [requests EXCEPT ![r] = None]
<1>1. PICK p \in Request : p = requests[r]
  BY Running
<1>2. PICK q : q = [p EXCEPT !.todo = <<>>]
  OBVIOUS
<1>3. q.todo = <<>>
  BY <1>2 DEF Request
<1>4. Continue(r, q)
  BY <1>1, <1>2 DEF Go, Rest, Done
<1> QED
  BY <1>3, <1>4 DEF Continue

LEMMA Ends ==
    ASSUME Inv, TablesOK', NEW r \in Requests, requests[r] # None,
           Done(r) \/ (Go(r) /\ Tail(requests[r].todo) = <<>>),
           history' # None =>
             /\ history # None
             /\ Agrees(history', asks', sso', secrets', link')
    PROVE  Inv'
<1>1. requests' = [requests EXCEPT ![r] = None]
  BY EndsIt
<1>2. history' # None => \A s \in Active : s = r
  BY Running
<1> QED
  BY <1>1, <1>2, RequestStep

LEMMA GoesToProgram ==
    ASSUME Inv, TablesOK', NEW r \in Requests, NEW q \in Request, Fits(q),
           requests[r] # None, requests' = [requests EXCEPT ![r] = q],
           UNCHANGED history,
           history # None => /\ Agrees(history, asks', sso', secrets', link')
                             /\ Pending(q, history, asks', sso', link')
    PROVE  Inv'
<1>1. q # None
  BY NoneAssumption
<1>2. history # None => \A s \in Active : s = r
  BY Running
<1> QED
  BY <1>1, <1>2, RequestStep

----------------------------------------------------------------------------
LEMMA ReadCountKeepsInv ==
    ASSUME Inv, NEW r \in Requests, ReadCount(r)
    PROVE  Inv'
<1>1. PICK p \in Request : /\ p = requests[r] /\ requests[r] # None
                           /\ p.todo \in Programs /\ Head(p.todo) = "count"
  BY Running DEF ReadCount, At
<1>2. PICK t : t = <<"record">> /\ Tail(p.todo) = t
  BY <1>1, ProgramOf, CountingTail
<1>3. t \in Counting /\ t \in Programs
  BY <1>2, Beginnings DEF Programs
<1>4. t \in Seq(Statement) /\ t # <<>>
  BY <1>3, ProgramOf
<1>5. PICK n \in Readable :
        Continue(r, [requests[r] EXCEPT !.count = n, !.todo = Rest(r)])
  BY DEF ReadCount
<1>6. n \in Nat
  BY TimeAssumption DEF Inv, TypeOK, Counter, Readable
<1>7. PICK q : q = [p EXCEPT !.count = n, !.todo = t]
  OBVIOUS
<1>8. q \in Request /\ q.todo = t
  BY <1>4, <1>6, <1>7 DEF Request
<1>9. requests' = [requests EXCEPT ![r] = q]
  BY <1>1, <1>2, <1>4, <1>5, <1>7, <1>8 DEF Rest, Continue
<1>10. UNCHANGED <<asks, sso, secrets, account, link, failures, history>>
  BY DEF ReadCount, tickets, accounts
<1>11. Fits(q) /\ Pending(q, history, asks, sso, link)
  BY <1>3, <1>8, Selected DEF Fits, Pending
<1>12. history # None => Agrees(history, asks, sso, secrets, link)
  BY <1>1, Running
<1>13. TablesOK'
  BY <1>10 DEF Inv, TypeOK, TablesOK
<1> QED
  BY <1>1, <1>8, <1>9, <1>10, <1>11, <1>12, <1>13, GoesToProgram

\* What is written over stays readable.
LEMMA CountedType ==
    ASSUME failures \in Counter, NEW n \in 0 .. MAX_FAILURES, NEW ttl \in 0 .. FAILURE_TTL
    PROVE  /\ Counted(n, ttl) \in Counter
           /\ Counted(n, ttl).count = n /\ Counted(n, ttl).ttl = ttl
<1>1. PICK older : older = Readable \ {n}
  OBVIOUS
<1>2. older \subseteq 0 .. MAX_FAILURES
  BY <1>1 DEF Readable, Counter
<1> QED
  BY <1>1, <1>2 DEF Counted, Counter

LEMMA RecordFailureKeepsInv ==
    ASSUME Inv, NEW r \in Requests, RecordFailure(r)
    PROVE  Inv'
<1>1. PICK p \in Request : /\ p = requests[r] /\ requests[r] # None
                           /\ p.todo \in Programs /\ Head(p.todo) = "record"
  BY Running DEF RecordFailure, At
<1>2. Tail(p.todo) = <<>>
  BY <1>1, ProgramOf, CountingTail
<1>3. PICK m : m = IF p.count + 1 <= MAX_FAILURES THEN p.count + 1 ELSE MAX_FAILURES
  OBVIOUS
<1>4. MAX_FAILURES \in Nat \ {0} /\ FAILURE_TTL \in Nat \ {0}
  BY TimeAssumption
<1>5. p.count \in Nat
  BY DEF Request
<1>6. m \in 0 .. MAX_FAILURES /\ m # 0
  BY <1>3, <1>4, <1>5
<1>7. failures' = Counted(m, FAILURE_TTL)
  BY <1>1, <1>3 DEF RecordFailure
<1>8. UNCHANGED <<asks, sso, secrets, account, link, history>> /\ Go(r)
  BY DEF RecordFailure, tickets, accounts
<1>9. /\ failures' \in Counter
      /\ failures'.count = m /\ failures'.ttl = FAILURE_TTL
  BY <1>4, <1>6, <1>7, CountedType DEF Inv, TypeOK
<1>10. failures'.count = 0 <=> failures'.ttl = 0
  BY <1>4, <1>6, <1>9
<1>11. TablesOK'
  BY <1>8, <1>9, <1>10 DEF Inv, TypeOK, TablesOK
<1>12. history # None => Agrees(history, asks, sso, secrets, link)
  BY <1>1, Running
<1> QED
  BY <1>1, <1>2, <1>8, <1>11, <1>12, Ends

LEMMA WriteAnswerKeepsInv ==
    ASSUME Inv, NEW r \in Requests, WriteAnswer(r)
    PROVE  Inv'
<1>1. PICK p \in Request : /\ p = requests[r] /\ requests[r] # None /\ Fits(p)
                           /\ p.todo \in Programs /\ Head(p.todo) = "answer"
  BY Running DEF WriteAnswer, At
<1>2. p.todo = <<"answer">> /\ Tail(p.todo) = <<>> /\ p.todo \in OneStatement
  BY <1>1, ProgramOf, OneStatementTail
<1>3. PICK a \in Asks : a = p.ticket
  BY <1>1, <1>2 DEF Fits
<1>4. UNCHANGED <<sso, secrets, account, link, failures>> /\ Go(r)
  BY DEF WriteAnswer, accounts
<1>5. asks \in [Asks -> Ask \cup {None}] /\ history \in History \cup {None}
  BY DEF Inv, TypeOK
<1>6. history # None => /\ Agrees(history, asks, sso, secrets, link)
                        /\ Pending(p, history, asks, sso, link)
  BY <1>1, Running
<1>7. CASE asks[a] = None
  <2>1. UNCHANGED <<asks, history>>
    BY <1>1, <1>3, <1>7 DEF WriteAnswer
  <2>2. TablesOK'
    BY <1>4, <2>1 DEF Inv, TypeOK, TablesOK
  <2> QED
    BY <1>1, <1>2, <1>4, <1>6, <2>1, <2>2, Ends
<1>8. CASE asks[a] # None
  <2>1. PICK word \in {"yes", "no"} : word = IF p.yes THEN "yes" ELSE "no"
    OBVIOUS
  <2>2. PICK denied : denied = IF p.yes THEN history.denied ELSE history.denied \cup {a}
    OBVIOUS
  <2>3. PICK h : h = [history EXCEPT !.denied = denied]
    OBVIOUS
  <2>4. PICK x : x = [asks[a] EXCEPT !.approved = word]
    OBVIOUS
  <2>5. x \in Ask /\ x.approved = word
    BY <1>5, <1>8, <2>4 DEF Ask
  <2>6. asks' = [asks EXCEPT ![a].approved = word]
    BY <1>1, <1>3, <1>8, <2>1 DEF WriteAnswer
  <2>7. asks' = [asks EXCEPT ![a] = x]
    BY <1>5, <2>4, <2>6
  <2>8. asks' \in [Asks -> Ask \cup {None}]
    BY <1>5, <2>5, <2>7
  <2>9. \A b \in Asks : b # a => asks'[b] = asks[b]
    BY <1>5, <2>7
  <2>10. asks'[a] # None /\ asks'[a].approved = word
    BY <1>5, <2>5, <2>7, NoneAssumption
  <2>11. history' = IF history = None THEN None ELSE h
    <3>1. CASE history = None
      BY <1>1, <1>3, <1>8, <3>1 DEF WriteAnswer, Unless
    <3>2. CASE history # None
      BY <1>1, <1>3, <1>5, <1>8, <2>2, <2>3, <3>2 DEF WriteAnswer, Unless, History
    <3> QED
      BY <3>1, <3>2
  <2>12. ASSUME history # None
         PROVE  /\ h \in History /\ h.uses = history.uses /\ h.denied = denied
                /\ h.passed = history.passed /\ h.logged = history.logged
    <3>1. history \in History
      BY <1>5, <2>12
    <3>2. denied \subseteq Asks
      BY <2>2, <3>1 DEF History
    <3> QED
      BY <2>3, <3>1, <3>2 DEF History
  <2>13. TablesOK'
    BY <1>4, <2>8, <2>11, <2>12 DEF Inv, TypeOK, TablesOK
  <2>14. ASSUME history # None PROVE Agrees(h, asks', sso, secrets, link)
    <3>1. asks[a].approved = "open"
      BY <1>2, <1>3, <1>6, <1>8, <2>14 DEF Pending
    <3>2. a \notin history.passed /\ a \notin history.denied
      BY <1>6, <1>8, <2>14, <3>1 DEF Agrees
    <3>3. denied \cap history.passed = {}
      BY <1>6, <2>2, <2>14, <3>2 DEF Agrees
    <3>4. \A b \in Asks : asks'[b] # None /\ asks'[b].approved # "yes" => b \notin history.passed
      BY <1>6, <2>9, <2>14, <3>2 DEF Agrees
    <3>5. \A b \in Asks : asks'[b] # None /\ asks'[b].approved # "no" => b \notin denied
      BY <1>6, <2>1, <2>2, <2>9, <2>10, <2>14, <3>2 DEF Agrees
    <3> QED
      BY <1>6, <2>12, <2>14, <3>3, <3>4, <3>5 DEF Agrees
  <2> QED
    BY <1>1, <1>2, <1>4, <2>11, <2>13, <2>14, Ends
<1> QED
  BY <1>7, <1>8

----------------------------------------------------------------------------
(***************************************************************************)
(* Single sign-on                                                          *)
(***************************************************************************)
\* The row of an authorization comes, changes or goes: a row that is new comes
\* when none has let anybody pass.
LEMMA SsoAgrees ==
    ASSUME NEW h, NEW as, NEW ss, NEW new, NEW sec, NEW lnk, Agrees(h, as, ss, sec, lnk),
           \A s \in States : new[s] # None => ss[s] # None
    PROVE  Agrees(h, as, new, sec, lnk)
BY DEF Agrees

LEMMA DropSsoKeepsInv ==
    ASSUME Inv, NEW r \in Requests, DropSso(r)
    PROVE  Inv'
<1>1. PICK p \in Request : /\ p = requests[r] /\ requests[r] # None /\ Fits(p)
                           /\ p.todo \in Programs /\ Head(p.todo) = "drop"
  BY Running DEF DropSso, At
<1>2. p.todo \in Authorizing /\ Tail(p.todo) \in {<<"insert">>, <<>>}
  BY <1>1, ProgramOf, AuthorizingTail
<1>3. PICK s \in States : s = p.ticket
  BY <1>1, <1>2 DEF Fits
<1>4. /\ sso' = [sso EXCEPT ![s] = None]
      /\ UNCHANGED <<asks, secrets, account, link, failures, history>>
      /\ Go(r)
  BY <1>1, <1>3 DEF DropSso, tickets, accounts
<1>5. /\ sso \in [States -> SsoAuth \cup {None}]
      /\ sso' \in [States -> SsoAuth \cup {None}]
      /\ \A x \in States : sso'[x] # None => sso[x] # None
  BY <1>4 DEF Inv, TypeOK
<1>6. TablesOK'
  BY <1>4, <1>5 DEF Inv, TypeOK, TablesOK
<1>7. history # None => Agrees(history, asks', sso', secrets', link')
  BY <1>1, <1>4, <1>5, Running, SsoAgrees
<1>8. CASE Tail(p.todo) = <<>>
  BY <1>1, <1>4, <1>6, <1>7, <1>8, Ends
<1>9. CASE Tail(p.todo) = <<"insert">>
  <2>1. PICK t \in Programs : t = <<"insert">> /\ t \in Authorizing
    BY Beginnings DEF Programs
  <2>2. PICK q \in Request : /\ requests' = [requests EXCEPT ![r] = q]
                             /\ q.todo = Tail(requests[r].todo)
                             /\ q.ticket = requests[r].ticket
                             /\ q.identity = requests[r].identity
    BY <1>1, <1>4, <1>9, <2>1, GoesTo
  <2>3. q.todo = t /\ q.ticket = s
    BY <1>1, <1>3, <1>9, <2>1, <2>2
  <2>4. Fits(q) /\ Pending(q, history, asks', sso', link')
    BY <2>1, <2>3, Selected DEF Fits, Pending
  <2> QED
    BY <1>1, <1>4, <1>6, <1>7, <2>2, <2>4, GoesToProgram
<1> QED
  BY <1>2, <1>8, <1>9

LEMMA InsertSsoKeepsInv ==
    ASSUME Inv, NEW r \in Requests, InsertSso(r)
    PROVE  Inv'
<1>1. PICK p \in Request : /\ p = requests[r] /\ requests[r] # None /\ Fits(p)
                           /\ p.todo \in Programs /\ Head(p.todo) = "insert"
  BY Running DEF InsertSso, At
<1>2. p.todo \in Authorizing /\ Tail(p.todo) = <<>>
  BY <1>1, ProgramOf, AuthorizingTail, Selected
<1>3. PICK s \in States : s = p.ticket
  BY <1>1, <1>2 DEF Fits
<1>4. PICK x : x = [code |-> None, error |-> FALSE, spent |-> FALSE,
                    identity |-> None, age |-> 0]
  OBVIOUS
<1>5. x \in SsoAuth
  BY <1>4, TimeAssumption DEF SsoAuth
<1>6. UNCHANGED <<asks, secrets, account, link, failures>> /\ Go(r)
  BY DEF InsertSso, tickets, accounts
<1>7. sso \in [States -> SsoAuth \cup {None}] /\ history \in History \cup {None}
  BY DEF Inv, TypeOK
<1>8. history # None => Agrees(history, asks, sso, secrets, link)
  BY <1>1, Running
<1>9. CASE sso[s] # None
  <2>1. UNCHANGED <<sso, history>>
    BY <1>1, <1>3, <1>9 DEF InsertSso
  <2>2. TablesOK'
    BY <1>6, <2>1 DEF Inv, TypeOK, TablesOK
  <2> QED
    BY <1>1, <1>2, <1>6, <1>8, <2>1, <2>2, Ends
<1>10. CASE sso[s] = None
  <2>1. PICK h : h = [history EXCEPT !.uses = NoUses]
    OBVIOUS
  <2>2. /\ sso' = [sso EXCEPT ![s] = x]
        /\ history' = IF history = None THEN None ELSE h
    BY <1>1, <1>3, <1>4, <1>10, <2>1 DEF InsertSso, Unless
  <2>3. /\ NoUses \in [States \cup Secrets -> 0 .. 2]
        /\ \A t \in States \cup Secrets : NoUses[t] = 0
    BY DEF NoUses
  <2>4. PICK uses : uses = NoUses
    OBVIOUS
  <2>5. history # None =>
          /\ h \in History /\ h.uses = uses /\ h.passed = history.passed
          /\ h.logged = history.logged /\ h.denied = history.denied
    BY <1>7, <2>1, <2>3, <2>4 DEF History
  <2>6. sso' \in [States -> SsoAuth \cup {None}]
    BY <1>5, <1>7, <2>2
  <2>7. TablesOK'
    BY <1>6, <2>2, <2>5, <2>6 DEF Inv, TypeOK, TablesOK
  <2>8. ASSUME history' # None
        PROVE  /\ history # None
               /\ Agrees(h, asks', sso', secrets', link')
    <3>1. history # None /\ Agrees(history, asks, sso, secrets, link)
      BY <1>8, <2>2, <2>8
    <3>2. Agrees(h, asks, sso', secrets, link)
      BY <2>3, <2>4, <2>5, <3>1 DEF Agrees
    <3> QED
      BY <1>6, <3>1, <3>2
  <2> QED
    BY <1>1, <1>2, <1>6, <2>2, <2>7, <2>8, Ends
<1> QED
  BY <1>9, <1>10

LEMMA WriteCallbackKeepsInv ==
    ASSUME Inv, NEW r \in Requests, WriteCallback(r)
    PROVE  Inv'
<1>1. PICK p \in Request : /\ p = requests[r] /\ requests[r] # None /\ Fits(p)
                           /\ p.todo \in Programs /\ Head(p.todo) = "callback"
  BY Running DEF WriteCallback, At
<1>2. /\ p.todo = <<"callback">> /\ Tail(p.todo) = <<>> /\ p.todo \in OneStatement
     
  BY <1>1, ProgramOf, OneStatementTail, Selected
<1>3. PICK s \in States : s = p.ticket
  BY <1>1, <1>2 DEF Fits
<1>4. PICK i \in Identities \cup {None}, e \in BOOLEAN : i = p.identity /\ e = p.yes
  BY DEF Request
<1>5. PICK x : x = [sso[s] EXCEPT !.code = i, !.error = e, !.spent = FALSE]
  OBVIOUS
<1>6. sso \in [States -> SsoAuth \cup {None}]
  BY DEF Inv, TypeOK
<1>7. sso[s] # None => x \in SsoAuth
  BY <1>5, <1>6 DEF SsoAuth
<1>8. /\ sso' = IF sso[s] = None THEN sso
                ELSE [sso EXCEPT ![s].code = i, ![s].error = e, ![s].spent = FALSE]
      /\ UNCHANGED <<asks, secrets, account, link, failures, history>>
      /\ Go(r)
  BY <1>1, <1>3, <1>4 DEF WriteCallback, tickets, accounts
<1>9. sso' = IF sso[s] = None THEN sso ELSE [sso EXCEPT ![s] = x]
  BY <1>5, <1>6, <1>8
<1>10. /\ sso' \in [States -> SsoAuth \cup {None}]
       /\ \A y \in States : sso'[y] # None => sso[y] # None
  BY <1>6, <1>7, <1>9
<1>11. TablesOK'
  BY <1>8, <1>10 DEF Inv, TypeOK, TablesOK
<1>12. history # None => Agrees(history, asks', sso', secrets', link')
  BY <1>1, <1>8, <1>10, Running, SsoAgrees
<1> QED
  BY <1>1, <1>2, <1>8, <1>11, <1>12, Ends

\* The provider has answered, the answer is kept: who signs in goes on.
LEMMA IdentifyingGoesOn ==
    ASSUME Inv, NEW r \in Requests, requests[r] # None, Head(requests[r].todo) \in {"exchange", "save"},
           Go(r), UNCHANGED <<asks, secrets, account, link, failures, history>>,
           sso' \in [States -> SsoAuth \cup {None}],
           \A s \in States : sso'[s] # None => sso[s] # None
    PROVE  Inv'
<1>1. PICK p \in Request : /\ p = requests[r] /\ requests[r] # None /\ Fits(p)
                           /\ p.todo \in Programs /\ Head(p.todo) \in {"exchange", "save"}
  BY Running
<1>2. /\ p.todo \in Identifying /\ p.todo \in SigningIn
  BY <1>1, ProgramOf, Kinds DEF SigningIn
<1>3. PICK t \in Programs : t = Tail(p.todo) /\ t \in Identifying /\ t \in SigningIn
  BY <1>1, <1>2, IdentifyingTail DEF SigningIn, Programs
<1>4. PICK q \in Request : /\ requests' = [requests EXCEPT ![r] = q]
                           /\ q.todo = Tail(requests[r].todo)
                           /\ q.ticket = requests[r].ticket
                           /\ q.identity = requests[r].identity
  BY <1>1, <1>3, GoesTo
<1>5. q.todo = t /\ q.ticket = p.ticket /\ q.identity = p.identity
  BY <1>1, <1>3, <1>4
<1>6. /\ q.todo \notin Linking \cup Linked
      /\ q.todo \notin {<<"link", "login">>, <<"login">>}
  BY <1>3, <1>5, Kinds, Beginnings
<1>7. Fits(q)
  BY <1>1, <1>2, <1>3, <1>5, <1>6, Selected DEF Fits
<1>8. history # None => /\ Agrees(history, asks', sso', secrets', link')
                        /\ Pending(q, history, asks', sso', link')
  <2> SUFFICES ASSUME history # None
               PROVE  /\ Agrees(history, asks', sso', secrets', link')
                      /\ Pending(q, history, asks', sso', link')
    OBVIOUS
  <2>1. Agrees(history, asks, sso, secrets, link) /\ Pending(p, history, asks, sso, link)
    BY <1>1, Running
  <2>2. history.uses[q.ticket] = 0
    BY <1>2, <1>5, <2>1 DEF Pending
  <2> QED
    BY <1>3, <1>5, <1>6, <2>1, <2>2, SsoAgrees, Selected DEF Pending
<1>9. TablesOK'
  BY DEF Inv, TypeOK, TablesOK
<1> QED
  BY <1>1, <1>2, <1>4, <1>6, <1>7, <1>8, <1>9, GoesToProgram

LEMMA ExchangeKeepsInv ==
    ASSUME Inv, NEW r \in Requests, Exchange(r) \/ SaveResponse(r)
    PROVE  Inv'
<1>1. PICK p \in Request : /\ p = requests[r] /\ requests[r] # None /\ Fits(p)
                           /\ p.todo \in Programs /\ Head(p.todo) \in {"exchange", "save"}
  BY Running DEF Exchange, SaveResponse, At
<1>2. PICK s \in States : s = p.ticket
  BY <1>1, ProgramOf DEF Fits, SigningIn
<1>3. PICK i \in Identities \cup {None} : i = p.identity
  BY DEF Request
<1>4. PICK x, y : /\ x = [sso[s] EXCEPT !.spent = TRUE]
                  /\ y = [sso[s] EXCEPT !.identity = i]
  OBVIOUS
<1>5. sso \in [States -> SsoAuth \cup {None}]
  BY DEF Inv, TypeOK
<1>6. sso[s] # None => x \in SsoAuth /\ y \in SsoAuth
  BY <1>4, <1>5 DEF SsoAuth
<1>7. /\ \/ sso' = sso
         \/ sso[s] # None /\ sso' = [sso EXCEPT ![s].spent = TRUE]
         \/ sso[s] # None /\ sso' = [sso EXCEPT ![s].identity = i]
      /\ UNCHANGED <<asks, secrets, account, link, failures, history>>
      /\ Go(r)
  BY <1>1, <1>2, <1>3 DEF Exchange, SaveResponse, tickets, accounts
<1>8. \/ sso' = sso
      \/ sso[s] # None /\ sso' = [sso EXCEPT ![s] = x]
      \/ sso[s] # None /\ sso' = [sso EXCEPT ![s] = y]
  BY <1>4, <1>5, <1>7
<1>9. /\ sso' \in [States -> SsoAuth \cup {None}]
      /\ \A z \in States : sso'[z] # None => sso[z] # None
  BY <1>5, <1>6, <1>8
<1> QED
  BY <1>1, <1>7, <1>9, IdentifyingGoesOn

\* Who this is, and whether the account is linked already.
LEMMA ResolveKeepsInv ==
    ASSUME Inv, NEW r \in Requests, Resolve(r)
    PROVE  Inv'
<1>1. PICK p \in Request : /\ p = requests[r] /\ requests[r] # None /\ Fits(p)
                           /\ p.todo \in Programs /\ Head(p.todo) = "resolve"
  BY Running DEF Resolve, At
<1>2. p.todo \in Identifying /\ p.todo \in SigningIn
  BY <1>1, ProgramOf, Kinds DEF SigningIn
<1>3. /\ p.ticket \in States /\ p.identity \in Identities
  BY <1>1, <1>2 DEF Fits
<1>4. PICK i \in Identities : i = p.identity
  BY <1>3
<1>5. PICK same \in BOOLEAN, absent \in BOOLEAN, full \in BOOLEAN :
        same = (link = i) /\ absent = (account = "absent") /\ full = (account = "full")
  OBVIOUS
<1>6. PICK t : t = (IF absent THEN <<"provision">> ELSE <<>>)
                     \o (IF full THEN <<>> ELSE <<"complete">>)
                     \o <<"redeem">>
                     \o (IF same THEN <<>> ELSE <<"link">>) \o <<"login">>
  OBVIOUS
<1>7. /\ same => t \in Linked
      /\ ~same => t \in Linking /\ t # <<"link", "login">>
      /\ t # <<"login">>
  <2>1. ~(absent /\ full)
    BY <1>5
  <2>2. same => t \in Linked /\ t # <<"login">>
    BY <1>6, <2>1, ResolvedProgram
  <2>3. ~same => t \in Linking /\ t # <<"link", "login">>
    BY <1>6, <2>1, ResolvedProgram
  <2> QED
    BY <2>2, <2>3, Kinds, Beginnings
<1>8. t \in SigningIn /\ t \in Programs /\ t \in Seq(Statement) /\ t # <<>>
  BY <1>7, ProgramOf DEF SigningIn, Programs
<1>9. PICK q : q = [p EXCEPT !.todo = t]
  OBVIOUS
<1>10. /\ q \in Request /\ q.todo = t /\ q.ticket = p.ticket /\ q.identity = i
  BY <1>4, <1>8, <1>9 DEF Request
<1>11. /\ requests' = [requests EXCEPT ![r] = q]
       /\ UNCHANGED <<asks, sso, secrets, account, link, failures, history>>
       /\ account = "absent" \/ mayAssociate(i)
  <2>1. t = (IF account = "absent" THEN <<"provision">> ELSE <<>>)
              \o (IF account = "full" THEN <<>> ELSE <<"complete">>)
              \o <<"redeem">>
              \o (IF link = p.identity THEN <<>> ELSE <<"link">>) \o <<"login">>
    BY <1>4, <1>5, <1>6
  <2>2. Continue(r, q)
    BY <1>1, <1>9, <2>1 DEF Resolve
  <2>3. requests' = [requests EXCEPT ![r] = q]
    BY <1>8, <1>10, <2>2 DEF Continue
  <2>4. /\ UNCHANGED <<asks, sso, secrets, account, link, failures, history>>
        /\ account = "absent" \/ mayAssociate(i)
    BY <1>1, <1>4 DEF Resolve, tickets, accounts
  <2> QED
    BY <2>3, <2>4
<1>12. /\ t \notin Identifying
       /\ t \notin {<<"link", "login">>, <<"login">>}
  BY <1>7, <1>8, Kinds, Beginnings
<1>13. Fits(q)
  BY <1>3, <1>8, <1>10, Selected DEF Fits
<1>14. history # None => /\ Agrees(history, asks, sso, secrets, link)
                         /\ Pending(q, history, asks, sso, link)
  <2> SUFFICES ASSUME history # None
               PROVE  /\ Agrees(history, asks, sso, secrets, link)
                      /\ Pending(q, history, asks, sso, link)
    OBVIOUS
  <2>1. Agrees(history, asks, sso, secrets, link) /\ Pending(p, history, asks, sso, link)
    BY <1>1, Running
  <2>2. history.uses[q.ticket] = 0
    BY <1>2, <1>10, <2>1 DEF Pending
  <2>3. t \in Linking => link = None
    <3>1. t \in Linking => ~same
      BY <1>7, Kinds
    <3>2. account = "absent" => link = None
      BY DEF Inv, TypeOK
    <3> QED
      BY <1>5, <1>11, <3>1, <3>2 DEF mayAssociate
  <2>4. t \in Linked => link = q.identity
    BY <1>5, <1>7, <1>10, Kinds
  <2> QED
    BY <1>8, <1>10, <1>12, <2>1, <2>2, <2>3, <2>4, Selected DEF Pending
<1>15. TablesOK'
  BY <1>11 DEF Inv, TypeOK, TablesOK
<1> QED
  BY <1>1, <1>2, <1>10, <1>11, <1>12, <1>13, <1>14, <1>15, GoesToProgram

\* The account is there, the row is redeemed: who signs in goes on.
LEMMA SigningInGoesOn ==
    ASSUME Inv, TablesOK', NEW r \in Requests, requests[r] # None,
           Head(requests[r].todo) \in {"provision", "complete", "redeem"}, Go(r),
           UNCHANGED <<asks, secrets, link, failures, history>>,
           \A s \in States : sso'[s] # None => sso[s] # None,
           Head(requests[r].todo) = "redeem" => sso'[requests[r].ticket] = None
    PROVE  Inv'
<1>1. PICK p \in Request : /\ p = requests[r] /\ requests[r] # None /\ Fits(p)
                           /\ p.todo \in Programs
                           /\ Head(p.todo) \in {"provision", "complete", "redeem"}
  BY Running
<1>2. /\ p.todo \in Linking \cup Linked /\ p.todo \in SigningIn
  BY <1>1, ProgramOf, Kinds DEF SigningIn
<1>3. PICK t : t = Tail(p.todo)
  OBVIOUS
<1>4. /\ p.todo \in Linking => /\ t \in Linking /\ t # <<"login">>
                               /\ Head(p.todo) # "redeem" => t # <<"link", "login">>
      /\ p.todo \in Linked => /\ t \in Linked /\ t # <<"link", "login">>
                              /\ Head(p.todo) # "redeem" => t # <<"login">>
  BY <1>1, <1>3, LinkingTail, LinkedTail, Beginnings, Kinds
<1>5. t \in SigningIn /\ t \in Programs
  BY <1>2, <1>4 DEF SigningIn, Programs
<1>6. PICK q \in Request : /\ requests' = [requests EXCEPT ![r] = q]
                           /\ q.todo = Tail(requests[r].todo)
                           /\ q.ticket = requests[r].ticket
                           /\ q.identity = requests[r].identity
  BY <1>1, <1>3, <1>5, GoesTo
<1>7. q.todo = t /\ q.ticket = p.ticket /\ q.identity = p.identity
  BY <1>1, <1>3, <1>6
<1>8. Fits(q)
  BY <1>1, <1>2, <1>5, <1>7, Selected, Kinds DEF Fits
<1>9. history # None => /\ Agrees(history, asks', sso', secrets', link')
                        /\ Pending(q, history, asks', sso', link')
  <2> SUFFICES ASSUME history # None
               PROVE  /\ Agrees(history, asks', sso', secrets', link')
                      /\ Pending(q, history, asks', sso', link')
    OBVIOUS
  <2>1. Agrees(history, asks, sso, secrets, link) /\ Pending(p, history, asks, sso, link)
    BY <1>1, Running
  <2>2. history.uses[q.ticket] = 0
    BY <1>2, <1>7, <2>1 DEF Pending
  <2>3. t \in {<<"link", "login">>, <<"login">>} => sso'[q.ticket] = None
    BY <1>1, <1>2, <1>4, <1>7
  <2>4. t \in Linking => link = None
    BY <1>2, <1>4, <2>1, Kinds DEF Pending
  <2>5. t \in Linked => link = q.identity
    BY <1>2, <1>4, <1>7, <2>1, Kinds DEF Pending
  <2> QED
    BY <1>5, <1>7, <2>1, <2>2, <2>3, <2>4, <2>5, SsoAgrees, Selected DEF Pending
<1> QED
  BY <1>1, <1>2, <1>6, <1>8, <1>9, GoesToProgram

\* A request that ends without a word.
LEMMA EndsQuietly ==
    ASSUME Inv, NEW r \in Requests, requests[r] # None, Done(r),
           UNCHANGED <<tickets, accounts, failures, history>>
    PROVE  Inv'
<1>1. UNCHANGED <<asks, sso, secrets, account, link>>
  BY DEF tickets, accounts
<1>2. TablesOK'
  BY <1>1 DEF Inv, TypeOK, TablesOK
<1>3. history # None => Agrees(history, asks, sso, secrets, link)
  BY Running
<1> QED
  BY <1>1, <1>2, <1>3, Ends

LEMMA SignInKeepsInv ==
    ASSUME Inv, NEW r \in Requests, Provision(r) \/ Complete(r) \/ Redeem(r)
    PROVE  Inv'
<1>1. PICK p \in Request : /\ p = requests[r] /\ requests[r] # None /\ Fits(p)
                           /\ p.todo \in Programs
                           /\ Head(p.todo) \in {"provision", "complete", "redeem"}
  BY Running DEF Provision, Complete, Redeem, At
<1>2. p.todo \in SigningIn
  BY <1>1, ProgramOf, Kinds DEF SigningIn
<1>3. PICK s \in States : s = p.ticket
  BY <1>1, <1>2 DEF Fits
<1>4. CASE Provision(r)
  <2>1. Head(p.todo) = "provision"
    BY <1>1, <1>4 DEF Provision, At
  <2>2. CASE account = "absent"
    <3>1. /\ UNCHANGED <<asks, sso, secrets, link, failures, history>>
          /\ account' = "shell" /\ Go(r)
      BY <1>4, <2>2 DEF Provision, tickets
    <3>2. TablesOK'
      BY <3>1 DEF Inv, TypeOK, TablesOK
    <3> QED
      BY <1>1, <2>1, <3>1, <3>2, SigningInGoesOn
  <2>3. CASE account # "absent"
    BY <1>1, <1>2, <1>4, <2>3, EndsQuietly DEF Provision, accounts
  <2> QED
    BY <2>2, <2>3
<1>5. CASE Complete(r)
  <2>1. /\ Head(p.todo) = "complete" /\ Go(r)
        /\ UNCHANGED <<asks, sso, secrets, account, link, failures, history>>
    BY <1>1, <1>5 DEF Complete, At, tickets, accounts
  <2>2. TablesOK'
    BY <2>1 DEF Inv, TypeOK, TablesOK
  <2> QED
    BY <1>1, <2>1, <2>2, SigningInGoesOn
<1>6. CASE Redeem(r)
  <2>1. /\ Go(r) /\ sso' = [sso EXCEPT ![s] = None]
        /\ UNCHANGED <<asks, secrets, account, link, failures, history>>
    BY <1>1, <1>3, <1>6 DEF Redeem, redeemed, accounts
  <2>2. sso \in [States -> SsoAuth \cup {None}]
    BY DEF Inv, TypeOK
  <2>3. /\ sso' \in [States -> SsoAuth \cup {None}] /\ sso'[s] = None
        /\ \A x \in States : sso'[x] # None => sso[x] # None
    BY <2>1, <2>2
  <2>4. TablesOK'
    BY <2>1, <2>3 DEF Inv, TypeOK, TablesOK
  <2> QED
    BY <1>1, <1>3, <2>1, <2>3, <2>4, SigningInGoesOn
<1> QED
  BY <1>4, <1>5, <1>6

LEMMA RefusedKeepsInv ==
    ASSUME Inv, NEW r \in Requests, Refused(r)
    PROVE  Inv'
<1>1. PICK p \in Request : /\ p = requests[r] /\ requests[r] # None /\ p.todo \in Programs
                           /\ Head(p.todo) \in {"exchange", "resolve", "complete", "redeem"}
  BY Running DEF Refused, At
<1> QED
  BY <1>1, EndsQuietly DEF Refused

\* The account is linked to the identity, which it is not linked to another.
LEMMA LinkKeepsInv ==
    ASSUME Inv, NEW r \in Requests, Link(r)
    PROVE  Inv'
<1>1. PICK p \in Request : /\ p = requests[r] /\ requests[r] # None /\ Fits(p)
                           /\ p.todo \in Programs /\ Head(p.todo) = "link"
  BY Running DEF Link, At
<1>2. /\ p.todo = <<"link", "login">> /\ Tail(p.todo) = <<"login">>
      /\ p.todo \in Linking /\ p.todo \in SigningIn
  BY <1>1, ProgramOf, LinkingTail, Kinds DEF SigningIn
<1>3. p.ticket \in States /\ p.identity \in Identities
  BY <1>1, <1>2 DEF Fits
<1>4. CASE account = "absent"
  BY <1>1, <1>2, <1>4, EndsQuietly DEF Link, accounts
<1>5. CASE account # "absent"
  <2>1. PICK t \in Programs : t = <<"login">> /\ t \in Linked /\ t \in SigningIn
    BY Beginnings DEF Programs, SigningIn
  <2>2. /\ Go(r) /\ link' = IF link = None THEN p.identity ELSE link
        /\ UNCHANGED <<asks, sso, secrets, account, failures, history>>
    BY <1>1, <1>5 DEF Link, tickets
  <2>3. PICK q \in Request : /\ requests' = [requests EXCEPT ![r] = q]
                             /\ q.todo = Tail(requests[r].todo)
                             /\ q.ticket = requests[r].ticket
                             /\ q.identity = requests[r].identity
    BY <1>1, <1>2, <2>1, <2>2, GoesTo
  <2>4. q.todo = t /\ q.ticket = p.ticket /\ q.identity = p.identity
    BY <1>1, <1>2, <2>1, <2>3
  <2>5. Fits(q)
    BY <1>3, <2>1, <2>4, Selected, Kinds DEF Fits
  <2>6. TablesOK'
    BY <1>3, <1>5, <2>2 DEF Inv, TypeOK, TablesOK
  <2>7. history # None => /\ Agrees(history, asks', sso', secrets', link')
                          /\ Pending(q, history, asks', sso', link')
    <3> SUFFICES ASSUME history # None
                 PROVE  /\ Agrees(history, asks', sso', secrets', link')
                        /\ Pending(q, history, asks', sso', link')
      OBVIOUS
    <3>1. Agrees(history, asks, sso, secrets, link) /\ Pending(p, history, asks, sso, link)
      BY <1>1, Running
    <3>2. /\ link = None /\ sso[p.ticket] = None /\ history.uses[p.ticket] = 0
      BY <1>2, <3>1 DEF Pending
    <3>3. link' = p.identity
      BY <2>2, <3>2
    <3>4. Agrees(history, asks', sso', secrets', link')
      BY <2>2, <3>1, <3>2 DEF Agrees
    <3>5. t \notin Linking
      BY <2>1, Kinds
    <3> QED
      BY <2>1, <2>2, <2>4, <3>2, <3>3, <3>4, <3>5, Selected DEF Pending
  <2> QED
    BY <1>1, <1>2, <2>2, <2>3, <2>5, <2>6, <2>7, GoesToProgram
<1> QED
  BY <1>4, <1>5

----------------------------------------------------------------------------
(***************************************************************************)
(* Someone passes                                                          *)
(***************************************************************************)
LEMMA UseType ==
    ASSUME history \in History, NEW t \in States \cup Secrets, history.uses[t] = 0
    PROVE  /\ OneUse(t) \in History
           /\ OneUse(t).passed = history.passed /\ OneUse(t).logged = history.logged
           /\ OneUse(t).denied = history.denied
           /\ OneUse(t).uses[t] = 1
           /\ \A x \in States \cup Secrets : x # t => OneUse(t).uses[x] = history.uses[x]
<1>1. history.uses \in [States \cup Secrets -> 0 .. 2]
  BY DEF History
<1>2. PICK uses : uses = [history.uses EXCEPT ![t] = 1]
  OBVIOUS
<1>3. /\ uses \in [States \cup Secrets -> 0 .. 2] /\ uses[t] = 1
      /\ \A x \in States \cup Secrets : x # t => uses[x] = history.uses[x]
  BY <1>1, <1>2
<1>4. OneUse(t) = [history EXCEPT !.uses = uses]
  BY <1>1, <1>2 DEF OneUse, History
<1>5. /\ OneUse(t) \in History /\ OneUse(t).uses = uses
      /\ OneUse(t).passed = history.passed /\ OneUse(t).logged = history.logged
      /\ OneUse(t).denied = history.denied
  BY <1>3, <1>4 DEF History
<1> QED
  BY <1>3, <1>5

LEMMA LoginKeepsInv ==
    ASSUME Inv, NEW r \in Requests, Login(r)
    PROVE  Inv'
<1>1. PICK p \in Request : /\ p = requests[r] /\ requests[r] # None /\ Fits(p)
                           /\ p.todo \in Programs /\ Head(p.todo) = "login"
  BY Running DEF Login, At
<1>2. /\ p.todo = <<"login">> /\ Tail(p.todo) = <<>>
      /\ p.todo \in Linked /\ p.todo \in SigningIn
  BY <1>1, ProgramOf, LinkedTail, Kinds DEF SigningIn
<1>3. PICK s \in States, i \in Identities : s = p.ticket /\ i = p.identity
  BY <1>1, <1>2 DEF Fits
<1>4. PICK h, u : u = OneUse(s) /\ h = [u EXCEPT !.logged = u.logged \cup {i}]
  OBVIOUS
<1>5. /\ Go(r) /\ UNCHANGED <<asks, sso, secrets, account, link, failures>>
      /\ history' = IF history = None THEN None ELSE h
  BY <1>1, <1>3, <1>4 DEF Login, Unless, tickets, accounts
<1>6. ASSUME history # None
      PROVE  /\ h \in History /\ Agrees(h, asks, sso, secrets, link)
  <2>1. /\ history \in History /\ Agrees(history, asks, sso, secrets, link)
        /\ Pending(p, history, asks, sso, link)
    BY <1>1, <1>6, Running
  <2>2. history.uses[s] = 0 /\ sso[s] = None /\ link = i
    BY <1>2, <1>3, <2>1 DEF Pending
  <2>3. /\ u \in History
        /\ u.passed = history.passed /\ u.logged = history.logged
        /\ u.denied = history.denied
        /\ u.uses[s] = 1
        /\ \A x \in States \cup Secrets : x # s => u.uses[x] = history.uses[x]
    BY <1>4, <2>1, <2>2, UseType
  <2>4. /\ h \in History /\ h.uses = u.uses /\ h.passed = u.passed
        /\ h.denied = u.denied /\ h.logged = u.logged \cup {i}
    BY <1>4, <2>3 DEF History
  <2>5. i # None
    BY NoneAssumption
  <2>6. \A x \in h.logged : x = link /\ x # None
    BY <2>1, <2>2, <2>3, <2>4, <2>5 DEF Agrees
  <2>7. \A x \in States : sso[x] # None => h.uses[x] = 0
    BY <2>1, <2>2, <2>3, <2>4 DEF Agrees
  <2>8. \A k \in Secrets : secrets[k] # None => h.uses[k] = 0
    BY <2>1, <2>3, <2>4, KindAssumption DEF Agrees
  <2>9. \A t \in States \cup Secrets : h.uses[t] <= 1
    BY <2>1, <2>3, <2>4 DEF Agrees
  <2> QED
    BY <2>1, <2>3, <2>4, <2>6, <2>7, <2>8, <2>9 DEF Agrees
<1>7. TablesOK'
  BY <1>5, <1>6 DEF Inv, TypeOK, TablesOK
<1> QED
  BY <1>1, <1>2, <1>5, <1>6, <1>7, Ends

LEMMA ConsumeKeepsInv ==
    ASSUME Inv, NEW r \in Requests, Consume(r)
    PROVE  Inv'
<1>1. PICK p \in Request : /\ p = requests[r] /\ requests[r] # None /\ Fits(p)
                           /\ p.todo \in Programs /\ Head(p.todo) = "consume"
  BY Running DEF Consume, At
<1>2. /\ p.todo = <<"consume">> /\ Tail(p.todo) = <<>> /\ p.todo \in OneStatement
     
  BY <1>1, ProgramOf, OneStatementTail, Selected
<1>3. PICK k \in Secrets : k = p.ticket
  BY <1>1, <1>2 DEF Fits
<1>4. PICK h : h = IF p.yes THEN OneUse(k) ELSE history
  OBVIOUS
<1>5. /\ Go(r) /\ UNCHANGED <<asks, sso, account, link, failures>>
      /\ secrets' = [secrets EXCEPT ![k] = None]
      /\ history' = IF history = None THEN None ELSE h
  BY <1>1, <1>3, <1>4 DEF Consume, Unless, accounts
<1>6. secrets \in [Secrets -> {"valid", "expired", None}]
  BY DEF Inv, TypeOK
<1>7. /\ secrets' \in [Secrets -> {"valid", "expired", None}] /\ secrets'[k] = None
      /\ \A x \in Secrets : x # k => secrets'[x] = secrets[x]
  BY <1>5, <1>6
<1>8. ASSUME history # None
      PROVE  /\ h \in History /\ Agrees(h, asks, sso, secrets', link)
  <2>1. /\ history \in History /\ Agrees(history, asks, sso, secrets, link)
        /\ Pending(p, history, asks, sso, link)
    BY <1>1, <1>8, Running
  <2>2. history.uses[k] = 0
    BY <1>2, <1>3, <2>1 DEF Pending
  <2>3. CASE p.yes
    <3>1. /\ h \in History
          /\ h.passed = history.passed /\ h.logged = history.logged
          /\ h.denied = history.denied
          /\ h.uses[k] = 1
          /\ \A x \in States \cup Secrets : x # k => h.uses[x] = history.uses[x]
      BY <1>4, <2>1, <2>2, <2>3, UseType
    <3>2. \A x \in States : sso[x] # None => h.uses[x] = 0
      BY <2>1, <3>1, KindAssumption DEF Agrees
    <3>3. \A x \in Secrets : secrets'[x] # None => h.uses[x] = 0
      BY <1>7, <2>1, <3>1 DEF Agrees
    <3>4. \A t \in States \cup Secrets : h.uses[t] <= 1
      BY <2>1, <3>1 DEF Agrees
    <3> QED
      BY <2>1, <3>1, <3>2, <3>3, <3>4 DEF Agrees
  <2>4. CASE ~p.yes
    BY <1>4, <1>7, <2>1, <2>4 DEF Agrees
  <2> QED
    BY <2>3, <2>4
<1>9. TablesOK'
  BY <1>5, <1>7, <1>8 DEF Inv, TypeOK, TablesOK
<1> QED
  BY <1>1, <1>2, <1>5, <1>8, <1>9, Ends

LEMMA FailKeepsInv ==
    ASSUME Inv, NEW r \in Requests, Fail(r)
    PROVE  Inv'
<1>1. /\ requests' = [requests EXCEPT ![r] = None] /\ history' = None
      /\ UNCHANGED <<asks, sso, secrets, account, link, failures>>
  BY DEF Fail, tickets, accounts
<1>2. TablesOK'
  BY <1>1 DEF Inv, TypeOK, TablesOK
<1> QED
  BY <1>1, <1>2, RequestStep

\* The statements of the handlers in flight.
LEMMA ProceedKeepsInv ==
    ASSUME Inv, NEW r \in Requests, Proceed(r)
    PROVE  Inv'
BY ReadCountKeepsInv, RecordFailureKeepsInv, WriteAnswerKeepsInv, DropSsoKeepsInv,
   InsertSsoKeepsInv, WriteCallbackKeepsInv, ExchangeKeepsInv, ResolveKeepsInv,
   SignInKeepsInv, RefusedKeepsInv, LinkKeepsInv, LoginKeepsInv, ConsumeKeepsInv,
   FailKeepsInv
   DEF Proceed

----------------------------------------------------------------------------
(***************************************************************************)
(* Handlers with one statement                                             *)
(***************************************************************************)
LEMMA CreateAskKeepsInv ==
    ASSUME Inv, NEW a \in Asks, CreateAsk(a)
    PROVE  Inv'
<1>1. PICK h : h = [history EXCEPT !.denied = @ \ {a}, !.passed = @ \ {a}]
  OBVIOUS
<1>2. PICK x : x = [approved |-> "open", age |-> 0]
  OBVIOUS
<1>3. x \in Ask
  BY <1>2, TimeAssumption DEF Ask
<1>4. /\ asks' = [asks EXCEPT ![a] = x] /\ AtOnce(h)
      /\ UNCHANGED <<sso, secrets, account, link, failures>>
      /\ asks \in [Asks -> Ask \cup {None}]
  BY <1>1, <1>2 DEF CreateAsk, accounts, Inv, TypeOK
<1>5. /\ asks' \in [Asks -> Ask \cup {None}]
      /\ \A b \in Asks : b # a => asks'[b] = asks[b]
  BY <1>3, <1>4
<1>6. ASSUME history # None, Agrees(history, asks, sso, secrets, link)
      PROVE  /\ h \in History
             /\ Agrees(h, asks', sso', secrets', link')
  <2>1. history \in History
    BY <1>6 DEF Inv, TypeOK
  <2>2. PICK denied, passed :
          denied = history.denied \ {a} /\ passed = history.passed \ {a}
    OBVIOUS
  <2>3. /\ h \in History /\ h.uses = history.uses /\ h.passed = passed
        /\ h.logged = history.logged /\ h.denied = denied
    BY <1>1, <2>1, <2>2 DEF History
  <2> QED
    BY <1>4, <1>5, <1>6, <2>2, <2>3 DEF Agrees
<1> QED
  BY <1>4, <1>5, <1>6, AtOnceStep DEF Inv, TypeOK

LEMMA DeviceLoginKeepsInv ==
    ASSUME Inv, NEW a \in Asks, DeviceLogin(a)
    PROVE  Inv'
<1>1. PICK h : h = [history EXCEPT !.passed = @ \cup {a}]
  OBVIOUS
<1>2. /\ AtOnce(h) /\ asks[a] # None /\ asks[a].approved = "yes"
      /\ UNCHANGED <<asks, sso, secrets, account, link, failures>>
  BY <1>1 DEF DeviceLogin, mayLogin, tickets, accounts
<1>3. ASSUME history # None, Agrees(history, asks, sso, secrets, link)
      PROVE  /\ h \in History
             /\ Agrees(h, asks', sso', secrets', link')
  <2>1. history \in History
    BY <1>3 DEF Inv, TypeOK
  <2>2. PICK passed : passed = history.passed \cup {a}
    OBVIOUS
  <2>3. /\ h \in History /\ h.uses = history.uses /\ h.passed = passed
        /\ h.logged = history.logged /\ h.denied = history.denied
    BY <1>1, <2>1, <2>2 DEF History
  <2>4. a \notin history.denied
    BY <1>2, <1>3 DEF Agrees
  <2> QED
    BY <1>2, <1>3, <2>2, <2>3, <2>4 DEF Agrees
<1> QED
  BY <1>2, <1>3, AtOnceStep DEF Inv, TypeOK

LEMMA IssueKeepsInv ==
    ASSUME Inv, NEW k \in Secrets, Issue(k)
    PROVE  Inv'
<1>1. PICK h : h = [history EXCEPT !.uses = NoUses]
  OBVIOUS
<1>2. /\ AtOnce(h) /\ secrets' = [secrets EXCEPT ![k] = "valid"]
      /\ UNCHANGED <<asks, sso, account, link, failures>>
      /\ secrets \in [Secrets -> {"valid", "expired", None}]
  BY <1>1 DEF Issue, accounts, Inv, TypeOK
<1>3. secrets' \in [Secrets -> {"valid", "expired", None}]
  BY <1>2
<1>4. ASSUME history # None, Agrees(history, asks, sso, secrets, link)
      PROVE  /\ h \in History
             /\ Agrees(h, asks', sso', secrets', link')
  <2>1. history \in History
    BY <1>4 DEF Inv, TypeOK
  <2>2. PICK uses : uses = NoUses
    OBVIOUS
  <2>3. /\ uses \in [States \cup Secrets -> 0 .. 2]
        /\ \A t \in States \cup Secrets : uses[t] = 0
    BY <2>2 DEF NoUses
  <2>4. /\ h \in History /\ h.uses = uses /\ h.passed = history.passed
        /\ h.logged = history.logged /\ h.denied = history.denied
    BY <1>1, <2>1, <2>2, <2>3 DEF History
  <2> QED
    BY <1>2, <1>4, <2>3, <2>4 DEF Agrees
<1> QED
  BY <1>2, <1>3, <1>4, AtOnceStep DEF Inv, TypeOK

LEMMA AccountKeepsInv ==
    ASSUME Inv, SetKeys \/ DeleteAccount \/ Unlink
    PROVE  Inv'
<1>1. PICK h : h = [history EXCEPT !.logged = {}]
  OBVIOUS
<1>2. ASSUME history # None
      PROVE  /\ h \in History /\ h.uses = history.uses /\ h.passed = history.passed
             /\ h.logged = {} /\ h.denied = history.denied
  BY <1>1, <1>2 DEF History, Inv, TypeOK
<1>3. CASE SetKeys
  <2>1. /\ AtOnce(history) /\ account' = "full" /\ account = "shell"
        /\ UNCHANGED <<asks, sso, secrets, link, failures>>
    BY <1>3 DEF SetKeys, tickets
  <2> QED
    BY <2>1, AtOnceStep DEF Inv, TypeOK
<1>4. CASE DeleteAccount
  <2>1. /\ AtOnce(h) /\ account' = "absent" /\ link' = None
        /\ asks' = [a \in Asks |-> None]
        /\ UNCHANGED <<sso, secrets, failures>>
    BY <1>1, <1>4 DEF DeleteAccount
  <2>2. asks' \in [Asks -> Ask \cup {None}] /\ \A a \in Asks : asks'[a] = None
    BY <2>1
  <2>3. ASSUME history # None, Agrees(history, asks, sso, secrets, link)
        PROVE  Agrees(h, asks', sso', secrets', link')
    BY <1>2, <2>1, <2>2, <2>3 DEF Agrees
  <2> QED
    BY <1>2, <2>1, <2>2, <2>3, AtOnceStep DEF Inv, TypeOK
<1>5. CASE Unlink
  <2>1. /\ AtOnce(h) /\ link' = None
        /\ UNCHANGED <<asks, sso, secrets, account, failures>>
    BY <1>1, <1>5 DEF Unlink, tickets
  <2>2. ASSUME history # None, Agrees(history, asks, sso, secrets, link)
        PROVE  Agrees(h, asks', sso', secrets', link')
    BY <1>2, <2>1, <2>2 DEF Agrees
  <2> QED
    BY <1>2, <2>1, <2>2, AtOnceStep DEF Inv, TypeOK
<1> QED
  BY <1>3, <1>4, <1>5

----------------------------------------------------------------------------
(***************************************************************************)
(* Time and the job                                                        *)
(***************************************************************************)
\* Rows only go or grow older.
LEMMA FewerRows ==
    ASSUME Inv, UNCHANGED <<account, link, history, requests>>,
           asks' \in [Asks -> Ask \cup {None}], sso' \in [States -> SsoAuth \cup {None}],
           secrets' \in [Secrets -> {"valid", "expired", None}],
           failures' \in Counter,
           failures'.count = 0 <=> failures'.ttl = 0,
           \A a \in Asks : asks'[a] # None =>
             asks[a] # None /\ asks'[a].approved = asks[a].approved,
           \A s \in States : sso'[s] # None => sso[s] # None,
           \A k \in Secrets : secrets'[k] # None => secrets[k] # None
    PROVE  Inv'
<1>1. TablesOK'
  BY DEF Inv, TypeOK, TablesOK
<1>2. ASSUME Agrees(history, asks, sso, secrets, link)
      PROVE  Agrees(history, asks', sso', secrets', link')
  BY <1>2 DEF Agrees
<1>3. ASSUME NEW q \in Request, Fits(q), Pending(q, history, asks, sso, link)
      PROVE  Pending(q, history, asks', sso', link')
  <2>1. q.todo = <<"answer">> /\ asks'[q.ticket] # None => asks'[q.ticket].approved = "open"
    BY <1>3 DEF Pending, Fits
  <2>2. q.todo \in {<<"link", "login">>, <<"login">>} => sso'[q.ticket] = None
    <3> SUFFICES ASSUME q.todo \in {<<"link", "login">>, <<"login">>}
                 PROVE  sso'[q.ticket] = None
      OBVIOUS
    <3>1. q.todo \in SigningIn
      BY Beginnings DEF SigningIn
    <3>2. q.ticket \in States /\ sso[q.ticket] = None
      BY <1>3, <3>1 DEF Pending, Fits
    <3> QED
      BY <3>2
  <2> QED
    BY <1>3, <2>1, <2>2 DEF Pending
<1> QED
  BY <1>1, <1>2, <1>3, AsideStep

LEMMA TickKeepsInv ==
    ASSUME Inv, Tick
    PROVE  Inv'
<1>1. /\ {SSO_TTL, ASK_TTL, FAILURE_TTL, MAX_FAILURES} \subseteq Nat \ {0}
  BY TimeAssumption
<1>2. /\ asks \in [Asks -> Ask \cup {None}] /\ sso \in [States -> SsoAuth \cup {None}]
      /\ secrets \in [Secrets -> {"valid", "expired", None}]
      /\ failures \in Counter
      /\ failures.count = 0 <=> failures.ttl = 0
      /\ history \in History \cup {None}
  BY DEF Inv, TypeOK
<1>3. ASSUME NEW a \in Asks
      PROVE  /\ asks'[a] \in Ask \cup {None}
             /\ asks'[a] # None => asks[a] # None /\ asks'[a].approved = asks[a].approved
  <2>1. PICK n : n = Older(asks[a].age, ASK_TTL)
    OBVIOUS
  <2>2. asks[a] # None => n \in 0 .. ASK_TTL
    BY <1>1, <1>2, <2>1 DEF Older, Ask
  <2>3. asks'[a] = IF asks[a] = None THEN None ELSE [asks[a] EXCEPT !.age = n]
    BY <1>2, <2>1 DEF Tick, Ask
  <2> QED
    BY <1>2, <2>2, <2>3 DEF Ask
<1>4. ASSUME NEW s \in States
      PROVE  sso'[s] \in SsoAuth \cup {None} /\ (sso'[s] # None => sso[s] # None)
  <2>1. PICK n : n = Older(sso[s].age, SSO_TTL)
    OBVIOUS
  <2>2. sso[s] # None => n \in 0 .. SSO_TTL
    BY <1>1, <1>2, <2>1 DEF Older, SsoAuth
  <2>3. sso'[s] = IF sso[s] = None THEN None ELSE [sso[s] EXCEPT !.age = n]
    BY <1>2, <2>1 DEF Tick, SsoAuth
  <2> QED
    BY <1>2, <2>2, <2>3 DEF SsoAuth
<1>5. /\ asks' \in [Asks -> Ask \cup {None}] /\ sso' \in [States -> SsoAuth \cup {None}]
  <2>1. DOMAIN asks' = Asks /\ DOMAIN sso' = States
        /\ asks' = [a \in Asks |-> asks'[a]] /\ sso' = [s \in States |-> sso'[s]]
    BY DEF Tick
  <2> QED
    BY <1>3, <1>4, <2>1
<1>6. /\ secrets' \in [Secrets -> {"valid", "expired", None}]
      /\ \A k \in Secrets : secrets'[k] # None => secrets[k] # None
  <2>1. PICK x \in {None, "expired"} : x = IF secrets["duo"] = None THEN None ELSE "expired"
    OBVIOUS
  <2>2. secrets' = [otp |-> None, duo |-> x]
    BY <2>1 DEF Tick
  <2>3. secrets'["otp"] = None /\ secrets'["duo"] = x /\ DOMAIN secrets' = Secrets
        /\ secrets' = [k \in Secrets |-> secrets'[k]]
    BY <2>2 DEF Secrets
  <2>4. \A k \in Secrets : secrets'[k] \in {"valid", "expired", None}
    BY <2>1, <2>3 DEF Secrets
  <2>5. \A k \in Secrets : secrets'[k] # None => secrets[k] # None
    BY <2>1, <2>3 DEF Secrets
  <2> QED
    BY <2>3, <2>4, <2>5
<1>7. UNCHANGED <<account, link, history, requests>>
  BY DEF Tick, accounts
<1>8. /\ failures.ttl \in 0 .. FAILURE_TTL /\ FAILURE_TTL \in Nat
      /\ Remaining(failures.ttl) = failures.ttl - 1
  BY <1>1, <1>2 DEF Remaining, Counter
<1>9. CASE Remaining(failures.ttl) <= 0
  <2>1. failures' = Counted(0, 0)
    BY <1>9 DEF Tick
  <2>2. /\ failures' \in Counter
        /\ failures'.count = 0 <=> failures'.ttl = 0
    BY <1>1, <1>2, <2>1, CountedType
  <2> QED
    BY <1>3, <1>4, <1>5, <1>6, <1>7, <2>2, FewerRows
<1>10. CASE ~(Remaining(failures.ttl) <= 0)
  <2>1. PICK n : n = Remaining(failures.ttl)
    OBVIOUS
  <2>2. n \in 1 .. FAILURE_TTL /\ failures.ttl # 0
    <3>1. n = failures.ttl - 1 /\ n > 0
      BY <1>8, <1>10, <2>1
    <3> QED
      BY <1>8, <3>1
  <2>3. failures' = [failures EXCEPT !.ttl = n]
    BY <1>2, <1>10, <2>1 DEF Tick, Counter
  <2>4. /\ failures' \in Counter
        /\ failures'.count = failures.count /\ failures'.ttl = n
    BY <1>1, <1>2, <2>2, <2>3 DEF Counter
  <2>5. failures'.count = 0 <=> failures'.ttl = 0
    BY <1>2, <2>2, <2>4
  <2> QED
    BY <1>3, <1>4, <1>5, <1>6, <1>7, <2>4, <2>5, FewerRows
<1> QED
  BY <1>9, <1>10

\* The KV store settles.
LEMMA ConvergeKeepsInv ==
    ASSUME Inv, Converge
    PROVE  Inv'
<1>1. /\ UNCHANGED <<asks, sso, secrets, account, link, history, requests>>
      /\ failures' = [failures EXCEPT !.older = {}]
  BY DEF Converge, tickets, accounts
<1>2. /\ asks \in [Asks -> Ask \cup {None}] /\ sso \in [States -> SsoAuth \cup {None}]
      /\ secrets \in [Secrets -> {"valid", "expired", None}]
      /\ failures \in Counter
      /\ failures.count = 0 <=> failures.ttl = 0
  BY DEF Inv, TypeOK
<1>3. PICK older : older = {}
  OBVIOUS
<1>4. /\ failures' \in Counter
      /\ failures'.count = failures.count /\ failures'.ttl = failures.ttl
  BY <1>1, <1>2, <1>3 DEF Counter
<1> QED
  BY <1>1, <1>2, <1>4, FewerRows

LEMMA PurgeKeepsInv ==
    ASSUME Inv, Purge \/ \E others \in BOOLEAN : StartPurge(others)
    PROVE  Inv'
<1>1. /\ asks \in [Asks -> Ask \cup {None}] /\ sso \in [States -> SsoAuth \cup {None}]
      /\ secrets \in [Secrets -> {"valid", "expired", None}]
      /\ failures \in Counter
      /\ failures.count = 0 <=> failures.ttl = 0
      /\ history \in History \cup {None}
  BY DEF Inv, TypeOK
<1>2. UNCHANGED <<account, link, failures, history, requests>>
  BY DEF Purge, StartPurge, accounts
<1>3. /\ asks' = asks \/ PurgeAsks
      /\ secrets' = secrets \/ PurgeDuo
      /\ sso' = sso \/ PurgeSso
  BY DEF Purge, StartPurge, tickets
<1>4. /\ asks' \in [Asks -> Ask \cup {None}]
      /\ \A a \in Asks : asks'[a] # None =>
           asks[a] # None /\ asks'[a].approved = asks[a].approved
  BY <1>1, <1>3 DEF PurgeAsks
<1>5. /\ sso' \in [States -> SsoAuth \cup {None}]
      /\ \A s \in States : sso'[s] # None => sso[s] # None
  BY <1>1, <1>3 DEF PurgeSso
<1>6. /\ secrets' \in [Secrets -> {"valid", "expired", None}]
      /\ \A k \in Secrets : secrets'[k] # None => secrets[k] # None
  BY <1>1, <1>3 DEF PurgeDuo
<1> QED
  BY <1>1, <1>2, <1>4, <1>5, <1>6, FewerRows

----------------------------------------------------------------------------
\* Every step, of whatever handler or of the job.
LEMMA NextKeepsInv ==
    ASSUME Inv, [Next]_vars
    PROVE  Inv'
<1>1. CASE UNCHANGED vars
  <2>1. UNCHANGED <<asks, sso, secrets, account, link, failures, history, requests>>
    BY <1>1 DEF vars
  <2>2. Active' = Active
    BY <2>1 DEF Active
  <2>3. TypeOK' /\ AllFit' /\ (Calm => Calm')
    BY <2>1, <2>2 DEF Inv, TypeOK, AllFit, Calm
  <2> QED
    BY <2>1, <2>3 DEF Inv
<1>2. CASE Next
  <2>1. \A r \in Active : Proceed(r) => Inv'
    BY ProceedKeepsInv DEF Active
  <2>2. \A r \in Idle : Arrive(r) => Inv'
    BY ArriveKeepsInv
  <2>3. Single => Inv'
    BY CreateAskKeepsInv, DeviceLoginKeepsInv, IssueKeepsInv, AccountKeepsInv DEF Single
  <2> QED
    BY <1>2, <2>1, <2>2, <2>3, TickKeepsInv, ConvergeKeepsInv, PurgeKeepsInv DEF Next
<1> QED
  BY <1>1, <1>2

LEMMA InitInv == Init => Inv
<1> SUFFICES ASSUME Init PROVE Inv
  OBVIOUS
<1>1. {FAILURE_TTL, MAX_FAILURES} \subseteq Nat
  BY TimeAssumption
<1>2. PICK uses : uses = NoUses
  OBVIOUS
<1>3. /\ uses \in [States \cup Secrets -> 0 .. 2]
      /\ \A t \in States \cup Secrets : uses[t] = 0
  BY <1>2 DEF NoUses
<1>4. history = [uses |-> uses, denied |-> {}, passed |-> {}, logged |-> {}]
  BY <1>2 DEF Init
<1>5. history \in History
  BY <1>1, <1>3, <1>4 DEF History
<1>6. Active = {}
  BY DEF Init, Active
<1>7. TypeOK
  BY <1>1, <1>5, <1>6 DEF Init, TypeOK, Counter
<1>8. Agrees(history, asks, sso, secrets, link)
  BY <1>1, <1>3, <1>4 DEF Init, Agrees
<1> QED
  BY <1>6, <1>7, <1>8 DEF Inv, AllFit, Calm

\* The invariant holds throughout.
LEMMA AlwaysInv == Spec => []Inv
BY InitInv, NextKeepsInv, PTL DEF Spec

----------------------------------------------------------------------------
\* However requests overlap or fail, and whenever the job runs: the rows of
\* asks, authorizations and secrets, the counter and what handlers hold keep
\* their types, and only an account has a link.
THEOREM TicketsTypeCorrect == Spec => []TypeOK
<1>1. Inv => TypeOK
  BY DEF Inv
<1> QED
  BY <1>1, AlwaysInv, PTL

\* A request to log in that was ever denied has let nobody in, before or since:
\* for any number of requests to log in, whose handlers neither overlap nor fail.
THEOREM NobodyPassesDenied == Spec => []DeniedStaysOut
<1>1. Inv => DeniedStaysOut
  BY DEF Inv, Calm, Agrees, DeniedStaysOut, Quiet
<1> QED
  BY <1>1, AlwaysInv, PTL

\* An authorization at the provider, a one-time code and a Duo state let one
\* login or action pass, whatever else is asked in between, and though the job
\* may purge them while they are used.
THEOREM GoodOnce == Spec => []UsedOnce
<1>1. Inv => UsedOnce
  BY DEF Inv, Calm, Agrees, UsedOnce, Quiet
<1> QED
  BY <1>1, AlwaysInv, PTL

\* The account belongs to one identity at the provider, for any number of them.
THEOREM LinkedToOne == Spec => []OneIdentity
<1>1. Inv => OneIdentity
  <2> SUFFICES ASSUME Inv, Quiet PROVE Cardinality(history.logged) <= 1
    BY DEF OneIdentity
  <2>1. history.logged \subseteq {link}
    BY DEF Inv, Calm, Agrees, Quiet
  <2>2. IsFiniteSet({link}) /\ Cardinality({link}) = 1
    BY FS_Singleton
  <2>3. Cardinality(history.logged) <= Cardinality({link})
    BY <2>1, <2>2, FS_Subset
  <2> QED
    BY <2>2, <2>3
<1> QED
  BY <1>1, AlwaysInv, PTL
=============================================================================
