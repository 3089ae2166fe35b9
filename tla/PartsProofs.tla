------------------------------ MODULE PartsProofs ------------------------------
(***************************************************************************)
(* The parts that answer for themselves: credentials, result limits, the   *)
(* JSON walk and the rows of the schema reports, for every profile, every  *)
(* limit, every object graph and every catalogue; then all the parts as    *)
(* the runs compose them.  (Requests are in RequestsProofs, the two files  *)
(* in FileProofs.)  What a model computes with a recursive function is     *)
(* reasoned about by UpTo, an induction over a set, and StepsExist.        *)
(***************************************************************************)
EXTENDS MCParts, RequestsProofs, FileProofs

-----------------------------------------------------------------------------
(* Recursion *)

\* Induction, of a set: the least member of 0 .. n that is not in it has a predecessor.
LEMMA UpTo ==
  ASSUME NEW n \in Nat, NEW S, 0 \in S, \A i \in 1 .. n : i - 1 \in S => i \in S
  PROVE  \A i \in 0 .. n : i \in S
<1> DEFINE T == (0 .. n) \ S
<1> SUFFICES ASSUME T # {} PROVE FALSE
  OBVIOUS
<1>1. PICK i \in T : \A j \in T : ~ (<<j, i>> \in OpToRel(<, Nat))
  <2>1. T \subseteq Nat
    OBVIOUS
  <2> HIDE DEF T
  <2> QED BY <2>1, NatLessThanWellFounded, WFMin
<1>2. i \in 0 .. n /\ i \notin S /\ i # 0
  OBVIOUS
<1>3. i - 1 \in 0 .. n /\ i - 1 < i /\ i \in 1 .. n /\ i - 1 \in Nat /\ i \in Nat
  BY <1>2
<1>4. i - 1 \notin S
  BY <1>2, <1>3
<1>5. <<i - 1, i>> \in OpToRel(<, Nat)
  <2>1. <<i - 1, i>> \in {ss \in Nat \X Nat : ss[1] < ss[2]}
    BY <1>3
  <2> QED BY <2>1 DEF OpToRel
<1> QED BY <1>1, <1>3, <1>4, <1>5

\* A function with a value of D for each step has a recursive one that takes the steps.
Steps(f, n, base, step_) == f = [i \in 0 .. n |-> IF i = 0 THEN base ELSE step_[i][f[i - 1]]]

LEMMA StepsExist ==
  ASSUME NEW n \in Nat, NEW D, NEW base \in D, NEW G \in [1 .. n -> [D -> D]]
  PROVE  \E f \in [0 .. n -> D] : Steps(f, n, base, G)
<1> DEFINE S == {m \in 0 .. n : \E f \in [0 .. m -> D] : Steps(f, m, base, G)}
<1>1. 0 \in S
  <2>1. Steps([i \in 0 .. 0 |-> base], 0, base, G)
    BY DEF Steps
  <2>2. [i \in 0 .. 0 |-> base] \in [0 .. 0 -> D] /\ 0 \in 0 .. n
    OBVIOUS
  <2> QED BY <2>1, <2>2
<1>2. ASSUME NEW m \in 1 .. n, m - 1 \in S PROVE m \in S
  <2>1. PICK f \in [0 .. m - 1 -> D] : Steps(f, m - 1, base, G)
    BY <1>2
  <2> DEFINE g == [i \in 0 .. m |-> IF i = m THEN G[m][f[m - 1]] ELSE f[i]]
  <2>2. \A i \in 0 .. m - 1 : f[i] = IF i = 0 THEN base ELSE G[i][f[i - 1]]
    BY <2>1 DEF Steps
  <2>3. f[m - 1] \in D /\ G[m] \in [D -> D]
    OBVIOUS
  <2>4. g \in [0 .. m -> D]
    BY <2>3
  <2>5. ASSUME NEW i \in 0 .. m PROVE g[i] = IF i = 0 THEN base ELSE G[i][g[i - 1]]
    <3>1. CASE i = m
      BY <3>1
    <3>2. CASE i # m
      <4>1. i \in 0 .. m - 1 /\ g[i] = f[i]
        BY <3>2
      <4>2. i # 0 => g[i - 1] = f[i - 1]
        BY <3>2
      <4> QED BY <2>2, <4>1, <4>2
    <3> QED BY <3>1, <3>2
  <2>6. Steps(g, m, base, G)
    <3>1. g = [i \in 0 .. m |-> g[i]]
      OBVIOUS
    <3> HIDE DEF g
    <3> QED BY <2>5, <3>1 DEF Steps
  <2> HIDE DEF g
  <2> QED BY <2>4, <2>6
<1> HIDE DEF S
<1>3. \A i \in 0 .. n : i \in S
  BY <1>1, <1>2, UpTo
<1> QED BY <1>3 DEF S

-----------------------------------------------------------------------------
(* Credentials *)

Pairs == [key : STRING, value : STRING]

\* What PlainParams adds up, one pair at a time.
LEMMA PlainRecursion ==
  ASSUME NEW q \in Seq(Pairs)
  PROVE  \E f : /\ f[0] = <<>> /\ PlainParams(q) = f[Len(q)]
                /\ \A k \in 1 .. Len(q) :
                      f[k] = IF IsPlainParam(q[k]) THEN Append(f[k - 1], q[k]) ELSE f[k - 1]
<1> DEFINE n == Len(q)
           D == Seq(Pairs)
           F(g) == [k \in 0 .. n |-> IF k = 0 THEN <<>>
                                     ELSE IF IsPlainParam(q[k]) THEN Append(g[k - 1], q[k])
                                     ELSE g[k - 1]]
           f == CHOOSE g : g = F(g)
           G == [k \in 1 .. n |-> [s \in D |-> IF IsPlainParam(q[k]) THEN Append(s, q[k]) ELSE s]]
<1>1. n \in Nat /\ \A k \in 1 .. n : q[k] \in Pairs
  OBVIOUS
<1>2. G \in [1 .. n -> [D -> D]]
  <2>1. \A k \in 1 .. n : \A s \in D : Append(s, q[k]) \in D
    BY <1>1
  <2> QED BY <2>1
<1>3. PICK h \in [0 .. n -> D] : Steps(h, n, <<>>, G)
  <2>1. <<>> \in D
    OBVIOUS
  <2> HIDE DEF G, D, n
  <2> QED BY <1>1, <1>2, <2>1, StepsExist
<1>4. h = F(h)
  <2>1. ASSUME NEW k \in 0 .. n
        PROVE  h[k] = IF k = 0 THEN <<>>
                      ELSE IF IsPlainParam(q[k]) THEN Append(h[k - 1], q[k]) ELSE h[k - 1]
    <3>1. h[k] = IF k = 0 THEN <<>> ELSE G[k][h[k - 1]]
      <4> HIDE DEF G, D, n
      <4> QED BY <1>3 DEF Steps
    <3>2. k # 0 => k \in 1 .. n /\ h[k - 1] \in D
      <4> HIDE DEF D, n
      <4> QED BY <1>1
    <3> QED BY <3>1, <3>2
  <2>2. h = [k \in 0 .. n |-> h[k]]
    OBVIOUS
  <2> HIDE DEF n
  <2> QED BY <2>1, <2>2
<1>5. f = F(f)
  <2> HIDE DEF F
  <2> QED BY <1>4
<1>6. PlainParams(q) = f[n]
  BY DEF PlainParams
<1>7. f[0] = <<>> /\ \A k \in 1 .. n : f[k] = IF IsPlainParam(q[k]) THEN Append(f[k - 1], q[k]) ELSE f[k - 1]
  <2> HIDE DEF f
  <2>1. \A k \in 0 .. n : f[k] = IF k = 0 THEN <<>>
                      ELSE IF IsPlainParam(q[k]) THEN Append(f[k - 1], q[k]) ELSE f[k - 1]
    <3> HIDE DEF n
    <3> QED BY <1>5
  <2> QED BY <1>1, <2>1
<1> HIDE DEF f
<1> QED BY <1>6, <1>7

\* What stays of a query is no secret, and of what is no secret everything stays.
LEMMA PlainFacts ==
  ASSUME NEW q \in Seq(Pairs)
  PROVE  /\ PlainParams(q) \in Seq(Pairs)
         /\ \A i \in DOMAIN PlainParams(q) : IsPlainParam(PlainParams(q)[i])
         /\ (\A i \in DOMAIN q : IsPlainParam(q[i])) => PlainParams(q) = q
<1>1. PICK f : /\ f[0] = <<>> /\ PlainParams(q) = f[Len(q)]
               /\ \A k \in 1 .. Len(q) :
                     f[k] = IF IsPlainParam(q[k]) THEN Append(f[k - 1], q[k]) ELSE f[k - 1]
  BY PlainRecursion
<1> DEFINE n == Len(q)
           Plain(s) == s \in Seq(Pairs) /\ \A i \in 1 .. Len(s) : IsPlainParam(s[i])
           S == {k \in 0 .. n : Plain(f[k])}
<1>2. n \in Nat /\ \A k \in 1 .. n : q[k] \in Pairs
  OBVIOUS
<1>3. 0 \in S
  <2>1. Plain(<<>>)
    <3>1. <<>> \in Seq(Pairs) /\ Len(<<>>) = 0
      OBVIOUS
    <3>2. 1 .. 0 = {}
      OBVIOUS
    <3> QED BY <3>1, <3>2
  <2>2. 0 \in 0 .. n /\ f[0] = <<>>
    BY <1>1, <1>2
  <2> HIDE DEF Plain, n
  <2> QED BY <2>1, <2>2
<1>4. ASSUME NEW k \in 1 .. n, k - 1 \in S PROVE k \in S
  <2>1. Plain(f[k - 1]) /\ k \in 0 .. n
    BY <1>2, <1>4
  <2>2. CASE IsPlainParam(q[k])
    <3>1. f[k] = Append(f[k - 1], q[k]) /\ q[k] \in Pairs
      BY <1>1, <1>2, <2>2
    <3>2. Append(f[k - 1], q[k]) \in Seq(Pairs)
      BY <2>1, <3>1
    <3>3. /\ Len(Append(f[k - 1], q[k])) = Len(f[k - 1]) + 1
          /\ \A i \in 1 .. Len(f[k - 1]) + 1 :
                Append(f[k - 1], q[k])[i] = IF i <= Len(f[k - 1]) THEN f[k - 1][i] ELSE q[k]
      BY <2>1, <3>1
    <3>4. \A i \in 1 .. Len(f[k]) : IsPlainParam(f[k][i])
      <4> HIDE DEF n
      <4>1. Len(f[k - 1]) \in Nat
        BY <2>1
      <4> QED BY <2>1, <2>2, <3>1, <3>3, <4>1
    <3> QED BY <2>1, <3>1, <3>2, <3>4
  <2>3. CASE ~IsPlainParam(q[k])
    BY <1>1, <2>1, <2>3
  <2> QED BY <2>2, <2>3
<1>5. n \in S
  <2> HIDE DEF S
  <2>1. \A k \in 0 .. n : k \in S
    BY <1>2, <1>3, <1>4, UpTo
  <2> QED BY <1>2, <2>1
<1>6. Plain(PlainParams(q))
  BY <1>1, <1>5
<1>7. ASSUME \A i \in DOMAIN q : IsPlainParam(q[i]) PROVE PlainParams(q) = q
  <2> DEFINE R == {k \in 0 .. n : f[k] = SubSeq(q, 1, k)}
  <2>1. 0 \in R
    <3>1. SubSeq(q, 1, 0) = <<>>
      OBVIOUS
    <3>2. 0 \in 0 .. n /\ f[0] = <<>>
      BY <1>1, <1>2
    <3> QED BY <3>1, <3>2
  <2>2. ASSUME NEW k \in 1 .. n, k - 1 \in R PROVE k \in R
    <3>1. f[k] = Append(SubSeq(q, 1, k - 1), q[k])
      <4>1. IsPlainParam(q[k]) /\ f[k - 1] = SubSeq(q, 1, k - 1)
        BY <1>7, <2>2
      <4>2. f[k] = IF IsPlainParam(q[k]) THEN Append(f[k - 1], q[k]) ELSE f[k - 1]
        BY <1>1
      <4> QED BY <4>1, <4>2
    <3>2. Append(SubSeq(q, 1, k - 1), q[k]) = SubSeq(q, 1, k)
      BY <1>2
    <3> QED BY <1>2, <3>1, <3>2
  <2>3. n \in R
    <3> HIDE DEF R
    <3>1. \A k \in 0 .. n : k \in R
      BY <1>2, <2>1, <2>2, UpTo
    <3> QED BY <1>2, <3>1
  <2> QED BY <1>1, <2>3
<1> QED BY <1>6, <1>7

Addresses == [userinfo : [present : BOOLEAN, name : STRING, password : STRING], query : Seq(Pairs)]

\* The pairs of a query that count as a password.
Given(uri) == {i \in DOMAIN uri.query : IsSecretParam(uri.query[i]) /\ HasValue(uri.query[i])}

\* A password that is found was written in the string; if none is, no secret has a value.
LEMMA FirstSecret ==
  ASSUME NEW uri \in Addresses
  PROVE  LET w == StripCredential(uri).password
         IN  /\ uri.userinfo.password # None => w = uri.userinfo.password
             /\ uri.userinfo.password = None =>
                   IF Given(uri) = {} THEN w = None
                   ELSE \E i \in Given(uri) : w = uri.query[i].value
<1> DEFINE given == Given(uri)
           first == CHOOSE i \in given : \A j \in given : i <= j
           w == StripCredential(uri).password
<1>1. w = IF uri.userinfo.password # None THEN uri.userinfo.password
          ELSE IF given # {} THEN uri.query[first].value
          ELSE None
  BY DEF StripCredential, Given
<1>2. given # {} => first \in given
  <2> SUFFICES ASSUME given # {} PROVE first \in given
    OBVIOUS
  <2>1. \E i \in given : \A j \in given : i <= j
    <3>1. given \subseteq Nat
      BY DEF Given, Addresses
    <3>2. PICK i \in given : \A j \in given : ~ (<<j, i>> \in OpToRel(<, Nat))
      <4> HIDE DEF given
      <4> QED BY <3>1, NatLessThanWellFounded, WFMin
    <3>3. ASSUME NEW j \in given PROVE i <= j
      <4>1. ~ (<<j, i>> \in {ss \in Nat \X Nat : ss[1] < ss[2]})
        BY <3>2 DEF OpToRel
      <4>2. i \in Nat /\ j \in Nat
        BY <3>1
      <4> QED BY <4>1, <4>2
    <3> QED BY <3>3
  <2> QED BY <2>1
<1> HIDE DEF first, w
<1> QED BY <1>1, <1>2 DEF w

LEMMA Stripped ==
  ASSUME NEW uri \in Addresses, NEW s, s = StripCredential(uri).uri
  PROVE  \E u : /\ s = [userinfo |-> u, query |-> PlainParams(uri.query)]
                /\ u.present = uri.userinfo.present /\ u.name = uri.userinfo.name
                /\ u.password = None
<1> DEFINE v == uri.userinfo
           u == [v EXCEPT !.password = None]
<1>1. s = [userinfo |-> u, query |-> PlainParams(uri.query)]
  BY DEF StripCredential
<1>2. v \in [present : BOOLEAN, name : STRING, password : STRING]
  BY DEF Addresses
<1> HIDE DEF v
<1>3. u.present = v.present
  BY <1>2
<1>4. u.name = v.name
  BY <1>2
<1>5. u.password = None
  BY <1>2
<1> HIDE DEF u
<1> QED BY <1>1, <1>3, <1>4, <1>5 DEF v

\* A string with nothing but plain pairs: its only secret is the userinfo's.
LEMMA SecretOfPlain ==
  ASSUME NEW uri, NEW q \in Seq(Pairs), uri.query = PlainParams(q)
  PROVE  /\ SecretsIn(uri) = {uri.userinfo.password} \ {None, Empty}
         /\ Told(uri) = PlainParams(q)
         /\ \A i \in DOMAIN uri.query : ~IsSecretParam(uri.query[i])
<1>1. /\ PlainParams(q) \in Seq(Pairs)
      /\ \A i \in DOMAIN PlainParams(q) : ~IsSecretParam(PlainParams(q)[i])
  BY PlainFacts DEF IsPlainParam
<1>2. PlainParams(PlainParams(q)) = PlainParams(q)
  BY <1>1, PlainFacts DEF IsPlainParam
<1>3. {j \in DOMAIN uri.query : IsSecretParam(uri.query[j])} = {}
  BY <1>1
<1> QED BY <1>1, <1>2, <1>3 DEF SecretsIn, Told

\* What injectCredentials() makes of a stripped string.
LEMMA Injected ==
  ASSUME NEW u, NEW q, NEW s, s = [userinfo |-> u, query |-> q], NEW w, NEW user,
         NEW got, InjectCredentials(s, w, user) = Connects(got)
  PROVE  /\ w \in {None, Empty} => got = s
         /\ w \notin {None, Empty} =>
              /\ u.present \/ user # None
              /\ got = [userinfo |-> [present |-> TRUE, password |-> w,
                                     name |-> IF u.present THEN u.name ELSE user],
                        query |-> q]
<1>1. CASE w \in {None, Empty}
  BY <1>1 DEF InjectCredentials, Connects
<1>2. CASE w \notin {None, Empty} /\ ~u.present /\ user = None
  <2>1. InjectCredentials(s, w, user) = Failed("no username")
    BY <1>2 DEF InjectCredentials
  <2>2. Failed("no username").state = "error" /\ Connects(got).state = "connects"
    BY DEF Failed, Connects
  <2> QED BY <2>1, <2>2
<1>3. CASE w \notin {None, Empty} /\ (u.present \/ user # None)
  <2> DEFINE x == [present |-> TRUE, password |-> w, name |-> IF u.present THEN u.name ELSE user]
  <2>1. InjectCredentials(s, w, user) = Connects([s EXCEPT !.userinfo = x])
    BY <1>3 DEF InjectCredentials
  <2>2. [s EXCEPT !.userinfo = x] = [userinfo |-> x, query |-> q]
    <3> HIDE DEF x
    <3> QED OBVIOUS
  <2>3. got = [userinfo |-> x, query |-> q]
    <3> HIDE DEF x
    <3> QED BY <2>1, <2>2 DEF Connects
  <2> QED BY <1>3, <2>3
<1> QED BY <1>1, <1>2, <1>3

\* The string that may be logged has no secret, and is the same otherwise.
LEMMA SafeToLog ==
  ASSUME NEW uri \in Addresses, NEW safe, safe = StripCredential(uri).uri
  PROVE  /\ SecretsIn(safe) = {} /\ UserIn(safe) = UserIn(uri) /\ Told(safe) = Told(uri)
         /\ \A i \in DOMAIN safe.query : ~IsSecretParam(safe.query[i])
<1>1. PICK u : /\ safe = [userinfo |-> u, query |-> PlainParams(uri.query)]
               /\ u.present = uri.userinfo.present /\ u.name = uri.userinfo.name
               /\ u.password = None
  BY Stripped
<1>2. uri.query \in Seq(Pairs) /\ safe.query = PlainParams(uri.query) /\ safe.userinfo = u
  BY <1>1 DEF Addresses
<1>3. SecretsIn(safe) = {None} \ {None, Empty} /\ Told(safe) = PlainParams(uri.query)
      /\ \A i \in DOMAIN safe.query : ~IsSecretParam(safe.query[i])
  BY <1>1, <1>2, SecretOfPlain
<1>4. UserIn(safe) = UserIn(uri)
  BY <1>1, <1>2 DEF UserIn
<1> QED BY <1>3, <1>4 DEF Told

\* The string got, from profile p whose source answered a, says what the profile says.
Says(p, a, got) ==
    /\ UserIn(got) \in {UserIn(p.uri)} \cup (IF p.uri.userinfo.present THEN {} ELSE {p.username})
    /\ Told(got) = Told(p.uri)
    /\ \A i \in DOMAIN got.query : ~IsSecretParam(got.query[i])
    /\ p.password # None => SecretsIn(got) = {a} \ {Empty}
    /\ p.password = None =>
         /\ SecretsIn(got) \subseteq SecretsIn(p.uri)
         /\ SecretsIn(p.uri) # {} /\ ~GivesEmpty(p.uri) => SecretsIn(got) # {}
         /\ p.uri.userinfo.password \in Secrets => SecretsIn(got) = {p.uri.userinfo.password}

LEMMA AddressOf ==
  ASSUME NEW p \in RawProfiles
  PROVE  /\ p.uri \in Addresses
         /\ ~p.uri.userinfo.present => p.uri.userinfo = NoUserinfo
BY ProfilesAssumption DEF Addresses, Pairs

LEMMA NowhereSays ==
  ASSUME NEW p \in RawProfiles, Accepted(p), p.uri = NoAddress, NEW a
  PROVE  Says(p, a, NoAddress)
<1>1. p.password = None
  BY DEF Accepted
<1>2. PlainParams(<<>>) = <<>> /\ <<>> \in Seq(Pairs)
  <2>1. <<>> \in Seq(Pairs) /\ DOMAIN <<>> = {}
    OBVIOUS
  <2> QED BY <2>1, PlainFacts
<1>3. NoAddress.query = <<>> /\ NoAddress.userinfo.password = None
  BY DEF NoAddress, NoUserinfo
<1>4. /\ SecretsIn(NoAddress) = {None} \ {None, Empty}
      /\ \A i \in DOMAIN NoAddress.query : ~IsSecretParam(NoAddress.query[i])
  BY <1>2, <1>3, SecretOfPlain
<1>5. None \notin Secrets
  BY SecretsAssumption
<1> QED BY <1>1, <1>3, <1>4, <1>5 DEF Says

\* The string that resolve() puts together.
LEMMA AssembledSays ==
  ASSUME NEW p \in RawProfiles, Accepted(p), NEW a, p.password # None => a # None,
         NEW got, Assembled(p, a) = Connects(got)
  PROVE  Says(p, a, got)
<1> DEFINE uri == p.uri
           s == StripCredential(uri).uri
           own == StripCredential(uri).password
           w == IF p.password # None THEN a ELSE own
           user == UserOf(p)
<1>1. uri \in Addresses /\ (~uri.userinfo.present => uri.userinfo = NoUserinfo)
  BY AddressOf
<1>2. CASE uri = NoAddress
  <2>1. got = NoAddress
    BY <1>2 DEF Assembled, Connects
  <2> QED BY <1>2, <2>1, NowhereSays
<1>3. CASE uri # NoAddress
  <2>1. InjectCredentials(s, w, user) = Connects(got)
    BY <1>3 DEF Assembled
  <2>2. PICK u : /\ s = [userinfo |-> u, query |-> PlainParams(uri.query)]
                 /\ u.present = uri.userinfo.present /\ u.name = uri.userinfo.name
                 /\ u.password = None
    BY <1>1, Stripped
  <2>3. uri.query \in Seq(Pairs)
    BY <1>1 DEF Addresses
  <2>4. /\ uri.userinfo.password # None => own = uri.userinfo.password
        /\ uri.userinfo.password = None =>
             IF Given(uri) = {} THEN own = None ELSE \E i \in Given(uri) : own = uri.query[i].value
    BY <1>1, FirstSecret
  <2>5. /\ SecretsIn(s) = {} /\ UserIn(s) = UserIn(uri) /\ Told(s) = Told(uri)
        /\ \A i \in DOMAIN s.query : ~IsSecretParam(s.query[i])
    BY <1>1, SafeToLog
  <2>6. /\ w \in {None, Empty} => got = s
        /\ w \notin {None, Empty} =>
              /\ u.present \/ user # None
              /\ got = [userinfo |-> [present |-> TRUE, password |-> w,
                                     name |-> IF u.present THEN u.name ELSE user],
                        query |-> PlainParams(uri.query)]
    <3> HIDE DEF s, w, user, uri
    <3> QED BY <2>1, <2>2, Injected
  <2> HIDE DEF s, own, user
  <2>7. CASE w \in {None, Empty}
    <3>1. ASSUME p.password # None PROVE a = Empty
      BY <2>7, <3>1
    <3>2. ASSUME p.password = None, uri.userinfo.password \in Secrets PROVE FALSE
      <4>1. own = uri.userinfo.password /\ own \in {None, Empty}
        BY <2>4, <2>7, <3>2, SecretsAssumption
      <4> QED BY <3>2, <4>1, SecretsAssumption
    <3>3. ASSUME p.password = None, SecretsIn(uri) # {} PROVE GivesEmpty(uri)
      <4>1. own \in {None, Empty}
        BY <2>7, <3>3
      <4>2. CASE uri.userinfo.password # None
        BY <2>4, <4>1, <4>2 DEF GivesEmpty
      <4>3. CASE uri.userinfo.password = None
        <5>1. PICK i \in DOMAIN uri.query :
                     IsSecretParam(uri.query[i]) /\ uri.query[i].value \notin {None, Empty}
          BY <3>3, <4>3 DEF SecretsIn
        <5>2. i \in Given(uri)
          BY <5>1 DEF Given, HasValue
        <5>3. PICK j \in Given(uri) : own = uri.query[j].value
          BY <2>4, <4>3, <5>2
        <5>4. j \in DOMAIN uri.query /\ IsSecretParam(uri.query[j]) /\ uri.query[j].value = Empty
          BY <4>1, <5>3 DEF Given, HasValue
        <5> QED BY <5>4 DEF GivesEmpty
      <4> QED BY <4>2, <4>3
    <3>4. got = s
      BY <2>6, <2>7
    <3> HIDE DEF w
    <3> QED BY <2>5, <3>1, <3>2, <3>3, <3>4 DEF Says
  <2>8. CASE w \notin {None, Empty}
    <3>1. /\ got.query = PlainParams(uri.query) /\ got.userinfo.password = w
          /\ got.userinfo.present
          /\ got.userinfo.name = IF u.present THEN u.name ELSE user
          /\ u.present \/ user # None
      <4> HIDE DEF w, uri
      <4> QED BY <2>6, <2>8
    <3>2. /\ SecretsIn(got) = {w} \ {None, Empty} /\ Told(got) = PlainParams(uri.query)
          /\ \A i \in DOMAIN got.query : ~IsSecretParam(got.query[i])
      <4> HIDE DEF w, uri
      <4> QED BY <2>3, <3>1, SecretOfPlain
    <3>3. UserIn(got) \in {UserIn(uri)} \cup (IF uri.userinfo.present THEN {} ELSE {p.username})
      <4>1. CASE uri.userinfo.present
        BY <2>2, <3>1, <4>1 DEF UserIn
      <4>2. CASE ~uri.userinfo.present
        <5>1. uri.userinfo.name = Empty
          BY <1>1, <4>2 DEF NoUserinfo
        <5>2. user = p.username
          <6>1. user # None
            BY <2>2, <3>1, <4>2
          <6> QED BY <5>1, <6>1 DEF user, UserOf
        <5> QED BY <2>2, <3>1, <4>2, <5>2 DEF UserIn
      <4> QED BY <4>1, <4>2
    <3>4. SecretsIn(got) = {w}
      BY <2>8, <3>2
    <3>5. ASSUME p.password = None PROVE w \in SecretsIn(uri)
      <4>1. own = w
        BY <3>5
      <4>2. CASE uri.userinfo.password # None
        BY <2>4, <2>8, <4>1, <4>2 DEF SecretsIn
      <4>3. CASE uri.userinfo.password = None
        <5>1. PICK i \in Given(uri) : own = uri.query[i].value
          BY <2>4, <2>8, <4>1, <4>3
        <5> QED BY <2>8, <4>1, <5>1 DEF Given, SecretsIn
      <4> QED BY <4>2, <4>3
    <3>6. ASSUME p.password = None, uri.userinfo.password \in Secrets PROVE w = uri.userinfo.password
      BY <2>4, <3>6, SecretsAssumption
    <3>7. p.password # None => w = a /\ a # Empty
      BY <2>8
    <3>8. Told(uri) = PlainParams(uri.query)
      BY DEF Told
    <3> HIDE DEF w
    <3> QED BY <3>2, <3>3, <3>4, <3>5, <3>6, <3>7, <3>8 DEF Says
  <2> QED BY <2>7, <2>8
<1> QED BY <1>2, <1>3

\* Until it has settled resolve() has nothing to show; what it asks has given what it gives now,
\* and a password that stands in the file is there.
AskingInv ==
    /\ resolving # "settled" => outcome.state = "error"
    /\ resolving = "asking" => Accepted(raw) /\ raw.password # None /\ keeper.holds \in offered
    /\ raw.password = "literal" => keeper.holds # None

CredentialsInv == CredentialsTypeOK /\ AskingInv /\ ConnectsAsConfigured

\* What resolve() returns, given that the password comes from what its source has offered.
LEMMA SettlesAsConfigured ==
  ASSUME raw \in RawProfiles, Accepted(raw), NEW a,
         raw.password # None => a # None /\ a \in offered',
         outcome' = Assembled(raw, a), raw' = raw
  PROVE  ConnectsAsConfigured' /\ outcome'.state \in {"error", "connects"}
<1>1. \/ outcome'.state = "error"
      \/ \E got : outcome' = Connects(got)
  <2> DEFINE s == StripCredential(raw.uri).uri
             w == IF raw.password # None THEN a ELSE StripCredential(raw.uri).password
             user == UserOf(raw)
  <2>1. outcome' = IF raw.uri = NoAddress THEN Connects(NoAddress) ELSE InjectCredentials(s, w, user)
    BY DEF Assembled
  <2> HIDE DEF s, w, user
  <2>2. \/ InjectCredentials(s, w, user) = Failed("no username")
        \/ \E got : InjectCredentials(s, w, user) = Connects(got)
    BY DEF InjectCredentials
  <2>3. Failed("no username").state = "error"
    BY DEF Failed
  <2> QED BY <2>1, <2>2, <2>3
<1>2. ASSUME NEW got, outcome' = Connects(got)
      PROVE  ConnectsAsConfigured' /\ outcome'.state = "connects"
  <2>1. outcome'.uri = got /\ outcome'.state = "connects"
    BY <1>2 DEF Connects
  <2>2. Says(raw, a, got)
    BY <1>2, AssembledSays
  <2> DEFINE safe == StripCredential(raw.uri).uri
  <2>3. SecretsIn(safe) = {} /\ UserIn(safe) = UserIn(raw.uri) /\ Told(safe) = Told(raw.uri)
    BY AddressOf, SafeToLog
  <2>4. raw.password # None => \E held \in offered' \ {None} : SecretsIn(got) = {held} \ {Empty}
    BY <2>2 DEF Says
  <2> HIDE DEF safe
  <2>5. /\ UserIn(got) \in {UserIn(raw.uri)} \cup (IF raw.uri.userinfo.present THEN {}
                                                  ELSE {raw.username})
        /\ Told(got) = Told(raw.uri)
        /\ \A i \in DOMAIN got.query : ~IsSecretParam(got.query[i])
        /\ raw.password = None =>
             /\ SecretsIn(got) \subseteq SecretsIn(raw.uri)
             /\ SecretsIn(raw.uri) # {} /\ ~GivesEmpty(raw.uri) => SecretsIn(got) # {}
             /\ raw.uri.userinfo.password \in Secrets
                   => SecretsIn(got) = {raw.uri.userinfo.password}
    BY <2>2 DEF Says
  <2> QED BY <2>1, <2>3, <2>4, <2>5 DEF ConnectsAsConfigured, safe
<1>3. ASSUME outcome'.state = "error" PROVE ConnectsAsConfigured'
  BY <1>3 DEF ConnectsAsConfigured
<1> QED BY <1>1, <1>2, <1>3

LEMMA CredentialsStep == CredentialsInv /\ [CredentialsNext]_credentialVars => CredentialsInv'
<1> SUFFICES ASSUME CredentialsInv, [CredentialsNext]_credentialVars PROVE CredentialsInv'
  OBVIOUS
<1>0. raw \in RawProfiles /\ keeper.holds \in Secrets \cup {None, Empty}
  BY DEF CredentialsInv, CredentialsTypeOK
<1>1. CASE Resolve
  <2>1. UNCHANGED <<raw, keeper>> /\ resolving = "idle" /\ outcome.state = "error"
    BY <1>1 DEF Resolve, CredentialsInv, AskingInv
  <2>2. CASE ~Accepted(raw)
    <3>1. resolving' = "settled" /\ outcome' = Failed("invalid") /\ offered' = offered
      BY <1>1, <2>2 DEF Resolve
    <3>2. outcome'.state = "error"
      BY <3>1 DEF Failed
    <3> QED BY <2>1, <3>1, <3>2
            DEF CredentialsInv, CredentialsTypeOK, AskingInv, ConnectsAsConfigured
  <2>3. CASE Accepted(raw) /\ raw.password = None
    <3>1. resolving' = "settled" /\ outcome' = Assembled(raw, None) /\ offered' = offered
      BY <1>1, <2>3 DEF Resolve
    <3>2. ConnectsAsConfigured' /\ outcome'.state \in {"error", "connects"}
      BY <1>0, <2>1, <2>3, <3>1, SettlesAsConfigured
    <3> QED BY <2>1, <2>3, <3>1, <3>2 DEF CredentialsInv, CredentialsTypeOK, AskingInv
  <2>4. CASE Accepted(raw) /\ raw.password # None
    <3>1. resolving' = "asking" /\ offered' = {keeper.holds} /\ outcome' = outcome
      BY <1>1, <2>4 DEF Resolve
    <3> QED BY <1>0, <2>1, <2>4, <3>1
            DEF CredentialsInv, CredentialsTypeOK, AskingInv, ConnectsAsConfigured
  <2> QED BY <2>2, <2>3, <2>4
<1>2. CASE SourceChanges
  <2>1. PICK held \in Secrets \cup {None, Empty} :
               /\ keeper' = [keeper EXCEPT !.holds = held]
               /\ offered' = offered \cup {held}
    BY <1>2 DEF SourceChanges
  <2>2. keeper'.holds = held
        /\ keeper' \in [holds : Secrets \cup {None, Empty}, reader : {"provider", "command", None}]
    BY <2>1 DEF CredentialsInv, CredentialsTypeOK
  <2>3. resolving = "asking" /\ raw.password # "literal" /\ UNCHANGED <<raw, resolving, outcome>>
        /\ outcome.state = "error"
    BY <1>2 DEF SourceChanges, CredentialsInv, AskingInv
  <2> QED BY <2>1, <2>2, <2>3
          DEF CredentialsInv, CredentialsTypeOK, AskingInv, ConnectsAsConfigured
<1>3. CASE SourceAnswers
  <2>1. /\ resolving = "asking" /\ resolving' = "settled" /\ UNCHANGED <<raw, keeper, offered>>
        /\ Accepted(raw) /\ raw.password # None /\ keeper.holds \in offered
    BY <1>3 DEF SourceAnswers, CredentialsInv, AskingInv
  <2>2. CASE SourceFails(raw.password, keeper)
    <3>1. outcome' = Failed("source")
      BY <1>3, <2>2 DEF SourceAnswers
    <3>2. outcome'.state = "error"
      BY <3>1 DEF Failed
    <3> QED BY <2>1, <3>2 DEF CredentialsInv, CredentialsTypeOK, AskingInv, ConnectsAsConfigured
  <2>3. CASE ~SourceFails(raw.password, keeper)
    <3>1. outcome' = Assembled(raw, keeper.holds)
      BY <1>3, <2>3 DEF SourceAnswers
    <3>2. keeper.holds # None
      BY <2>3 DEF SourceFails, CredentialsInv, AskingInv
    <3>3. ConnectsAsConfigured' /\ outcome'.state \in {"error", "connects"}
      BY <1>0, <2>1, <3>1, <3>2, SettlesAsConfigured
    <3> QED BY <2>1, <3>3 DEF CredentialsInv, CredentialsTypeOK, AskingInv
  <2> QED BY <2>2, <2>3
<1>4. CASE UNCHANGED credentialVars
  BY <1>4 DEF credentialVars, CredentialsInv, CredentialsTypeOK, AskingInv, ConnectsAsConfigured
<1> QED BY <1>1, <1>2, <1>3, <1>4 DEF CredentialsNext

LEMMA CredentialsBegin == CredentialsInit => CredentialsInv
<1> SUFFICES ASSUME CredentialsInit PROVE CredentialsInv
  OBVIOUS
<1>1. outcome.state = "error"
  BY DEF CredentialsInit, Failed
<1> QED BY <1>1 DEF CredentialsInit, CredentialsInv, CredentialsTypeOK, AskingInv, ConnectsAsConfigured

\* resolve(): a connection string that is put together has the user and the options its profile
\* names, the password its source gave while it was asked, and no other secret; for any connection
\* string and any change of the source meanwhile (profiles.js).
THEOREM ConnectsAsConfiguredCorrect == CredentialsSpec => []ConnectsAsConfigured
<1>1. CredentialsInv => ConnectsAsConfigured
  BY DEF CredentialsInv
<1> QED BY <1>1, CredentialsBegin, CredentialsStep, PTL DEF CredentialsSpec

-----------------------------------------------------------------------------
(* Results *)

\* The bytes of the first rows: nothing of none, and more with each.
LEMMA RowsAdd ==
  ASSUME payload.sizes \in Seq(Nat)
  PROVE  /\ Count \in Nat
         /\ RowsSize(0) = 0
         /\ \A i \in 1 .. Count : RowsSize(i) = RowsSize(i - 1) + payload.sizes[i]
         /\ \A i \in 0 .. Count : RowsSize(i) \in Nat
<1> DEFINE F(g) == [i \in 0 .. Count |-> IF i = 0 THEN 0 ELSE g[i - 1] + payload.sizes[i]]
           f == CHOOSE g : g = F(g)
           G == [i \in 1 .. Count |-> [x \in Nat |-> x + payload.sizes[i]]]
<1>1. Count \in Nat /\ \A i \in 1 .. Count : payload.sizes[i] \in Nat
  BY DEF Count
<1>2. G \in [1 .. Count -> [Nat -> Nat]]
  BY <1>1
<1>3. PICK h \in [0 .. Count -> Nat] : Steps(h, Count, 0, G)
  <2> HIDE DEF G
  <2> QED BY <1>1, <1>2, StepsExist
<1>4. \A i \in 1 .. Count : h[i - 1] \in Nat
  BY <1>1
<1>5. \A i \in 1 .. Count : G[i][h[i - 1]] = h[i - 1] + payload.sizes[i]
  BY <1>4
<1>6. h = F(h)
  <2> HIDE DEF G
  <2>1. ASSUME NEW i \in 0 .. Count PROVE h[i] = IF i = 0 THEN 0 ELSE h[i - 1] + payload.sizes[i]
    <3>1. h[i] = IF i = 0 THEN 0 ELSE G[i][h[i - 1]]
      BY <1>3 DEF Steps
    <3>2. i # 0 => i \in 1 .. Count
      BY <1>1
    <3> QED BY <1>5, <3>1, <3>2
  <2>2. h = [i \in 0 .. Count |-> h[i]]
    OBVIOUS
  <2> QED BY <2>1, <2>2
<1>7. f = F(f)
  <2> HIDE DEF F
  <2> QED BY <1>6
<1>8. \A k : RowsSize(k) = f[k]
  BY DEF RowsSize
<1>9. /\ f[0] = 0
      /\ \A i \in 1 .. Count : f[i] = f[i - 1] + payload.sizes[i]
  <2> HIDE DEF f
  <2>1. \A i \in 0 .. Count : f[i] = IF i = 0 THEN 0 ELSE f[i - 1] + payload.sizes[i]
    BY <1>7
  <2> QED BY <1>1, <2>1
<1> HIDE DEF f
<1>10. \A i \in 0 .. Count : f[i] \in Nat
  <2> DEFINE S == {i \in 0 .. Count : f[i] \in Nat}
  <2>1. 0 \in S
    BY <1>1, <1>9
  <2>2. ASSUME NEW i \in 1 .. Count, i - 1 \in S PROVE i \in S
    <3>1. f[i - 1] \in Nat /\ payload.sizes[i] \in Nat /\ i \in 0 .. Count
      BY <1>1, <2>2
    <3> QED BY <1>9, <3>1
  <2> HIDE DEF S
  <2>3. \A i \in 0 .. Count : i \in S
    BY <1>1, <2>1, <2>2, UpTo
  <2> QED BY <2>3 DEF S
<1> QED BY <1>1, <1>8, <1>9, <1>10

LEMMA JsonSizes ==
  ASSUME payload.sizes \in Seq(Nat)
  PROVE  \A n \in 0 .. Count : /\ JsonSize(n) \in Nat /\ RowsSize(n) \in Nat
                               /\ n # 0 => RowsSize(n) + n - 1 <= JsonSize(n)
<1> SUFFICES ASSUME NEW n \in 0 .. Count
             PROVE  /\ JsonSize(n) \in Nat /\ RowsSize(n) \in Nat
                    /\ n # 0 => RowsSize(n) + n - 1 <= JsonSize(n)
  OBVIOUS
<1>1. RowsSize(n) \in Nat /\ n \in Nat
  BY RowsAdd
<1> QED BY <1>1 DEF JsonSize

\* A row that is not kept is past a limit.
LeavesOut(n) == n > limits.maxRows \/ JsonSize(n) > limits.maxBytes

\* As many rows as maxRows lets pass.
Passing == IF payload.array /\ Count > limits.maxRows THEN limits.maxRows ELSE Count

\* A cut is counted and has the reason of the limit that made it; rows are cut as far as a limit
\* asks and no further, and so is a value; a text that can carry no note leaves nothing out.
ClampInv ==
    /\ kept + dropped = Count + payload.left
    /\ step = "clamp" => kept = Count
    /\ reason = IF kept < Passing THEN "maxBytes"
                ELSE IF kept < Count /\ step # "clamp" THEN "maxRows" ELSE "none"
    /\ step = "bytes" => payload.array
    /\ (payload.array /\ step # "clamp") =>
          kept <= limits.maxRows /\ \A n \in kept + 1 .. Count : LeavesOut(n)
    /\ (payload.array /\ step \notin {"clamp", "bytes"}) =>
          kept = 0 \/ JsonSize(kept) <= limits.maxBytes
    /\ (~payload.array /\ step # "clamp") =>
          kept = IF RowsSize(1) > limits.maxBytes THEN 0 ELSE Count

TextInv ==
    /\ step \in {"clamp", "bytes", "enveloped"} => shown = 0
    /\ step = "rendering" => payload.array
    /\ (step \in {"rendering", "rendered"} /\ limits.format \in {"json", "jsonl"} /\ kept > 0
          /\ limits.budget \in {0, limits.maxBytes}) => shown = kept
    /\ (step = "rendered" /\ payload.array) => shown = 0 \/ Fits(shown)

GivenLimits ==
    /\ payload \in Payloads
    /\ limits \in [maxRows : RowLimits, maxBytes : ByteLimits, format : Formats,
                   budget : {0} \cup ByteLimits]

LimitsInv == GivenLimits /\ LimitsTypeOK /\ ClampInv /\ TextInv

LEMMA GivenFacts ==
  ASSUME GivenLimits
  PROVE  /\ payload.sizes \in Seq(Nat) /\ Count \in Nat /\ payload.left \in Nat
         /\ payload.array \in BOOLEAN /\ payload.marked \in BOOLEAN
         /\ ~payload.array => Count = 1
         /\ limits.maxRows \in Nat \ {0} /\ limits.maxBytes \in Nat \ {0}
         /\ limits.format \in Formats /\ limits.budget \in Nat
<1>1. /\ limits.maxRows \in RowLimits /\ limits.maxBytes \in ByteLimits
      /\ limits.format \in Formats /\ limits.budget \in {0} \cup ByteLimits
  BY DEF GivenLimits
<1>2. /\ payload.sizes \in Seq(Nat) /\ payload.left \in Nat
      /\ payload.array \in BOOLEAN /\ payload.marked \in BOOLEAN
      /\ ~payload.array => Len(payload.sizes) = 1
  BY PayloadsAssumption DEF GivenLimits
<1>3. /\ limits.maxRows \in Nat \ {0} /\ limits.maxBytes \in Nat \ {0}
      /\ limits.budget \in Nat
  <2>1. RowLimits \subseteq Nat \ {0} /\ ByteLimits \subseteq Nat \ {0}
    BY LimitsAssumption
  <2>2. limits.maxRows \in Nat \ {0}
    BY <1>1, <2>1
  <2>3. limits.maxBytes \in Nat \ {0}
    BY <1>1, <2>1
  <2>4. limits.budget \in Nat
    <3> DEFINE b == limits.budget
    <3>1. b = 0 \/ b \in ByteLimits
      BY <1>1
    <3> HIDE DEF b
    <3>2. ASSUME b = 0 PROVE b \in Nat
      BY <3>2
    <3>3. ASSUME b \in ByteLimits PROVE b \in Nat
      BY <2>1, <3>3
    <3> QED BY <3>1, <3>2, <3>3 DEF b
  <2> QED BY <2>2, <2>3, <2>4
<1>4. Count \in Nat /\ (~payload.array => Count = 1)
  BY <1>2 DEF Count
<1> QED BY <1>1, <1>2, <1>3, <1>4

LEMMA QuarterOf ==
  ASSUME NEW s \in Nat \ {0}
  PROVE  s - (s + 3) \div 4 \in 0 .. s
OBVIOUS

LEMMA LimitsStep == LimitsInv /\ [LimitsNext]_limitVars => LimitsInv'
<1> SUFFICES ASSUME LimitsInv, [LimitsNext]_limitVars PROVE LimitsInv'
  OBVIOUS
<1>0. /\ payload.sizes \in Seq(Nat) /\ Count \in Nat /\ payload.left \in Nat
      /\ payload.array \in BOOLEAN /\ payload.marked \in BOOLEAN
      /\ ~payload.array => Count = 1
      /\ limits.maxRows \in Nat \ {0} /\ limits.maxBytes \in Nat \ {0}
      /\ limits.format \in Formats /\ limits.budget \in Nat
  BY GivenFacts DEF LimitsInv
<1>t. kept \in 0 .. Count /\ shown \in 0 .. kept /\ dropped \in Nat /\ kept \in Nat /\ shown \in Nat
  BY <1>0 DEF LimitsInv, LimitsTypeOK
<1>s. payload' = payload /\ limits' = limits
  BY DEF LimitsNext, ClampValue, ClampRows, DropLast, Envelope, StartRendering, ShowFewer, Rendered,
         limitVars
<1>u. /\ Count' = Count /\ GivenLimits' /\ \A n : JsonSize(n)' = JsonSize(n)
      /\ \A n : RowsSize(n)' = RowsSize(n)
      /\ \A n : LeavesOut(n)' = LeavesOut(n) /\ Passing' = Passing
  BY <1>s DEF Count, GivenLimits, JsonSize, RowsSize, LeavesOut, LimitsInv, Passing
<1>p. /\ Passing \in 0 .. Count /\ Passing \in Nat
      /\ ~payload.array => Passing = Count
      /\ (payload.array /\ Count > limits.maxRows) => Passing = limits.maxRows
      /\ (payload.array /\ Count <= limits.maxRows) => Passing = Count
  BY <1>0 DEF Passing
<1>1. CASE ClampValue
  <2>1. /\ step = "clamp" /\ ~payload.array /\ step' = "enveloped" /\ kept = 1 /\ reason = "none"
        /\ shown' = shown /\ Count = 1 /\ Passing = 1
    BY <1>0, <1>t, <1>p, <1>1 DEF ClampValue, LimitsInv, ClampInv
  <2>2. CASE RowsSize(1) > limits.maxBytes
    <3>1. kept' = 0 /\ dropped' = dropped + 1 /\ reason' = "maxBytes"
      BY <1>1, <2>2 DEF ClampValue
    <3> QED BY <1>0, <1>t, <1>s, <1>u, <1>p, <2>1, <2>2, <3>1
            DEF LimitsInv, LimitsTypeOK, ClampInv, TextInv
  <2>3. CASE ~(RowsSize(1) > limits.maxBytes)
    <3>1. UNCHANGED <<kept, dropped, reason>>
      BY <1>1, <2>3 DEF ClampValue
    <3> QED BY <1>0, <1>t, <1>s, <1>u, <1>p, <2>1, <2>3, <3>1
            DEF LimitsInv, LimitsTypeOK, ClampInv, TextInv
  <2> QED BY <2>2, <2>3
<1>2. CASE ClampRows
  <2>1. /\ step = "clamp" /\ payload.array /\ step' = "bytes" /\ kept = Count /\ reason = "none"
        /\ shown' = shown
    BY <1>0, <1>t, <1>p, <1>2 DEF ClampRows, LimitsInv, ClampInv
  <2>2. CASE kept > limits.maxRows
    <3>1. /\ kept' = limits.maxRows /\ dropped' = dropped + (kept - limits.maxRows)
          /\ reason' = "maxRows"
      BY <1>2, <2>2 DEF ClampRows
    <3>2. kept' = Passing /\ kept' < Count /\ kept' \in 0 .. Count /\ kept' > 0
      BY <1>0, <1>p, <2>1, <2>2, <3>1
    <3>3. \A n \in kept' + 1 .. Count : LeavesOut(n)
      BY <1>0, <3>1 DEF LeavesOut
    <3>4. kept' + dropped' = Count + payload.left /\ dropped' \in Nat
      BY <1>0, <1>t, <2>1, <2>2, <3>1 DEF LimitsInv, ClampInv
    <3>5. shown' = 0
      BY <2>1 DEF LimitsInv, TextInv
    <3>6. ClampInv'
      BY <1>0, <1>s, <1>u, <2>1, <3>1, <3>2, <3>3, <3>4 DEF ClampInv
    <3>7. TextInv'
      BY <2>1, <3>5 DEF TextInv
    <3>8. LimitsTypeOK'
      BY <1>u, <2>1, <3>1, <3>2, <3>4, <3>5 DEF LimitsTypeOK
    <3> QED BY <1>u, <3>6, <3>7, <3>8 DEF LimitsInv
  <2>3. CASE ~(kept > limits.maxRows)
    <3>1. UNCHANGED <<kept, dropped, reason>>
      BY <1>2, <2>3 DEF ClampRows
    <3> QED BY <1>0, <1>t, <1>s, <1>u, <1>p, <2>1, <2>3, <3>1
            DEF LimitsInv, LimitsTypeOK, ClampInv, TextInv, LeavesOut
  <2> QED BY <2>2, <2>3
<1>3. CASE DropLast
  <2>1. /\ step = "bytes" /\ kept > 0 /\ JsonSize(kept) > limits.maxBytes /\ step' = step
        /\ kept' = kept - 1 /\ dropped' = dropped + 1 /\ reason' = "maxBytes" /\ shown' = shown
        /\ payload.array /\ shown = 0 /\ kept <= limits.maxRows /\ LeavesOut(kept)
        /\ \A n \in kept + 1 .. Count : LeavesOut(n)
    BY <1>3 DEF DropLast, LimitsInv, ClampInv, TextInv, LeavesOut
  <2>2. kept' < Passing /\ kept' \in 0 .. Count
    BY <1>0, <1>t, <1>p, <2>1
  <2>3. \A n \in kept' + 1 .. Count : LeavesOut(n)
    BY <1>0, <1>t, <2>1
  <2> QED BY <1>0, <1>t, <1>s, <1>u, <1>p, <2>1, <2>2, <2>3
          DEF LimitsInv, LimitsTypeOK, ClampInv, TextInv
<1>4. CASE Envelope
  BY <1>0, <1>t, <1>s, <1>u, <1>4 DEF Envelope, LimitsInv, LimitsTypeOK, ClampInv, TextInv
<1>5. CASE StartRendering
  BY <1>0, <1>t, <1>s, <1>u, <1>5 DEF StartRendering, LimitsInv, LimitsTypeOK, ClampInv, TextInv
<1>6. CASE ShowFewer
  <2>1. /\ step = "rendering" /\ ~Fits(shown) /\ shown > 0 /\ payload.array
        /\ shown' = shown - (shown + 3) \div 4
        /\ UNCHANGED <<step, kept, dropped, reason>>
    BY <1>6 DEF ShowFewer, LimitsInv, TextInv
  <2>2. shown' \in 0 .. kept
    <3>1. shown' \in 0 .. shown
      BY <1>t, <2>1, QuarterOf
    <3> QED BY <1>t, <3>1
  <2>3. ASSUME limits.format \in {"json", "jsonl"}, kept > 0, limits.budget \in {0, limits.maxBytes}
        PROVE  FALSE
    <3>1. shown = kept /\ JsonSize(kept) <= limits.maxBytes
      BY <1>0, <1>t, <2>1, <2>3 DEF LimitsInv, TextInv, ClampInv
    <3>2. TextSize(kept) <= JsonSize(kept)
      BY <1>0, <1>t, <2>3, JsonSizes DEF TextSize
    <3>3. Fits(kept)
      <4>1. TextSize(kept) \in Nat /\ JsonSize(kept) \in Nat
        BY <1>0, <1>t, <2>3, JsonSizes DEF TextSize
      <4> QED BY <1>0, <2>3, <3>1, <3>2, <4>1 DEF Fits
    <3> QED BY <2>1, <3>1, <3>3
  <2>4. ClampInv'
    BY <1>0, <1>s, <1>u, <2>1 DEF LimitsInv, ClampInv
  <2>5. TextInv'
    BY <1>s, <2>1, <2>3 DEF TextInv
  <2> QED BY <1>t, <1>u, <2>1, <2>2, <2>4, <2>5 DEF LimitsInv, LimitsTypeOK
<1>7. CASE Rendered
  <2>1. /\ step = "rendering" /\ (Fits(shown) \/ shown = 0) /\ payload.array /\ step' = "rendered"
        /\ UNCHANGED <<payload, limits, kept, dropped, reason, shown>>
    BY <1>7 DEF Rendered, LimitsInv, TextInv
  <2>2. Fits(shown)' <=> Fits(shown)
    BY <1>u, <2>1 DEF Fits, TextSize
  <2>3. ClampInv'
    BY <1>0, <1>s, <1>u, <2>1 DEF LimitsInv, ClampInv
  <2>4. TextInv'
    BY <1>s, <2>1, <2>2 DEF TextInv, LimitsInv
  <2> QED BY <1>t, <1>u, <2>1, <2>3, <2>4 DEF LimitsInv, LimitsTypeOK
<1>8. CASE UNCHANGED limitVars
  BY <1>8, <1>u DEF limitVars, LimitsInv, LimitsTypeOK, ClampInv, TextInv, Fits, TextSize
<1> QED BY <1>1, <1>2, <1>3, <1>4, <1>5, <1>6, <1>7, <1>8 DEF LimitsNext

LEMMA LimitsBegin == LimitsInit => LimitsInv
<1> SUFFICES ASSUME LimitsInit PROVE LimitsInv
  OBVIOUS
<1>1. GivenLimits
  BY DEF LimitsInit, GivenLimits
<1>2. payload.left \in Nat /\ Count \in Nat /\ kept = Count
  BY <1>1, GivenFacts DEF LimitsInit, Count
<1>3. ~(kept < Passing) /\ ~(kept < Count)
  BY <1>1, <1>2, GivenFacts DEF Passing
<1> QED BY <1>1, <1>2, <1>3 DEF LimitsInit, LimitsInv, LimitsTypeOK, ClampInv, TextInv

LEMMA LimitsInvariant == LimitsSpec => []LimitsInv
  BY LimitsBegin, LimitsStep, PTL DEF LimitsSpec

LEMMA InvIsHonestResult == LimitsInv => ResultsAreHonest
<1> SUFFICES ASSUME LimitsInv PROVE EnvelopeIsLongestPrefix /\ TextHidesNothing
  BY DEF ResultsAreHonest
<1>0. /\ payload.sizes \in Seq(Nat) /\ Count \in Nat /\ payload.left \in Nat
      /\ payload.array \in BOOLEAN /\ payload.marked \in BOOLEAN
      /\ ~payload.array => Count = 1
      /\ limits.maxRows \in Nat \ {0} /\ limits.maxBytes \in Nat \ {0}
      /\ limits.format \in Formats /\ limits.budget \in Nat
  BY GivenFacts DEF LimitsInv
<1>1. kept \in 0 .. Count /\ dropped \in Nat /\ kept \in Nat
  BY <1>0 DEF LimitsInv, LimitsTypeOK
<1>2. ASSUME step \in {"enveloped", "rendering", "rendered"}
      PROVE  LET Size(n) == IF payload.array THEN JsonSize(n) ELSE RowsSize(n)
                 InRows(n) == payload.array => n <= limits.maxRows
                 Allowed(n) == n = 0 \/ (InRows(n) /\ Size(n) <= limits.maxBytes)
             IN  /\ Allowed(kept)
                 /\ \A n \in kept + 1 .. Count : ~Allowed(n)
                 /\ kept + dropped = Count + payload.left
                 /\ Truncated <=> \/ kept < Count \/ payload.marked
                                  \/ payload.array /\ payload.left > 0
                 /\ EnvelopeReason =
                       IF kept < Count
                       THEN IF \E n \in kept + 1 .. Count : InRows(n) THEN "maxBytes" ELSE "maxRows"
                       ELSE IF payload.marked THEN payload.why ELSE "none"
  <2> DEFINE Size(n) == IF payload.array THEN JsonSize(n) ELSE RowsSize(n)
             InRows(n) == payload.array => n <= limits.maxRows
             Allowed(n) == n = 0 \/ (InRows(n) /\ Size(n) <= limits.maxBytes)
  <2>1. Allowed(kept)
    <3>1. CASE payload.array
      BY <1>0, <1>1, <1>2, <3>1 DEF LimitsInv, ClampInv
    <3>2. CASE ~payload.array
      BY <1>0, <1>1, <1>2, <3>2, JsonSizes DEF LimitsInv, ClampInv
    <3> QED BY <3>1, <3>2
  <2>2. ASSUME NEW n \in kept + 1 .. Count PROVE ~Allowed(n)
    <3>1. n \in 0 .. Count /\ n # 0 /\ JsonSize(n) \in Nat
      BY <1>0, <1>1, JsonSizes
    <3>2. CASE payload.array
      BY <1>0, <1>2, <3>1, <3>2 DEF LimitsInv, ClampInv, LeavesOut
    <3>3. CASE ~payload.array
      <4>1. n = 1 /\ 1 \in 0 .. Count /\ RowsSize(1) \in Nat
        BY <1>0, <3>1, <3>3, JsonSizes
      <4> QED BY <1>0, <1>1, <1>2, <3>1, <3>3, <4>1 DEF LimitsInv, ClampInv
    <3> QED BY <3>2, <3>3
  <2>3. kept + dropped = Count + payload.left
    BY DEF LimitsInv, ClampInv
  <2>4. dropped > 0 <=> (kept < Count \/ payload.left > 0)
    BY <1>0, <1>1, <2>3
  <2>5. Passing \in 0 .. Count /\ (~payload.array => Passing = Count)
    BY <1>0 DEF Passing
  <2>6. reason # "none" <=> kept < Count
    BY <1>0, <1>1, <1>2, <2>5 DEF LimitsInv, ClampInv
  <2>7. Truncated <=> \/ kept < Count \/ payload.marked
                      \/ payload.array /\ payload.left > 0
    BY <1>0, <2>4, <2>6 DEF Truncated
  \* A row is left out of those that pass exactly when some row that is left out passes.
  <2>8. kept < Passing <=> \E n \in kept + 1 .. Count : InRows(n)
    <3>1. ASSUME kept < Passing PROVE \E n \in kept + 1 .. Count : InRows(n)
      <4>1. Passing \in kept + 1 .. Count /\ InRows(Passing)
        BY <1>0, <1>1, <2>5, <3>1 DEF Passing
      <4> QED BY <4>1
    <3>2. ASSUME NEW n \in kept + 1 .. Count, InRows(n) PROVE kept < Passing
      BY <1>0, <1>1, <3>2 DEF Passing
    <3> QED BY <3>1, <3>2
  <2>9. EnvelopeReason =
          IF kept < Count
          THEN IF \E n \in kept + 1 .. Count : InRows(n) THEN "maxBytes" ELSE "maxRows"
          ELSE IF payload.marked THEN payload.why ELSE "none"
    <3>1. CASE kept < Count
      <4>1. EnvelopeReason = reason
        BY <2>6, <2>7, <3>1 DEF EnvelopeReason, LimitReason
      <4>2. reason = IF kept < Passing THEN "maxBytes" ELSE "maxRows"
        BY <1>2, <3>1 DEF LimitsInv, ClampInv
      <4> QED BY <2>8, <3>1, <4>1, <4>2
    <3>2. CASE ~(kept < Count)
      BY <2>6, <2>7, <3>2 DEF EnvelopeReason, LimitReason
    <3> QED BY <3>1, <3>2
  <2> QED BY <2>1, <2>2, <2>3, <2>7, <2>9
<1>3. TextHidesNothing
  BY DEF TextHidesNothing, LimitsInv, TextInv
<1> QED BY <1>2, <1>3 DEF EnvelopeIsLongestPrefix

\* clampResult() keeps the longest prefix of the rows that both limits allow, counts what it
\* leaves out and names the limit that cut last; the adapter's own cut stands, with the reason the
\* adapter gave or with none.  formatRows() renders all that was kept where the text has no room
\* for a note, and no more than fits.  Whatever the limits, the rows and the marks
\* (result-limits.js).
THEOREM ResultsAreHonestCorrect == LimitsSpec => []ResultsAreHonest
BY LimitsInvariant, InvIsHonestResult, PTL

-----------------------------------------------------------------------------
(* The walk: places in the text *)

Places == Seq(Nat)

\* p is above q; p branches off before q; p comes before q.
Pre(p, q) == Len(p) < Len(q) /\ \A k \in 1 .. Len(p) : p[k] = q[k]
Div(p, q) == \E i \in 1 .. Len(p) : /\ i <= Len(q) /\ p[i] < q[i]
                                    /\ \A k \in 1 .. i - 1 : p[k] = q[k]
Follows(p, q) == Pre(p, q) \/ Div(p, q)

LEMMA AppendPlace ==
  ASSUME NEW p \in Places, NEW i \in Nat
  PROVE  /\ Append(p, i) \in Places /\ Len(Append(p, i)) = Len(p) + 1 /\ Len(p) \in Nat
         /\ \A k \in 1 .. Len(p) : Append(p, i)[k] = p[k]
         /\ Append(p, i)[Len(p) + 1] = i
BY DEF Places

LEMMA PlaceIsNat ==
  ASSUME NEW p \in Places
  PROVE  Len(p) \in Nat /\ \A k \in 1 .. Len(p) : p[k] \in Nat
BY DEF Places

LEMMA PreAppend ==
  ASSUME NEW p \in Places, NEW q \in Places, NEW i \in Nat
  PROVE  /\ Pre(p, Append(p, i))
         /\ Pre(p, q) => Pre(p, Append(q, i))
         /\ Pre(q, Append(p, i)) => q = p \/ Pre(q, p)
<1>1. /\ Len(p) \in Nat /\ Len(q) \in Nat
      /\ Len(Append(p, i)) = Len(p) + 1 /\ \A k \in 1 .. Len(p) : Append(p, i)[k] = p[k]
      /\ Len(Append(q, i)) = Len(q) + 1 /\ \A k \in 1 .. Len(q) : Append(q, i)[k] = q[k]
  BY AppendPlace
<1> DEFINE pi == Append(p, i)
           qi == Append(q, i)
<1> HIDE DEF pi, qi
<1>2. Pre(p, pi)
  BY <1>1 DEF Pre, pi
<1>3. Pre(p, q) => Pre(p, qi)
  BY <1>1 DEF Pre, qi
<1>4. ASSUME Pre(q, pi) PROVE q = p \/ Pre(q, p)
  <2>1. Len(q) <= Len(p) /\ \A k \in 1 .. Len(q) : q[k] = p[k]
    BY <1>1, <1>4 DEF Pre, pi
  <2>2. CASE Len(q) = Len(p)
    <3>1. \A k \in 1 .. Len(p) : q[k] = p[k]
      BY <2>1, <2>2
    <3>2. q = p
      BY <2>2, <3>1 DEF Places
    <3> QED BY <3>2
  <2>3. CASE Len(q) # Len(p)
    BY <1>1, <2>1, <2>3 DEF Pre
  <2> QED BY <2>2, <2>3
<1> QED BY <1>2, <1>3, <1>4 DEF pi, qi

LEMMA DivAppend ==
  ASSUME NEW p \in Places, NEW q \in Places, NEW i \in Nat, Div(p, q)
  PROVE  Div(Append(p, i), q) /\ Div(p, Append(q, i))
<1>1. /\ Len(p) \in Nat /\ Len(q) \in Nat
      /\ Len(Append(p, i)) = Len(p) + 1 /\ \A k \in 1 .. Len(p) : Append(p, i)[k] = p[k]
      /\ Len(Append(q, i)) = Len(q) + 1 /\ \A k \in 1 .. Len(q) : Append(q, i)[k] = q[k]
  BY AppendPlace
<1> DEFINE pi == Append(p, i)
           qi == Append(q, i)
<1> HIDE DEF pi, qi
<1>2. PICK j \in 1 .. Len(p) : /\ j <= Len(q) /\ p[j] < q[j]
                               /\ \A k \in 1 .. j - 1 : p[k] = q[k]
  BY DEF Div
<1>3. j \in 1 .. Len(q) /\ \A k \in 1 .. j - 1 : k \in 1 .. Len(p) /\ k \in 1 .. Len(q)
  BY <1>1, <1>2
<1>4. Div(pi, q)
  <2>1. j \in 1 .. Len(pi) /\ pi[j] = p[j] /\ \A k \in 1 .. j - 1 : pi[k] = p[k]
    BY <1>1, <1>3 DEF pi
  <2> QED BY <1>2, <2>1 DEF Div
<1>5. Div(p, qi)
  <2>1. j <= Len(qi) /\ qi[j] = q[j] /\ \A k \in 1 .. j - 1 : qi[k] = q[k]
    BY <1>1, <1>3 DEF qi
  <2> QED BY <1>2, <2>1 DEF Div
<1> QED BY <1>4, <1>5 DEF pi, qi

LEMMA Siblings ==
  ASSUME NEW p \in Places, NEW i \in Nat, NEW j \in Nat, i < j
  PROVE  Div(Append(p, i), Append(p, j))
<1> DEFINE a == Append(p, i)
           b == Append(p, j)
           m == Len(p) + 1
<1>1. /\ Len(p) \in Nat /\ Len(a) = m /\ Len(b) = m /\ a[m] = i /\ b[m] = j
      /\ \A k \in 1 .. Len(p) : a[k] = p[k] /\ b[k] = p[k]
  BY AppendPlace
<1> HIDE DEF a, b
<1>2. m \in 1 .. Len(a) /\ m <= Len(b) /\ a[m] < b[m] /\ \A k \in 1 .. m - 1 : a[k] = b[k]
  BY <1>1
<1> QED BY <1>2 DEF Div, a, b

\* What comes before is neither the same, nor below.
LEMMA PreExcludes ==
  ASSUME NEW p \in Places, NEW q \in Places, Pre(p, q)
  PROVE  p # q /\ ~Pre(q, p)
BY PlaceIsNat DEF Pre

LEMMA DivExcludes ==
  ASSUME NEW p \in Places, NEW q \in Places, Div(p, q)
  PROVE  p # q /\ ~Pre(p, q) /\ ~Pre(q, p)
<1>1. PICK j \in 1 .. Len(p) : j <= Len(q) /\ p[j] < q[j]
  BY DEF Div
<1>2. Len(p) \in Nat /\ Len(q) \in Nat /\ p[j] \in Nat /\ j \in 1 .. Len(q) /\ q[j] \in Nat
  BY <1>1, PlaceIsNat
<1>3. p[j] # q[j]
  BY <1>1, <1>2
<1> QED BY <1>1, <1>2, <1>3 DEF Pre

LEMMA PreIsPrefix ==
  ASSUME NEW p \in Places, NEW q \in Places
  PROVE  IsStrictPrefix(p, q) <=> Pre(p, q)
<1>1. Len(p) \in Nat /\ Len(q) \in Nat
  BY PlaceIsNat
<1>2. ASSUME Pre(p, q) PROVE IsStrictPrefix(p, q)
  <2>1. SubSeq(p, 1, Len(p)) = SubSeq(q, 1, Len(p))
    BY <1>1, <1>2 DEF Pre, Places
  <2> QED BY <1>1, <1>2, <2>1 DEF Pre, IsStrictPrefix, IsPrefix
<1>3. ASSUME IsStrictPrefix(p, q) PROVE Pre(p, q)
  <2>1. Len(p) <= Len(q) /\ SubSeq(p, 1, Len(p)) = SubSeq(q, 1, Len(p)) /\ p # q
    BY <1>3 DEF IsStrictPrefix, IsPrefix
  <2>2. \A k \in 1 .. Len(p) : p[k] = q[k]
    <3>1. \A k \in 1 .. Len(p) : SubSeq(p, 1, Len(p))[k] = p[k] /\ SubSeq(q, 1, Len(p))[k] = q[k]
      BY <1>1, <2>1 DEF Places
    <3> QED BY <2>1, <3>1
  <2>3. Len(p) # Len(q)
    BY <2>1, <2>2 DEF Places
  <2> QED BY <1>1, <2>1, <2>2, <2>3 DEF Pre
<1> QED BY <1>2, <1>3

LEMMA FollowsIsBefore ==
  ASSUME NEW p \in Places, NEW q \in Places, Follows(p, q)
  PROVE  Before(p, q)
<1>1. CASE Pre(p, q)
  BY <1>1, PreIsPrefix DEF Before
<1>2. CASE Div(p, q)
  <2>1. PICK i \in 1 .. Len(p) : /\ i <= Len(q) /\ p[i] < q[i]
                                 /\ \A k \in 1 .. i - 1 : p[k] = q[k]
    BY <1>2 DEF Div
  <2>2. Len(p) \in Nat /\ Len(q) \in Nat /\ i \in DOMAIN p /\ i \in DOMAIN q
    BY <2>1 DEF Places
  <2>3. SubSeq(p, 1, i - 1) = SubSeq(q, 1, i - 1)
    BY <2>1, <2>2 DEF Places
  <2> QED BY <2>1, <2>2, <2>3 DEF Before
<1> QED BY <1>1, <1>2 DEF Follows

-----------------------------------------------------------------------------
(* The walk *)

Marks == {"value", "depth", "circular", "unserializable", "open"}
Frames(g) == [exit : BOOLEAN, place : Places, node : DOMAIN g]
Written(g) == [place : Places, node : DOMAIN g, mark : Marks]
FrameOf(p, fields, i) == [exit |-> FALSE, place |-> Append(p, i), node |-> fields[i]]

\* The frames of the first i fields of the object at p, the first on top.
Pushes(g, p, fields, i, s) ==
    /\ s \in Seq(Frames(g))
    /\ \A k \in 1 .. Len(s) : \E j \in 1 .. i : fields[j] # Undefined /\ s[k] = FrameOf(p, fields, j)
    /\ \A j \in 1 .. i : fields[j] # Undefined => \E k \in 1 .. Len(s) : s[k] = FrameOf(p, fields, j)
    /\ \A k, l \in 1 .. Len(s) : k < l => Div(s[l].place, s[k].place)

LEMMA PushOne ==
  ASSUME NEW g, NEW p \in Places, NEW fields, NEW i \in Nat \ {0},
         fields[i] = Undefined \/ fields[i] \in DOMAIN g, NEW s, Pushes(g, p, fields, i - 1, s)
  PROVE  Pushes(g, p, fields, i, IF fields[i] = Undefined THEN s ELSE <<FrameOf(p, fields, i)>> \o s)
<1>0. \A j \in 1 .. i : j \in 1 .. i - 1 \/ j = i
  OBVIOUS
<1>i. i \in 1 .. i /\ \A j \in 1 .. i - 1 : j \in 1 .. i
  OBVIOUS
<1>1. CASE fields[i] = Undefined
  BY <1>0, <1>i, <1>1 DEF Pushes
<1>2. CASE fields[i] # Undefined
  <2> DEFINE f == FrameOf(p, fields, i)
             t == <<f>> \o s
  <2>1. f \in Frames(g) /\ s \in Seq(Frames(g)) /\ Len(s) \in Nat
    <3>1. Append(p, i) \in Places
      BY AppendPlace
    <3> QED BY <1>2, <3>1 DEF FrameOf, Frames, Pushes
  <2> HIDE DEF f
  <2>2. /\ t \in Seq(Frames(g)) /\ Len(t) = Len(s) + 1 /\ t[1] = f
        /\ \A k \in 2 .. Len(t) : t[k] = s[k - 1] /\ k - 1 \in 1 .. Len(s)
        /\ \A k \in 1 .. Len(s) : t[k + 1] = s[k] /\ k + 1 \in 1 .. Len(t)
    BY <2>1
  <2> HIDE DEF t
  <2>3. \A k \in 1 .. Len(t) : \E j \in 1 .. i : fields[j] # Undefined /\ t[k] = FrameOf(p, fields, j)
    <3> SUFFICES ASSUME NEW k \in 1 .. Len(t)
                 PROVE  \E j \in 1 .. i : fields[j] # Undefined /\ t[k] = FrameOf(p, fields, j)
      OBVIOUS
    <3>1. CASE k = 1
      BY <1>2, <1>i, <2>2, <3>1 DEF f
    <3>2. CASE k # 1
      <4>1. t[k] = s[k - 1] /\ k - 1 \in 1 .. Len(s)
        BY <2>1, <2>2, <3>2
      <4> QED BY <1>i, <4>1 DEF Pushes
    <3> QED BY <3>1, <3>2
  <2>4. ASSUME NEW j \in 1 .. i, fields[j] # Undefined
        PROVE  \E k \in 1 .. Len(t) : t[k] = FrameOf(p, fields, j)
    <3>1. CASE j = i
      BY <2>1, <2>2, <3>1 DEF f
    <3>2. CASE j # i
      <4>1. PICK k \in 1 .. Len(s) : s[k] = FrameOf(p, fields, j)
        BY <1>0, <2>4, <3>2 DEF Pushes
      <4> QED BY <2>2, <4>1
    <3> QED BY <3>1, <3>2
  <2>5. ASSUME NEW k \in 1 .. Len(t), NEW l \in 1 .. Len(t), k < l
        PROVE  Div(t[l].place, t[k].place)
    <3>1. t[l] = s[l - 1] /\ l - 1 \in 1 .. Len(s)
      BY <2>1, <2>2, <2>5
    <3>2. CASE k = 1
      <4>1. PICK j \in 1 .. i - 1 : s[l - 1] = FrameOf(p, fields, j)
        BY <3>1 DEF Pushes
      <4>2. Div(Append(p, j), Append(p, i))
        BY <4>1, Siblings
      <4>3. t[l].place = Append(p, j)
        BY <3>1, <4>1 DEF FrameOf
      <4>4. t[k].place = Append(p, i)
        BY <2>2, <3>2 DEF FrameOf, f
      <4> QED BY <4>2, <4>3, <4>4
    <3>3. CASE k # 1
      <4>1. t[k] = s[k - 1] /\ k - 1 \in 1 .. Len(s) /\ k - 1 < l - 1
        BY <2>1, <2>2, <2>5, <3>3
      <4> QED BY <3>1, <4>1 DEF Pushes
    <3> QED BY <3>2, <3>3
  <2> QED BY <1>2, <2>2, <2>3, <2>4, <2>5 DEF Pushes, t, f
<1> QED BY <1>1, <1>2

\* What PopRecord pushes.
PushedAll(p, fields) ==
    LET push[i \in 0 .. Len(fields)] ==
          IF i = 0 THEN <<>>
          ELSE IF fields[i] = Undefined THEN push[i - 1]
          ELSE <<FrameOf(p, fields, i)>> \o push[i - 1]
    IN  push[Len(fields)]

LEMMA PushAll ==
  ASSUME NEW g, NEW p \in Places, NEW fields \in Seq(Nat),
         \A i \in DOMAIN fields : fields[i] = Undefined \/ fields[i] \in DOMAIN g
  PROVE  Pushes(g, p, fields, Len(fields), PushedAll(p, fields))
<1> DEFINE n == Len(fields)
           D == Seq(Frames(g))
           F(h) == [i \in 0 .. n |-> IF i = 0 THEN <<>>
                                     ELSE IF fields[i] = Undefined THEN h[i - 1]
                                     ELSE <<FrameOf(p, fields, i)>> \o h[i - 1]]
           f == CHOOSE h : h = F(h)
           G == [i \in 1 .. n |-> [s \in D |-> IF fields[i] = Undefined THEN s
                                               ELSE <<FrameOf(p, fields, i)>> \o s]]
<1>1. n \in Nat /\ \A i \in 1 .. n : fields[i] = Undefined \/ fields[i] \in DOMAIN g
  OBVIOUS
<1>2. G \in [1 .. n -> [D -> D]]
  <2>1. ASSUME NEW i \in 1 .. n, fields[i] # Undefined, NEW s \in D
        PROVE  <<FrameOf(p, fields, i)>> \o s \in D
    <3>1. Append(p, i) \in Places
      BY <1>1, AppendPlace
    <3>2. FrameOf(p, fields, i) \in Frames(g)
      BY <1>1, <2>1, <3>1 DEF FrameOf, Frames
    <3> QED BY <3>2
  <2> QED BY <2>1
<1>3. PICK h \in [0 .. n -> D] : Steps(h, n, <<>>, G)
  <2>1. <<>> \in D
    OBVIOUS
  <2> HIDE DEF G, D, n
  <2> QED BY <1>1, <1>2, <2>1, StepsExist
<1>4. h = F(h)
  <2>1. ASSUME NEW i \in 0 .. n
        PROVE  h[i] = IF i = 0 THEN <<>>
                      ELSE IF fields[i] = Undefined THEN h[i - 1]
                      ELSE <<FrameOf(p, fields, i)>> \o h[i - 1]
    <3>1. h[i] = IF i = 0 THEN <<>> ELSE G[i][h[i - 1]]
      <4> HIDE DEF G, D, n
      <4> QED BY <1>3 DEF Steps
    <3>2. i # 0 => i \in 1 .. n /\ h[i - 1] \in D
      <4> HIDE DEF D, n
      <4> QED BY <1>1
    <3> QED BY <3>1, <3>2
  <2>2. h = [i \in 0 .. n |-> h[i]]
    OBVIOUS
  <2> HIDE DEF n
  <2> QED BY <2>1, <2>2
<1>5. f = F(f)
  <2> HIDE DEF F
  <2> QED BY <1>4
<1>6. PushedAll(p, fields) = f[n]
  BY DEF PushedAll
<1>7. f[0] = <<>> /\ \A i \in 1 .. n : f[i] = IF fields[i] = Undefined THEN f[i - 1]
                                              ELSE <<FrameOf(p, fields, i)>> \o f[i - 1]
  <2> HIDE DEF f
  <2>1. \A i \in 0 .. n : f[i] = IF i = 0 THEN <<>>
                                 ELSE IF fields[i] = Undefined THEN f[i - 1]
                                 ELSE <<FrameOf(p, fields, i)>> \o f[i - 1]
    <3> HIDE DEF n
    <3> QED BY <1>5
  <2>2. 0 \in 0 .. n /\ \A i \in 1 .. n : i \in 0 .. n /\ i # 0
    BY <1>1
  <2> HIDE DEF n
  <2> QED BY <2>1, <2>2
<1> HIDE DEF f, F, G, D
<1> DEFINE S == {i \in 0 .. n : Pushes(g, p, fields, i, f[i])}
<1>8. 0 \in S
  <2>1. Pushes(g, p, fields, 0, <<>>)
    <3>1. <<>> \in Seq(Frames(g)) /\ Len(<<>>) = 0 /\ 1 .. 0 = {}
      OBVIOUS
    <3> QED BY <3>1 DEF Pushes
  <2> QED BY <1>1, <1>7, <2>1
<1>9. ASSUME NEW i \in 1 .. n, i - 1 \in S PROVE i \in S
  <2>1. Pushes(g, p, fields, i - 1, f[i - 1])
    BY <1>9
  <2>2. i \in Nat \ {0} /\ i \in 0 .. n
    BY <1>1
  <2>3. Pushes(g, p, fields, i, IF fields[i] = Undefined THEN f[i - 1]
                                ELSE <<FrameOf(p, fields, i)>> \o f[i - 1])
    BY <1>1, <2>1, <2>2, PushOne
  <2> QED BY <1>7, <2>2, <2>3
<1>10. n \in S
  <2> HIDE DEF S
  <2>1. \A i \in 0 .. n : i \in S
    BY <1>1, <1>8, <1>9, UpTo
  <2> QED BY <1>1, <2>1
<1> QED BY <1>6, <1>10

-----------------------------------------------------------------------------
(* What is known in the middle of a walk: of graph g, stack s, path pa and output o *)

\* On top of an exit frame lie only places within its object, and of two that wait the one on top
\* comes first.
StackInv(s) ==
    \A i, k \in 1 .. Len(s) : i < k =>
        /\ s[i].exit => Pre(s[i].place, s[k].place)
        /\ (~s[i].exit /\ ~s[k].exit) => Div(s[k].place, s[i].place)
        /\ (s[i].exit /\ s[k].exit) => s[i].node # s[k].node

\* What is written comes before all that waits; what is above it is being walked.
Waits(f, k, s, o) ==
    /\ Len(f.place) <= MaxNesting
    /\ \A j \in 1 .. Len(o) :
          /\ Follows(o[j].place, f.place)
          /\ Pre(o[j].place, f.place) =>
                \E i \in 1 .. k - 1 : /\ s[i].exit /\ s[i].place = o[j].place
                                      /\ s[i].node = o[j].node

IsOpen(f, g, o) ==
    /\ g[f.node].kind = "record"
    /\ \E j \in 1 .. Len(o) : o[j].place = f.place /\ o[j].node = f.node

FramesInv(g, s, o) ==
    \A k \in 1 .. Len(s) : /\ s[k].exit => IsOpen(s[k], g, o)
                           /\ ~s[k].exit => Waits(s[k], k, s, o)

\* On the path are the objects that are being walked, and what has thrown.
PathInv(g, s, pa) ==
    /\ \A k \in 1 .. Len(s) : s[k].exit => s[k].node \in pa
    /\ \A x \in pa : \/ g[x].kind = "throws"
                     \/ \E k \in 1 .. Len(s) : s[k].exit /\ s[k].node = x

\* What is written of an object says where it stands and what it is.
Tells(e, g, o) ==
    /\ e.mark = "depth" => Len(e.place) = MaxNesting
    /\ g[e.node].kind # "leaf" => (Len(e.place) < MaxNesting <=> e.mark # "depth")
    /\ e.mark = "circular" =>
          \/ g[e.node].kind = "throws"
          \/ \E i \in 1 .. Len(o) : Pre(o[i].place, e.place) /\ o[i].node = e.node
    /\ e.mark = "open" =>
          \A i \in 1 .. Len(o) : Pre(o[i].place, e.place) => o[i].node # e.node

OutInv(g, o) ==
    /\ \A i, j \in 1 .. Len(o) : i < j => Follows(o[i].place, o[j].place)
    /\ \A j \in 1 .. Len(o) : Tells(o[j], g, o)

\* A field of an object that is written is written, or waits.
FieldDone(e, i, g, s, o) ==
    LET y == g[e.node].fields[i]
    IN  \/ \E f \in 1 .. Len(o) : o[f].place = Append(e.place, i) /\ o[f].node = y
        \/ \E k \in 1 .. Len(s) : ~s[k].exit /\ s[k].place = Append(e.place, i) /\ s[k].node = y

FieldsInv(g, s, o) ==
    \A j \in 1 .. Len(o) : o[j].mark = "open" =>
        \A i \in DOMAIN g[o[j].node].fields :
            g[o[j].node].fields[i] # Undefined => FieldDone(o[j], i, g, s, o)

Types(g, s, pa, o) ==
    /\ IsGraph(g) /\ s \in Seq(Frames(g)) /\ o \in Seq(Written(g)) /\ pa \subseteq DOMAIN g

Walks(g, s, pa, o) ==
    /\ Types(g, s, pa, o) /\ StackInv(s) /\ FramesInv(g, s, o) /\ PathInv(g, s, pa)
    /\ OutInv(g, o) /\ FieldsInv(g, s, o)

LEMMA FrameFacts ==
  ASSUME NEW g, NEW s \in Seq(Frames(g)), NEW k \in 1 .. Len(s)
  PROVE  /\ s[k].place \in Places /\ s[k].node \in DOMAIN g /\ s[k].exit \in BOOLEAN
<1>1. s[k] \in Frames(g)
  OBVIOUS
<1> QED BY <1>1 DEF Frames

LEMMA WrittenFacts ==
  ASSUME NEW g, NEW o \in Seq(Written(g)), NEW k \in 1 .. Len(o)
  PROVE  o[k].place \in Places /\ o[k].node \in DOMAIN g /\ o[k].mark \in Marks
<1>1. o[k] \in Written(g)
  OBVIOUS
<1> QED BY <1>1 DEF Written

LEMMA PopFacts ==
  ASSUME NEW S, NEW s \in Seq(S), s # <<>>
  PROVE  /\ Front(s) \in Seq(S) /\ Len(s) \in Nat \ {0} /\ Len(Front(s)) = Len(s) - 1
         /\ \A k \in 1 .. Len(s) - 1 : Front(s)[k] = s[k]
         /\ Last(s) = s[Len(s)] /\ Len(s) \in 1 .. Len(s)
<1>1. Len(s) \in Nat \ {0}
  OBVIOUS
<1>2. Front(s) = SubSeq(s, 1, Len(s) - 1) /\ Last(s) = s[Len(s)]
  BY DEF Front, Last
<1>3. /\ SubSeq(s, 1, Len(s) - 1) \in Seq(S) /\ Len(SubSeq(s, 1, Len(s) - 1)) = Len(s) - 1
      /\ \A k \in 1 .. Len(s) - 1 : SubSeq(s, 1, Len(s) - 1)[k] = s[k]
  <2>1. Len(s) - 1 \in Nat /\ \A k \in 1 .. Len(s) - 1 : k \in 1 .. Len(s) /\ s[k] \in S
    BY <1>1
  <2> DEFINE m == Len(s) - 1
             f == [k \in 1 .. m |-> s[k]]
  <2>2. SubSeq(s, 1, m) = f
    BY <1>1
  <2>3. f \in Seq(S) /\ Len(f) = m /\ \A k \in 1 .. m : f[k] = s[k]
    <3> HIDE DEF m
    <3> QED BY <2>1 DEF m
  <2> QED BY <2>2, <2>3
<1> QED BY <1>1, <1>2, <1>3

\* The exit frame is popped, and its object leaves the path.
LEMMA PopExitWalks ==
  ASSUME NEW g, NEW s, NEW pa, NEW o, Walks(g, s, pa, o), s # <<>>, Last(s).exit
  PROVE  Walks(g, Front(s), pa \ {Last(s).node}, o)
<1> DEFINE n == Len(s)
           t == Front(s)
           x == Last(s).node
<1>1. /\ t \in Seq(Frames(g)) /\ n \in Nat \ {0} /\ Len(t) = n - 1
      /\ \A k \in 1 .. n - 1 : t[k] = s[k]
      /\ Last(s) = s[n] /\ n \in 1 .. n
  BY PopFacts DEF Walks, Types
<1>2. 1 .. Len(t) = 1 .. n - 1 /\ \A k \in 1 .. n - 1 : k \in 1 .. n /\ k < n
  BY <1>1
<1> HIDE DEF t, n, x
<1>3. Types(g, t, pa \ {x}, o)
  BY <1>1 DEF Walks, Types
<1>4. StackInv(t)
  BY <1>1, <1>2 DEF Walks, StackInv, n
<1>5. FramesInv(g, t, o)
  <2> SUFFICES ASSUME NEW k \in 1 .. n - 1
               PROVE  /\ t[k].exit => IsOpen(t[k], g, o)
                      /\ ~t[k].exit => Waits(t[k], k, t, o)
    BY <1>2 DEF FramesInv
  <2>1. /\ s[k].exit => IsOpen(s[k], g, o)
        /\ ~s[k].exit => Waits(s[k], k, s, o)
    BY <1>2 DEF Walks, FramesInv, n
  <2>2. t[k] = s[k] /\ \A i \in 1 .. k - 1 : t[i] = s[i]
    BY <1>1
  <2> QED BY <2>1, <2>2 DEF Waits
<1>6. PathInv(g, t, pa \ {x})
  <2>1. ASSUME NEW k \in 1 .. n - 1, s[k].exit PROVE s[k].node \in pa \ {x}
    BY <1>1, <1>2, <2>1 DEF Walks, PathInv, StackInv, n, x
  <2>2. ASSUME NEW y \in pa \ {x}, g[y].kind # "throws"
        PROVE  \E k \in 1 .. n - 1 : s[k].exit /\ s[k].node = y
    <3>1. PICK k \in 1 .. n : s[k].exit /\ s[k].node = y
      BY <2>2 DEF Walks, PathInv, n
    <3>2. k # n
      BY <1>1, <2>2, <3>1 DEF x
    <3> QED BY <1>1, <3>1, <3>2
  <2> QED BY <1>1, <1>2, <2>1, <2>2 DEF PathInv
<1>7. FieldsInv(g, t, o)
  <2> SUFFICES ASSUME NEW j \in 1 .. Len(o), o[j].mark = "open",
                      NEW i \in DOMAIN g[o[j].node].fields, g[o[j].node].fields[i] # Undefined
               PROVE  FieldDone(o[j], i, g, t, o)
    BY DEF FieldsInv
  <2>1. FieldDone(o[j], i, g, s, o)
    BY DEF Walks, FieldsInv
  <2>2. ASSUME NEW k \in 1 .. n, ~s[k].exit PROVE k \in 1 .. n - 1 /\ t[k] = s[k]
    <3>1. k # n
      BY <1>1, <2>2
    <3> QED BY <1>1, <3>1
  <2> QED BY <1>2, <2>1, <2>2 DEF FieldDone, n
<1> QED BY <1>3, <1>4, <1>5, <1>6, <1>7 DEF Walks, t, x

Entry(f, m) == [place |-> f.place, node |-> f.node, mark |-> m]

\* Stack t keeps what is below the top of s, and w is o with entry e.
Adds(g, s, o, e, t, w) ==
    /\ w \in Seq(Written(g)) /\ Len(w) = Len(o) + 1 /\ w[Len(o) + 1] = e
    /\ \A j \in 1 .. Len(o) : w[j] = o[j]
    /\ OutInv(g, w)
    /\ \A k \in 1 .. Len(s) - 1 : /\ t[k].exit => IsOpen(t[k], g, w)
                                  /\ ~t[k].exit => Waits(t[k], k, t, w)
    /\ \A j \in 1 .. Len(o), i \in Nat : FieldDone(o[j], i, g, s, o) => FieldDone(o[j], i, g, t, w)

\* An entry for the top frame: what is below the frame still waits, or is open, in any stack t
\* that keeps it.
LEMMA EntryWalks ==
  ASSUME NEW g, NEW s, NEW pa, NEW o, Walks(g, s, pa, o), s # <<>>, ~Last(s).exit,
         NEW m \in Marks, NEW e, e = Entry(Last(s), m), Tells(e, g, o),
         NEW t, Len(t) \in Nat, Len(s) - 1 <= Len(t), \A k \in 1 .. Len(s) - 1 : t[k] = s[k],
         NEW w, w = Append(o, e)
  PROVE  Adds(g, s, o, e, t, w)
<1> DEFINE n == Len(s)
           l == Len(o)
           f == Last(s)
<1>1. n \in Nat \ {0} /\ f = s[n] /\ n \in 1 .. n
  BY PopFacts DEF Walks, Types
<1>2. f.place \in Places /\ f.node \in DOMAIN g
  BY <1>1, FrameFacts DEF Walks, Types
<1>3. e.place = f.place /\ e.node = f.node /\ e.mark = m /\ e \in Written(g)
  <2>1. e = [place |-> f.place, node |-> f.node, mark |-> m]
    BY DEF Entry
  <2> HIDE DEF f
  <2> QED BY <1>2, <2>1 DEF Written
<1>4. o \in Seq(Written(g)) /\ l \in Nat
  BY DEF Walks, Types
<1>5. w \in Seq(Written(g)) /\ Len(w) = l + 1 /\ w[l + 1] = e /\ \A j \in 1 .. l : w[j] = o[j]
  BY <1>3, <1>4
<1>6. \A j \in 1 .. l : o[j].place \in Places /\ Follows(o[j].place, e.place)
  <2>1. Waits(f, n, s, o)
    BY <1>1 DEF Walks, FramesInv
  <2> QED BY <1>3, <1>4, <2>1, WrittenFacts DEF Waits
<1>7. 1 .. l + 1 = (1 .. l) \cup {l + 1} /\ \A j \in 1 .. l : j \in 1 .. l + 1 /\ j # l + 1
  BY <1>4
<1> HIDE DEF n, l, f
<1>8. OutInv(g, w)
  <2>1. ASSUME NEW i \in 1 .. l + 1, NEW j \in 1 .. l + 1, i < j
        PROVE  Follows(w[i].place, w[j].place)
    <3>1. i \in 1 .. l /\ w[i] = o[i]
      BY <1>4, <1>5, <2>1
    <3>2. CASE j = l + 1
      BY <1>5, <1>6, <3>1, <3>2
    <3>3. CASE j # l + 1
      <4>1. j \in 1 .. l /\ w[j] = o[j]
        BY <1>5, <1>7, <3>3
      <4> QED BY <2>1, <3>1, <4>1 DEF Walks, OutInv, l
    <3> QED BY <3>2, <3>3
  <2>2. ASSUME NEW j \in 1 .. l PROVE Tells(o[j], g, w)
    <3>1. Tells(o[j], g, o)
      BY DEF Walks, OutInv, l
    <3>2. ~Pre(e.place, o[j].place)
      BY <1>2, <1>3, <1>6, PreExcludes, DivExcludes DEF Follows
    <3>3. \A i \in 1 .. l + 1 : Pre(w[i].place, o[j].place) => i \in 1 .. l /\ w[i] = o[i]
      BY <1>5, <1>7, <3>2
    <3>4. \A i \in 1 .. l : w[i] = o[i] /\ i \in 1 .. l + 1
      BY <1>5, <1>7
    <3> QED BY <1>5, <3>1, <3>3, <3>4 DEF Tells, l
  <2>3. Tells(e, g, w)
    <3>1. ~Pre(e.place, e.place)
      BY <1>2, <1>3, PreExcludes
    <3>2. \A i \in 1 .. l + 1 : Pre(w[i].place, e.place) => i \in 1 .. l /\ w[i] = o[i]
      BY <1>5, <1>7, <3>1
    <3>3. \A i \in 1 .. l : w[i] = o[i] /\ i \in 1 .. l + 1
      BY <1>5, <1>7
    <3> QED BY <1>5, <3>2, <3>3 DEF Tells, l
  <2>4. ASSUME NEW j \in 1 .. l + 1 PROVE Tells(w[j], g, w)
    BY <1>5, <1>7, <2>2, <2>3
  <2> QED BY <1>5, <2>1, <2>4 DEF OutInv, l
<1>9. ASSUME NEW k \in 1 .. n - 1
      PROVE  /\ t[k].exit => IsOpen(t[k], g, w)
             /\ ~t[k].exit => Waits(t[k], k, t, w)
  <2>1. /\ k \in 1 .. n /\ k < n /\ t[k] = s[k]
        /\ s[k].exit => IsOpen(s[k], g, o)
        /\ ~s[k].exit => Waits(s[k], k, s, o)
    <3>1. k \in 1 .. n /\ k < n
      BY <1>1
    <3> QED BY <3>1 DEF Walks, FramesInv, n
  <2>2. s[k].exit => IsOpen(s[k], g, w)
    BY <1>5, <1>7, <2>1 DEF IsOpen, l
  <2>3. ASSUME ~s[k].exit PROVE Waits(s[k], k, t, w)
    <3>1. Div(e.place, s[k].place)
      BY <1>1, <1>3, <2>1, <2>3 DEF Walks, StackInv, n, f
    <3>2. s[k].place \in Places
      BY <2>1, FrameFacts DEF Walks, Types, n
    <3>3. ~Pre(e.place, s[k].place)
      BY <1>2, <1>3, <3>1, <3>2, DivExcludes
    <3>4. \A i \in 1 .. k - 1 : t[i] = s[i]
      <4>1. \A i \in 1 .. k - 1 : i \in 1 .. n - 1
        BY <1>1
      <4> QED BY <4>1 DEF n
    <3>5. ASSUME NEW j \in 1 .. l + 1
          PROVE  /\ Follows(w[j].place, s[k].place)
                 /\ Pre(w[j].place, s[k].place) =>
                       \E i \in 1 .. k - 1 : /\ t[i].exit /\ t[i].place = w[j].place
                                             /\ t[i].node = w[j].node
      <4>1. CASE j = l + 1
        BY <1>5, <3>1, <3>3, <4>1 DEF Follows
      <4>2. CASE j # l + 1
        <5>1. j \in 1 .. l /\ w[j] = o[j]
          BY <1>5, <1>7, <4>2
        <5>2. /\ Follows(o[j].place, s[k].place)
              /\ Pre(o[j].place, s[k].place) =>
                    \E i \in 1 .. k - 1 : /\ s[i].exit /\ s[i].place = o[j].place
                                          /\ s[i].node = o[j].node
          BY <2>1, <2>3, <5>1 DEF Waits, l
        <5> QED BY <3>4, <5>1, <5>2
      <4> QED BY <4>1, <4>2
    <3>6. Len(s[k].place) <= MaxNesting
      BY <2>1, <2>3 DEF Waits
    <3> QED BY <1>5, <3>5, <3>6 DEF Waits, l
  <2> QED BY <2>1, <2>2, <2>3
<1>10. ASSUME NEW j \in 1 .. l, NEW i \in Nat, FieldDone(o[j], i, g, s, o)
       PROVE  FieldDone(o[j], i, g, t, w)
  <2> DEFINE y == g[o[j].node].fields[i]
             q == Append(o[j].place, i)
  <2> HIDE DEF y, q
  <2>1. \/ \E h \in 1 .. l : o[h].place = q /\ o[h].node = y
        \/ \E k \in 1 .. n : ~s[k].exit /\ s[k].place = q /\ s[k].node = y
    BY <1>10 DEF FieldDone, y, q, n, l
  <2>2. CASE \E h \in 1 .. l : o[h].place = q /\ o[h].node = y
    BY <1>5, <1>7, <2>2 DEF FieldDone, y, q, l
  <2>3. ASSUME NEW k \in 1 .. n, ~s[k].exit, s[k].place = q, s[k].node = y
        PROVE  FieldDone(o[j], i, g, t, w)
    <3>1. CASE k = n
      <4>1. l + 1 \in 1 .. Len(w) /\ w[l + 1].place = q /\ w[l + 1].node = y
        BY <1>1, <1>3, <1>4, <1>5, <2>3, <3>1 DEF l
      <4> QED BY <4>1 DEF FieldDone, y, q
    <3>2. CASE k # n
      <4>1. k \in 1 .. n - 1 /\ k \in 1 .. Len(t)
        BY <1>1, <3>2 DEF n
      <4>2. t[k] = s[k]
        BY <4>1 DEF n
      <4> QED BY <2>3, <4>1, <4>2 DEF FieldDone, y, q
    <3> QED BY <3>1, <3>2
  <2> QED BY <2>1, <2>2, <2>3
<1> QED BY <1>5, <1>8, <1>9, <1>10 DEF Adds, n, l, f


LEMMA NodeFacts ==
  ASSUME NEW g, IsGraph(g), NEW x \in DOMAIN g
  PROVE  g[x].fields \in Seq(Nat) /\ g[x].kind \in Kinds
<1>1. g[x] \in [kind : Kinds, fields : Seq(Nat)]
  <2> DEFINE R == [kind : Kinds, fields : Seq(Nat)]
  <2>1. g \in Seq(R)
    BY DEF IsGraph
  <2> HIDE DEF R
  <2>2. x \in 1 .. Len(g)
    BY <2>1
  <2>3. g[x] \in R
    BY <2>1, <2>2
  <2> QED BY <2>3 DEF R
<1> QED BY <1>1

LEMMA ConcatFacts ==
  ASSUME NEW S, NEW s \in Seq(S), NEW u \in Seq(S)
  PROVE  /\ s \o u \in Seq(S) /\ Len(s \o u) = Len(s) + Len(u)
         /\ \A k \in 1 .. Len(s) : (s \o u)[k] = s[k]
         /\ \A k \in 1 .. Len(u) : (s \o u)[Len(s) + k] = u[k]
OBVIOUS

\* A value or a marker is written, and its frame goes; an object that threw stays on the path.
LEMMA LeafWalks ==
  ASSUME NEW g, NEW s, NEW pa, NEW o, Walks(g, s, pa, o), s # <<>>, ~Last(s).exit,
         NEW m \in Marks \ {"open"}, NEW e, e = Entry(Last(s), m), Tells(e, g, o),
         NEW p2, p2 = pa \/ (p2 = pa \cup {Last(s).node} /\ g[Last(s).node].kind = "throws")
  PROVE  Walks(g, Front(s), p2, Append(o, e))
<1> DEFINE n == Len(s)
           l == Len(o)
           f == Last(s)
           t == Front(s)
           w == Append(o, e)
<1>1. /\ t \in Seq(Frames(g)) /\ n \in Nat \ {0} /\ Len(t) = n - 1
      /\ \A k \in 1 .. n - 1 : t[k] = s[k]
      /\ f = s[n] /\ n \in 1 .. n
  BY PopFacts DEF Walks, Types
<1>2. f.node \in DOMAIN g /\ l \in Nat
  BY <1>1, FrameFacts DEF Walks, Types
<1>3. 1 .. Len(t) = 1 .. n - 1 /\ \A k \in 1 .. n - 1 : k \in 1 .. n /\ k < n
  BY <1>1
<1> HIDE DEF n, l, f, t, w
<1>4. /\ w \in Seq(Written(g)) /\ Len(w) = l + 1 /\ w[l + 1] = e
      /\ \A j \in 1 .. l : w[j] = o[j]
      /\ OutInv(g, w)
      /\ \A k \in 1 .. n - 1 : /\ t[k].exit => IsOpen(t[k], g, w)
                               /\ ~t[k].exit => Waits(t[k], k, t, w)
      /\ \A j \in 1 .. l, i \in Nat : FieldDone(o[j], i, g, s, o) => FieldDone(o[j], i, g, t, w)
  <2>1. Len(t) \in Nat /\ Len(s) - 1 <= Len(t) /\ \A k \in 1 .. Len(s) - 1 : t[k] = s[k]
    BY <1>1 DEF n
  <2>2. m \in Marks /\ w = Append(o, e)
    BY DEF Marks, w
  <2>3. Adds(g, s, o, e, t, w)
    BY <2>1, <2>2, EntryWalks, Zenon
  <2> QED BY <2>3 DEF Adds, n, l
<1>5. Types(g, t, p2, w)
  BY <1>1, <1>2, <1>4 DEF Walks, Types, f
<1>6. StackInv(t)
  BY <1>1, <1>3 DEF Walks, StackInv, n
<1>7. FramesInv(g, t, w)
  BY <1>3, <1>4 DEF FramesInv
<1>8. PathInv(g, t, p2)
  <2>1. ASSUME NEW k \in 1 .. n - 1, t[k].exit PROVE t[k].node \in p2
    BY <1>1, <1>3, <2>1 DEF Walks, PathInv, n
  <2>2. ASSUME NEW y \in p2, g[y].kind # "throws"
        PROVE  \E k \in 1 .. n - 1 : t[k].exit /\ t[k].node = y
    <3>1. y \in pa
      BY <2>2
    <3>2. PICK k \in 1 .. n : s[k].exit /\ s[k].node = y
      BY <2>2, <3>1 DEF Walks, PathInv, n
    <3>3. k # n
      BY <1>1, <3>2 DEF f
    <3>4. k \in 1 .. n - 1
      BY <1>1, <3>3
    <3> QED BY <1>1, <3>2, <3>4
  <2> QED BY <1>3, <2>1, <2>2 DEF PathInv
<1>9. FieldsInv(g, t, w)
  <2> SUFFICES ASSUME NEW j \in 1 .. Len(w), w[j].mark = "open",
                      NEW i \in DOMAIN g[w[j].node].fields, g[w[j].node].fields[i] # Undefined
               PROVE  FieldDone(w[j], i, g, t, w)
    BY DEF FieldsInv
  <2>1. j # l + 1
    <3>1. e.mark = m
      BY DEF Entry
    <3> QED BY <1>4, <3>1
  <2>2. j \in 1 .. l /\ w[j] = o[j]
    <3>1. j \in 1 .. l
      BY <1>2, <1>4, <2>1
    <3> QED BY <1>4, <3>1
  <2>3. i \in Nat
    <3>1. o[j].node \in DOMAIN g
      BY <2>2, WrittenFacts DEF Walks, Types, l
    <3>2. g[o[j].node].fields \in Seq(Nat)
      BY <3>1, NodeFacts DEF Walks, Types
    <3> QED BY <2>2, <3>2
  <2>4. FieldDone(o[j], i, g, s, o)
    BY <2>2 DEF Walks, FieldsInv, l
  <2> QED BY <1>4, <2>2, <2>3, <2>4
<1> QED BY <1>4, <1>5, <1>6, <1>7, <1>8, <1>9 DEF Walks, t, w

\* An object is entered: its frame becomes an exit frame with those of its fields on top of it.
LEMMA OpenWalks ==
  ASSUME NEW g, NEW s, NEW pa, NEW o, Walks(g, s, pa, o), s # <<>>, ~Last(s).exit,
         NEW e, e = Entry(Last(s), "open"), Tells(e, g, o),
         g[Last(s).node].kind = "record", Last(s).node \notin pa, Len(Last(s).place) < MaxNesting,
         MaxNesting \in Nat,
         NEW h, h = [Last(s) EXCEPT !.exit = TRUE],
         NEW ps, Pushes(g, Last(s).place, g[Last(s).node].fields, Len(g[Last(s).node].fields), ps)
  PROVE  Walks(g, Front(s) \o <<h>> \o ps, pa \cup {Last(s).node}, Append(o, e))
<1> DEFINE n == Len(s)
           l == Len(o)
           q == Len(ps)
           f == Last(s)
           x == f.node
           fields == g[x].fields
           t == Front(s) \o <<h>> \o ps
           w == Append(o, e)
<1>1. /\ Front(s) \in Seq(Frames(g)) /\ n \in Nat \ {0} /\ Len(Front(s)) = n - 1
      /\ \A k \in 1 .. n - 1 : Front(s)[k] = s[k]
      /\ f = s[n] /\ n \in 1 .. n
  BY PopFacts DEF Walks, Types
<1>2. f.place \in Places /\ x \in DOMAIN g /\ l \in Nat /\ f \in Frames(g)
  <2>1. s[n] \in Frames(g) /\ l \in Nat
    BY <1>1 DEF Walks, Types
  <2> QED BY <1>1, <2>1, FrameFacts DEF Walks, Types
<1>3. fields \in Seq(Nat)
  BY <1>2, NodeFacts DEF Walks, Types
<1>4. ps \in Seq(Frames(g)) /\ q \in Nat
  BY DEF Pushes
<1>5. h.exit = TRUE /\ h.place = f.place /\ h.node = x /\ h \in Frames(g)
  <2> HIDE DEF f
  <2>1. f = [exit |-> f.exit, place |-> f.place, node |-> f.node]
    BY <1>2 DEF Frames, f
  <2>2. h = [exit |-> TRUE, place |-> f.place, node |-> f.node]
    BY <1>2, <2>1 DEF Frames, f
  <2>3. h.exit = TRUE /\ h.place = f.place /\ h.node = f.node
    BY <2>2
  <2> QED BY <1>2, <2>2, <2>3 DEF Frames
<1>6. /\ t \in Seq(Frames(g)) /\ Len(t) = n + q
      /\ \A k \in 1 .. n - 1 : t[k] = s[k]
      /\ t[n] = h
      /\ \A k \in 1 .. q : t[n + k] = ps[k]
  <2> DEFINE u == Front(s) \o <<h>>
  <2>1. /\ u \in Seq(Frames(g)) /\ Len(u) = n /\ u[n] = h
        /\ \A k \in 1 .. n - 1 : u[k] = Front(s)[k]
    <3>1. <<h>> \in Seq(Frames(g)) /\ Len(<<h>>) = 1 /\ <<h>>[1] = h /\ 1 \in 1 .. Len(<<h>>)
      BY <1>5
    <3> DEFINE r == <<h>>
               v == Front(s)
    <3> HIDE DEF n, r, v
    <3>2. /\ v \o r \in Seq(Frames(g)) /\ Len(v \o r) = Len(v) + Len(r)
          /\ \A k \in 1 .. Len(v) : (v \o r)[k] = v[k]
          /\ \A k \in 1 .. Len(r) : (v \o r)[Len(v) + k] = r[k]
      BY <1>1, <3>1, ConcatFacts DEF r, v
    <3>3. Len(v \o r) = n
      BY <1>1, <3>1, <3>2 DEF v, r, n
    <3>4. (v \o r)[n] = h
      <4>1. (v \o r)[Len(v) + 1] = r[1] /\ Len(v) + 1 = n
        <5>1. 1 \in 1 .. Len(r)
          BY <3>1 DEF r
        <5>2. Len(v) + 1 = n
          BY <1>1 DEF v, n
        <5> QED BY <3>2, <5>1, <5>2
      <4> QED BY <3>1, <4>1 DEF r
    <3> QED BY <1>1, <3>2, <3>3, <3>4 DEF r, v
  <2> HIDE DEF u, n, q
  <2>2. /\ u \o ps \in Seq(Frames(g)) /\ Len(u \o ps) = n + q
        /\ \A k \in 1 .. n : (u \o ps)[k] = u[k]
        /\ \A k \in 1 .. q : (u \o ps)[n + k] = ps[k]
    <3>1. /\ u \o ps \in Seq(Frames(g)) /\ Len(u \o ps) = Len(u) + Len(ps)
          /\ \A k \in 1 .. Len(u) : (u \o ps)[k] = u[k]
          /\ \A k \in 1 .. Len(ps) : (u \o ps)[Len(u) + k] = ps[k]
      <4>1. u \in Seq(Frames(g)) /\ ps \in Seq(Frames(g))
        BY <1>4, <2>1
      <4> DEFINE T == Frames(g)
      <4>2. u \in Seq(T) /\ ps \in Seq(T)
        BY <4>1
      <4> HIDE DEF T, x, f, fields, l, t
      <4>3. /\ u \o ps \in Seq(T) /\ Len(u \o ps) = Len(u) + Len(ps)
            /\ \A k \in 1 .. Len(u) : (u \o ps)[k] = u[k]
            /\ \A k \in 1 .. Len(ps) : (u \o ps)[Len(u) + k] = ps[k]
        BY ONLY <4>2, ConcatFacts
      <4> QED BY <4>3 DEF T
    <3> QED BY <2>1, <3>1 DEF q
  <2>3. \A k \in 1 .. n - 1 : k \in 1 .. n
    BY <1>1
  <2>4. t = u \o ps
    BY DEF u
  <2> HIDE DEF t
  <2> QED BY <1>1, <2>1, <2>2, <2>3, <2>4
<1> HIDE DEF n, l, q, f, x, t, w, fields
<1>7. \A k \in 1 .. Len(t) : \/ k \in 1 .. n - 1 /\ k \in 1 .. n /\ k < n /\ t[k] = s[k]
                             \/ k = n /\ t[k] = h
                             \/ k - n \in 1 .. q /\ t[k] = ps[k - n] /\ n < k
  <2> SUFFICES ASSUME NEW k \in 1 .. Len(t), ~(k \in 1 .. n - 1), k # n
               PROVE  k - n \in 1 .. q /\ t[k] = ps[k - n] /\ n < k
    BY <1>1, <1>6
  <2>1. k - n \in 1 .. q /\ n < k /\ n + (k - n) = k
    BY <1>1, <1>4, <1>6
  <2> QED BY <1>6, <2>1
<1>8. \A k \in 1 .. q : \E i \in 1 .. Len(fields) : /\ fields[i] # Undefined
                                                   /\ ps[k] = FrameOf(f.place, fields, i)
                                                   /\ i \in Nat
                                                   /\ ps[k].place = Append(f.place, i)
                                                   /\ ps[k].exit = FALSE
  <2> SUFFICES ASSUME NEW k \in 1 .. q
               PROVE  \E i \in 1 .. Len(fields) : /\ fields[i] # Undefined
                                                  /\ ps[k] = FrameOf(f.place, fields, i)
                                                  /\ i \in Nat
                                                  /\ ps[k].place = Append(f.place, i)
                                                  /\ ps[k].exit = FALSE
    OBVIOUS
  <2>1. PICK i \in 1 .. Len(fields) : fields[i] # Undefined /\ ps[k] = FrameOf(f.place, fields, i)
    BY DEF Pushes, q, f, x, fields
  <2>2. i \in Nat
    BY <1>3
  <2>3. ps[k].place = Append(f.place, i) /\ ps[k].exit = FALSE
    BY <2>1 DEF FrameOf
  <2> QED BY <2>1, <2>2, <2>3
<1>9. /\ w \in Seq(Written(g)) /\ Len(w) = l + 1 /\ w[l + 1] = e
      /\ \A j \in 1 .. l : w[j] = o[j]
      /\ OutInv(g, w)
      /\ \A k \in 1 .. n - 1 : /\ t[k].exit => IsOpen(t[k], g, w)
                               /\ ~t[k].exit => Waits(t[k], k, t, w)
      /\ \A j \in 1 .. l, i \in Nat : FieldDone(o[j], i, g, s, o) => FieldDone(o[j], i, g, t, w)
  <2>1. Len(t) \in Nat /\ Len(s) - 1 <= Len(t) /\ \A k \in 1 .. Len(s) - 1 : t[k] = s[k]
    BY <1>1, <1>4, <1>6 DEF n
  <2>2. "open" \in Marks /\ w = Append(o, e)
    BY DEF Marks, w
  <2>3. Adds(g, s, o, e, t, w)
    BY <2>1, <2>2, EntryWalks, Zenon
  <2> QED BY <2>3 DEF Adds, n, l
<1>10. e.place = f.place /\ e.node = x /\ e.mark = "open"
  BY DEF Entry, f, x
<1>11. Types(g, t, pa \cup {x}, w)
  BY <1>2, <1>6, <1>9 DEF Walks, Types
<1>12. StackInv(t)
  <2> SUFFICES ASSUME NEW i \in 1 .. Len(t), NEW k \in 1 .. Len(t), i < k
               PROVE  /\ t[i].exit => Pre(t[i].place, t[k].place)
                      /\ (~t[i].exit /\ ~t[k].exit) => Div(t[k].place, t[i].place)
                      /\ (t[i].exit /\ t[k].exit) => t[i].node # t[k].node
    BY DEF StackInv
  <2>1. CASE i \in 1 .. n - 1 /\ k \in 1 .. n - 1
    <3>1. t[i] = s[i] /\ t[k] = s[k] /\ i \in 1 .. n /\ k \in 1 .. n
      BY <1>1, <1>6, <2>1
    <3> QED BY <3>1 DEF Walks, StackInv, n
  <2>2. ASSUME i \in 1 .. n - 1
        PROVE  /\ t[i] = s[i] /\ i \in 1 .. n /\ i < n /\ s[i].place \in Places
               /\ s[i].exit => Pre(s[i].place, f.place)
               /\ ~s[i].exit => Div(f.place, s[i].place)
               /\ s[i].exit => s[i].node # x
    <3>1. t[i] = s[i] /\ i \in 1 .. n /\ i < n
      BY <1>1, <1>6, <2>2
    <3>2. s[i].place \in Places
      BY <3>1, FrameFacts DEF Walks, Types, n
    <3>3. /\ s[i].exit => Pre(s[i].place, f.place)
          /\ ~s[i].exit => Div(f.place, s[i].place)
      BY <1>1, <3>1 DEF Walks, StackInv, n, f
    <3>4. s[i].exit => s[i].node # x
      BY <3>1 DEF Walks, PathInv, n, x, f
    <3> QED BY <3>1, <3>2, <3>3, <3>4
  <2>3. CASE i \in 1 .. n - 1 /\ k = n
    <3>1. t[k].exit /\ t[k].place = f.place /\ t[k].node = x
      BY <1>5, <1>6, <2>3
    <3> QED BY <2>2, <2>3, <3>1
  <2>4. ASSUME k - n \in 1 .. q, t[k] = ps[k - n]
        PROVE  \E j \in Nat : t[k].place = Append(f.place, j) /\ t[k].exit = FALSE
    BY <1>8, <2>4
  <2>5. CASE i \in 1 .. n - 1 /\ k - n \in 1 .. q /\ t[k] = ps[k - n]
    <3>1. PICK j \in Nat : t[k].place = Append(f.place, j) /\ t[k].exit = FALSE
      BY <2>4, <2>5
    <3>2. s[i].exit => Pre(s[i].place, Append(f.place, j))
      BY <1>2, <2>2, <2>5, PreAppend
    <3>3. ~s[i].exit => Div(Append(f.place, j), s[i].place)
      BY <1>2, <2>2, <2>5, DivAppend
    <3> QED BY <2>2, <2>5, <3>1, <3>2, <3>3
  <2>6. CASE i = n /\ k - n \in 1 .. q /\ t[k] = ps[k - n]
    <3>1. PICK j \in Nat : t[k].place = Append(f.place, j) /\ t[k].exit = FALSE
      BY <2>4, <2>6
    <3>2. t[i].exit /\ t[i].place = f.place
      BY <1>5, <1>6, <2>6
    <3>3. Pre(f.place, Append(f.place, j))
      BY <1>2, PreAppend
    <3> QED BY <3>1, <3>2, <3>3
  <2>7. CASE i - n \in 1 .. q /\ t[i] = ps[i - n] /\ k - n \in 1 .. q /\ t[k] = ps[k - n]
    <3>1. t[i].exit = FALSE
      BY <1>8, <2>7
    <3>2. i - n < k - n
      BY <1>1, <1>4, <1>6
    <3>3. Div(ps[k - n].place, ps[i - n].place)
      BY <2>7, <3>2 DEF Pushes, q
    <3> QED BY <2>7, <3>1, <3>3
  <2>8. /\ k = n => i \in 1 .. n - 1
        /\ k \in 1 .. n - 1 => i \in 1 .. n - 1
    BY <1>1
  <2> QED BY <1>7, <2>1, <2>3, <2>5, <2>6, <2>7, <2>8
<1>13. FramesInv(g, t, w)
  <2> SUFFICES ASSUME NEW k \in 1 .. Len(t)
               PROVE  /\ t[k].exit => IsOpen(t[k], g, w)
                      /\ ~t[k].exit => Waits(t[k], k, t, w)
    BY DEF FramesInv
  <2>1. CASE k \in 1 .. n - 1
    BY <1>9, <2>1
  <2>2. CASE k = n /\ t[k] = h
    <3>1. g[x].kind = "record"
      BY DEF x, f
    <3>2. l + 1 \in 1 .. Len(w) /\ w[l + 1].place = f.place /\ w[l + 1].node = x
      BY <1>2, <1>9, <1>10
    <3> QED BY <1>5, <2>2, <3>1, <3>2 DEF IsOpen
  <2>3. CASE k - n \in 1 .. q /\ t[k] = ps[k - n] /\ n < k
    <3>1. PICK j \in Nat : t[k].place = Append(f.place, j) /\ t[k].exit = FALSE
      BY <1>8, <2>3
    <3>2. Len(t[k].place) <= MaxNesting
      <4>1. Len(Append(f.place, j)) = Len(f.place) + 1 /\ Len(f.place) \in Nat
        BY <1>2, AppendPlace
      <4>2. Len(f.place) < MaxNesting
        BY DEF f
      <4> QED BY <3>1, <4>1, <4>2
    <3>3. Waits(f, n, s, o)
      BY <1>1 DEF Walks, FramesInv, n, f
    <3>4. ASSUME NEW i \in 1 .. l
          PROVE  /\ Follows(o[i].place, t[k].place)
                 /\ Pre(o[i].place, t[k].place) =>
                       \E u \in 1 .. k - 1 : /\ t[u].exit /\ t[u].place = o[i].place
                                             /\ t[u].node = o[i].node
      <4>1. /\ Follows(o[i].place, f.place)
            /\ Pre(o[i].place, f.place) =>
                  \E u \in 1 .. n - 1 : /\ s[u].exit /\ s[u].place = o[i].place
                                        /\ s[u].node = o[i].node
        BY <3>3 DEF Waits, l
      <4>2. o[i].place \in Places
        BY WrittenFacts DEF Walks, Types, l
      <4>3. Follows(o[i].place, Append(f.place, j))
        BY <1>2, <4>1, <4>2, PreAppend, DivAppend DEF Follows
      <4>4. o[i].place # f.place
        BY <1>2, <4>1, <4>2, PreExcludes, DivExcludes DEF Follows
      <4>5. ASSUME Pre(o[i].place, Append(f.place, j))
            PROVE  \E u \in 1 .. k - 1 : /\ t[u].exit /\ t[u].place = o[i].place
                                         /\ t[u].node = o[i].node
        <5>1. Pre(o[i].place, f.place)
          BY <1>2, <4>2, <4>4, <4>5, PreAppend
        <5>2. PICK u \in 1 .. n - 1 : /\ s[u].exit /\ s[u].place = o[i].place
                                      /\ s[u].node = o[i].node
          BY <4>1, <5>1
        <5>3. u \in 1 .. k - 1 /\ t[u] = s[u]
          <6>1. u \in 1 .. k - 1
            BY <1>1, <2>3
          <6> QED BY <1>6, <6>1
        <5> QED BY <5>2, <5>3
      <4> QED BY <3>1, <4>3, <4>5
    <3>5. /\ Follows(e.place, t[k].place)
          /\ \E u \in 1 .. k - 1 : /\ t[u].exit /\ t[u].place = e.place
                                   /\ t[u].node = e.node
      <4>1. n \in 1 .. k - 1 /\ t[n] = h
        BY <1>1, <1>6, <2>3
      <4>2. Pre(f.place, Append(f.place, j))
        BY <1>2, PreAppend
      <4> QED BY <1>5, <1>10, <3>1, <4>1, <4>2 DEF Follows
    <3>6. \A i \in 1 .. Len(w) : (i \in 1 .. l /\ w[i] = o[i]) \/ w[i] = e
      <4> SUFFICES ASSUME NEW i \in 1 .. Len(w), ~(i \in 1 .. l) PROVE i = l + 1
        BY <1>9
      <4> QED BY <1>2, <1>9
    <3>7. ASSUME NEW i \in 1 .. Len(w)
          PROVE  /\ Follows(w[i].place, t[k].place)
                 /\ Pre(w[i].place, t[k].place) =>
                       \E u \in 1 .. k - 1 : /\ t[u].exit /\ t[u].place = w[i].place
                                             /\ t[u].node = w[i].node
      <4>1. CASE i \in 1 .. l /\ w[i] = o[i]
        BY <3>4, <4>1
      <4>2. CASE w[i] = e
        BY <3>5, <4>2
      <4> QED BY <3>6, <4>1, <4>2
    <3> QED BY <3>1, <3>2, <3>7 DEF Waits
  <2> QED BY <1>7, <2>1, <2>2, <2>3
<1>14. PathInv(g, t, pa \cup {x})
  <2>1. ASSUME NEW k \in 1 .. Len(t), t[k].exit PROVE t[k].node \in pa \cup {x}
    <3>1. CASE k \in 1 .. n /\ t[k] = s[k]
      BY <2>1, <3>1 DEF Walks, PathInv, n
    <3>2. CASE k = n /\ t[k] = h
      BY <1>5, <3>2
    <3>3. CASE k - n \in 1 .. q /\ t[k] = ps[k - n]
      BY <1>8, <2>1, <3>3
    <3> QED BY <1>7, <3>1, <3>2, <3>3
  <2>2. ASSUME NEW y \in pa \cup {x}, g[y].kind # "throws"
        PROVE  \E k \in 1 .. Len(t) : t[k].exit /\ t[k].node = y
    <3>1. CASE y = x
      <4>1. n \in 1 .. Len(t)
        BY <1>1, <1>4, <1>6
      <4> QED BY <1>5, <1>6, <3>1, <4>1
    <3>2. CASE y \in pa
      <4>1. PICK k \in 1 .. n : s[k].exit /\ s[k].node = y
        BY <2>2, <3>2 DEF Walks, PathInv, n
      <4>2. k # n
        BY <1>1, <4>1 DEF f
      <4>3. k \in 1 .. n - 1 /\ k \in 1 .. Len(t)
        BY <1>1, <1>4, <1>6, <4>2
      <4> QED BY <1>6, <4>1, <4>3
    <3> QED BY <3>1, <3>2
  <2> QED BY <2>1, <2>2 DEF PathInv
<1>15. FieldsInv(g, t, w)
  <2> SUFFICES ASSUME NEW j \in 1 .. Len(w), w[j].mark = "open",
                      NEW i \in DOMAIN g[w[j].node].fields, g[w[j].node].fields[i] # Undefined
               PROVE  FieldDone(w[j], i, g, t, w)
    BY DEF FieldsInv
  <2>1. CASE j = l + 1
    <3>1. w[j].place = f.place /\ w[j].node = x
      BY <1>9, <1>10, <2>1
    <3>2. i \in 1 .. Len(fields) /\ fields[i] # Undefined
      BY <1>3, <3>1 DEF fields
    <3>3. PICK k \in 1 .. q : ps[k] = FrameOf(f.place, fields, i)
      BY <3>2 DEF Pushes, q, f, x, fields
    <3>4. n + k \in 1 .. Len(t) /\ t[n + k] = ps[k]
      BY <1>1, <1>4, <1>6
    <3>5. ps[k].exit = FALSE /\ ps[k].place = Append(f.place, i) /\ ps[k].node = fields[i]
      BY <3>3 DEF FrameOf
    <3>6. ~t[n + k].exit /\ t[n + k].place = Append(w[j].place, i) /\ t[n + k].node = g[w[j].node].fields[i]
      BY <3>1, <3>4, <3>5 DEF fields
    <3> QED BY <3>4, <3>6 DEF FieldDone
  <2>2. CASE j # l + 1
    <3>1. j \in 1 .. l /\ w[j] = o[j]
      <4>1. j \in 1 .. l
        BY <1>2, <1>9, <2>2
      <4> QED BY <1>9, <4>1
    <3>2. i \in Nat
      <4>1. o[j].node \in DOMAIN g
        BY <3>1, WrittenFacts DEF Walks, Types, l
      <4>2. g[o[j].node].fields \in Seq(Nat)
        BY <4>1, NodeFacts DEF Walks, Types
      <4>3. DOMAIN g[o[j].node].fields \subseteq Nat
        <5> DEFINE F == g[o[j].node].fields
        <5>1. F \in Seq(Nat)
          BY <4>2
        <5> HIDE DEF F
        <5>2. DOMAIN F = 1 .. Len(F) /\ Len(F) \in Nat
          BY <5>1
        <5> QED BY <5>2 DEF F
      <4> QED BY <3>1, <4>3
    <3>3. FieldDone(o[j], i, g, s, o)
      BY <3>1 DEF Walks, FieldsInv, l
    <3> QED BY <1>9, <3>1, <3>2, <3>3
  <2> QED BY <2>1, <2>2
<1> QED BY <1>9, <1>11, <1>12, <1>13, <1>14, <1>15 DEF Walks, t, w, x, f


-----------------------------------------------------------------------------
(* The actions *)

NormalInv == Walks(graph, stack, path, out)

LEMMA TopFacts ==
  ASSUME NormalInv, stack # <<>>
  PROVE  /\ Top \in Frames(graph) /\ Top.place \in Places /\ Top.node \in DOMAIN graph
         /\ Top = stack[Len(stack)] /\ Len(stack) \in 1 .. Len(stack) /\ Len(stack) \in Nat
         /\ ~Top.exit => Waits(Top, Len(stack), stack, out) /\ Len(Top.place) <= MaxNesting
         /\ Len(Top.place) \in Nat
<1>1. Top = stack[Len(stack)] /\ Len(stack) \in 1 .. Len(stack) /\ Len(stack) \in Nat
  BY PopFacts DEF NormalInv, Walks, Types, Top
<1>2. Top \in Frames(graph) /\ Top.place \in Places /\ Top.node \in DOMAIN graph
  <2>1. stack \in Seq(Frames(graph))
    BY DEF NormalInv, Walks, Types
  <2> QED BY <1>1, <2>1, FrameFacts
<1>3. ~Top.exit => Waits(Top, Len(stack), stack, out)
  BY <1>1 DEF NormalInv, Walks, FramesInv
<1>4. Len(Top.place) \in Nat
  BY <1>2, PlaceIsNat
<1> QED BY <1>1, <1>2, <1>3, <1>4 DEF Waits

\* Above an object that is met again on the path, it was written before; above one that is not,
\* it was not.
LEMMA PathTells ==
  ASSUME NormalInv, stack # <<>>, ~Top.exit
  PROVE  /\ Top.node \in path =>
               \/ graph[Top.node].kind = "throws"
               \/ \E i \in 1 .. Len(out) : Pre(out[i].place, Top.place) /\ out[i].node = Top.node
         /\ Top.node \notin path =>
               \A i \in 1 .. Len(out) : Pre(out[i].place, Top.place) => out[i].node # Top.node
<1> DEFINE n == Len(stack)
<1>0. Top = stack[n] /\ n \in 1 .. n /\ n \in Nat /\ Waits(Top, n, stack, out)
  BY TopFacts
<1> HIDE DEF n
<1>1. ASSUME Top.node \in path, graph[Top.node].kind # "throws"
      PROVE  \E i \in 1 .. Len(out) : Pre(out[i].place, Top.place) /\ out[i].node = Top.node
  <2>1. PICK k \in 1 .. n : stack[k].exit /\ stack[k].node = Top.node
    BY <1>1 DEF NormalInv, Walks, PathInv, n
  <2>2. k # n /\ k < n
    BY <1>0, <2>1
  <2>3. Pre(stack[k].place, Top.place)
    BY <1>0, <2>1, <2>2 DEF NormalInv, Walks, StackInv, n
  <2>4. IsOpen(stack[k], graph, out)
    BY <2>1 DEF NormalInv, Walks, FramesInv, n
  <2> QED BY <2>1, <2>3, <2>4 DEF IsOpen
<1>2. ASSUME NEW i \in 1 .. Len(out), Pre(out[i].place, Top.place), out[i].node = Top.node
      PROVE  Top.node \in path
  <2>1. PICK k \in 1 .. n - 1 : stack[k].exit /\ stack[k].node = out[i].node
    BY <1>0, <1>2 DEF Waits
  <2>2. k \in 1 .. n
    BY <1>0
  <2> QED BY <1>2, <2>1, <2>2 DEF NormalInv, Walks, PathInv, n
<1> QED BY <1>1, <1>2

LEMMA NormalBegin == NormalInit => NormalInv
<1> SUFFICES ASSUME NormalInit PROVE NormalInv
  OBVIOUS
<1> DEFINE f == [exit |-> FALSE, place |-> <<>>, node |-> 1]
<1>1. IsGraph(graph) /\ stack = <<f>> /\ path = {} /\ out = <<>>
  BY NormalizeAssumption DEF NormalInit
<1>2. f \in Frames(graph) /\ f.exit = FALSE /\ f.place = <<>> /\ Len(f.place) = 0
  <2>1. 1 \in DOMAIN graph /\ <<>> \in Places
    BY <1>1 DEF IsGraph, Places
  <2> QED BY <2>1 DEF Frames
<1> HIDE DEF f
<1>3. stack \in Seq(Frames(graph)) /\ Len(stack) = 1 /\ stack[1] = f
  BY <1>1, <1>2
<1>4. out \in Seq(Written(graph)) /\ Len(out) = 0 /\ 1 .. 0 = {}
  BY <1>1
<1>5. \A k \in 1 .. 1 : k = 1
  OBVIOUS
<1>6. Types(graph, stack, path, out)
  BY <1>1, <1>3, <1>4 DEF Types
<1>7. StackInv(stack)
  BY <1>3, <1>5 DEF StackInv
<1>8. FramesInv(graph, stack, out)
  <2>1. Waits(f, 1, stack, out)
    BY <1>2, <1>4, NormalizeAssumption DEF Waits
  <2> QED BY <1>2, <1>3, <1>5, <2>1 DEF FramesInv
<1>9. PathInv(graph, stack, path)
  BY <1>1, <1>2, <1>3, <1>5 DEF PathInv
<1>10. OutInv(graph, out) /\ FieldsInv(graph, stack, out)
  BY <1>4 DEF OutInv, FieldsInv
<1> QED BY <1>6, <1>7, <1>8, <1>9, <1>10 DEF NormalInv, Walks

LEMMA NormalStep == NormalInv /\ [NormalNext]_normalVars => NormalInv'
<1> SUFFICES ASSUME NormalInv, [NormalNext]_normalVars PROVE NormalInv'
  OBVIOUS
<1>m. MaxNesting \in Nat
  BY NormalizeAssumption
<1>1. CASE PopExit
  <2>1. Walks(graph, Front(stack), path \ {Last(stack).node}, out)
    BY <1>1, PopExitWalks DEF NormalInv, PopExit, Top
  <2> QED BY <1>1, <2>1 DEF NormalInv, PopExit, Leave, Top
<1>2. ASSUME NEW m \in Marks \ {"open"}, NEW p2, stack # <<>>, ~Top.exit, Visit(m), Leave, path' = p2,
             graph' = graph, Tells(Entry(Top, m), graph, out),
             p2 = path \/ (p2 = path \cup {Top.node} /\ graph[Top.node].kind = "throws")
      PROVE  NormalInv'
  <2>1. out' = Append(out, Entry(Last(stack), m)) /\ stack' = Front(stack)
    BY <1>2 DEF Visit, Leave, Entry, Top
  <2>2. Walks(graph, Front(stack), p2, Append(out, Entry(Last(stack), m)))
    BY <1>2, LeafWalks DEF NormalInv, Top
  <2> QED BY <1>2, <2>1, <2>2 DEF NormalInv
<1>3. \A m : Entry(Top, m).mark = m /\ Entry(Top, m).place = Top.place /\ Entry(Top, m).node = Top.node
  BY DEF Entry
<1>4. CASE PopLeaf
  <2>1. Tells(Entry(Top, "value"), graph, out)
    BY <1>3, <1>4 DEF PopLeaf, Entering, Tells
  <2>2. "value" \in Marks \ {"open"}
    BY DEF Marks
  <2> QED BY <1>2, <1>4, <2>1, <2>2 DEF PopLeaf, Entering
<1>5. CASE PopRefused
  <2> DEFINE m == IF TooDeep THEN "depth" ELSE "circular"
  <2>1. stack # <<>> /\ ~Top.exit /\ (TooDeep \/ Top.node \in path)
    BY <1>5 DEF PopRefused, Entering
  <2>2. Len(Top.place) <= MaxNesting /\ Len(Top.place) \in Nat
    BY <2>1, TopFacts
  <2>3. Tells(Entry(Top, m), graph, out)
    <3>1. CASE TooDeep
      <4>1. m = "depth" /\ Len(Top.place) = MaxNesting
        BY <1>m, <2>2, <3>1 DEF TooDeep
      <4> HIDE DEF m
      <4> QED BY <1>m, <1>3, <4>1 DEF Tells
    <3>2. CASE ~TooDeep
      <4>1. m = "circular" /\ Len(Top.place) < MaxNesting
        BY <1>m, <2>2, <3>2 DEF TooDeep
      <4>2. \/ graph[Top.node].kind = "throws"
            \/ \E i \in 1 .. Len(out) : Pre(out[i].place, Top.place) /\ out[i].node = Top.node
        BY <2>1, <3>2, PathTells
      <4> HIDE DEF m
      <4> QED BY <1>3, <4>1, <4>2 DEF Tells
    <3> QED BY <3>1, <3>2
  <2>4. m \in Marks \ {"open"}
    BY DEF Marks
  <2>5. Visit(m) /\ Leave /\ graph' = graph /\ path' = path
    BY <1>5 DEF PopRefused
  <2> HIDE DEF m
  <2> QED BY <1>2, <2>1, <2>3, <2>4, <2>5
<1>6. CASE PopUnserializable
  <2>1. /\ stack # <<>> /\ ~Top.exit /\ ~TooDeep
        /\ Visit("unserializable") /\ Leave /\ graph' = graph
    BY <1>6 DEF PopUnserializable, Entering
  <2>2. Len(Top.place) < MaxNesting
    BY <1>m, <2>1, TopFacts DEF TooDeep
  <2>3. Tells(Entry(Top, "unserializable"), graph, out)
    BY <1>3, <2>2 DEF Tells
  <2>4. "unserializable" \in Marks \ {"open"}
    BY DEF Marks
  <2>5. path' = path \/ (path' = path \cup {Top.node} /\ graph[Top.node].kind = "throws")
    BY <1>6 DEF PopUnserializable, Entering
  <2> QED BY <1>2, <2>1, <2>3, <2>4, <2>5
<1>7. CASE PopRecord
  <2> DEFINE fields == graph[Top.node].fields
             ps == PushedAll(Top.place, fields)
             h == [Top EXCEPT !.exit = TRUE]
  <2>1. /\ stack # <<>> /\ ~Top.exit /\ ~TooDeep /\ graph[Top.node].kind = "record"
        /\ Top.node \notin path /\ Visit("open") /\ graph' = graph
        /\ path' = path \cup {Top.node}
    BY <1>7 DEF PopRecord, Entering
  <2>2. stack' = Front(stack) \o <<h>> \o ps
    BY <1>7 DEF PopRecord, PushedAll, FrameOf
  <2>3. Top.place \in Places /\ Top.node \in DOMAIN graph /\ Len(Top.place) < MaxNesting
    BY <1>m, <2>1, TopFacts DEF TooDeep
  <2>4. IsGraph(graph)
    BY DEF NormalInv, Walks, Types
  <2>5. fields \in Seq(Nat)
    BY <2>3, <2>4, NodeFacts
  <2>6. Pushes(graph, Top.place, fields, Len(fields), ps)
    <3>1. \A i \in DOMAIN fields : fields[i] = Undefined \/ fields[i] \in DOMAIN graph
      BY <2>3, <2>4 DEF IsGraph
    <3> HIDE DEF fields
    <3> QED BY <2>3, <2>5, <3>1, PushAll
  <2>7. Tells(Entry(Top, "open"), graph, out)
    <3>1. \A i \in 1 .. Len(out) : Pre(out[i].place, Top.place) => out[i].node # Top.node
      BY <2>1, PathTells
    <3> QED BY <1>3, <2>3, <3>1 DEF Tells
  <2>8. out' = Append(out, Entry(Top, "open"))
    BY <2>1 DEF Visit, Entry
  <2> HIDE DEF ps, h
  <2>9. Walks(graph, Front(stack) \o <<h>> \o ps, path \cup {Last(stack).node},
              Append(out, Entry(Last(stack), "open")))
    BY <1>m, <2>1, <2>3, <2>6, <2>7, OpenWalks DEF NormalInv, Top, h
  <2> QED BY <2>1, <2>2, <2>8, <2>9 DEF NormalInv, Top
<1>8. CASE UNCHANGED normalVars
  BY <1>8 DEF NormalInv, normalVars
<1> QED BY <1>1, <1>4, <1>5, <1>6, <1>7, <1>8 DEF NormalNext

LEMMA NormalInvariant == NormalSpec => []NormalInv
BY NormalBegin, NormalStep, PTL DEF NormalSpec

\* What is written, when nothing waits, is the whole of it.
LEMMA WalksUnfold == NormalInv => OutputUnfoldsTheGraph
<1> SUFFICES ASSUME NormalInv PROVE OutputUnfoldsTheGraph
  OBVIOUS
<1> DEFINE l == Len(out)
<1>1. out \in Seq(Written(graph)) /\ l \in Nat /\ DOMAIN out = 1 .. l
  BY DEF NormalInv, Walks, Types
<1>2. \A i \in 1 .. l : out[i].place \in Places /\ out[i].node \in DOMAIN graph
  BY <1>1, WrittenFacts
<1>3. ToSet(out) = {out[i] : i \in 1 .. l}
  BY <1>1 DEF ToSet
<1> HIDE DEF l
<1>4. \A i, j \in DOMAIN out : i < j => Before(out[i].place, out[j].place)
  BY <1>1, <1>2, FollowsIsBefore DEF NormalInv, Walks, OutInv, l
<1>5. ASSUME NEW j \in 1 .. l, NEW i \in 1 .. l
      PROVE  Pre(out[i].place, out[j].place) <=> IsStrictPrefix(out[i].place, out[j].place)
  BY <1>2, PreIsPrefix
<1>6. ASSUME NEW j \in 1 .. l
      PROVE  /\ out[j].mark = "depth" => Len(out[j].place) = MaxNesting
             /\ graph[out[j].node].kind # "leaf" =>
                   (Len(out[j].place) < MaxNesting <=> out[j].mark # "depth")
             /\ out[j].mark = "circular" =>
                   (out[j].node \in Above(out[j]) \/ graph[out[j].node].kind = "throws")
             /\ out[j].mark = "open" => out[j].node \notin Above(out[j])
  <2>1. Tells(out[j], graph, out)
    BY DEF NormalInv, Walks, OutInv, l
  <2>2. \A x : x \in Above(out[j]) <=>
                 \E i \in 1 .. l : Pre(out[i].place, out[j].place) /\ out[i].node = x
    BY <1>3, <1>5 DEF Above
  <2> QED BY <2>1, <2>2 DEF Tells, l
<1>7. ASSUME stack = <<>>, NEW j \in 1 .. l, out[j].mark = "open",
             NEW i \in DOMAIN graph[out[j].node].fields
      PROVE  graph[out[j].node].fields[i] # Undefined <=>
                \E f \in ToSet(out) : /\ f.place = Append(out[j].place, i)
                                      /\ f.node = graph[out[j].node].fields[i]
  <2>1. ASSUME graph[out[j].node].fields[i] # Undefined
        PROVE  \E f \in ToSet(out) : /\ f.place = Append(out[j].place, i)
                                     /\ f.node = graph[out[j].node].fields[i]
    <3>1. FieldDone(out[j], i, graph, stack, out)
      BY <1>7, <2>1 DEF NormalInv, Walks, FieldsInv, l
    <3>2. \A k \in 1 .. Len(stack) : FALSE
      BY <1>7
    <3> QED BY <1>3, <3>1, <3>2 DEF FieldDone, l
  <2>2. ASSUME NEW f \in ToSet(out), f.node = graph[out[j].node].fields[i]
        PROVE  graph[out[j].node].fields[i] # Undefined
    <3>1. f.node \in DOMAIN graph
      BY <1>2, <1>3
    <3>2. 0 \notin DOMAIN graph
      BY DEF NormalInv, Walks, Types, IsGraph
    <3> QED BY <2>2, <3>1, <3>2 DEF Undefined
  <2> QED BY <2>1, <2>2
<1>8. \A e \in ToSet(out) :
          /\ e.mark = "depth" => Len(e.place) = MaxNesting
          /\ graph[e.node].kind # "leaf" => (Len(e.place) < MaxNesting <=> e.mark # "depth")
          /\ e.mark = "circular" => (e.node \in Above(e) \/ graph[e.node].kind = "throws")
          /\ e.mark = "open" => e.node \notin Above(e)
  <2> SUFFICES ASSUME NEW j \in 1 .. l
               PROVE  /\ out[j].mark = "depth" => Len(out[j].place) = MaxNesting
                      /\ graph[out[j].node].kind # "leaf" =>
                            (Len(out[j].place) < MaxNesting <=> out[j].mark # "depth")
                      /\ out[j].mark = "circular" =>
                            (out[j].node \in Above(out[j]) \/ graph[out[j].node].kind = "throws")
                      /\ out[j].mark = "open" => out[j].node \notin Above(out[j])
    BY <1>3, Zenon
  <2> QED BY <1>6
<1>9. stack = <<>> =>
          \A e \in ToSet(out) : e.mark = "open" =>
              \A i \in DOMAIN graph[e.node].fields :
                 graph[e.node].fields[i] # Undefined <=>
                     \E f \in ToSet(out) : f.place = Append(e.place, i) /\ f.node = graph[e.node].fields[i]
  <2> SUFFICES ASSUME stack = <<>>, NEW e \in ToSet(out), e.mark = "open",
                      NEW i \in DOMAIN graph[e.node].fields
               PROVE  graph[e.node].fields[i] # Undefined <=>
                         \E f \in ToSet(out) : /\ f.place = Append(e.place, i)
                                               /\ f.node = graph[e.node].fields[i]
    OBVIOUS
  <2>1. PICK j \in 1 .. l : e = out[j]
    BY <1>3
  <2> QED BY <1>7, <2>1, Zenon
<1> QED BY <1>4, <1>8, <1>9, Zenon DEF OutputUnfoldsTheGraph

\* normalizeForJson(): what is written is the object graph unfolded, in the order of the text and
\* cut exactly where an object contains itself or lies too deep; for any graph, its shared objects
\* and cycles included, and any depth allowed (result-limits.js).
THEOREM OutputUnfoldsTheGraphCorrect == NormalSpec => []OutputUnfoldsTheGraph
BY NormalInvariant, WalksUnfold, PTL

LEMMA NormalTypes == NormalInv => NormalTypeOK
<1> SUFFICES ASSUME NormalInv, NEW i \in DOMAIN stack
             PROVE  path \subseteq DOMAIN graph /\ stack[i].node \in DOMAIN graph /\ stack[i].exit \in BOOLEAN
  BY DEF NormalTypeOK, NormalInv, Walks, Types
<1>1. stack \in Seq(Frames(graph)) /\ path \subseteq DOMAIN graph
  BY DEF NormalInv, Walks, Types
<1>2. i \in 1 .. Len(stack)
  BY <1>1
<1> QED BY <1>1, <1>2, FrameFacts

-----------------------------------------------------------------------------
(* Catalogue rows *)

ColumnRows == [schema : Words, table : Words, column : Nat]
PartRows == [schema : Words, table : Words, name : Words, kind : PartKinds, columns : Seq(Nat)]

LEMMA CatalogFacts ==
  ASSUME IsCatalog(catalog)
  PROVE  /\ catalog.columns \in Seq(ColumnRows) /\ Len(catalog.columns) \in Nat
         /\ catalog.parts \in Seq(PartRows) /\ Len(catalog.parts) \in Nat
         /\ \A i \in 1 .. Len(catalog.columns) : /\ catalog.columns[i] \in ColumnRows
                                                /\ \E r \in catalog.relations : Of(catalog.columns[i], r)
         /\ \A i \in 1 .. Len(catalog.parts) : /\ catalog.parts[i] \in PartRows
                                              /\ \E r \in catalog.relations : Of(catalog.parts[i], r)
<1>1. catalog.columns \in Seq(ColumnRows) /\ catalog.parts \in Seq(PartRows)
  BY DEF IsCatalog, ColumnRows, PartRows
<1>2. /\ \A i \in DOMAIN catalog.columns : \E r \in catalog.relations : Of(catalog.columns[i], r)
      /\ \A i \in DOMAIN catalog.parts : \E r \in catalog.relations : Of(catalog.parts[i], r)
  BY DEF IsCatalog
<1>3. /\ DOMAIN catalog.columns = 1 .. Len(catalog.columns) /\ Len(catalog.columns) \in Nat
      /\ DOMAIN catalog.parts = 1 .. Len(catalog.parts) /\ Len(catalog.parts) \in Nat
  BY <1>1
<1>4. /\ \A i \in 1 .. Len(catalog.columns) : catalog.columns[i] \in ColumnRows
      /\ \A i \in 1 .. Len(catalog.parts) : catalog.parts[i] \in PartRows
  BY <1>1
<1> QED BY <1>1, <1>2, <1>3, <1>4

\* The own columns of a relation, row by row.
LEMMA OwnColumnsSteps ==
  ASSUME IsCatalog(catalog), NEW r
  PROVE  /\ OwnColumns(r) \in [0 .. Len(catalog.columns) -> Seq(ColumnRows)]
         /\ OwnColumns(r)[0] = <<>>
         /\ \A i \in 1 .. Len(catalog.columns) :
               OwnColumns(r)[i] = IF Of(catalog.columns[i], r)
                                  THEN Append(OwnColumns(r)[i - 1], catalog.columns[i])
                                  ELSE OwnColumns(r)[i - 1]
<1> DEFINE n == Len(catalog.columns)
           D == Seq(ColumnRows)
           c == catalog.columns
           F(h) == [i \in 0 .. n |-> IF i = 0 THEN <<>>
                                     ELSE IF Of(c[i], r) THEN Append(h[i - 1], c[i])
                                     ELSE h[i - 1]]
           f == CHOOSE h : h = F(h)
           G == [i \in 1 .. n |-> [s \in D |-> IF Of(c[i], r) THEN Append(s, c[i]) ELSE s]]
<1>1. n \in Nat /\ \A i \in 1 .. n : c[i] \in ColumnRows
  BY CatalogFacts
<1> HIDE DEF c, n
<1>2. G \in [1 .. n -> [D -> D]]
  <2>1. ASSUME NEW i \in 1 .. n, NEW s \in D
        PROVE  Append(s, c[i]) \in D
    BY <1>1
  <2> QED BY <2>1
<1>3. PICK h \in [0 .. n -> D] : Steps(h, n, <<>>, G)
  <2>1. <<>> \in D
    OBVIOUS
  <2> HIDE DEF G, D
  <2> QED BY <1>1, <1>2, <2>1, StepsExist
<1>4. h = F(h)
  <2>1. ASSUME NEW i \in 0 .. n
        PROVE  h[i] = IF i = 0 THEN <<>>
                      ELSE IF Of(c[i], r) THEN Append(h[i - 1], c[i])
                      ELSE h[i - 1]
    <3>1. h[i] = IF i = 0 THEN <<>> ELSE G[i][h[i - 1]]
      <4> HIDE DEF G, D
      <4> QED BY <1>3 DEF Steps
    <3>2. i # 0 => i \in 1 .. n /\ h[i - 1] \in D
      <4> HIDE DEF D
      <4> QED BY <1>1
    <3> QED BY <3>1, <3>2
  <2>2. h = [i \in 0 .. n |-> h[i]]
    OBVIOUS
  <2> QED BY <2>1, <2>2
<1>5. f = F(f)
  <2> HIDE DEF F
  <2> QED BY <1>4
<1>6. OwnColumns(r) = f
  BY DEF OwnColumns, n, c
<1>7. f[0] = <<>> /\ \A i \in 1 .. n : f[i] = IF Of(c[i], r) THEN Append(f[i - 1], c[i])
                                              ELSE f[i - 1]
  <2> HIDE DEF f
  <2>1. \A i \in 0 .. n : f[i] = IF i = 0 THEN <<>>
                                 ELSE IF Of(c[i], r) THEN Append(f[i - 1], c[i])
                                 ELSE f[i - 1]
    BY <1>5
  <2>2. 0 \in 0 .. n /\ \A i \in 1 .. n : i \in 0 .. n /\ i # 0
    BY <1>1
  <2> QED BY <2>1, <2>2
<1>8. f = [i \in 0 .. n |-> f[i]]
  <2> HIDE DEF f
  <2> QED BY <1>5
<1> HIDE DEF f, F, G, D
<1> DEFINE S == {i \in 0 .. n : f[i] \in D}
<1>9. 0 \in S
  <2>1. <<>> \in D
    BY DEF D
  <2>2. 0 \in 0 .. n
    BY <1>1
  <2> QED BY <1>7, <2>1, <2>2
<1>10. ASSUME NEW i \in 1 .. n, i - 1 \in S PROVE i \in S
  <2>1. f[i - 1] \in D /\ c[i] \in ColumnRows /\ i \in 0 .. n
    BY <1>1, <1>10
  <2>2. Append(f[i - 1], c[i]) \in D
    BY <2>1 DEF D
  <2> QED BY <1>7, <2>1, <2>2
<1>11. \A i \in 0 .. n : f[i] \in D
  <2> HIDE DEF S
  <2>1. \A i \in 0 .. n : i \in S
    BY <1>1, <1>9, <1>10, UpTo
  <2> QED BY <2>1 DEF S
<1>12. f \in [0 .. n -> D]
  BY <1>8, <1>11
<1> QED BY <1>6, <1>7, <1>12 DEF D, n, c

\* The columns of a part, row by row.
LEMMA ColumnsOfPartSteps ==
  ASSUME IsCatalog(catalog), NEW p
  PROVE  /\ ColumnsOfPart(p) \in [0 .. Len(catalog.parts) -> Seq(Nat)]
         /\ ColumnsOfPart(p)[0] = <<>>
         /\ \A i \in 1 .. Len(catalog.parts) :
               ColumnsOfPart(p)[i] = IF SamePart(catalog.parts[i], p)
                                     THEN ColumnsOfPart(p)[i - 1] \o catalog.parts[i].columns
                                     ELSE ColumnsOfPart(p)[i - 1]
<1> DEFINE n == Len(catalog.parts)
           D == Seq(Nat)
           c == catalog.parts
           F(h) == [i \in 0 .. n |-> IF i = 0 THEN <<>>
                                     ELSE IF SamePart(c[i], p) THEN h[i - 1] \o c[i].columns
                                     ELSE h[i - 1]]
           f == CHOOSE h : h = F(h)
           G == [i \in 1 .. n |-> [s \in D |-> IF SamePart(c[i], p) THEN s \o c[i].columns ELSE s]]
<1>1. n \in Nat /\ \A i \in 1 .. n : c[i].columns \in Seq(Nat)
  <2>1. n \in Nat /\ \A i \in 1 .. n : c[i] \in PartRows
    BY CatalogFacts
  <2> QED BY <2>1 DEF PartRows
<1> HIDE DEF c, n
<1>2. G \in [1 .. n -> [D -> D]]
  <2>1. ASSUME NEW i \in 1 .. n, NEW s \in D
        PROVE  s \o c[i].columns \in D
    BY <1>1
  <2> QED BY <2>1
<1>3. PICK h \in [0 .. n -> D] : Steps(h, n, <<>>, G)
  <2>1. <<>> \in D
    OBVIOUS
  <2> HIDE DEF G, D
  <2> QED BY <1>1, <1>2, <2>1, StepsExist
<1>4. h = F(h)
  <2>1. ASSUME NEW i \in 0 .. n
        PROVE  h[i] = IF i = 0 THEN <<>>
                      ELSE IF SamePart(c[i], p) THEN h[i - 1] \o c[i].columns
                      ELSE h[i - 1]
    <3>1. h[i] = IF i = 0 THEN <<>> ELSE G[i][h[i - 1]]
      <4> HIDE DEF G, D
      <4> QED BY <1>3 DEF Steps
    <3>2. i # 0 => i \in 1 .. n /\ h[i - 1] \in D
      <4> HIDE DEF D
      <4> QED BY <1>1
    <3> QED BY <3>1, <3>2
  <2>2. h = [i \in 0 .. n |-> h[i]]
    OBVIOUS
  <2> QED BY <2>1, <2>2
<1>5. f = F(f)
  <2> HIDE DEF F
  <2> QED BY <1>4
<1>6. ColumnsOfPart(p) = f
  BY DEF ColumnsOfPart, n, c
<1>7. f[0] = <<>> /\ \A i \in 1 .. n : f[i] = IF SamePart(c[i], p) THEN f[i - 1] \o c[i].columns
                                              ELSE f[i - 1]
  <2> HIDE DEF f
  <2>1. \A i \in 0 .. n : f[i] = IF i = 0 THEN <<>>
                                 ELSE IF SamePart(c[i], p) THEN f[i - 1] \o c[i].columns
                                 ELSE f[i - 1]
    BY <1>5
  <2>2. 0 \in 0 .. n /\ \A i \in 1 .. n : i \in 0 .. n /\ i # 0
    BY <1>1
  <2> QED BY <2>1, <2>2
<1>8. f = [i \in 0 .. n |-> f[i]]
  <2> HIDE DEF f
  <2> QED BY <1>5
<1> HIDE DEF f, F, G, D
<1> DEFINE S == {i \in 0 .. n : f[i] \in D}
<1>9. 0 \in S
  <2>1. <<>> \in D
    BY DEF D
  <2>2. 0 \in 0 .. n
    BY <1>1
  <2> QED BY <1>7, <2>1, <2>2
<1>10. ASSUME NEW i \in 1 .. n, i - 1 \in S PROVE i \in S
  <2>1. f[i - 1] \in D /\ c[i].columns \in Seq(Nat) /\ i \in 0 .. n
    BY <1>1, <1>10
  <2>2. f[i - 1] \o c[i].columns \in D
    BY <2>1 DEF D
  <2> QED BY <1>7, <2>1, <2>2
<1>11. \A i \in 0 .. n : f[i] \in D
  <2> HIDE DEF S
  <2>1. \A i \in 0 .. n : i \in S
    BY <1>1, <1>9, <1>10, UpTo
  <2> QED BY <2>1 DEF S
<1>12. f \in [0 .. n -> D]
  BY <1>8, <1>11
<1> QED BY <1>6, <1>7, <1>12 DEF D, n, c

\* A relation or a part that no row so far names has no column so far.
LEMMA NobodysColumns ==
  ASSUME IsCatalog(catalog), NEW r, NEW n \in 0 .. Len(catalog.columns),
         \A i \in 1 .. n : ~Of(catalog.columns[i], r)
  PROVE  OwnColumns(r)[n] = <<>>
<1> DEFINE S == {i \in 0 .. n : OwnColumns(r)[i] = <<>>}
<1>1. n \in Nat /\ \A i \in 1 .. n : i \in 1 .. Len(catalog.columns) /\ i \in 0 .. n
  BY CatalogFacts
<1>2. 0 \in S
  BY <1>1, OwnColumnsSteps
<1>3. \A i \in 1 .. n : i - 1 \in S => i \in S
  BY <1>1, OwnColumnsSteps
<1> HIDE DEF S
<1>4. n \in S
  <2>1. \A i \in 0 .. n : i \in S
    BY <1>1, <1>2, <1>3, UpTo
  <2> QED BY <1>1, <2>1
<1> QED BY <1>4 DEF S

LEMMA UnmetPart ==
  ASSUME IsCatalog(catalog), NEW p, NEW n \in 0 .. Len(catalog.parts),
         \A i \in 1 .. n : ~SamePart(catalog.parts[i], p)
  PROVE  ColumnsOfPart(p)[n] = <<>>
<1> DEFINE S == {i \in 0 .. n : ColumnsOfPart(p)[i] = <<>>}
<1>1. n \in Nat /\ \A i \in 1 .. n : i \in 1 .. Len(catalog.parts) /\ i \in 0 .. n
  BY CatalogFacts
<1>2. 0 \in S
  BY <1>1, ColumnsOfPartSteps
<1>3. \A i \in 1 .. n : i - 1 \in S => i \in S
  BY <1>1, ColumnsOfPartSteps
<1> HIDE DEF S
<1>4. n \in S
  <2>1. \A i \in 0 .. n : i \in S
    BY <1>1, <1>2, <1>3, UpTo
  <2> QED BY <1>1, <2>1
<1> QED BY <1>4 DEF S

\* Two parts of one name have the same columns.
LEMMA OnePartOneList ==
  ASSUME IsCatalog(catalog), NEW p, NEW q, NEW n \in 0 .. Len(catalog.parts), SamePart(p, q)
  PROVE  ColumnsOfPart(p)[n] = ColumnsOfPart(q)[n]
<1> DEFINE S == {i \in 0 .. n : ColumnsOfPart(p)[i] = ColumnsOfPart(q)[i]}
<1>1. n \in Nat /\ \A i \in 1 .. n : i \in 1 .. Len(catalog.parts) /\ i \in 0 .. n
  BY CatalogFacts
<1>2. 0 \in S
  BY <1>1, ColumnsOfPartSteps
<1>3. ASSUME NEW i \in 1 .. n, i - 1 \in S PROVE i \in S
  <2>1. SamePart(catalog.parts[i], p) <=> SamePart(catalog.parts[i], q)
    BY DEF SamePart, Of
  <2> QED BY <1>1, <1>3, <2>1, ColumnsOfPartSteps
<1> HIDE DEF S
<1>4. n \in S
  <2>1. \A i \in 0 .. n : i \in S
    BY <1>1, <1>2, <1>3, UpTo
  <2> QED BY <1>1, <2>1
<1> QED BY <1>4 DEF S

\* Where names stay apart, a key is a relation and an identity is a part.
LEMMA KeyIsRelation ==
  ASSUME IsCatalog(catalog), NamesStayApart, NEW r \in catalog.relations, NEW row,
         \E s \in catalog.relations : Of(row, s)
  PROVE  TableKey(row) = TableKey(r) <=> Of(row, r)
<1>1. PICK s \in catalog.relations : Of(row, s)
  OBVIOUS
<1>2. TableKey(row) = TableKey(s)
  BY <1>1 DEF TableKey, Of
<1>3. Of(row, r) => TableKey(row) = TableKey(r)
  BY DEF TableKey, Of
<1>4. ASSUME TableKey(s) = TableKey(r) PROVE s = r
  <2>1. CASE catalog.dialect = "postgres"
    BY <1>4, <2>1 DEF TableKey, NamesStayApart
  <2>2. CASE catalog.dialect # "postgres"
    <3>1. s.table = r.table
      BY <1>4, <2>2 DEF TableKey
    <3>2. s.schema = r.schema
      BY <2>2 DEF IsCatalog
    <3> QED BY <3>1, <3>2 DEF NamesStayApart
  <2> QED BY <2>1, <2>2
<1> QED BY <1>1, <1>2, <1>3, <1>4

LEMMA IdIsPart ==
  ASSUME IsCatalog(catalog), NamesStayApart, catalog.dialect # "postgres",
         NEW i \in 1 .. Len(catalog.parts), NEW j \in 1 .. Len(catalog.parts)
  PROVE  /\ SamePart(catalog.parts[i], catalog.parts[j]) <=>
                (PartId(catalog.parts[i]) = PartId(catalog.parts[j])
                 /\ catalog.parts[i].kind = catalog.parts[j].kind)
<1> DEFINE p == catalog.parts[i]
           q == catalog.parts[j]
<1>1. /\ \E r \in catalog.relations : Of(p, r)
      /\ \E r \in catalog.relations : Of(q, r)
      /\ catalog.parts \in Seq(PartRows)
  BY CatalogFacts
<1>2. p \in ToSet(catalog.parts) /\ q \in ToSet(catalog.parts)
  BY <1>1 DEF ToSet
<1>3. p.schema = q.schema
  BY <1>1 DEF IsCatalog, Of
<1>4. PartId(p) = PartId(q) => p.table = q.table /\ p.name = q.name
  BY <1>2 DEF NamesStayApart
<1> QED BY <1>3, <1>4 DEF SamePart, Of, PartId


-----------------------------------------------------------------------------
(* The groups *)

LEMMA FirstOfFacts ==
  ASSUME NEW S, NEW own \in Seq(S), NEW m \in Nat
  PROVE  /\ FirstOf(own, m) \in Seq(S)
         /\ Len(FirstOf(own, m)) = IF Len(own) < m THEN Len(own) ELSE m
         /\ \A i \in 1 .. Len(FirstOf(own, m)) : FirstOf(own, m)[i] = own[i]
         /\ Len(own) <= m => FirstOf(own, m) = own
<1> DEFINE k == IF Len(own) < m THEN Len(own) ELSE m
           f == [i \in 1 .. k |-> own[i]]
<1>1. k \in Nat /\ Len(own) \in Nat /\ k <= Len(own) /\ (Len(own) <= m => k = Len(own))
  OBVIOUS
<1>2. FirstOf(own, m) = SubSeq(own, 1, k)
  BY DEF FirstOf
<1> HIDE DEF k
<1>3. SubSeq(own, 1, k) = f
  BY <1>1
<1>4. \A i \in 1 .. k : i \in 1 .. Len(own) /\ own[i] \in S
  BY <1>1
<1>5. f \in Seq(S) /\ Len(f) = k /\ \A i \in 1 .. k : f[i] = own[i]
  BY <1>1, <1>4
<1>6. k = Len(own) => f = own
  BY <1>1
<1> HIDE DEF f
<1>7. Len(FirstOf(own, m)) = k
  BY <1>2, <1>3, <1>5
<1> QED BY <1>1, <1>2, <1>3, <1>5, <1>6, <1>7 DEF k

\* One row more: it is kept while there is room.
LEMMA FirstOfAppend ==
  ASSUME NEW S, NEW own \in Seq(S), NEW row \in S, NEW m \in Nat
  PROVE  /\ Len(own) < m => FirstOf(Append(own, row), m) = Append(FirstOf(own, m), row)
         /\ ~(Len(own) < m) => FirstOf(Append(own, row), m) = FirstOf(own, m)
<1> DEFINE more == Append(own, row)
<1>1. more \in Seq(S) /\ Len(more) = Len(own) + 1 /\ Len(own) \in Nat
      /\ \A i \in 1 .. Len(own) : more[i] = own[i]
  OBVIOUS
<1>2. Len(own) < m => FirstOf(own, m) = own
  BY <1>1, FirstOfFacts
<1> HIDE DEF more
<1>3. Len(own) < m => FirstOf(more, m) = more
  BY <1>1, FirstOfFacts
<1>4. ASSUME ~(Len(own) < m) PROVE FirstOf(more, m) = FirstOf(own, m)
  <2> DEFINE a == FirstOf(more, m)
             b == FirstOf(own, m)
  <2>1. /\ a \in Seq(S) /\ Len(a) = m /\ \A i \in 1 .. Len(a) : a[i] = more[i]
    <3>1. /\ FirstOf(more, m) \in Seq(S)
          /\ Len(FirstOf(more, m)) = IF Len(more) < m THEN Len(more) ELSE m
          /\ \A i \in 1 .. Len(FirstOf(more, m)) : FirstOf(more, m)[i] = more[i]
      BY <1>1, FirstOfFacts
    <3>2. ~(Len(more) < m)
      BY <1>1, <1>4
    <3> QED BY <3>1, <3>2
  <2>2. /\ b \in Seq(S) /\ Len(b) = m /\ \A i \in 1 .. Len(b) : b[i] = own[i]
    BY <1>4, FirstOfFacts
  <2> HIDE DEF a, b
  <2>3. \A i \in 1 .. m : i \in 1 .. Len(own)
    BY <1>1, <1>4
  <2>4. \A i \in 1 .. m : a[i] = b[i]
    BY <1>1, <2>1, <2>2, <2>3
  <2>5. a = b
    BY <2>1, <2>2, <2>4
  <2> QED BY <2>5 DEF a, b
<1> QED BY <1>2, <1>3, <1>4 DEF more

\* The one too many is taken off again.
LEMMA FirstOfFirst ==
  ASSUME NEW S, NEW own \in Seq(S), NEW m \in Nat
  PROVE  /\ Len(FirstOf(own, m + 1)) > m =>
               Len(own) > m /\ SubSeq(FirstOf(own, m + 1), 1, m) = FirstOf(own, m)
         /\ ~(Len(FirstOf(own, m + 1)) > m) =>
               Len(own) <= m /\ FirstOf(own, m + 1) = FirstOf(own, m)
<1> DEFINE a == FirstOf(own, m + 1)
           b == FirstOf(own, m)
<1>1. /\ a \in Seq(S) /\ Len(a) = IF Len(own) < m + 1 THEN Len(own) ELSE m + 1
      /\ \A i \in 1 .. Len(a) : a[i] = own[i]
      /\ Len(own) <= m + 1 => a = own
  <2>1. m + 1 \in Nat
    OBVIOUS
  <2> QED BY <2>1, FirstOfFacts
<1>2. /\ b \in Seq(S) /\ Len(b) = IF Len(own) < m THEN Len(own) ELSE m
      /\ \A i \in 1 .. Len(b) : b[i] = own[i]
      /\ Len(own) <= m => b = own
  BY FirstOfFacts
<1>3. Len(own) \in Nat
  OBVIOUS
<1> HIDE DEF a, b
<1>4. ASSUME Len(a) > m PROVE Len(own) > m /\ SubSeq(a, 1, m) = b
  <2>1. Len(a) = m + 1 /\ Len(own) > m /\ Len(b) = m
    BY <1>1, <1>2, <1>3, <1>4
  <2>2. \A i \in 1 .. m : i \in 1 .. Len(a) /\ i \in 1 .. Len(b)
    BY <2>1
  <2>3. \A i \in 1 .. m : a[i] = b[i]
    BY <1>1, <1>2, <2>2
  <2>4. SubSeq(a, 1, m) = [i \in 1 .. m |-> a[i]]
    BY <1>1, <2>1
  <2>5. b = [i \in 1 .. m |-> b[i]]
    BY <1>2, <2>1
  <2> QED BY <2>1, <2>3, <2>4, <2>5
<1>5. ASSUME ~(Len(a) > m) PROVE Len(own) <= m /\ a = b
  BY <1>1, <1>2, <1>3, <1>5
<1> QED BY <1>4, <1>5 DEF a, b

Group == [columns : Seq(ColumnRows), cut : BOOLEAN]
Keys == {TableKey(row) : row \in ToSet(catalog.columns)}

\* A group has the first of the columns of its relation, and says whether there are more.
Gathers(group, own, room) ==
    /\ group.columns = FirstOf(own, room)
    /\ group.cut <=> Len(own) > room

GroupsHold(gs, n, room) ==
    \A r \in catalog.relations :
        TableKey(r) \in Keys => Gathers(gs[TableKey(r)], OwnColumns(r)[n], room)

LEMMA OwnIsSeq ==
  ASSUME IsCatalog(catalog), NEW r, NEW n \in 0 .. Len(catalog.columns)
  PROVE  OwnColumns(r)[n] \in Seq(ColumnRows) /\ Len(OwnColumns(r)[n]) \in Nat
<1>1. OwnColumns(r)[n] \in Seq(ColumnRows)
  BY OwnColumnsSteps
<1> QED BY <1>1

LEMMA GatherHolds ==
  ASSUME IsCatalog(catalog), NamesStayApart, ColumnCap \in Nat, NEW gs \in [Keys -> Group],
         NEW n \in 0 .. Len(catalog.columns), n # Len(catalog.columns),
         GroupsHold(gs, n, ColumnCap + 1),
         NEW row, row = catalog.columns[n + 1], NEW key, key = TableKey(row),
         NEW hs, hs = [gs EXCEPT ![key] = Keep(@, row)]
  PROVE  GroupsHold(hs, n + 1, ColumnCap + 1)
<1>1. n \in Nat /\ n + 1 \in 1 .. Len(catalog.columns) /\ n + 1 \in 0 .. Len(catalog.columns)
  BY CatalogFacts
<1>2. row \in ColumnRows /\ \E s \in catalog.relations : Of(row, s)
  BY <1>1, CatalogFacts
<1>3. key \in Keys
  <2>1. row \in ToSet(catalog.columns)
    BY <1>1, CatalogFacts DEF ToSet
  <2> QED BY <2>1 DEF Keys
<1> SUFFICES ASSUME NEW r \in catalog.relations, TableKey(r) \in Keys
             PROVE  Gathers(hs[TableKey(r)], OwnColumns(r)[n + 1], ColumnCap + 1)
  BY DEF GroupsHold
<1> DEFINE own == OwnColumns(r)[n]
           more == OwnColumns(r)[n + 1]
           g == gs[TableKey(r)]
           h == hs[TableKey(r)]
<1>4. Gathers(g, own, ColumnCap + 1) /\ g \in Group
  BY DEF GroupsHold
<1>5. own \in Seq(ColumnRows) /\ Len(own) \in Nat
  BY OwnIsSeq
<1>6. more = IF Of(row, r) THEN Append(own, row) ELSE own
  BY <1>1, OwnColumnsSteps
<1>7. TableKey(row) = TableKey(r) <=> Of(row, r)
  BY <1>2, KeyIsRelation
<1>m. ColumnCap + 1 \in Nat
  OBVIOUS
<1>8. CASE ~Of(row, r)
  <2>1. h = g
    BY <1>7, <1>8
  <2> HIDE DEF h, g, own, more
  <2> QED BY <1>4, <1>6, <1>8, <2>1 DEF h, more
<1>9. CASE Of(row, r)
  <2>1. h = IF Len(g.columns) < ColumnCap + 1
            THEN [g EXCEPT !.columns = Append(@, row)] ELSE [g EXCEPT !.cut = TRUE]
    <3>1. TableKey(r) = key
      BY <1>7, <1>9
    <3>2. hs[key] = Keep(gs[key], row)
      BY <1>3
    <3> QED BY <3>1, <3>2 DEF Keep
  <2>2. more = Append(own, row)
    BY <1>6, <1>9
  <2> HIDE DEF h, g, own, more
  <2>3. Len(g.columns) = IF Len(own) < ColumnCap + 1 THEN Len(own) ELSE ColumnCap + 1
    <3>1. Len(FirstOf(own, ColumnCap + 1)) = IF Len(own) < ColumnCap + 1 THEN Len(own) ELSE ColumnCap + 1
      BY <1>m, <1>5, FirstOfFacts
    <3> QED BY <1>4, <3>1 DEF Gathers
  <2>4. Len(more) = Len(own) + 1
    BY <1>2, <1>5, <2>2
  <2>5. CASE Len(own) < ColumnCap + 1
    <3>1. h = [g EXCEPT !.columns = Append(@, row)]
      BY <2>1, <2>3, <2>5
    <3>2. h.columns = Append(g.columns, row) /\ h.cut = g.cut
      BY <1>4, <3>1 DEF Group
    <3>3. FirstOf(more, ColumnCap + 1) = Append(g.columns, row)
      BY <1>m, <1>2, <1>4, <1>5, <2>2, <2>5, FirstOfAppend DEF Gathers
    <3>4. ~(Len(more) > ColumnCap + 1) /\ ~(Len(own) > ColumnCap + 1)
      BY <1>m, <1>5, <2>4, <2>5
    <3>5. Gathers(h, more, ColumnCap + 1)
      BY <1>4, <3>2, <3>3, <3>4 DEF Gathers
    <3> QED BY <3>5 DEF h, more
  <2>6. CASE ~(Len(own) < ColumnCap + 1)
    <3>1. h = [g EXCEPT !.cut = TRUE]
      BY <1>m, <2>1, <2>3, <2>6
    <3>2. h.columns = g.columns /\ h.cut = TRUE
      BY <1>4, <3>1 DEF Group
    <3>3. FirstOf(more, ColumnCap + 1) = g.columns
      BY <1>m, <1>2, <1>4, <1>5, <2>2, <2>6, FirstOfAppend DEF Gathers
    <3>4. Len(more) > ColumnCap + 1
      BY <1>m, <1>5, <2>4, <2>6
    <3>5. Gathers(h, more, ColumnCap + 1)
      BY <3>2, <3>3, <3>4 DEF Gathers
    <3> QED BY <3>5 DEF h, more
  <2> QED BY <2>5, <2>6
<1> QED BY <1>8, <1>9

LEMMA CapHolds ==
  ASSUME IsCatalog(catalog), ColumnCap \in Nat, NEW gs \in [Keys -> Group],
         NEW n \in 0 .. Len(catalog.columns), GroupsHold(gs, n, ColumnCap + 1),
         NEW hs, hs = [k \in Keys |->
                         IF Len(gs[k].columns) > ColumnCap
                         THEN [columns |-> SubSeq(gs[k].columns, 1, ColumnCap), cut |-> TRUE]
                         ELSE gs[k]]
  PROVE  GroupsHold(hs, n, ColumnCap)
<1> SUFFICES ASSUME NEW r \in catalog.relations, TableKey(r) \in Keys
             PROVE  Gathers(hs[TableKey(r)], OwnColumns(r)[n], ColumnCap)
  BY DEF GroupsHold
<1> DEFINE own == OwnColumns(r)[n]
           g == gs[TableKey(r)]
           h == hs[TableKey(r)]
<1>1. Gathers(g, own, ColumnCap + 1)
  BY DEF GroupsHold
<1>2. own \in Seq(ColumnRows) /\ Len(own) \in Nat
  BY OwnIsSeq
<1>3. h = IF Len(g.columns) > ColumnCap
          THEN [columns |-> SubSeq(g.columns, 1, ColumnCap), cut |-> TRUE] ELSE g
  OBVIOUS
<1> HIDE DEF h, g, own
<1>4. CASE Len(g.columns) > ColumnCap
  <2>1. Len(own) > ColumnCap /\ SubSeq(g.columns, 1, ColumnCap) = FirstOf(own, ColumnCap)
    BY <1>1, <1>2, <1>4, FirstOfFirst DEF Gathers
  <2>2. h.columns = SubSeq(g.columns, 1, ColumnCap) /\ h.cut = TRUE
    BY <1>3, <1>4
  <2>3. Gathers(h, own, ColumnCap)
    BY <2>1, <2>2 DEF Gathers
  <2> QED BY <2>3 DEF h, own
<1>5. CASE ~(Len(g.columns) > ColumnCap)
  <2>1. Len(own) <= ColumnCap /\ g.columns = FirstOf(own, ColumnCap)
    BY <1>1, <1>2, <1>5, FirstOfFirst DEF Gathers
  <2>2. ~(Len(own) > ColumnCap + 1) /\ ~(Len(own) > ColumnCap)
    BY <1>2, <2>1
  <2>3. h = g
    BY <1>3, <1>5
  <2>4. Gathers(h, own, ColumnCap)
    BY <1>1, <2>1, <2>2, <2>3 DEF Gathers
  <2> QED BY <2>4 DEF h, own
<1> QED BY <1>4, <1>5


-----------------------------------------------------------------------------
(* The parts *)

PartEntries == [slot : Words, id : Words, name : Words, kind : PartKinds, columns : Seq(Nat)]

\* An entry is that of a row, and has the columns of all the rows of its part so far.
Built(p, row, n) ==
    /\ p.slot = TableKey(row) /\ p.id = PartId(row) /\ p.name = row.name /\ p.kind = row.kind
    /\ p.columns = ColumnsOfPart(row)[n]

PartsHold(ps, n) ==
    /\ \A i \in 1 .. Len(ps) : \E j \in 1 .. n : Built(ps[i], catalog.parts[j], n)
    /\ \A j \in 1 .. n : \E i \in 1 .. Len(ps) : Built(ps[i], catalog.parts[j], n)
    /\ \A i, k \in 1 .. Len(ps) :
          i # k => ~(ps[i].id = ps[k].id /\ ps[i].kind = ps[k].kind /\ ~Whole(catalog.dialect, ps[i]))

LEMMA AsPartFacts ==
  ASSUME NEW row \in PartRows
  PROVE  /\ AsPart(row) \in PartEntries /\ AsPart(row).slot = TableKey(row)
         /\ AsPart(row).id = PartId(row) /\ AsPart(row).name = row.name
         /\ AsPart(row).kind = row.kind /\ AsPart(row).columns = row.columns
<1>1. /\ row.schema \in Words /\ row.table \in Words /\ row.name \in Words
      /\ row.kind \in PartKinds /\ row.columns \in Seq(Nat)
  BY DEF PartRows
<1>2. TableKey(row) \in Words /\ PartId(row) \in Words
  <2>1. row.schema \o row.table \in Words /\ row.table \o row.name \in Words
    BY <1>1 DEF Words
  <2> QED BY <1>1, <2>1 DEF TableKey, PartId
<1> HIDE DEF TableKey, PartId
<1> QED BY <1>1, <1>2 DEF AsPart, PartEntries

LEMMA SamePartIsEqual ==
  ASSUME NEW p, NEW q, NEW r
  PROVE  /\ SamePart(p, p) /\ (SamePart(p, q) => SamePart(q, p))
         /\ (SamePart(p, q) => (SamePart(p, r) <=> SamePart(q, r)) /\ (SamePart(r, p) <=> SamePart(r, q)))
BY DEF SamePart, Of

\* A row of another part changes nothing of an entry.
LEMMA OtherRow ==
  ASSUME IsCatalog(catalog), NEW n \in 0 .. Len(catalog.parts), n # Len(catalog.parts),
         NEW p, NEW row, ~SamePart(catalog.parts[n + 1], row), Built(p, row, n)
  PROVE  Built(p, row, n + 1)
<1>1. n + 1 \in 1 .. Len(catalog.parts) /\ (n + 1) - 1 = n
  BY CatalogFacts
<1>2. ColumnsOfPart(row)[n + 1] = ColumnsOfPart(row)[n]
  BY <1>1, ColumnsOfPartSteps
<1> QED BY <1>2 DEF Built

\* The first row of a part.
LEMMA FirstRow ==
  ASSUME IsCatalog(catalog), NEW ps \in Seq(PartEntries),
         NEW n \in 0 .. Len(catalog.parts), n # Len(catalog.parts), PartsHold(ps, n),
         NEW row, row = catalog.parts[n + 1],
         \A j \in 1 .. n : ~SamePart(catalog.parts[j], row),
         \A i \in 1 .. Len(ps) : ~(ps[i].id = PartId(row) /\ ps[i].kind = row.kind /\ ~Whole(catalog.dialect, row)),
         NEW qs, qs = Append(ps, AsPart(row))
  PROVE  PartsHold(qs, n + 1)
<1> DEFINE m == n + 1
           l == Len(ps)
           e == AsPart(row)
<1>1. n \in Nat /\ m \in 1 .. Len(catalog.parts) /\ l \in Nat /\ m - 1 = n
  BY CatalogFacts
<1>2. row \in PartRows
  BY <1>1, CatalogFacts
<1>3. /\ e \in PartEntries /\ e.slot = TableKey(row) /\ e.id = PartId(row) /\ e.name = row.name
      /\ e.kind = row.kind /\ e.columns = row.columns
  BY <1>2, AsPartFacts
<1> HIDE DEF e
<1>4. Len(qs) = l + 1 /\ qs[l + 1] = e /\ \A i \in 1 .. l : qs[i] = ps[i]
  BY <1>3 DEF e
<1> HIDE DEF m, l
<1>5. 1 .. l + 1 = (1 .. l) \cup {l + 1} /\ 1 .. m = (1 .. n) \cup {m}
  BY <1>1 DEF m
<1>6. row.columns \in Seq(Nat)
  BY <1>2 DEF PartRows
<1>7. Built(e, row, m)
  <2>1. ColumnsOfPart(row)[n] = <<>>
    BY UnmetPart
  <2>2. SamePart(row, row)
    BY SamePartIsEqual
  <2>3. ColumnsOfPart(row)[m] = ColumnsOfPart(row)[n] \o row.columns
    BY <1>1, <2>2, ColumnsOfPartSteps DEF m
  <2>4. <<>> \o row.columns = row.columns
    BY <1>6
  <2> QED BY <1>3, <2>1, <2>3, <2>4 DEF Built
<1>8. ASSUME NEW i \in 1 .. l, NEW j \in 1 .. n, Built(ps[i], catalog.parts[j], n)
      PROVE  Built(qs[i], catalog.parts[j], m)
  <2>1. ~SamePart(row, catalog.parts[j])
    BY SamePartIsEqual
  <2> QED BY <1>4, <1>8, <2>1, OtherRow DEF m
<1>9. ASSUME NEW i \in 1 .. l + 1 PROVE \E j \in 1 .. m : Built(qs[i], catalog.parts[j], m)
  <2>1. CASE i = l + 1
    BY <1>4, <1>5, <1>7, <2>1 DEF m
  <2>2. CASE i \in 1 .. l
    <3>1. PICK j \in 1 .. n : Built(ps[i], catalog.parts[j], n)
      BY <2>2 DEF PartsHold, l
    <3> QED BY <1>5, <1>8, <2>2, <3>1
  <2> QED BY <1>5, <2>1, <2>2
<1>10. ASSUME NEW j \in 1 .. m PROVE \E i \in 1 .. l + 1 : Built(qs[i], catalog.parts[j], m)
  <2>1. CASE j = m
    BY <1>4, <1>5, <1>7, <2>1 DEF m
  <2>2. CASE j \in 1 .. n
    <3>1. PICK i \in 1 .. l : Built(ps[i], catalog.parts[j], n)
      BY <2>2 DEF PartsHold, l
    <3> QED BY <1>5, <1>8, <2>2, <3>1
  <2> QED BY <1>5, <2>1, <2>2
<1>11. ASSUME NEW i \in 1 .. l + 1, NEW k \in 1 .. l + 1, i # k, qs[i].id = qs[k].id, qs[i].kind = qs[k].kind,
              ~Whole(catalog.dialect, qs[i])
       PROVE  FALSE
  <2>1. CASE i \in 1 .. l /\ k \in 1 .. l
    BY <1>4, <1>11, <2>1 DEF PartsHold, l
  <2>2. CASE i = l + 1
    <3>1. k \in 1 .. l /\ qs[k] = ps[k] /\ qs[i] = e
      BY <1>4, <1>5, <1>11, <2>2
    <3> QED BY <1>3, <1>11, <3>1 DEF Whole, l
  <2>3. CASE k = l + 1
    <3>1. i \in 1 .. l /\ qs[i] = ps[i] /\ qs[k] = e
      BY <1>4, <1>5, <1>11, <2>3
    <3> QED BY <1>3, <1>11, <3>1 DEF Whole, l
  <2> QED BY <1>5, <2>1, <2>2, <2>3
<1> QED BY <1>4, <1>9, <1>10, <1>11 DEF PartsHold, m

\* One more row of a part that is known.
LEMMA NextRow ==
  ASSUME IsCatalog(catalog), NamesStayApart, NEW ps \in Seq(PartEntries),
         NEW n \in 0 .. Len(catalog.parts), n # Len(catalog.parts), PartsHold(ps, n),
         NEW row, row = catalog.parts[n + 1], ~Whole(catalog.dialect, row),
         NEW x \in 1 .. Len(ps), ps[x].id = PartId(row), ps[x].kind = row.kind,
         NEW qs, qs = [ps EXCEPT ![x].columns = @ \o row.columns]
  PROVE  PartsHold(qs, n + 1)
<1> DEFINE m == n + 1
           l == Len(ps)
<1>1. n \in Nat /\ m \in 1 .. Len(catalog.parts) /\ l \in Nat /\ m - 1 = n
  BY CatalogFacts
<1>2. row \in PartRows /\ catalog.dialect # "postgres" /\ row.kind \notin {"check", "trigger"}
  <2>1. row \in PartRows
    BY <1>1, CatalogFacts
  <2> QED BY <2>1 DEF Whole
<1>3. ps[x] \in PartEntries /\ DOMAIN ps = 1 .. l /\ ps = [i \in 1 .. l |-> ps[i]]
  BY <1>1
<1>4. /\ DOMAIN qs = 1 .. l /\ Len(qs) = l
      /\ \A i \in 1 .. l : i # x => qs[i] = ps[i]
      /\ qs[x].columns = ps[x].columns \o row.columns
      /\ qs[x].slot = ps[x].slot /\ qs[x].id = ps[x].id /\ qs[x].name = ps[x].name
      /\ qs[x].kind = ps[x].kind
  <2> DEFINE e == [ps[x] EXCEPT !.columns = @ \o row.columns]
  <2>1. /\ e.columns = ps[x].columns \o row.columns
        /\ e.slot = ps[x].slot /\ e.id = ps[x].id /\ e.name = ps[x].name /\ e.kind = ps[x].kind
    BY <1>3 DEF PartEntries
  <2>2. qs = [ps EXCEPT ![x] = e]
    OBVIOUS
  <2> HIDE DEF e
  <2>3. qs[x] = e /\ \A i \in 1 .. l : i # x => qs[i] = ps[i]
    BY <1>3, <2>2
  <2>4. DOMAIN qs = 1 .. l
    BY <1>3, <2>2
  <2>5. Len(qs) = l
    <3>1. qs = [i \in 1 .. l |-> qs[i]]
      BY <1>3, <2>2
    <3> HIDE DEF l
    <3> QED BY <1>1, <3>1
  <2> QED BY <2>1, <2>3, <2>4, <2>5
<1> HIDE DEF m, l
<1>5. 1 .. m = (1 .. n) \cup {m} /\ \A j \in 1 .. n : j \in 1 .. Len(catalog.parts)
  BY <1>1 DEF m
<1>6. ASSUME NEW j \in 1 .. n
      PROVE  SamePart(row, catalog.parts[j]) <=>
                (PartId(row) = PartId(catalog.parts[j]) /\ row.kind = catalog.parts[j].kind)
  BY <1>1, <1>2, <1>5, IdIsPart DEF m
\* The entries of other parts stay, and are of other rows.
<1>7. ASSUME NEW i \in 1 .. l, i # x, NEW j \in 1 .. n, Built(ps[i], catalog.parts[j], n)
      PROVE  Built(qs[i], catalog.parts[j], m)
  <2>1. ~SamePart(row, catalog.parts[j])
    <3> SUFFICES ASSUME SamePart(row, catalog.parts[j]) PROVE FALSE
      OBVIOUS
    <3>1. ps[i].id = ps[x].id /\ ps[i].kind = ps[x].kind
      BY <1>6, <1>7 DEF Built
    <3>2. ~Whole(catalog.dialect, ps[i])
      BY <1>2, <3>1 DEF Whole
    <3> QED BY <1>7, <3>1, <3>2 DEF PartsHold, l
  <2> QED BY <1>4, <1>7, <2>1, OtherRow DEF m
<1>8. ASSUME NEW j \in 1 .. n, Built(ps[x], catalog.parts[j], n)
      PROVE  Built(qs[x], catalog.parts[j], m) /\ Built(qs[x], row, m)
  <2>1. SamePart(row, catalog.parts[j])
    BY <1>6, <1>8 DEF Built
  <2>2. ColumnsOfPart(catalog.parts[j])[m] = ColumnsOfPart(catalog.parts[j])[n] \o row.columns
    BY <1>1, <2>1, ColumnsOfPartSteps DEF m
  <2>3. Built(qs[x], catalog.parts[j], m)
    BY <1>4, <1>8, <2>2 DEF Built
  <2>4. m \in 0 .. Len(catalog.parts)
    BY <1>1
  <2>5. ColumnsOfPart(row)[m] = ColumnsOfPart(catalog.parts[j])[m]
    BY <2>1, <2>4, OnePartOneList
  <2>6. TableKey(row) = TableKey(catalog.parts[j]) /\ PartId(row) = PartId(catalog.parts[j])
        /\ row.name = catalog.parts[j].name /\ row.kind = catalog.parts[j].kind
    BY <2>1 DEF SamePart, Of, TableKey, PartId
  <2> QED BY <2>3, <2>5, <2>6 DEF Built
<1>9. PICK y \in 1 .. n : Built(ps[x], catalog.parts[y], n)
  BY DEF PartsHold
<1>10. ASSUME NEW i \in 1 .. l PROVE \E j \in 1 .. m : Built(qs[i], catalog.parts[j], m)
  <2>1. PICK j \in 1 .. n : Built(ps[i], catalog.parts[j], n)
    BY DEF PartsHold, l
  <2> QED BY <1>5, <1>7, <1>8, <2>1
<1>11. ASSUME NEW j \in 1 .. m PROVE \E i \in 1 .. l : Built(qs[i], catalog.parts[j], m)
  <2>1. CASE j = m
    <3>1. Built(qs[x], row, m) /\ x \in 1 .. l
      BY <1>8, <1>9 DEF l
    <3> QED BY <2>1, <3>1 DEF m
  <2>2. CASE j \in 1 .. n
    <3>1. PICK i \in 1 .. l : Built(ps[i], catalog.parts[j], n)
      BY <2>2 DEF PartsHold, l
    <3> QED BY <1>7, <1>8, <2>2, <3>1
  <2> QED BY <1>5, <2>1, <2>2
<1>12. ASSUME NEW i \in 1 .. l PROVE qs[i].id = ps[i].id /\ qs[i].kind = ps[i].kind
  BY <1>4
<1>13. ASSUME NEW i \in 1 .. l, NEW k \in 1 .. l, i # k, qs[i].id = qs[k].id, qs[i].kind = qs[k].kind,
              ~Whole(catalog.dialect, qs[i])
       PROVE  FALSE
  BY <1>12, <1>13 DEF PartsHold, Whole, l
<1> QED BY <1>4, <1>10, <1>11, <1>13 DEF PartsHold, m


-----------------------------------------------------------------------------
(* Reading *)

Reading == [columns : 0 .. Len(catalog.columns), parts : 0 .. Len(catalog.parts), capped : BOOLEAN]
Room == IF read.capped THEN ColumnCap ELSE ColumnCap + 1

RowsTypes ==
    /\ catalog \in Catalogs /\ read \in Reading /\ (read.capped => ColumnsAreRead)
    /\ groups \in [Keys -> Group] /\ parts \in Seq(PartEntries)
    /\ \A k \in Keys : Len(groups[k].columns) <= ColumnCap + 1

RowsInv ==
    /\ RowsTypes
    /\ NamesStayApart => /\ GroupsHold(groups, read.columns, Room)
                         /\ PartsHold(parts, read.parts)

LEMMA NextFacts ==
  ASSUME RowsTypes
  PROVE  /\ IsCatalog(catalog) /\ ColumnCap \in Nat
         /\ read.columns \in 0 .. Len(catalog.columns) /\ read.parts \in 0 .. Len(catalog.parts)
         /\ read.capped \in BOOLEAN
         /\ ~ColumnsAreRead => /\ NextColumn \in ColumnRows /\ TableKey(NextColumn) \in Keys
                               /\ read.columns + 1 \in 0 .. Len(catalog.columns)
                               /\ read.columns # Len(catalog.columns)
         /\ ~PartsAreRead => /\ NextPart \in PartRows
                             /\ read.parts + 1 \in 0 .. Len(catalog.parts)
                             /\ read.parts # Len(catalog.parts)
<1>1. IsCatalog(catalog) /\ ColumnCap \in Nat
  BY CatalogueAssumption DEF RowsTypes
<1>2. /\ read.columns \in 0 .. Len(catalog.columns) /\ read.parts \in 0 .. Len(catalog.parts)
      /\ read.capped \in BOOLEAN
  BY DEF RowsTypes, Reading
<1>3. ASSUME ~ColumnsAreRead
      PROVE  /\ NextColumn \in ColumnRows /\ TableKey(NextColumn) \in Keys
             /\ read.columns + 1 \in 0 .. Len(catalog.columns)
             /\ read.columns # Len(catalog.columns)
  <2>1. read.columns # Len(catalog.columns) /\ Len(catalog.columns) \in Nat
    BY <1>1, <1>3, CatalogFacts DEF ColumnsAreRead
  <2>2. read.columns + 1 \in 1 .. Len(catalog.columns) /\ read.columns + 1 \in 0 .. Len(catalog.columns)
    BY <1>2, <2>1
  <2>3. NextColumn \in ColumnRows
    BY <1>1, <2>2, CatalogFacts DEF NextColumn
  <2>4. NextColumn \in ToSet(catalog.columns)
    <3>1. DOMAIN catalog.columns = 1 .. Len(catalog.columns)
      BY <1>1, CatalogFacts
    <3> QED BY <2>2, <3>1 DEF NextColumn, ToSet
  <2> QED BY <2>1, <2>2, <2>3, <2>4 DEF Keys
<1>4. ASSUME ~PartsAreRead
      PROVE  /\ NextPart \in PartRows
             /\ read.parts + 1 \in 0 .. Len(catalog.parts)
             /\ read.parts # Len(catalog.parts)
  <2>1. read.parts # Len(catalog.parts) /\ Len(catalog.parts) \in Nat
    BY <1>1, <1>4, CatalogFacts DEF PartsAreRead
  <2>2. read.parts + 1 \in 1 .. Len(catalog.parts) /\ read.parts + 1 \in 0 .. Len(catalog.parts)
    BY <1>2, <2>1
  <2> QED BY <1>1, <2>1, <2>2, CatalogFacts DEF NextPart
<1> QED BY <1>1, <1>2, <1>3, <1>4

\* What is said of the catalogue stays while it does.
LEMMA SameCatalogue ==
  ASSUME catalog' = catalog
  PROVE  /\ Keys' = Keys /\ Reading' = Reading /\ NamesStayApart' = NamesStayApart
         /\ \A r : OwnColumns(r)' = OwnColumns(r) /\ TableKey(r)' = TableKey(r)
         /\ \A r : ColumnsOfPart(r)' = ColumnsOfPart(r)
<1>1. Keys' = Keys /\ Reading' = Reading
  BY DEF Keys, TableKey, Reading
<1>2. NamesStayApart' = NamesStayApart
  BY DEF NamesStayApart, PartId
<1>3. \A r : OwnColumns(r)' = OwnColumns(r) /\ TableKey(r)' = TableKey(r)
  BY DEF OwnColumns, TableKey
<1>4. \A r : ColumnsOfPart(r)' = ColumnsOfPart(r)
  BY DEF ColumnsOfPart
<1> QED BY <1>1, <1>2, <1>3, <1>4

LEMMA SameHold ==
  ASSUME catalog' = catalog, GroupsHold(groups', read'.columns, Room'), PartsHold(parts', read'.parts)
  PROVE  GroupsHold(groups, read.columns, Room)' /\ PartsHold(parts, read.parts)'
<1>1. GroupsHold(groups, read.columns, Room)'
  <2> SUFFICES ASSUME NEW r \in catalog'.relations, TableKey(r)' \in Keys'
               PROVE  Gathers(groups'[TableKey(r)'], OwnColumns(r)'[read'.columns], Room')
    BY DEF GroupsHold, Gathers
  <2>1. r \in catalog.relations /\ TableKey(r) \in Keys
    BY SameCatalogue
  <2>2. Gathers(groups'[TableKey(r)], OwnColumns(r)[read'.columns], Room')
    BY <2>1 DEF GroupsHold
  <2> QED BY <2>2, SameCatalogue
<1>2. \A p, row, n : Built(p, row, n)' <=> Built(p, row, n)
  BY SameCatalogue DEF Built, PartId
<1>3. PartsHold(parts, read.parts)'
  BY <1>2 DEF PartsHold, Whole
<1> QED BY <1>1, <1>3


LEMMA RowsBegin == RowsInit => RowsInv
<1> SUFFICES ASSUME RowsInit PROVE RowsInv
  OBVIOUS
<1>1. /\ catalog \in Catalogs /\ IsCatalog(catalog) /\ ColumnCap \in Nat /\ parts = <<>>
      /\ read.columns = 0 /\ read.parts = 0 /\ read.capped = FALSE
      /\ groups = [k \in Keys |-> NoGroup]
  BY CatalogueAssumption DEF RowsInit, Keys
<1>2. read \in Reading
  <2>1. 0 \in 0 .. Len(catalog.columns) /\ 0 \in 0 .. Len(catalog.parts)
    BY <1>1, CatalogFacts
  <2> QED BY <1>1, <2>1 DEF RowsInit, Reading
<1>3. NoGroup \in Group /\ NoGroup.columns = <<>> /\ NoGroup.cut = FALSE /\ Len(NoGroup.columns) = 0
  <2>1. <<>> \in Seq(ColumnRows)
    OBVIOUS
  <2> QED BY <2>1 DEF NoGroup, Group
<1>4. RowsTypes
  <2>1. \A k \in Keys : Len(groups[k].columns) <= ColumnCap + 1
    BY <1>1, <1>3
  <2>2. groups \in [Keys -> Group]
    BY <1>1, <1>3
  <2>3. parts \in Seq(PartEntries)
    BY <1>1
  <2> QED BY <1>1, <1>2, <2>1, <2>2, <2>3 DEF RowsTypes
<1>5. GroupsHold(groups, 0, ColumnCap + 1)
  <2> SUFFICES ASSUME NEW r \in catalog.relations, TableKey(r) \in Keys
               PROVE  Gathers(groups[TableKey(r)], OwnColumns(r)[0], ColumnCap + 1)
    BY DEF GroupsHold
  <2>1. OwnColumns(r)[0] = <<>> /\ <<>> \in Seq(ColumnRows) /\ Len(<<>>) = 0
    BY <1>1, OwnColumnsSteps
  <2>2. FirstOf(<<>>, ColumnCap + 1) = <<>>
    <3>1. ColumnCap + 1 \in Nat /\ 0 <= ColumnCap + 1
      BY <1>1
    <3> QED BY <2>1, <3>1, FirstOfFacts
  <2>3. ~(0 > ColumnCap + 1)
    BY <1>1
  <2> QED BY <1>1, <1>3, <2>1, <2>2, <2>3 DEF Gathers
<1>6. PartsHold(parts, 0)
  <2>1. Len(parts) = 0 /\ 1 .. 0 = {}
    BY <1>1
  <2> QED BY <2>1 DEF PartsHold
<1> QED BY <1>1, <1>4, <1>5, <1>6 DEF RowsInv, Room

LEMMA RowsStep == RowsInv /\ [RowsNext]_rowVars => RowsInv'
<1> SUFFICES ASSUME RowsInv, [RowsNext]_rowVars PROVE RowsInv'
  OBVIOUS
<1>1. /\ IsCatalog(catalog) /\ ColumnCap \in Nat /\ read \in Reading
      /\ groups \in [Keys -> Group] /\ parts \in Seq(PartEntries)
      /\ \A k \in Keys : Len(groups[k].columns) <= ColumnCap + 1
  BY NextFacts DEF RowsInv, RowsTypes
<1>c. catalog' = catalog
  BY DEF RowsNext, GatherColumn, ApplyCap, AddPart, GatherPart, rowVars
<1>s. /\ Keys' = Keys /\ Reading' = Reading /\ NamesStayApart' = NamesStayApart
      /\ catalog' \in Catalogs
  BY <1>c, SameCatalogue DEF RowsInv, RowsTypes
<1>2. CASE GatherColumn
  <2> DEFINE key == TableKey(NextColumn)
             row == NextColumn
  <2>1. /\ ~ColumnsAreRead /\ groups' = [groups EXCEPT ![key] = Keep(@, row)]
        /\ read' = [read EXCEPT !.columns = @ + 1] /\ parts' = parts
    BY <1>2 DEF GatherColumn
  <2>2. /\ row \in ColumnRows /\ key \in Keys /\ read.columns + 1 \in 0 .. Len(catalog.columns)
        /\ read.columns \in 0 .. Len(catalog.columns) /\ read.columns # Len(catalog.columns)
    BY <2>1, NextFacts DEF RowsInv
  <2>3. ~read.capped /\ read.capped = FALSE
    BY <1>1, <2>1 DEF RowsInv, RowsTypes, Reading
  <2>4. /\ read'.columns = read.columns + 1 /\ read'.parts = read.parts
        /\ read'.capped = FALSE /\ read' \in Reading
    BY <1>1, <2>1, <2>2, <2>3 DEF Reading
  <2> HIDE DEF key
  <2>5. Keep(groups[key], row) \in Group /\ Len(Keep(groups[key], row).columns) <= ColumnCap + 1
    <3> DEFINE g == groups[key]
    <3>1. g \in Group /\ Len(g.columns) \in Nat /\ Len(g.columns) <= ColumnCap + 1
          /\ g.columns \in Seq(ColumnRows)
      <4>1. g \in Group
        BY <1>1, <2>2
      <4>2. g.columns \in Seq(ColumnRows)
        BY <4>1 DEF Group
      <4> QED BY <1>1, <2>2, <4>1, <4>2
    <3> HIDE DEF g, row
    <3>2. CASE Len(g.columns) < ColumnCap + 1
      <4>1. Append(g.columns, row) \in Seq(ColumnRows) /\ Len(Append(g.columns, row)) = Len(g.columns) + 1
        BY <2>2, <3>1
      <4>2. Keep(g, row) = [g EXCEPT !.columns = Append(@, row)]
        BY <3>2 DEF Keep
      <4>3. Keep(g, row).columns = Append(g.columns, row) /\ Keep(g, row) \in Group
        BY <3>1, <4>1, <4>2 DEF Group
      <4>4. Len(Keep(g, row).columns) <= ColumnCap + 1
        <5>1. Len(Keep(g, row).columns) = Len(g.columns) + 1
          BY <4>1, <4>3
        <5> QED BY <1>1, <3>1, <3>2, <5>1
      <4> QED BY <4>3, <4>4 DEF g
    <3>3. CASE ~(Len(g.columns) < ColumnCap + 1)
      <4>1. Keep(g, row) = [g EXCEPT !.cut = TRUE]
        BY <3>3 DEF Keep
      <4>2. Keep(g, row).columns = g.columns /\ Keep(g, row) \in Group
        BY <3>1, <4>1 DEF Group
      <4> QED BY <3>1, <4>2 DEF g
    <3> QED BY <3>2, <3>3
  <2> HIDE DEF row
  <2>6. groups' \in [Keys -> Group] /\ \A k \in Keys : Len(groups'[k].columns) <= ColumnCap + 1
    <3>1. \A k \in Keys : groups'[k] = IF k = key THEN Keep(groups[key], row) ELSE groups[k]
      BY <1>1, <2>1
    <3>2. groups' \in [Keys -> Group]
      BY <1>1, <2>1, <2>5
    <3> QED BY <1>1, <2>5, <3>1, <3>2
  <2>7. RowsTypes'
    BY <1>1, <1>s, <2>1, <2>3, <2>4, <2>6 DEF RowsTypes
  <2>8. ASSUME NamesStayApart
        PROVE  GroupsHold(groups', read'.columns, Room') /\ PartsHold(parts', read'.parts)
    <3>1. GroupsHold(groups, read.columns, ColumnCap + 1) /\ PartsHold(parts, read.parts)
      BY <2>3, <2>8 DEF RowsInv, Room
    <3>2. GroupsHold(groups', read.columns + 1, ColumnCap + 1)
      BY <1>1, <2>1, <2>2, <2>8, <3>1, GatherHolds DEF key, row, NextColumn
    <3>3. Room' = ColumnCap + 1
      BY <2>4 DEF Room
    <3> QED BY <2>1, <2>4, <3>1, <3>2, <3>3
  <2> QED BY <1>c, <1>s, <2>7, <2>8, SameHold DEF RowsInv
<1>3. CASE ApplyCap
  <2>1. /\ ColumnsAreRead /\ ~read.capped /\ read' = [read EXCEPT !.capped = TRUE] /\ parts' = parts
        /\ groups' = [k \in Keys |->
                        IF Len(groups[k].columns) > ColumnCap
                        THEN [columns |-> SubSeq(groups[k].columns, 1, ColumnCap), cut |-> TRUE]
                        ELSE groups[k]]
    <3>1. DOMAIN groups = Keys
      BY <1>1
    <3> QED BY <1>3, <3>1 DEF ApplyCap
  <2>2. /\ read'.columns = read.columns /\ read'.parts = read.parts /\ read'.capped = TRUE
        /\ read' \in Reading
    BY <1>1, <2>1 DEF Reading
  <2>3. ASSUME NEW k \in Keys
        PROVE  groups'[k] \in Group /\ Len(groups'[k].columns) <= ColumnCap + 1
    <3> DEFINE c == groups[k].columns
               h == [columns |-> SubSeq(c, 1, ColumnCap), cut |-> TRUE]
    <3>1. groups[k] \in Group /\ Len(c) <= ColumnCap + 1
      BY <1>1
    <3>2. c \in Seq(ColumnRows)
      BY <3>1 DEF Group
    <3>3. groups'[k] = IF Len(c) > ColumnCap THEN h ELSE groups[k]
      BY <2>1
    <3> HIDE DEF c
    <3>4. ASSUME Len(c) > ColumnCap
          PROVE  SubSeq(c, 1, ColumnCap) \in Seq(ColumnRows) /\ Len(SubSeq(c, 1, ColumnCap)) = ColumnCap
      <4>1. FirstOf(c, ColumnCap) = SubSeq(c, 1, ColumnCap)
        BY <1>1, <3>2, <3>4 DEF FirstOf
      <4>2. FirstOf(c, ColumnCap) \in Seq(ColumnRows) /\ Len(FirstOf(c, ColumnCap)) = ColumnCap
        BY <1>1, <3>2, <3>4, FirstOfFacts
      <4> QED BY <4>1, <4>2
    <3>5. Len(c) > ColumnCap => h \in Group /\ Len(h.columns) <= ColumnCap + 1
      BY <1>1, <3>4 DEF Group
    <3> HIDE DEF h
    <3> QED BY <3>1, <3>3, <3>5 DEF c
  <2>4. RowsTypes'
    <3>1. groups' \in [Keys -> Group]
      <4>1. groups' = [k \in Keys |-> groups'[k]]
        BY <2>1
      <4> QED BY <2>3, <4>1
    <3>2. ColumnsAreRead'
      BY <1>c, <2>1, <2>2 DEF ColumnsAreRead
    <3> QED BY <1>1, <1>s, <2>1, <2>2, <2>3, <3>1, <3>2 DEF RowsTypes
  <2>5. ASSUME NamesStayApart
        PROVE  GroupsHold(groups', read'.columns, Room') /\ PartsHold(parts', read'.parts)
    <3>1. GroupsHold(groups, read.columns, ColumnCap + 1) /\ PartsHold(parts, read.parts)
      BY <2>1, <2>5 DEF RowsInv, Room
    <3>2. read.columns \in 0 .. Len(catalog.columns)
      BY <1>1 DEF Reading
    <3>3. GroupsHold(groups', read.columns, ColumnCap)
      BY <1>1, <2>1, <3>1, <3>2, CapHolds
    <3>4. Room' = ColumnCap
      BY <2>2 DEF Room
    <3> QED BY <2>1, <2>2, <3>1, <3>3, <3>4
  <2> QED BY <1>c, <1>s, <2>4, <2>5, SameHold DEF RowsInv
\* A row of the parts: the groups stay.
<1>4. ASSUME ~PartsAreRead, read.capped, read' = [read EXCEPT !.parts = @ + 1], groups' = groups,
             parts' \in Seq(PartEntries),
             NamesStayApart => PartsHold(parts', read.parts + 1)
      PROVE  RowsInv'
  <2>1. read.parts + 1 \in 0 .. Len(catalog.parts)
    BY <1>4, NextFacts DEF RowsInv
  <2>2. /\ read'.columns = read.columns /\ read'.parts = read.parts + 1 /\ read'.capped = read.capped
        /\ read' \in Reading
    BY <1>1, <1>4, <2>1 DEF Reading
  <2>3. RowsTypes'
    <3>1. ColumnsAreRead'
      BY <1>c, <1>4, <2>2 DEF ColumnsAreRead, RowsInv, RowsTypes
    <3> QED BY <1>1, <1>s, <1>4, <2>2, <3>1 DEF RowsTypes
  <2>4. Room' = Room
    BY <2>2 DEF Room
  <2>5. NamesStayApart => GroupsHold(groups', read'.columns, Room') /\ PartsHold(parts', read'.parts)
    BY <1>4, <2>2, <2>4 DEF RowsInv
  <2> QED BY <1>c, <1>s, <2>3, <2>5, SameHold DEF RowsInv
<1>5. CASE AddPart
  <2> DEFINE row == NextPart
  <2>1. /\ read.capped /\ ~PartsAreRead /\ Whole(catalog.dialect, row)
        /\ parts' = Append(parts, AsPart(row)) /\ groups' = groups
        /\ read' = [read EXCEPT !.parts = @ + 1]
    BY <1>5 DEF AddPart
  <2>2. /\ row \in PartRows /\ read.parts \in 0 .. Len(catalog.parts) /\ read.parts # Len(catalog.parts)
        /\ read.parts + 1 \in 0 .. Len(catalog.parts)
    BY <2>1, NextFacts DEF RowsInv
  <2>3. parts' \in Seq(PartEntries)
    <3>1. AsPart(row) \in PartEntries
      BY <2>2, AsPartFacts
    <3> HIDE DEF row
    <3> QED BY <1>1, <2>1, <3>1
  <2>4. ASSUME NamesStayApart PROVE PartsHold(parts', read.parts + 1)
    <3>1. PartsHold(parts, read.parts)
      BY <2>4 DEF RowsInv
    <3>2. \A j \in 1 .. read.parts : ~SamePart(catalog.parts[j], row)
      <4> SUFFICES ASSUME NEW j \in 1 .. read.parts, SamePart(catalog.parts[j], row) PROVE FALSE
        OBVIOUS
      <4>1. /\ DOMAIN catalog.parts = 1 .. Len(catalog.parts)
            /\ Len(catalog.parts) \in Nat
        BY <1>1, CatalogFacts
      <4>2. /\ j \in DOMAIN catalog.parts /\ read.parts + 1 \in DOMAIN catalog.parts
            /\ j # read.parts + 1
        BY <2>2, <4>1
      <4>3. SamePart(row, catalog.parts[j])
        BY SamePartIsEqual
      <4> QED BY <1>1, <2>1, <4>2, <4>3 DEF IsCatalog, NextPart
    <3> QED BY <1>1, <2>1, <2>2, <3>1, <3>2, FirstRow DEF NextPart
  <2> QED BY <1>4, <2>1, <2>3, <2>4
<1>6. CASE GatherPart
  <2> DEFINE row == NextPart
             known == {i \in DOMAIN parts : parts[i].id = PartId(row) /\ parts[i].kind = row.kind}
             x == CHOOSE i \in known : TRUE
  <2>1. /\ read.capped /\ ~PartsAreRead /\ ~Whole(catalog.dialect, row) /\ groups' = groups
        /\ parts' = IF known = {} THEN Append(parts, AsPart(row))
                    ELSE [parts EXCEPT ![x].columns = @ \o row.columns]
        /\ read' = [read EXCEPT !.parts = @ + 1]
    BY <1>6 DEF GatherPart
  <2>2. /\ row \in PartRows /\ read.parts \in 0 .. Len(catalog.parts) /\ read.parts # Len(catalog.parts)
        /\ read.parts + 1 \in 0 .. Len(catalog.parts) /\ row.columns \in Seq(Nat)
    BY <2>1, NextFacts DEF RowsInv, PartRows
  <2>3. DOMAIN parts = 1 .. Len(parts)
    BY <1>1
  <2>4. known # {} => /\ x \in 1 .. Len(parts) /\ parts[x].id = PartId(row)
                      /\ parts[x].kind = row.kind
    BY <2>3
  <2>5. known = {} => \A i \in 1 .. Len(parts) : ~(parts[i].id = PartId(row) /\ parts[i].kind = row.kind)
    BY <2>3
  <2> HIDE DEF row, known, x
  <2>6. parts' \in Seq(PartEntries)
    <3>1. CASE known = {}
      <4> DEFINE e == AsPart(row)
      <4>1. e \in PartEntries /\ parts' = Append(parts, e)
        BY <2>1, <2>2, <3>1, AsPartFacts
      <4>2. parts \in Seq(PartEntries)
        BY <1>1
      <4> HIDE DEF e
      <4>3. Append(parts, e) \in Seq(PartEntries)
        BY <4>1, <4>2
      <4> QED BY <4>1, <4>3
    <3>2. CASE known # {}
      <4> DEFINE e == [parts[x] EXCEPT !.columns = @ \o row.columns]
      <4>1. parts' = [parts EXCEPT ![x] = e]
        BY <2>1, <3>2
      <4>2. parts[x] \in PartEntries
        BY <1>1, <2>4, <3>2
      <4>3. parts[x].columns \o row.columns \in Seq(Nat)
        BY <2>2, <4>2 DEF PartEntries
      <4>4. e \in PartEntries
        BY <4>2, <4>3 DEF PartEntries
      <4> HIDE DEF e
      <4> DEFINE l == Len(parts)
      <4>5. parts \in Seq(PartEntries) /\ l \in Nat /\ DOMAIN parts = 1 .. l
        BY <1>1
      <4>6. parts' = [i \in 1 .. l |-> IF i = x THEN e ELSE parts[i]]
        BY <4>1, <4>5
      <4>7. \A i \in 1 .. l : parts[i] \in PartEntries
        BY <4>5
      <4> HIDE DEF l
      <4> QED BY <4>4, <4>5, <4>6, <4>7
    <3> QED BY <3>1, <3>2
  <2>7. ASSUME NamesStayApart PROVE PartsHold(parts', read.parts + 1)
    <3>1. PartsHold(parts, read.parts)
      BY <2>7 DEF RowsInv
    <3>r. row = catalog.parts[read.parts + 1]
      BY DEF row, NextPart
    <3>2. CASE known = {}
      <4>1. \A j \in 1 .. read.parts : ~SamePart(catalog.parts[j], row)
        <5> SUFFICES ASSUME NEW j \in 1 .. read.parts, SamePart(catalog.parts[j], row) PROVE FALSE
          OBVIOUS
        <5>1. PICK i \in 1 .. Len(parts) : Built(parts[i], catalog.parts[j], read.parts)
          BY <3>1 DEF PartsHold
        <5>2. parts[i].id = PartId(row) /\ parts[i].kind = row.kind
          BY <5>1 DEF Built, SamePart, Of, PartId
        <5> QED BY <2>5, <3>2, <5>2
      <4> QED BY <1>1, <2>1, <2>2, <2>5, <3>1, <3>2, <3>r, <4>1, FirstRow
    <3>3. CASE known # {}
      BY <1>1, <2>1, <2>2, <2>4, <2>7, <3>1, <3>3, <3>r, NextRow
    <3> QED BY <3>2, <3>3
  <2> QED BY <1>4, <2>1, <2>6, <2>7
<1>7. CASE UNCHANGED rowVars
  <2>1. groups' = groups /\ parts' = parts /\ read' = read /\ Room' = Room
    BY <1>7 DEF rowVars, Room
  <2>2. RowsTypes'
    BY <1>c, <1>s, <2>1 DEF RowsInv, RowsTypes, ColumnsAreRead
  <2>3. NamesStayApart => GroupsHold(groups', read'.columns, Room') /\ PartsHold(parts', read'.parts)
    BY <2>1 DEF RowsInv
  <2> QED BY <1>c, <1>s, <2>2, <2>3, SameHold DEF RowsInv
<1> QED BY <1>2, <1>3, <1>5, <1>6, <1>7 DEF RowsNext

LEMMA RowsInvariant == RowsSpec => []RowsInv
BY RowsBegin, RowsStep, PTL DEF RowsSpec


LEMMA RowsInvTypes == RowsInv => RowsTypeOK
BY DEF RowsInv, RowsTypes, RowsTypeOK, Group, Reading

LEMMA RowsReachTheirTable == RowsInv => RowsFindTheirTable
<1> SUFFICES ASSUME RowsInv, ColumnsAreRead, PartsAreRead, read.capped, NamesStayApart,
                    NEW r \in catalog.relations
             PROVE  LET own == OwnColumns(r)[Len(catalog.columns)]
                        group == IF TableKey(r) \in DOMAIN groups THEN groups[TableKey(r)] ELSE NoGroup
                        mine == {p \in ToSet(parts) : p.slot = TableKey(r) /\ Listed(p)}
                        named == {q \in ToSet(catalog.parts) : Of(q, r) /\ Listed(q)}
                    IN  /\ group.columns = FirstOf(own, ColumnCap)
                        /\ group.cut <=> Len(own) > ColumnCap
                        /\ {<<p.name, p.kind, p.columns>> : p \in mine} =
                             {<<q.name, q.kind, ColumnsOfPart(q)[Len(catalog.parts)]>> : q \in named}
  BY DEF RowsFindTheirTable
<1> DEFINE m == Len(catalog.columns)
           n == Len(catalog.parts)
           own == OwnColumns(r)[m]
           group == IF TableKey(r) \in DOMAIN groups THEN groups[TableKey(r)] ELSE NoGroup
           mine == {p \in ToSet(parts) : p.slot = TableKey(r) /\ Listed(p)}
           named == {q \in ToSet(catalog.parts) : Of(q, r) /\ Listed(q)}
<1>1. /\ IsCatalog(catalog) /\ ColumnCap \in Nat /\ groups \in [Keys -> Group]
      /\ parts \in Seq(PartEntries) /\ m \in Nat /\ n \in Nat
      /\ DOMAIN catalog.columns = 1 .. m /\ DOMAIN catalog.parts = 1 .. n
      /\ DOMAIN parts = 1 .. Len(parts) /\ DOMAIN groups = Keys
  <2>1. IsCatalog(catalog) /\ ColumnCap \in Nat /\ groups \in [Keys -> Group] /\ parts \in Seq(PartEntries)
    BY NextFacts DEF RowsInv, RowsTypes
  <2>2. m \in Nat /\ n \in Nat /\ DOMAIN catalog.columns = 1 .. m /\ DOMAIN catalog.parts = 1 .. n
    BY <2>1, CatalogFacts
  <2> QED BY <2>1, <2>2
<1>2. GroupsHold(groups, m, ColumnCap) /\ PartsHold(parts, n)
  BY DEF RowsInv, Room, ColumnsAreRead, PartsAreRead
<1> HIDE DEF m, n
<1>3. group.columns = FirstOf(own, ColumnCap) /\ (group.cut <=> Len(own) > ColumnCap)
  <2>1. CASE TableKey(r) \in Keys
    BY <1>1, <1>2, <2>1 DEF GroupsHold, Gathers
  <2>2. CASE TableKey(r) \notin Keys
    <3>1. ASSUME NEW i \in 1 .. m PROVE ~Of(catalog.columns[i], r)
      <4>1. TableKey(catalog.columns[i]) \in Keys
        BY <1>1 DEF Keys, ToSet
      <4> QED BY <2>2, <4>1 DEF TableKey, Of
    <3>2. m \in 0 .. Len(catalog.columns)
      BY <1>1 DEF m
    <3>3. own = <<>>
      BY <1>1, <3>1, <3>2, NobodysColumns
    <3> HIDE DEF own
    <3>4. FirstOf(own, ColumnCap) = <<>> /\ ~(Len(own) > ColumnCap)
      <4>1. own \in Seq(ColumnRows) /\ Len(own) = 0 /\ Len(own) <= ColumnCap /\ ~(Len(own) > ColumnCap)
        BY <1>1, <3>3
      <4> QED BY <1>1, <3>3, <4>1, FirstOfFacts
    <3>5. group = NoGroup
      BY <1>1, <2>2
    <3> QED BY <3>4, <3>5 DEF NoGroup
  <2> QED BY <2>1, <2>2
<1>4. ASSUME NEW i \in 1 .. Len(parts), NEW j \in 1 .. n, Built(parts[i], catalog.parts[j], n)
      PROVE  /\ parts[i] \in mine <=> catalog.parts[j] \in named
             /\ <<parts[i].name, parts[i].kind, parts[i].columns>> =
                  <<catalog.parts[j].name, catalog.parts[j].kind, ColumnsOfPart(catalog.parts[j])[n]>>
  <2>1. parts[i] \in ToSet(parts) /\ catalog.parts[j] \in ToSet(catalog.parts)
    BY <1>1 DEF ToSet
  <2>2. TableKey(catalog.parts[j]) = TableKey(r) <=> Of(catalog.parts[j], r)
    <3>1. \E s \in catalog.relations : Of(catalog.parts[j], s)
      BY <1>1, CatalogFacts DEF n
    <3> QED BY <1>1, <3>1, KeyIsRelation
  <2>3. Listed(parts[i]) <=> Listed(catalog.parts[j])
    BY <1>4 DEF Built, Listed
  <2>4. parts[i].slot = TableKey(catalog.parts[j])
    BY <1>4 DEF Built
  <2> QED BY <1>4, <2>1, <2>2, <2>3, <2>4 DEF Built
<1>5. {<<p.name, p.kind, p.columns>> : p \in mine} =
        {<<q.name, q.kind, ColumnsOfPart(q)[n]>> : q \in named}
  <2>1. ASSUME NEW p \in mine
        PROVE  \E q \in named : <<p.name, p.kind, p.columns>> = <<q.name, q.kind, ColumnsOfPart(q)[n]>>
    <3>1. PICK i \in 1 .. Len(parts) : p = parts[i]
      BY <1>1 DEF ToSet
    <3>2. PICK j \in 1 .. n : Built(parts[i], catalog.parts[j], n)
      BY <1>2 DEF PartsHold
    <3> QED BY <1>4, <3>1, <3>2
  <2>2. ASSUME NEW q \in named
        PROVE  \E p \in mine : <<p.name, p.kind, p.columns>> = <<q.name, q.kind, ColumnsOfPart(q)[n]>>
    <3>1. PICK j \in 1 .. n : q = catalog.parts[j]
      BY <1>1 DEF ToSet
    <3>2. PICK i \in 1 .. Len(parts) : Built(parts[i], catalog.parts[j], n)
      BY <1>2 DEF PartsHold
    <3> QED BY <1>4, <3>1, <3>2
  <2> HIDE DEF mine, named
  <2> QED BY <2>1, <2>2
<1> QED BY <1>3, <1>5 DEF m, n

\* describe(): every column, constraint, index and trigger of a catalogue is reported under the
\* table its row names, whole and in order up to the cap, unless two names run together when they
\* are joined; for any catalogue in three dialects and any cap (schema.js).
THEOREM RowsFindTheirTableCorrect == RowsSpec => []RowsFindTheirTable
BY RowsInvariant, RowsReachTheirTable, PTL

-----------------------------------------------------------------------------
(* The parts side by side *)

\* A behaviour of the parts is one of each of them: the one that runs takes its steps, the others
\* stand still.
LEMMA PartsAreParts ==
  PartsSpec => /\ RequestSpec /\ CredentialsSpec /\ WriterSpec /\ LogSpec
               /\ RowsSpec /\ LimitsSpec /\ NormalSpec
<1>1. PartsInit => /\ RequestInit /\ CredentialsInit /\ WriterInit /\ LogInit
                   /\ RowsInit /\ LimitsInit /\ NormalInit
  BY DEF PartsInit
<1>2. [PartsNext]_<<part, requestVars, credentialVars, writerVars, logVars, rowVars, limitVars,
                    normalVars>> =>
         /\ [RequestNext]_requestVars /\ [CredentialsNext]_credentialVars
         /\ [WriterNext]_writerVars /\ [LogNext]_logVars /\ [RowsNext]_rowVars
         /\ [LimitsNext]_limitVars /\ [NormalNext]_normalVars
  BY DEF PartsNext
<1> QED
  BY <1>1, <1>2, PTL DEF PartsSpec, RequestSpec, CredentialsSpec, WriterSpec, LogSpec, RowsSpec,
     LimitsSpec, NormalSpec

\* A result is cut and rendered as it is marked, and what is rendered is the value the driver
\* gave: clampResult(), formatRows() and normalizeValue() as the runs compose them.
THEOREM AnswersAreHonestCorrect == PartsSpec => []AnswersAreHonest
<1>1. ResultsAreHonest /\ OutputUnfoldsTheGraph => AnswersAreHonest
  BY DEF AnswersAreHonest
<1> QED
  BY <1>1, PartsAreParts, ResultsAreHonestCorrect, OutputUnfoldsTheGraphCorrect, PTL

\* Every variable of every part keeps its type.
THEOREM PartsTypeCorrect == PartsSpec => []PartsTypeOK
<1>1. CredentialsSpec => []CredentialsTypeOK
  <2>1. CredentialsInv => CredentialsTypeOK
    BY DEF CredentialsInv
  <2> QED BY <2>1, CredentialsBegin, CredentialsStep, PTL DEF CredentialsSpec
<1>2. RowsSpec => []RowsTypeOK
  BY RowsInvariant, RowsInvTypes, PTL
<1>3. LimitsSpec => []LimitsTypeOK
  <2>1. LimitsInv => LimitsTypeOK
    BY DEF LimitsInv
  <2> QED BY <2>1, LimitsInvariant, PTL
<1>4. NormalSpec => []NormalTypeOK
  BY NormalInvariant, NormalTypes, PTL
<1>5. /\ RequestTypeOK /\ CredentialsTypeOK /\ WriterTypeOK /\ LogTypeOK
      /\ RowsTypeOK /\ LimitsTypeOK /\ NormalTypeOK
      => PartsTypeOK
  BY DEF PartsTypeOK
<1> QED
  BY <1>1, <1>2, <1>3, <1>4, <1>5, PartsAreParts, RequestTypeCorrect, WriterTypeCorrect,
     LogTypeCorrect, PTL

\* What is proved of each part holds of them as they are composed: a statement that runs was
\* permitted, a refusal opened nothing, a profile connects as it is configured and catalogue rows
\* find their table; of one process that logs, that the log has no gap, and of one exporter with
\* an fsync that works, that an export is atomic.
THEOREM PartsAreCorrect ==
  PartsSpec => /\ []RunsOnlyWhatIsPermitted /\ []RefusalsOpenedNothing
               /\ []ConnectsAsConfigured /\ []RowsFindTheirTable
               /\ SoleLogger => []NoGapInTheMiddle
               /\ OneSoundExporter => ExportIsAtomic
<1>1. OneSoundExporter => (WriterSpec => ExportIsAtomic)
  BY OneExporterIsAtomic
<1> QED
  BY <1>1, PartsAreParts, RunsOnlyWhatIsPermittedCorrect, RefusalsOpenedNothingCorrect,
     ConnectsAsConfiguredCorrect, RowsFindTheirTableCorrect, OneLoggerLeavesNoGap, PTL
=============================================================================
