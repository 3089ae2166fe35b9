----------------------------- MODULE DescribeProofs -----------------------------
(***************************************************************************)
(* A walk over the pages of describe(), for every catalogue, every cap,    *)
(* every limit a client sends and either way it asks for the next page.    *)
(* What a page shows of a table rests on sums of column counts, which      *)
(* the model adds up with a recursive function: ColumnsAdd is what that    *)
(* function does, by the least index at which it would not.                *)
(***************************************************************************)
EXTENDS Describe, SequenceTheorems, WellFoundedInduction, TLAPS

-----------------------------------------------------------------------------
(* Sums *)

LEMMA LeastOf ==
  ASSUME NEW T, T \subseteq Nat, T # {}
  PROVE  \E i \in T : \A j \in T : i <= j
<1>1. PICK i \in T : \A j \in T : ~ (<<j, i>> \in OpToRel(<, Nat))
  BY NatLessThanWellFounded, WFMin
<1>2. ASSUME NEW j \in T PROVE i <= j
  <2>1. ~ (<<j, i>> \in {ss \in Nat \X Nat : ss[1] < ss[2]})
    BY <1>1 DEF OpToRel
  <2>2. i \in Nat /\ j \in Nat
    OBVIOUS
  <2> QED BY <2>1, <2>2
<1> QED BY <1>2

\* f adds up the first members of w, one more at each step.
IsSum(f, w, n) == f = [i \in 0 .. n |-> IF i = 0 THEN 0 ELSE f[i - 1] + w[i]]

LEMMA SumExists ==
  ASSUME NEW n \in Nat, NEW w
  PROVE  \E f : IsSum(f, w, n)
<1> DEFINE T == {m \in Nat : ~ \E f : IsSum(f, w, m)}
<1> SUFFICES ASSUME T # {} PROVE FALSE
  OBVIOUS
<1>1. PICK m \in T : \A j \in T : m <= j
  <2>1. T \subseteq Nat
    OBVIOUS
  <2> HIDE DEF T
  <2> QED BY <2>1, LeastOf
<1>2. m # 0
  <2>1. IsSum([i \in 0 .. 0 |-> 0], w, 0)
    BY DEF IsSum
  <2> QED BY <2>1
<1>3. PICK f : IsSum(f, w, m - 1)
  BY <1>1, <1>2
<1> DEFINE g == [i \in 0 .. m |-> IF i = m THEN f[m - 1] + w[m] ELSE f[i]]
<1>4. \A i \in 0 .. m - 1 : f[i] = IF i = 0 THEN 0 ELSE f[i - 1] + w[i]
  BY <1>3 DEF IsSum
<1>5. ASSUME NEW i \in 0 .. m PROVE g[i] = IF i = 0 THEN 0 ELSE g[i - 1] + w[i]
  <2>1. CASE i = m
    BY <1>2, <2>1
  <2>2. CASE i # m
    <3>1. i \in 0 .. m - 1 /\ g[i] = f[i]
      BY <2>2
    <3>2. i # 0 => g[i - 1] = f[i - 1]
      BY <2>2
    <3> QED BY <1>4, <3>1, <3>2
  <2> QED BY <2>1, <2>2
<1>6. IsSum(g, w, m)
  BY <1>5 DEF IsSum
<1> QED BY <1>1, <1>6

LEMMA SumIsNat ==
  ASSUME NEW n \in Nat, NEW w, \A i \in 1 .. n : w[i] \in Nat, NEW f, IsSum(f, w, n)
  PROVE  /\ f[0] = 0
         /\ \A i \in 1 .. n : f[i] = f[i - 1] + w[i]
         /\ \A i \in 0 .. n : f[i] \in Nat
<1>1. \A i \in 0 .. n : f[i] = IF i = 0 THEN 0 ELSE f[i - 1] + w[i]
  BY DEF IsSum
<1>2. f[0] = 0 /\ \A i \in 1 .. n : f[i] = f[i - 1] + w[i]
  BY <1>1
<1> DEFINE T == {i \in 0 .. n : f[i] \notin Nat}
<1>3. T = {}
  <2> SUFFICES ASSUME T # {} PROVE FALSE
    OBVIOUS
  <2>1. PICK i \in T : \A j \in T : i <= j
    <3>1. T \subseteq Nat
      OBVIOUS
    <3> HIDE DEF T
    <3> QED BY <3>1, LeastOf
  <2>2. i # 0 /\ f[i] \notin Nat /\ i \in 0 .. n
    BY <1>2
  <2>3. i - 1 \in 0 .. n /\ ~(i <= i - 1)
    BY <2>2
  <2>4. f[i - 1] \in Nat
    BY <2>1, <2>3
  <2> QED BY <1>2, <2>2, <2>4
<1> QED BY <1>2, <1>3

\* What the columns of the first tables of a page come to.
LEMMA ColumnsAdd ==
  ASSUME NEW page, Len(page) \in Nat, \A i \in 1 .. Len(page) : Width(page[i]) \in Nat
  PROVE  /\ ColumnsUpTo(page, 0) = 0
         /\ \A i \in 1 .. Len(page) :
               ColumnsUpTo(page, i) = ColumnsUpTo(page, i - 1) + Width(page[i])
         /\ \A i \in 0 .. Len(page) : ColumnsUpTo(page, i) \in Nat
<1> DEFINE w == [i \in 1 .. Len(page) |-> Width(page[i])]
           f == CHOOSE g : g = [i \in 0 .. Len(page) |-> IF i = 0 THEN 0 ELSE g[i - 1] + Width(page[i])]
<1>1. \A g : IsSum(g, w, Len(page)) <=>
               g = [i \in 0 .. Len(page) |-> IF i = 0 THEN 0 ELSE g[i - 1] + Width(page[i])]
  <2> SUFFICES ASSUME NEW g
               PROVE  [i \in 0 .. Len(page) |-> IF i = 0 THEN 0 ELSE g[i - 1] + w[i]]
                         = [i \in 0 .. Len(page) |-> IF i = 0 THEN 0 ELSE g[i - 1] + Width(page[i])]
    BY DEF IsSum
  <2>1. \A i \in 0 .. Len(page) : i # 0 => w[i] = Width(page[i])
    OBVIOUS
  <2> HIDE DEF w
  <2> QED BY <2>1
<1>2. \E g : g = [i \in 0 .. Len(page) |-> IF i = 0 THEN 0 ELSE g[i - 1] + Width(page[i])]
  <2> HIDE DEF w
  <2> QED BY <1>1, SumExists
<1>3. f = [i \in 0 .. Len(page) |-> IF i = 0 THEN 0 ELSE f[i - 1] + Width(page[i])]
  BY <1>2
<1>4. \A k : ColumnsUpTo(page, k) = f[k]
  BY DEF ColumnsUpTo
<1>5. IsSum(f, w, Len(page))
  <2> HIDE DEF f, w
  <2> QED BY <1>1, <1>3
<1>6. \A i \in 1 .. Len(page) : w[i] = Width(page[i])
  OBVIOUS
<1> HIDE DEF f, w
<1>7. /\ f[0] = 0
      /\ \A i \in 1 .. Len(page) : f[i] = f[i - 1] + w[i]
      /\ \A i \in 0 .. Len(page) : f[i] \in Nat
  BY <1>5, <1>6, SumIsNat
<1> QED BY <1>4, <1>6, <1>7

\* The tables of a page have no more columns than those of the whole catalogue.
LEMMA PageWithinCatalogue ==
  ASSUME Len(source.catalogue) \in Nat, \A i \in 1 .. Len(source.catalogue) : Width(i) \in Nat,
         NEW page, Len(page) \in Nat, NEW o \in Nat, o + Len(page) <= Len(source.catalogue),
         \A i \in 1 .. Len(page) : page[i] = o + i,
         NEW k \in 1 .. Len(page)
  PROVE  /\ ColumnsUpTo(page, k - 1) \in Nat /\ Width(page[k]) \in Nat
         /\ ColumnsUpTo(page, k - 1) + Width(page[k]) <= ColumnsOf(Objects)
<1> DEFINE n == Len(source.catalogue)
           U(i) == ColumnsUpTo(Objects, i)
           C(i) == ColumnsUpTo(page, i)
<1>1. Len(Objects) = n /\ \A i \in 1 .. n : Objects[i] = i
  BY DEF Objects
<1>2. \A i \in 1 .. n : Width(Objects[i]) \in Nat
  BY <1>1
<1>3. /\ U(0) = 0
      /\ \A i \in 1 .. n : U(i) = U(i - 1) + Width(i)
      /\ \A i \in 0 .. n : U(i) \in Nat
  <2>1. Len(Objects) \in Nat /\ \A i \in 1 .. Len(Objects) : Width(Objects[i]) \in Nat
    BY <1>1, <1>2
  <2>2. /\ ColumnsUpTo(Objects, 0) = 0
        /\ \A i \in 1 .. Len(Objects) :
              ColumnsUpTo(Objects, i) = ColumnsUpTo(Objects, i - 1) + Width(Objects[i])
        /\ \A i \in 0 .. Len(Objects) : ColumnsUpTo(Objects, i) \in Nat
    BY <2>1, ColumnsAdd
  <2> HIDE DEF n
  <2> QED BY <1>1, <2>2
<1>4. \A i \in 1 .. Len(page) : Width(page[i]) \in Nat
  BY DEF Width
<1>5. /\ C(0) = 0
      /\ \A i \in 1 .. Len(page) : C(i) = C(i - 1) + Width(page[i])
      /\ \A i \in 0 .. Len(page) : C(i) \in Nat
  BY <1>4, ColumnsAdd
<1> HIDE DEF U, C
<1>6. \A i \in 0 .. Len(page) : U(o) + C(i) = U(o + i)
  <2> DEFINE T == {i \in 0 .. Len(page) : U(o) + C(i) # U(o + i)}
  <2> SUFFICES ASSUME T # {} PROVE FALSE
    OBVIOUS
  <2>1. PICK i \in T : \A j \in T : i <= j
    <3>1. T \subseteq Nat
      OBVIOUS
    <3> HIDE DEF T
    <3> QED BY <3>1, LeastOf
  <2>2. i \in 0 .. Len(page) /\ U(o) + C(i) # U(o + i)
    OBVIOUS
  <2>3. o \in 0 .. n /\ U(o) \in Nat
    BY <1>3
  <2>4. i # 0
    BY <1>3, <1>5, <2>2, <2>3
  <2>5. i - 1 \in 0 .. Len(page) /\ ~(i <= i - 1)
    BY <2>2, <2>4
  <2>6. U(o) + C(i - 1) = U(o + (i - 1))
    BY <2>1, <2>5
  <2>7. /\ U(o + i) = U((o + i) - 1) + Width(o + i)
        /\ C(i) = C(i - 1) + Width(page[i])
        /\ page[i] = o + i
    <3>1. o + i \in 1 .. n /\ i \in 1 .. Len(page)
      BY <2>2, <2>4
    <3> QED BY <1>3, <1>5, <3>1
  <2>8. (o + i) - 1 = o + (i - 1)
    BY <2>2
  <2>9. C(i - 1) \in Nat /\ Width(o + i) \in Nat
    <3>1. o + i \in 1 .. n
      BY <2>2, <2>4
    <3> QED BY <1>5, <2>5, <3>1
  <2> QED BY <2>2, <2>3, <2>6, <2>7, <2>8, <2>9
<1>7. \A i \in 0 .. n : U(i) <= U(n)
  <2> DEFINE T == {d \in 0 .. n : ~(U(n - d) <= U(n))}
  <2>1. T = {}
    <3> SUFFICES ASSUME T # {} PROVE FALSE
      OBVIOUS
    <3>1. PICK d \in T : \A j \in T : d <= j
      <4>1. T \subseteq Nat
        OBVIOUS
      <4> HIDE DEF T
      <4> QED BY <4>1, LeastOf
    <3>2. d \in 0 .. n /\ ~(U(n - d) <= U(n))
      OBVIOUS
    <3>3. n \in 0 .. n /\ n - 0 = n
      OBVIOUS
    <3>4. d # 0
      <4> SUFFICES ASSUME d = 0 PROVE FALSE
        OBVIOUS
      <4>1. n - d = n /\ U(n) \in Nat
        BY <1>3, <3>3
      <4>2. ~(U(n) <= U(n))
        BY <3>2, <4>1
      <4> QED BY <4>1, <4>2
    <3>5. d - 1 \in 0 .. n /\ ~(d <= d - 1)
      BY <3>2, <3>4
    <3>6. U(n - (d - 1)) <= U(n)
      BY <3>1, <3>5
    <3>7. n - (d - 1) \in 1 .. n /\ (n - (d - 1)) - 1 = n - d /\ n - d \in 0 .. n
      BY <3>2, <3>4
    <3>8. U(n - (d - 1)) = U(n - d) + Width(n - (d - 1)) /\ Width(n - (d - 1)) \in Nat
      BY <1>3, <3>7
    <3>9. U(n - d) \in Nat /\ U(n) \in Nat
      BY <1>3, <3>3, <3>7
    <3> HIDE DEF n
    <3> QED BY <3>2, <3>6, <3>8, <3>9
  <2> SUFFICES ASSUME NEW i \in 0 .. n PROVE U(i) <= U(n)
    OBVIOUS
  <2>2. n - i \in 0 .. n /\ n - (n - i) = i
    OBVIOUS
  <2> QED BY <2>1, <2>2
<1>8. /\ k - 1 \in 0 .. Len(page) /\ k \in 0 .. Len(page)
      /\ o \in 0 .. n /\ o + k \in 0 .. n
  OBVIOUS
<1>9. U(o) + C(k) = U(o + k) /\ U(o + k) <= U(n) /\ C(k) = C(k - 1) + Width(page[k])
  BY <1>5, <1>6, <1>7, <1>8
<1>10. U(o) \in Nat /\ C(k) \in Nat /\ C(k - 1) \in Nat /\ U(n) \in Nat /\ U(o + k) \in Nat
  <2>1. U(o) \in Nat
    BY <1>3, <1>8
  <2>2. C(k) \in Nat /\ C(k - 1) \in Nat
    BY <1>5, <1>8
  <2>3. U(o + k) \in Nat
    BY <1>3, <1>8
  <2>4. n \in 0 .. n
    OBVIOUS
  <2>5. U(n) \in Nat
    BY <1>3, <2>4
  <2> QED BY <2>1, <2>2, <2>3, <2>5
<1>11. C(k - 1) + Width(page[k]) <= U(n)
  <2> HIDE DEF n
  <2> QED BY <1>9, <1>10
<1>12. U(n) = ColumnsOf(Objects)
  BY <1>1 DEF U, ColumnsOf
<1> QED BY <1>4, <1>10, <1>11, <1>12 DEF C

-----------------------------------------------------------------------------
(* Pages *)

LEMMA QuotientOf ==
  ASSUME NEW m \in Nat, NEW l \in Nat \ {0}
  PROVE  (m * l) \div l = m
OBVIOUS

LEMMA QuotientIsLess ==
  ASSUME NEW n \in Nat, NEW l \in Nat \ {0}
  PROVE  n \div l \in Nat /\ n \div l <= n
OBVIOUS

LEMMA OneMore ==
  ASSUME NEW m \in Nat, NEW l \in Nat
  PROVE  (m + 1) * l = m * l + l
OBVIOUS

LEMMA LengthOf ==
  ASSUME NEW n \in Nat, NEW S, NEW f \in [1 .. n -> S]
  PROVE  f \in Seq(S) /\ Len(f) = n
OBVIOUS

LEMMA MemberOf ==
  ASSUME NEW S, NEW s \in Seq(S)
  PROVE  \A i \in 1 .. Len(s) : s[i] \in S
OBVIOUS

\* What a client may ask for.
Asks(opts) == opts.limit \in Nat /\ opts.offset \in Nat /\ opts.page \in Nat \ {0}

LEMMA PagingFacts ==
  ASSUME NEW opts, Asks(opts)
  PROVE  LET p == Paging(opts)
         IN  /\ p.limit \in Nat \ {0} /\ p.offset \in Nat /\ p.page \in Nat \ {0}
             /\ p.offset = IF opts.offset > 0 THEN opts.offset ELSE (opts.page - 1) * p.limit
             /\ p.page = (p.offset \div p.limit) + 1 /\ p.page <= p.offset + 1
<1> DEFINE l == IF opts.limit = 0 \/ opts.limit > MaxTables THEN MaxTables ELSE opts.limit
           o == IF opts.offset > 0 THEN opts.offset ELSE (opts.page - 1) * l
<1>1. Paging(opts) = [limit |-> l, offset |-> o, page |-> (o \div l) + 1]
  BY DEF Paging
<1>2. l \in Nat \ {0}
  BY CapsAssumption DEF Asks
<1>3. o \in Nat
  <2> HIDE DEF l
  <2>1. opts.page - 1 \in Nat
    BY DEF Asks
  <2> QED BY <1>2, <2>1 DEF Asks
<1> HIDE DEF l
<1>4. Paging(opts).offset = o /\ Paging(opts).limit = l /\ Paging(opts).page = (o \div l) + 1
  BY <1>1
<1>5. o = IF opts.offset > 0 THEN opts.offset ELSE (opts.page - 1) * l
  OBVIOUS
<1> HIDE DEF o
<1>6. o \div l \in Nat /\ o \div l <= o
  BY <1>2, <1>3, QuotientIsLess
<1>7. (o \div l) + 1 \in Nat \ {0} /\ (o \div l) + 1 <= o + 1
  BY <1>3, <1>6
<1> QED BY <1>2, <1>3, <1>4, <1>5, <1>7

\* The page of an answer: what it holds, and how it is told that there is more.
LEMMA PageFacts ==
  ASSUME source.catalogue \in Seq(Nat), NEW paging,
         paging.limit \in Nat \ {0}, paging.offset \in Nat
  PROVE  LET n == Len(source.catalogue)
             rows == ListedRows(paging)
             page == PageOf(rows, paging)
             more == HasMore(rows, paging)
         IN  /\ page \in Seq(1 .. n)
             /\ Len(page) \in Nat
             /\ more => Len(page) = paging.limit
             /\ source.dialect \in {"postgres", "mysql", "sqlite"} /\ paging.offset <= n =>
                  /\ more <=> paging.offset + paging.limit < n
                  /\ Len(page) = IF more THEN paging.limit ELSE n - paging.offset
                  /\ \A i \in 1 .. Len(page) : page[i] = paging.offset + i
<1> DEFINE n == Len(source.catalogue)
           o == paging.offset
           l == paging.limit
           rows == ListedRows(paging)
           page == PageOf(rows, paging)
           more == HasMore(rows, paging)
           last == IF o + l + 1 > n THEN n ELSE o + l + 1
<1>1. n \in Nat /\ Objects \in Seq(1 .. n) /\ Len(Objects) = n /\ \A i \in 1 .. n : Objects[i] = i
  <2>1. n \in Nat /\ Objects \in [1 .. n -> 1 .. n] /\ \A i \in 1 .. n : Objects[i] = i
    BY DEF Objects
  <2> HIDE DEF n
  <2> QED BY <2>1, LengthOf
<1>2. /\ rows \in Seq(1 .. n)
      /\ source.dialect \in {"postgres", "mysql", "sqlite"} /\ o <= n =>
            /\ Len(rows) = last - o
            /\ \A i \in 1 .. Len(rows) : rows[i] = o + i
  <2>1. CASE source.dialect = "mongodb"
    <3>1. rows = Objects
      BY <2>1 DEF ListedRows
    <3> HIDE DEF n, rows
    <3> QED BY <1>1, <2>1, <3>1
  <2>2. CASE source.dialect = "redis"
    <3>1. rows = <<>>
      BY <2>2 DEF ListedRows
    <3> HIDE DEF n, rows
    <3> QED BY <1>1, <2>2, <3>1
  <2>3. CASE source.dialect \notin {"mongodb", "redis"}
    <3>1. rows = SubSeq(Objects, o + 1, last)
      BY <1>1, <2>3 DEF ListedRows
    <3>2. last \in Nat /\ last <= n /\ (o <= n => o <= last) /\ o \in Nat
      <4>1. n \in Nat /\ o \in Nat /\ l \in Nat
        BY <1>1
      <4> HIDE DEF n, o, l
      <4> QED BY <4>1
    <3> HIDE DEF n, rows, last, o, l
    <3>3. \A i \in o + 1 .. last : Objects[i] \in 1 .. n /\ Objects[i] = i
      BY <1>1, <3>2
    <3>4. o + 1 \in Int /\ last \in Int
      BY <3>2
    <3>5. /\ rows \in Seq(1 .. n)
          /\ Len(rows) = IF o + 1 <= last THEN last - (o + 1) + 1 ELSE 0
          /\ \A i \in 1 .. last - (o + 1) + 1 : rows[i] = Objects[(o + 1) + i - 1]
      BY <3>1, <3>3, <3>4, SubSeqProperties
    <3>6. ASSUME o <= n PROVE Len(rows) = last - o /\ \A i \in 1 .. Len(rows) : rows[i] = o + i
      <4>1. Len(rows) = last - o
        BY <3>2, <3>5, <3>6
      <4>2. ASSUME NEW i \in 1 .. Len(rows) PROVE rows[i] = o + i
        <5>1. i \in 1 .. last - (o + 1) + 1 /\ o + i \in o + 1 .. last /\ (o + 1) + i - 1 = o + i
          BY <3>2, <3>6, <4>1
        <5> QED BY <3>3, <3>5, <5>1
      <4> QED BY <4>1, <4>2
    <3> QED BY <3>5, <3>6
  <2> QED BY <2>1, <2>2, <2>3
<1>3. Len(rows) \in Nat /\ (more <=> Len(rows) > l) /\ page = IF more THEN SubSeq(rows, 1, l) ELSE rows
  <2>1. (more <=> Len(rows) > l) /\ page = IF more THEN SubSeq(rows, 1, l) ELSE rows
    BY DEF HasMore, PageOf
  <2> HIDE DEF rows, page, more, n
  <2> QED BY <1>2, <2>1
<1> HIDE DEF rows, page, more, n
<1>4. /\ page \in Seq(1 .. n) /\ Len(page) \in Nat
      /\ Len(page) = IF more THEN l ELSE Len(rows)
      /\ \A i \in 1 .. Len(page) : i \in 1 .. Len(rows) /\ page[i] = rows[i]
  <2>1. CASE ~more
    BY <1>2, <1>3, <2>1
  <2>2. CASE more
    <3>1. \A i \in 1 .. l : i \in 1 .. Len(rows) /\ rows[i] \in 1 .. n
      <4>1. l \in Nat /\ Len(rows) \in Nat /\ Len(rows) > l /\ rows \in Seq(1 .. n)
        BY <1>2, <1>3, <2>2
      <4> HIDE DEF l
      <4>2. \A i \in 1 .. l : i \in 1 .. Len(rows)
        BY <4>1
      <4> QED BY <4>1, <4>2, MemberOf
    <3>2. 1 \in Int /\ l \in Int /\ 1 <= l /\ l - 1 + 1 = l
      OBVIOUS
    <3> HIDE DEF l
    <3>3. /\ SubSeq(rows, 1, l) \in Seq(1 .. n)
          /\ Len(SubSeq(rows, 1, l)) = l
          /\ \A i \in 1 .. l : SubSeq(rows, 1, l)[i] = rows[1 + i - 1]
      BY <3>1, <3>2, SubSeqProperties
    <3>4. \A i \in 1 .. l : 1 + i - 1 = i
      OBVIOUS
    <3> QED BY <1>3, <2>2, <3>1, <3>2, <3>3, <3>4
  <2> QED BY <2>1, <2>2
<1>5. ASSUME source.dialect \in {"postgres", "mysql", "sqlite"}, o <= n
      PROVE  /\ more <=> o + l < n
             /\ Len(page) = IF more THEN l ELSE n - o
             /\ \A i \in 1 .. Len(page) : page[i] = o + i
  <2>1. Len(rows) = last - o /\ \A i \in 1 .. Len(rows) : rows[i] = o + i
    BY <1>2, <1>5
  <2>2. more <=> o + l < n
    BY <1>1, <1>3, <1>5, <2>1
  <2>3. ~more => last = n
    BY <1>1, <2>2
  <2> HIDE DEF last, o, l
  <2> QED BY <1>4, <2>1, <2>2, <2>3
<1> QED BY <1>4, <1>5 DEF n, rows, page, more

LEMMA ReportFacts ==
  ASSUME source.catalogue \in Seq(Nat), Asks(options)
  PROVE  LET paging == Paging(options)
             rows == ListedRows(paging)
             page == PageOf(rows, paging)
         IN  /\ Report.given /\ Report.hasMore = HasMore(rows, paging)
             /\ Report.page = paging.page
             /\ Report.nextOffset = paging.offset + Len(page)
             /\ DOMAIN Report.tables = 1 .. Len(page)
             /\ \A k \in 1 .. Len(page) : Report.tables[k] = TableReport(page, k, paging)
             /\ Report.truncated <=> \/ Report.hasMore
                                     \/ \E k \in DOMAIN Report.tables : Report.tables[k].cut
             /\ [k \in 1 .. Len(Report.tables) |-> Report.tables[k].object] = page
<1> DEFINE paging == Paging(options)
           rows == ListedRows(paging)
           page == PageOf(rows, paging)
           tables == [k \in 1 .. Len(page) |-> TableReport(page, k, paging)]
           more == HasMore(rows, paging)
           cut == more \/ \E k \in DOMAIN tables : tables[k].cut
<1>1. Report = [given |-> TRUE, tables |-> tables, hasMore |-> more, page |-> paging.page,
                truncated |-> cut, nextOffset |-> paging.offset + Len(page)]
  BY DEF Report
<1>2. page \in Seq(1 .. Len(source.catalogue)) /\ Len(page) \in Nat
  <2>1. paging.limit \in Nat \ {0} /\ paging.offset \in Nat
    BY PagingFacts
  <2> HIDE DEF paging
  <2> QED BY <2>1, PageFacts
<1>3. \A k \in 1 .. Len(page) : TableReport(page, k, paging).object = page[k]
  BY DEF TableReport
<1> HIDE DEF page, paging, rows, more
<1>4. /\ Report.given /\ Report.hasMore = more /\ Report.page = paging.page
      /\ Report.nextOffset = paging.offset + Len(page)
      /\ Report.tables = tables
      /\ Report.truncated = cut
  <2> HIDE DEF tables, cut
  <2> QED BY <1>1
<1>5. /\ DOMAIN tables = 1 .. Len(page)
      /\ \A k \in 1 .. Len(page) : tables[k] = TableReport(page, k, paging)
  OBVIOUS
<1>6. Len(tables) = Len(page)
  <2>1. tables \in [1 .. Len(page) -> {TableReport(page, k, paging) : k \in 1 .. Len(page)}]
    OBVIOUS
  <2> HIDE DEF tables
  <2> QED BY <1>2, <2>1, LengthOf
<1>7. [k \in 1 .. Len(tables) |-> tables[k].object] = page
  <2>1. [k \in 1 .. Len(page) |-> page[k]] = page
    BY <1>2
  <2>2. \A k \in 1 .. Len(page) : tables[k].object = page[k]
    BY <1>3, <1>5
  <2> HIDE DEF tables
  <2> QED BY <1>6, <2>1, <2>2
<1>8. cut <=> more \/ \E k \in DOMAIN tables : tables[k].cut
  OBVIOUS
<1> HIDE DEF tables, cut
<1>9. Report.truncated <=> Report.hasMore \/ \E k \in DOMAIN Report.tables : Report.tables[k].cut
  BY <1>4, <1>8
<1> QED BY <1>4, <1>5, <1>7, <1>9 DEF page, paging, rows, more

\* The catalogue query takes limit and offset ...
TakesPages == source.dialect \in {"postgres", "mysql", "sqlite"}
\* ... and no two tables share a budget of rows that is too small for them.
Fits == source.dialect = "sqlite" \/ ColumnsOf(Objects) <= ColumnRowLimit(Paging(options))

LEMMA TableIsHonest ==
  ASSUME source.catalogue \in Seq(Nat), Asks(options), TakesPages, Fits,
         NEW page, Len(page) \in Nat, NEW o \in Nat, o + Len(page) <= Len(source.catalogue),
         \A i \in 1 .. Len(page) : page[i] = o + i,
         NEW k \in 1 .. Len(page)
  PROVE  LET table == TableReport(page, k, Paging(options))
         IN  table.cut <=> table.columns < Width(table.object)
<1> DEFINE paging == Paging(options)
           budget == ColumnRowLimit(paging)
           before == ColumnsUpTo(page, k - 1)
           wide == Width(page[k])
<1>1. Len(source.catalogue) \in Nat /\ \A i \in 1 .. Len(source.catalogue) : Width(i) \in Nat
  BY DEF Width
<1>2. before \in Nat /\ wide \in Nat /\ before + wide <= ColumnsOf(Objects)
  BY <1>1, PageWithinCatalogue
<1>3. budget \in Nat
  <2>1. paging.limit + 1 \in Nat /\ MaxColumns + 1 \in Nat
    <3>1. paging.limit \in Nat
      BY PagingFacts
    <3> HIDE DEF paging
    <3> QED BY <3>1, CapsAssumption
  <2> HIDE DEF paging
  <2> QED BY <2>1 DEF ColumnRowLimit
<1>4. ColumnsOf(Objects) \in Nat
  <2>1. Len(Objects) = Len(source.catalogue) /\ \A i \in 1 .. Len(Objects) : Objects[i] = i
    BY DEF Objects
  <2>2. Len(Objects) \in Nat /\ \A i \in 1 .. Len(Objects) : Width(Objects[i]) \in Nat
    BY <1>1, <2>1
  <2>3. Len(Objects) \in 0 .. Len(Objects)
    BY <2>2
  <2> QED BY <2>2, <2>3, ColumnsAdd DEF ColumnsOf
<1>5. RowsFor(page, k, paging) = wide
  <2>1. RowsFor(page, k, paging) =
           LET left == IF budget > before THEN budget - before ELSE 0
           IN  IF source.dialect \in {"postgres", "mysql"} /\ left < wide THEN left ELSE wide
    BY DEF RowsFor
  <2>2. CASE source.dialect = "sqlite"
    BY <2>1, <2>2
  <2>3. CASE source.dialect # "sqlite"
    <3>1. ColumnsOf(Objects) <= budget
      BY <2>3 DEF Fits
    <3> HIDE DEF budget, before, wide
    <3> QED BY <1>2, <1>3, <1>4, <2>1, <3>1
  <2> QED BY <2>2, <2>3
<1>6. source.dialect # "mongodb" /\ MaxColumns \in Nat
  BY CapsAssumption DEF TakesPages
<1> DEFINE t == TableReport(page, k, paging)
           rows == RowsFor(page, k, paging)
<1>7. t.object = page[k]
  BY DEF TableReport
<1>8. t.columns = IF wide > MaxColumns THEN MaxColumns ELSE wide
  <2>1. t.columns = IF source.dialect # "mongodb" /\ rows > MaxColumns THEN MaxColumns ELSE rows
    <3> HIDE DEF paging, rows
    <3> QED BY DEF TableReport, rows
  <2> HIDE DEF t, rows, wide
  <2> QED BY <1>5, <1>6, <2>1 DEF rows
<1>9. t.cut <=> wide > MaxColumns
  <2>1. t.cut = (source.dialect # "mongodb" /\ rows > MaxColumns)
    <3> HIDE DEF paging, rows
    <3> QED BY DEF TableReport, rows
  <2>2. t.cut <=> (source.dialect # "mongodb" /\ rows > MaxColumns)
    <3> HIDE DEF t, rows
    <3> QED BY <2>1
  <2> HIDE DEF t, rows, wide
  <2> QED BY <1>5, <1>6, <2>2 DEF rows
<1>10. t.cut <=> t.columns < Width(t.object)
  <2>1. Width(t.object) = wide
    BY <1>7
  <2> HIDE DEF t, wide
  <2> QED BY <1>2, <1>6, <1>8, <1>9, <2>1
<1> QED BY <1>10

-----------------------------------------------------------------------------
(* The stages *)

LEMMA StageFacts ==
  ASSUME source.dialect \in {"postgres", "mysql", "sqlite", "mongodb", "redis"}
  PROVE  /\ Len(Stages) \in 1 .. 4
         /\ \A i \in 1 .. Len(Stages) : Stages[i].awaits \subseteq Queries
<1>1. CASE source.dialect = "postgres"
  <2>1. Stages = PostgresStages(source.full)
    BY <1>1 DEF Stages
  <2> QED BY <2>1 DEF PostgresStages, Only, PostgresFull, PostgresWideCatalogue, Queries
<1>2. CASE source.dialect = "mysql"
  <2>1. Stages = MySQLStages(source.full)
    BY <1>2 DEF Stages
  <2> QED BY <2>1 DEF MySQLStages, Only, MySQLWideCatalogue, Queries
<1>3. CASE source.dialect = "sqlite"
  <2>1. Stages = SQLiteStages(source.full)
    BY <1>3 DEF Stages
  <2> QED BY <2>1 DEF SQLiteStages, Only, SQLiteFull, Queries
<1>4. CASE source.dialect = "mongodb"
  <2>1. Stages = MongoStages
    BY <1>4 DEF Stages
  <2> QED BY <2>1 DEF MongoStages, Queries
<1>5. CASE source.dialect = "redis"
  <2>1. Stages = RedisStages(source.full)
    BY <1>5 DEF Stages
  <2> QED BY <2>1 DEF RedisStages, Only, Queries
<1> QED BY <1>1, <1>2, <1>3, <1>4, <1>5

-----------------------------------------------------------------------------
(* The walk *)

\* What is known of a walk whatever the database.
AnswerInv ==
    /\ ~answer.given => /\ visited = <<>> /\ answer.tables = <<>> /\ ~answer.hasMore
                        /\ options.offset = 0 /\ options.page = 1
    /\ answer.page \in Nat /\ answer.nextOffset \in Nat
    /\ answer.given => answer.page >= 1
    /\ answer.hasMore => answer.page <= answer.nextOffset
    /\ answer.given => (answer.truncated <=> \/ answer.hasMore
                                            \/ \E k \in DOMAIN answer.tables : answer.tables[k].cut)

\* The walk has seen the first objects of the catalogue, and is to go on after the last of them;
\* while there is more, whole pages.
WalkInv ==
    LET n == Len(visited)
        size == Len(source.catalogue)
        paging == Paging(options)
    IN  TakesPages =>
          /\ n <= size
          /\ \A k \in 1 .. n : visited[k] = k
          /\ answer.given => /\ answer.hasMore <=> n < size
                             /\ answer.nextOffset = n
                             /\ answer.hasMore => n = answer.page * paging.limit
          /\ atStage > 0 => /\ paging.offset = n
                            /\ \E m \in Nat : n = m * paging.limit
          /\ Fits => CutIsSaid

PagesInv == DescribeTypeOK /\ atStage <= Len(Stages) /\ AnswerInv /\ WalkInv

LEMMA TypeFacts ==
  ASSUME DescribeTypeOK
  PROVE  /\ source.catalogue \in Seq(Nat) /\ Len(source.catalogue) \in Nat
         /\ source.dialect \in {"postgres", "mysql", "sqlite", "mongodb", "redis"}
         /\ Asks(options) /\ options.limit \in Limits /\ MaxOffset \in Nat
         /\ visited \in Seq(Nat) /\ Len(visited) \in Nat
<1>1. /\ source.catalogue \in Catalogues /\ source.dialect \in DescribeDialects
      /\ options.limit \in Limits /\ options.offset \in 0 .. MaxOffset
      /\ options.page \in 1 .. MaxOffset + 2 /\ visited \in Seq(Nat)
  BY DEF DescribeTypeOK
<1>2. source.catalogue \in Seq(Nat)
  BY <1>1, CataloguesAssumption
<1>3. Asks(options)
  <2>0. MaxOffset \in Nat /\ Limits \subseteq Nat
    BY CataloguesAssumption
  <2>1. options.limit \in Nat
    BY <1>1, <2>0
  <2>2. options.offset \in Nat
    BY <1>1, <2>0
  <2>3. options.page \in Nat \ {0}
    BY <1>1, <2>0
  <2> QED BY <2>1, <2>2, <2>3 DEF Asks
<1>4. Len(source.catalogue) \in Nat /\ Len(visited) \in Nat
  BY <1>1, <1>2
<1> QED BY <1>1, <1>2, <1>3, <1>4, CataloguesAssumption

\* A step within a call: its queries and its items.
LEMMA WithinCall ==
  ASSUME PagesInv, UNCHANGED <<source, options, answer, visited>>, atStage' > 0 => atStage > 0
  PROVE  AnswerInv' /\ WalkInv'
<1>1. AnswerInv'
  BY DEF PagesInv, AnswerInv
<1>2. /\ TakesPages' = TakesPages /\ Fits' = Fits /\ CutIsSaid' = CutIsSaid /\ Paging(options)' = Paging(options)
  BY DEF TakesPages, Fits, CutIsSaid, Width, ColumnsOf, ColumnsUpTo, Objects
<1> QED BY <1>1, <1>2 DEF PagesInv, WalkInv

LEMMA RejectsStep ==
  ASSUME PagesInv, Rejects
  PROVE  AnswerInv' /\ WalkInv'
<1>1. /\ atStage' = 0 /\ answer' = NoAnswer /\ visited' = <<>> /\ source' = source
      /\ options' = [options EXCEPT !.offset = 0, !.page = 1]
  BY DEF Rejects
<1>2. options \in [limit : Limits, offset : 0 .. MaxOffset, page : 1 .. MaxOffset + 2]
  BY DEF PagesInv, DescribeTypeOK
<1>3. options'.offset = 0 /\ options'.page = 1 /\ options'.limit = options.limit
  BY <1>1, <1>2
<1>4. AnswerInv'
  BY <1>1, <1>3 DEF AnswerInv, NoAnswer
<1>5. Len(source.catalogue) \in Nat
  BY TypeFacts DEF PagesInv
<1>6. WalkInv'
  BY <1>1, <1>5 DEF WalkInv, NoAnswer, CutIsSaid
<1> QED BY <1>4, <1>6

LEMMA BeginStep ==
  ASSUME PagesInv, BeginDescribe
  PROVE  AnswerInv' /\ WalkInv' /\ Paging(options').limit = Paging(options).limit
         /\ options' \in [limit : Limits, offset : 0 .. MaxOffset, page : 1 .. MaxOffset + 2]
<1> DEFINE limit == Paging(options).limit
           n == Len(visited)
<1>1. /\ atStage = 0 /\ atStage' = 1 /\ UNCHANGED <<source, answer, visited>>
      /\ ~answer.given \/ (answer.hasMore /\ answer.nextOffset <= MaxOffset)
  BY DEF BeginDescribe
<1>2. options \in [limit : Limits, offset : 0 .. MaxOffset, page : 1 .. MaxOffset + 2]
  BY DEF PagesInv, DescribeTypeOK
<1>3. Asks(options) /\ MaxOffset \in Nat /\ n \in Nat
  BY TypeFacts DEF PagesInv
<1>4. CASE ~answer.given
  <2>1. options' = options /\ options.offset = 0 /\ options.page = 1 /\ visited = <<>>
    BY <1>4 DEF BeginDescribe, PagesInv, AnswerInv
  <2>2. AnswerInv'
    BY <1>1, <2>1 DEF AnswerInv, PagesInv
  <2>3. Paging(options).offset = 0 /\ limit \in Nat
    BY <1>3, <2>1, PagingFacts
  <2>4. /\ TakesPages' = TakesPages /\ Fits' = Fits /\ CutIsSaid' = CutIsSaid
        /\ Paging(options)' = Paging(options)
    BY <1>1, <2>1 DEF TakesPages, Fits, CutIsSaid, Width, ColumnsOf, ColumnsUpTo, Objects
  <2>5. n = 0 /\ 0 = 0 * limit
    BY <2>1, <2>3
  <2>6. WalkInv'
    BY <1>1, <1>4, <2>1, <2>3, <2>4, <2>5 DEF WalkInv, PagesInv
  <2> QED BY <1>2, <2>1, <2>2, <2>6
<1>5. CASE answer.given
  <2>1. /\ answer.hasMore /\ answer.nextOffset \in Nat /\ answer.nextOffset <= MaxOffset
        /\ answer.page \in Nat /\ answer.page >= 1 /\ answer.page <= answer.nextOffset
    BY <1>1, <1>5 DEF PagesInv, AnswerInv
  <2>2. \/ options' = [options EXCEPT !.offset = answer.nextOffset]
        \/ options' = [options EXCEPT !.page = answer.page + 1, !.offset = 0]
    BY <1>5 DEF BeginDescribe
  <2>3. answer.nextOffset \in 0 .. MaxOffset /\ answer.page + 1 \in 1 .. MaxOffset + 2
        /\ 0 \in 0 .. MaxOffset
    BY <1>3, <2>1
  <2>4. /\ options' \in [limit : Limits, offset : 0 .. MaxOffset, page : 1 .. MaxOffset + 2]
        /\ options'.limit = options.limit
        /\ \/ options'.offset = answer.nextOffset
           \/ options'.offset = 0 /\ options'.page = answer.page + 1
    BY <1>2, <2>2, <2>3
  <2>5. Paging(options').limit = limit
    BY <2>4 DEF Paging
  <2>6. AnswerInv'
    BY <1>1, <1>5 DEF AnswerInv, PagesInv
  <2>7. ASSUME TakesPages
        PROVE  Paging(options').offset = n /\ \E m \in Nat : n = m * limit
    <3>1. answer.nextOffset = n /\ n = answer.page * limit
      BY <1>5, <2>1, <2>7 DEF PagesInv, WalkInv
    <3>2. Asks(options')
      <4>1. options'.limit \in Nat
        BY <1>3, <2>4 DEF Asks
      <4>2. options'.offset \in Nat
        BY <2>1, <2>4
      <4>3. options'.page \in Nat \ {0}
        <5>1. options'.page \in 1 .. MaxOffset + 2
          BY <2>4
        <5> QED BY <1>3, <5>1
      <4> QED BY <4>1, <4>2, <4>3 DEF Asks
    <3>3. Paging(options').offset = IF options'.offset > 0 THEN options'.offset
                                    ELSE (options'.page - 1) * limit
      BY <2>5, <3>2, PagingFacts
    <3>4. (answer.page + 1) - 1 = answer.page /\ answer.nextOffset > 0
      BY <2>1
    <3>5. Paging(options').offset = n
      <4> HIDE DEF limit
      <4> QED BY <2>4, <3>1, <3>3, <3>4
    <3> QED BY <2>1, <3>1, <3>5
  <2>8. /\ TakesPages' = TakesPages /\ (Fits' <=> Fits) /\ (CutIsSaid' <=> CutIsSaid)
    <3>1. ColumnRowLimit(Paging(options'))  = ColumnRowLimit(Paging(options))
      BY <2>5 DEF ColumnRowLimit
    <3>2. ColumnsOf(Objects)' = ColumnsOf(Objects)
      BY <1>1 DEF ColumnsOf, ColumnsUpTo, Objects, Width
    <3>3. Paging(options)' = Paging(options')
      BY DEF Paging
    <3>4. ColumnRowLimit(Paging(options))' = ColumnRowLimit(Paging(options'))
      BY DEF ColumnRowLimit, Paging
    <3> QED BY <1>1, <3>1, <3>2, <3>4 DEF TakesPages, Fits, CutIsSaid, Width
  <2>9. Paging(options)'.limit = limit /\ Paging(options)'.offset = Paging(options').offset
    <3>1. Paging(options)' = Paging(options')
      BY DEF Paging
    <3> QED BY <2>5, <3>1
  <2>10. WalkInv'
    BY <1>1, <2>7, <2>8, <2>9 DEF WalkInv, PagesInv
  <2> QED BY <2>4, <2>5, <2>6, <2>10
<1> QED BY <1>4, <1>5

LEMMA AnswersStep ==
  ASSUME PagesInv, Answers
  PROVE  AnswerInv' /\ WalkInv' /\ visited' \in Seq(Nat)
<1> DEFINE paging == Paging(options)
           rows == ListedRows(paging)
           page == PageOf(rows, paging)
           more == HasMore(rows, paging)
           n == Len(visited)
           size == Len(source.catalogue)
<1>1. /\ atStage > 0 /\ atStage' = 0 /\ answer' = Report /\ UNCHANGED <<source, options>>
      /\ visited' = visited \o [k \in 1 .. Len(Report.tables) |-> Report.tables[k].object]
  BY DEF Answers, PagesInv, DescribeTypeOK
<1>2. /\ source.catalogue \in Seq(Nat) /\ size \in Nat /\ Asks(options)
      /\ visited \in Seq(Nat) /\ n \in Nat
  BY TypeFacts DEF PagesInv
<1>3. /\ paging.limit \in Nat \ {0} /\ paging.offset \in Nat /\ paging.page \in Nat \ {0}
      /\ paging.page = (paging.offset \div paging.limit) + 1 /\ paging.page <= paging.offset + 1
  BY <1>2, PagingFacts
<1>4. /\ Report.given /\ Report.hasMore = more /\ Report.page = paging.page
      /\ Report.nextOffset = paging.offset + Len(page)
      /\ DOMAIN Report.tables = 1 .. Len(page)
      /\ \A k \in 1 .. Len(page) : Report.tables[k] = TableReport(page, k, paging)
      /\ Report.truncated <=> \/ Report.hasMore
                              \/ \E k \in DOMAIN Report.tables : Report.tables[k].cut
      /\ visited' = visited \o page
  BY <1>1, <1>2, ReportFacts
<1>5. /\ page \in Seq(1 .. size) /\ Len(page) \in Nat
      /\ more => Len(page) = paging.limit
      /\ TakesPages /\ paging.offset <= size =>
           /\ more <=> paging.offset + paging.limit < size
           /\ Len(page) = IF more THEN paging.limit ELSE size - paging.offset
           /\ \A i \in 1 .. Len(page) : page[i] = paging.offset + i
  <2> HIDE DEF paging
  <2> QED BY <1>2, <1>3, PageFacts DEF TakesPages
<1> HIDE DEF paging, rows, page, more
<1>6. page \in Seq(Nat) /\ visited' \in Seq(Nat) /\ Len(visited') = n + Len(page)
      /\ \A i \in 1 .. n + Len(page) : visited'[i] = IF i <= n THEN visited[i] ELSE page[i - n]
  <2>1. page \in Seq(Nat)
    <3>1. \A S, T : S \subseteq T => Seq(S) \subseteq Seq(T)
      OBVIOUS
    <3>2. 1 .. size \subseteq Nat
      BY <1>2
    <3> QED BY <1>5, <3>1, <3>2
  <2> QED BY <1>2, <1>4, <2>1, ConcatProperties
<1>7. AnswerInv'
  <2>1. Report.page \in Nat /\ Report.page >= 1 /\ Report.nextOffset \in Nat
    <3>1. paging.page \in Nat /\ paging.page >= 1
      BY <1>3
    <3>2. paging.offset + Len(page) \in Nat
      BY <1>3, <1>5
    <3> QED BY <1>4, <3>1, <3>2
  <2>2. more => paging.page <= paging.offset + Len(page)
    BY <1>3, <1>5
  <2> QED BY <1>1, <1>4, <2>1, <2>2 DEF AnswerInv
<1>8. ASSUME TakesPages
      PROVE  /\ n + Len(page) <= size
             /\ \A k \in 1 .. n + Len(page) : visited'[k] = k
             /\ more <=> n + Len(page) < size
             /\ Report.nextOffset = n + Len(page)
             /\ more => n + Len(page) = paging.page * paging.limit
             /\ Fits => \A k \in 1 .. Len(page) :
                           LET table == TableReport(page, k, paging)
                           IN  table.cut <=> table.columns < Width(table.object)
  <2>1. /\ n <= size /\ \A k \in 1 .. n : visited[k] = k
        /\ paging.offset = n /\ \E m \in Nat : n = m * paging.limit
    BY <1>1, <1>8 DEF PagesInv, WalkInv, paging
  <2>2. /\ more <=> n + paging.limit < size
        /\ Len(page) = IF more THEN paging.limit ELSE size - n
        /\ \A i \in 1 .. Len(page) : page[i] = n + i
    BY <1>5, <1>8, <2>1
  <2>3. n + Len(page) <= size /\ (more <=> n + Len(page) < size)
    BY <1>2, <1>3, <1>5, <2>1, <2>2
  <2>4. \A k \in 1 .. n + Len(page) : visited'[k] = k
    <3> SUFFICES ASSUME NEW k \in 1 .. n + Len(page) PROVE visited'[k] = k
      OBVIOUS
    <3>1. CASE k <= n
      <4>1. visited'[k] = visited[k]
        BY <1>6, <3>1
      <4>2. k \in 1 .. n
        BY <1>2, <1>5, <3>1
      <4>3. visited[k] = k
        BY <2>1, <4>2
      <4> QED BY <4>1, <4>3
    <3>2. CASE ~(k <= n)
      <4>1. k - n \in 1 .. Len(page) /\ n + (k - n) = k
        BY <1>2, <1>5, <3>2
      <4>2. visited'[k] = page[k - n]
        BY <1>6, <3>2
      <4>3. page[k - n] = n + (k - n)
        BY <2>2, <4>1
      <4> QED BY <4>1, <4>2, <4>3
    <3> QED BY <3>1, <3>2
  <2>5. more => n + Len(page) = paging.page * paging.limit
    <3> SUFFICES ASSUME more PROVE n + Len(page) = paging.page * paging.limit
      OBVIOUS
    <3>1. PICK m \in Nat : n = m * paging.limit
      BY <2>1
    <3>2. n \div paging.limit = m
      BY <1>3, <3>1, QuotientOf
    <3>3. paging.page = m + 1
      BY <1>3, <2>1, <3>2
    <3>4. (m + 1) * paging.limit = m * paging.limit + paging.limit
      BY <1>3, OneMore
    <3> QED BY <1>5, <3>1, <3>3, <3>4
  <2>6. ASSUME Fits, NEW k \in 1 .. Len(page)
        PROVE  LET table == TableReport(page, k, paging)
               IN  table.cut <=> table.columns < Width(table.object)
    BY <1>2, <1>5, <1>8, <2>2, <2>3, <2>6, TableIsHonest DEF paging
  <2> QED BY <1>4, <2>1, <2>3, <2>4, <2>5, <2>6
<1>9. WalkInv'
  <2>1. /\ TakesPages' = TakesPages /\ (Fits' <=> Fits) /\ Paging(options)' = paging
        /\ \A i : Width(i)' = Width(i)
    BY <1>1 DEF TakesPages, Fits, Width, ColumnsOf, ColumnsUpTo, Objects, paging
  <2>2. ASSUME TakesPages, Fits PROVE CutIsSaid'
    BY <1>1, <1>4, <1>8, <2>1, <2>2 DEF CutIsSaid
  <2> QED BY <1>1, <1>2, <1>4, <1>6, <1>8, <2>1, <2>2 DEF WalkInv
<1> QED BY <1>6, <1>7, <1>9

LEMMA QueriesStep ==
  ASSUME PagesInv, DescribeNext
  PROVE  /\ query' \in [Queries -> {"none", "running", "done", "swallowed", "rejected"}]
         /\ items'.next \in Nat /\ items'.busy \subseteq 1 .. items'.next
         /\ heard' \subseteq Queries /\ unhandled' \in BOOLEAN
         /\ source' = source /\ Stages' = Stages
<1> DEFINE States == {"none", "running", "done", "swallowed", "rejected"}
           Goal == /\ query' \in [Queries -> States]
                   /\ items'.next \in Nat /\ items'.busy \subseteq 1 .. items'.next
                   /\ heard' \subseteq Queries /\ unhandled' \in BOOLEAN
<1>0. /\ query \in [Queries -> States]
      /\ items.next \in Nat /\ items.busy \subseteq 1 .. items.next
      /\ heard \subseteq Queries /\ unhandled \in BOOLEAN
      /\ atStage \in 0 .. 4 /\ atStage <= Len(Stages)
  BY DEF PagesInv, DescribeTypeOK
<1>1. /\ Len(Stages) \in 1 .. 4
      /\ \A i \in 1 .. Len(Stages) : Stages[i].awaits \subseteq Queries
  BY TypeFacts, StageFacts DEF PagesInv
<1>2. source' = source /\ Stages' = Stages
  <2>1. source' = source
    BY DEF DescribeNext, BeginDescribe, QueryAnswers, QueryFails, Rejects, TakeItem, ItemDone,
       Advance, Answers
  <2> QED BY <2>1 DEF Stages, PostgresStages, MySQLStages, SQLiteStages, MongoStages, RedisStages
<1>3. CASE BeginDescribe
  <2>1. Stages[1].awaits \subseteq Queries
    BY <1>1
  <2>2. query' \in [Queries -> States]
    BY <1>3 DEF BeginDescribe
  <2>3. items'.next = 0 /\ items'.busy = {} /\ heard' = Stages[1].awaits /\ unhandled' = unhandled
    BY <1>3 DEF BeginDescribe, NoItems
  <2> QED BY <1>0, <1>2, <2>1, <2>2, <2>3
<1>4. ASSUME NEW q \in Queries, QueryAnswers(q) PROVE Goal
  BY <1>0, <1>4 DEF QueryAnswers
<1>5. ASSUME NEW q \in Queries, QueryFails(q) PROVE Goal
  <2>1. query' \in [Queries -> States]
    BY <1>0, <1>5 DEF QueryFails
  <2>2. unhandled' \in BOOLEAN /\ UNCHANGED <<items, heard>>
    BY <1>0, <1>5 DEF QueryFails
  <2> QED BY <1>0, <2>1, <2>2
<1>6. CASE Rejects \/ Answers
  BY <1>0, <1>2, <1>6 DEF Rejects, Answers
<1>7. CASE TakeItem
  <2>1. items'.next = items.next + 1 /\ items'.busy = items.busy \cup {items.next + 1}
        /\ UNCHANGED <<query, heard, unhandled>>
    BY <1>7 DEF TakeItem
  <2>2. items.next + 1 \in Nat /\ items.busy \cup {items.next + 1} \subseteq 1 .. items.next + 1
    BY <1>0
  <2> QED BY <1>0, <1>2, <2>1, <2>2
<1>8. CASE ItemDone
  <2>1. PICK i \in items.busy : items' = [items EXCEPT !.busy = items.busy \ {i}]
    BY <1>8 DEF ItemDone
  <2>2. UNCHANGED <<query, heard, unhandled>>
    BY <1>8 DEF ItemDone
  <2>3. items'.next = items.next /\ items'.busy = items.busy \ {i}
    BY <2>1
  <2> QED BY <1>0, <1>2, <2>2, <2>3
<1>9. CASE Advance
  <2>1. atStage + 1 \in 1 .. Len(Stages)
    BY <1>0, <1>1, <1>9 DEF Advance
  <2>2. Stages[atStage + 1].awaits \subseteq Queries
    BY <1>1, <2>1
  <2>3. query' \in [Queries -> States]
    BY <1>0, <1>9 DEF Advance, Started
  <2>4. heard' = heard \cup Stages[atStage + 1].awaits /\ UNCHANGED <<items, unhandled>>
    BY <1>9 DEF Advance
  <2> QED BY <1>0, <1>2, <2>2, <2>3, <2>4
<1> QED BY <1>2, <1>3, <1>4, <1>5, <1>6, <1>7, <1>8, <1>9 DEF DescribeNext

LEMMA NextStage ==
  ASSUME NEW m \in 1 .. 4, NEW i \in 0 .. 4, i <= m, i # m
  PROVE  i + 1 \in 0 .. 4 /\ i + 1 <= m
OBVIOUS

LEMMA CallStep ==
  ASSUME PagesInv, DescribeNext
  PROVE  /\ options' \in [limit : Limits, offset : 0 .. MaxOffset, page : 1 .. MaxOffset + 2]
         /\ atStage' \in 0 .. 4 /\ atStage' <= Len(Stages) /\ answer'.given \in BOOLEAN
         /\ visited' \in Seq(Nat) /\ AnswerInv' /\ WalkInv'
<1>0. /\ options \in [limit : Limits, offset : 0 .. MaxOffset, page : 1 .. MaxOffset + 2]
      /\ atStage \in 0 .. 4 /\ atStage <= Len(Stages)
      /\ visited \in Seq(Nat) /\ answer.given \in BOOLEAN
  BY DEF PagesInv, DescribeTypeOK
<1>1. Len(Stages) \in 1 .. 4 /\ MaxOffset \in Nat
  BY TypeFacts, StageFacts DEF PagesInv
<1>2. CASE BeginDescribe
  <2>1. atStage' = 1 /\ UNCHANGED <<answer, visited>>
    BY <1>2 DEF BeginDescribe
  <2>2. atStage' \in 0 .. 4 /\ atStage' <= Len(Stages)
    BY <1>1, <2>1
  <2>3. answer'.given \in BOOLEAN /\ visited' \in Seq(Nat)
    BY <1>0, <2>1
  <2> QED BY <1>2, <2>2, <2>3, BeginStep
<1>3. CASE (\E q \in Queries : QueryAnswers(q) \/ QueryFails(q)) \/ TakeItem \/ ItemDone
  <2>1. UNCHANGED <<source, options, atStage, answer, visited>>
    BY <1>3 DEF QueryAnswers, QueryFails, TakeItem, ItemDone
  <2> QED BY <1>0, <2>1, WithinCall
<1>4. CASE Rejects
  <2>1. /\ options' = [options EXCEPT !.offset = 0, !.page = 1] /\ atStage' = 0
        /\ answer' = NoAnswer /\ visited' = <<>>
    BY <1>4 DEF Rejects
  <2>2. 0 \in 0 .. MaxOffset /\ 1 \in 1 .. MaxOffset + 2
    BY <1>1
  <2>3. options' \in [limit : Limits, offset : 0 .. MaxOffset, page : 1 .. MaxOffset + 2]
    BY <1>0, <2>1, <2>2
  <2>4. answer'.given \in BOOLEAN /\ visited' \in Seq(Nat) /\ atStage' \in 0 .. 4
        /\ atStage' <= Len(Stages)
    BY <1>1, <2>1 DEF NoAnswer
  <2> QED BY <1>4, <2>3, <2>4, RejectsStep
<1>5. CASE Advance
  <2>1. /\ UNCHANGED <<source, options, answer, visited>> /\ atStage > 0
        /\ atStage' = atStage + 1 /\ atStage # Len(Stages)
    BY <1>5 DEF Advance
  <2>2. atStage' \in 0 .. 4 /\ atStage' <= Len(Stages)
    <3>1. /\ atStage \in 0 .. 4 /\ Len(Stages) \in 1 .. 4
          /\ atStage <= Len(Stages) /\ atStage # Len(Stages)
      BY <1>0, <1>1, <2>1
    <3>2. atStage + 1 \in 0 .. 4 /\ atStage + 1 <= Len(Stages)
      BY <3>1, NextStage
    <3> QED BY <2>1, <3>2
  <2> QED BY <1>0, <2>1, <2>2, WithinCall
<1>6. CASE Answers
  <2>1. UNCHANGED options /\ atStage' = 0 /\ answer' = Report
    BY <1>6 DEF Answers
  <2>2. answer'.given \in BOOLEAN
    BY <2>1 DEF Report
  <2>3. atStage' \in 0 .. 4 /\ atStage' <= Len(Stages)
    BY <1>1, <2>1
  <2> QED BY <1>0, <1>6, <2>1, <2>2, <2>3, AnswersStep
<1> QED BY <1>2, <1>3, <1>4, <1>5, <1>6 DEF DescribeNext

LEMMA PagesStep == PagesInv /\ [DescribeNext]_describeVars => PagesInv'
<1> SUFFICES ASSUME PagesInv, [DescribeNext]_describeVars PROVE PagesInv'
  OBVIOUS
<1>1. CASE UNCHANGED describeVars
  <2>1. /\ UNCHANGED <<source, options, atStage, query, items, heard, unhandled, answer, visited>>
        /\ Stages' = Stages
    BY <1>1 DEF describeVars, Stages, PostgresStages, MySQLStages, SQLiteStages, MongoStages,
       RedisStages
  <2>2. DescribeTypeOK'
    BY <2>1 DEF PagesInv, DescribeTypeOK
  <2> QED BY <2>1, <2>2, WithinCall DEF PagesInv
<1>2. CASE DescribeNext
  <2>1. DescribeTypeOK' /\ atStage' <= Len(Stages)'
    BY <1>2, QueriesStep, CallStep DEF PagesInv, DescribeTypeOK
  <2> QED BY <1>2, <2>1, CallStep DEF PagesInv
<1> QED BY <1>1, <1>2

LEMMA PagesInit == DescribeInit => PagesInv
<1> SUFFICES ASSUME DescribeInit PROVE PagesInv
  OBVIOUS
<1>1. /\ source \in [dialect : DescribeDialects, full : BOOLEAN, catalogue : Catalogues]
      /\ options \in [limit : Limits, offset : {0}, page : {1}]
      /\ atStage = 0 /\ query = AtRest /\ items = NoItems
      /\ heard = {} /\ unhandled = FALSE /\ answer = NoAnswer /\ visited = <<>>
  BY DEF DescribeInit
<1>2. DescribeTypeOK
  <2>1. MaxOffset \in Nat
    BY CataloguesAssumption
  <2>2. options \in [limit : Limits, offset : 0 .. MaxOffset, page : 1 .. MaxOffset + 2]
    BY <1>1, <2>1
  <2>3. items.next \in Nat /\ items.busy \subseteq 1 .. items.next
    BY <1>1 DEF NoItems
  <2>4. query \in [Queries -> {"none", "running", "done", "swallowed", "rejected"}]
    BY <1>1 DEF AtRest
  <2>5. heard \subseteq Queries /\ unhandled \in BOOLEAN
    BY <1>1
  <2>6. atStage \in 0 .. 4
    BY <1>1
  <2>7. answer.given \in BOOLEAN /\ visited \in Seq(Nat)
    BY <1>1 DEF NoAnswer
  <2> QED BY <1>1, <2>2, <2>3, <2>4, <2>5, <2>6, <2>7 DEF DescribeTypeOK
<1>3. /\ Len(Stages) \in 1 .. 4 /\ Len(source.catalogue) \in Nat
  BY <1>2, TypeFacts, StageFacts
<1>4. AnswerInv
  BY <1>1 DEF AnswerInv, NoAnswer
<1>5. WalkInv
  BY <1>1, <1>3 DEF WalkInv, NoAnswer, CutIsSaid
<1> QED BY <1>1, <1>2, <1>3, <1>4, <1>5 DEF PagesInv

LEMMA PagesInvariant == DescribeSpec => []PagesInv
  BY PagesInit, PagesStep, PTL DEF DescribeSpec

\* The call's options, stage and queries, the last answer and the walk have their types.
THEOREM DescribeTypeCorrect == DescribeSpec => []DescribeTypeOK
<1>1. PagesInv => DescribeTypeOK
  BY DEF PagesInv
<1> QED BY <1>1, PagesInvariant, PTL

LEMMA InvIsHonest == PagesInv => PagesAreHonest
<1> SUFFICES ASSUME PagesInv, TakesPages, Fits
             PROVE  WalkSeesEachOnce /\ CutIsSaid /\ TruncatedIsHonest
  BY DEF PagesAreHonest, TakesPages, Fits
<1> DEFINE n == Len(visited)
           size == Len(source.catalogue)
<1>1. /\ n <= size /\ \A k \in 1 .. n : visited[k] = k
      /\ answer.given => (answer.hasMore <=> n < size)
      /\ CutIsSaid
  BY DEF PagesInv, WalkInv
<1>2. answer.given => (answer.truncated <=> \/ answer.hasMore
                                          \/ \E k \in DOMAIN answer.tables : answer.tables[k].cut)
  BY DEF PagesInv, AnswerInv
<1>3. n \in Nat /\ size \in Nat /\ DOMAIN visited = 1 .. n
  BY TypeFacts DEF PagesInv
<1>4. WalkSeesEachOnce
  BY <1>1, <1>3 DEF WalkSeesEachOnce
<1>5. TruncatedIsHonest
  BY <1>1, <1>2 DEF TruncatedIsHonest, CutIsSaid
<1> QED BY <1>1, <1>4, <1>5

\* Where the catalogue query takes limit and offset and the tables of a page do not share too
\* small a budget: for every catalogue, limit and way to ask for the next page, a walk describes
\* each object once, in order, and all of them; a cut table says so, and truncated is true only
\* when something was left out (readPaging, pageReport and groupByRelation of schema.js).
THEOREM PagesAreHonestCorrect == DescribeSpec => []PagesAreHonest
  BY InvIsHonest, PagesInvariant, PTL
=============================================================================
