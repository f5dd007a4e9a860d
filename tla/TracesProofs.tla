---------------------------- MODULE TracesProofs ----------------------------
(***************************************************************************)
(* Proofs about Traces, for any number of traces, filters, pages, pushes   *)
(* and requests in flight.                                                 *)
(*                                                                         *)
(* A list is exact only when nothing has crossed its paging, so the        *)
(* inductive invariant says what a request that nothing has crossed will   *)
(* bring when it lands.                                                    *)
(*                                                                         *)
(* Of QueryMerge: that merging what the partitions answer loses nothing,   *)
(* for any spans on any days.                                              *)
(***************************************************************************)
EXTENDS MCTraces, SequenceTheorems, FiniteSetTheorems, WellFoundedInduction, TLAPS

-----------------------------------------------------------------------------
(* Sequences *)

\* The least element of a set of naturals.
LEMMA LeastNat ==
  ASSUME NEW S \in SUBSET Nat, S # {}
  PROVE  \E m \in S : \A n \in S : m <= n
<1>1. PICK m \in S : \A n \in S : ~(<<n, m>> \in OpToRel(<, Nat))
  BY NatLessThanWellFounded, WFMin
<1>2. \A n \in S : ~(n < m)
  BY <1>1 DEF OpToRel
<1>3. QED
  BY <1>2

\* The first numbers.
LEMMA UpTo ==
  ASSUME NEW n \in Nat
  PROVE  IsFiniteSet(1..n) /\ Cardinality(1..n) = n
<1>1. 1 \in Int /\ n \in Int
  OBVIOUS
<1>2. IsFiniteSet(1..n) /\ Cardinality(1..n) = IF 1 > n THEN 0 ELSE n - 1 + 1
  BY <1>1, FS_Interval
<1>3. QED
  BY <1>2

\* A sequence of one element.
LEMMA RangeOfOne ==
  ASSUME NEW S, NEW x \in S
  PROVE  <<x>> \in Seq(S) /\ Len(<<x>>) = 1 /\ <<x>>[1] = x /\ Range(<<x>>) = {x}
<1>1. <<x>> \in Seq(S) /\ Len(<<x>>) = 1 /\ <<x>>[1] = x
  OBVIOUS
<1>2. Range(<<x>>) = {x}
  BY DEF Range
<1>3. QED
  BY <1>1, <1>2

\* Nothing is in the empty sequence.
LEMMA RangeOfEmpty == Range(<<>>) = {}
  BY DEF Range

-----------------------------------------------------------------------------
(* What the server answers *)

\* The first element of an answer to 1..n, if it is one.
Hit(f, n) == IF n \in Matches[f] THEN <<n>> ELSE <<>>

\* The function Answer defines by recursion.
Solves(f, k, g) ==
  g = [n \in 0..k |-> IF n = 0 THEN <<>> ELSE Hit(f, n) \o g[n - 1]]

\* There is one, for every number of traces: there is no least number without one.
LEMMA SolutionExists ==
  ASSUME NEW f, NEW count \in Nat
  PROVE  \E g : Solves(f, count, g)
<1> DEFINE Bad == {k \in Nat : ~\E g : Solves(f, k, g)}
<1>1. SUFFICES ASSUME Bad # {} PROVE FALSE
  OBVIOUS
<1>2. PICK k \in Bad : \A m \in Bad : k <= m
  BY <1>1, LeastNat
<1>3. k \in Nat /\ ~\E g : Solves(f, k, g)
  BY <1>2
<1>4. CASE k = 0
  <2> DEFINE g == [n \in 0..0 |-> <<>>]
  <2>1. Solves(f, 0, g)
    BY DEF Solves
  <2>2. QED
    BY <1>3, <1>4, <2>1
<1>5. CASE k # 0
  <2>1. k - 1 \in Nat /\ k - 1 \notin Bad
    BY <1>2, <1>3, <1>5
  <2>2. PICK g : Solves(f, k - 1, g)
    BY <2>1
  <2> DEFINE h == [n \in 0..k |-> IF n = k THEN Hit(f, k) \o g[k - 1] ELSE g[n]]
  <2>3. \A n \in 0..k - 1 : g[n] = IF n = 0 THEN <<>> ELSE Hit(f, n) \o g[n - 1]
    BY <2>2 DEF Solves
  <2>4. ASSUME NEW n \in 0..k
        PROVE  h[n] = IF n = 0 THEN <<>> ELSE Hit(f, n) \o h[n - 1]
    <3>1. CASE n = k
      <4>1. k - 1 \in 0..k /\ k - 1 # k
        BY <1>3, <2>1
      <4>2. h[k - 1] = g[k - 1] /\ h[k] = Hit(f, k) \o g[k - 1]
        BY <1>3, <4>1
      <4>3. QED
        BY <1>5, <3>1, <4>2
    <3>2. CASE n # k
      <4>1. n \in 0..k - 1 /\ h[n] = g[n]
        BY <1>3, <3>2
      <4>2. CASE n = 0
        BY <2>3, <4>1, <4>2
      <4>3. CASE n # 0
        <5>1. n - 1 \in 0..k /\ n - 1 # k
          BY <1>3, <4>1, <4>3
        <5>2. h[n - 1] = g[n - 1]
          BY <5>1
        <5>3. g[n] = Hit(f, n) \o g[n - 1]
          BY <2>3, <4>1, <4>3
        <5>4. QED
          BY <4>1, <4>3, <5>2, <5>3
      <4>4. QED
        BY <4>2, <4>3
    <3>3. QED
      BY <3>1, <3>2
  <2>5. h = [n \in 0..k |-> h[n]]
    OBVIOUS
  <2> HIDE DEF h
  <2>6. Solves(f, k, h)
    BY <2>4, <2>5 DEF Solves
  <2>7. QED
    BY <1>3, <2>6
<1>6. QED
  BY <1>4, <1>5

\* The first n traces that match, newest first.
NewestMatches(f, n, s) ==
  /\ s \in Seq(1..n)
  /\ Range(s) = {m \in 1..n : m \in Matches[f]}
  /\ \A i, j \in 1..Len(s) : i < j => s[i] > s[j]

\* One trace more.
LEMMA OneMoreTrace ==
  ASSUME NEW f, NEW n \in Nat \ {0}, NEW s, NewestMatches(f, n - 1, s)
  PROVE  NewestMatches(f, n, Hit(f, n) \o s)
<1>1. s \in Seq(1..n - 1) /\ Len(s) \in Nat
  BY LenProperties DEF NewestMatches
<1>2. 1..n = 1..(n - 1) \union {n} /\ n \notin 1..(n - 1)
  OBVIOUS
<1>3. s \in Seq(1..n)
  <2>1. \A i \in 1..Len(s) : s[i] \in 1..n - 1
    BY <1>1, ElementOfSeq
  <2>2. s \in [1..Len(s) -> 1..n]
    BY <1>1, <1>2, <2>1, LenProperties
  <2>3. QED
    BY <1>1, <2>2, SeqDef
<1>4. Range(s) = {m \in 1..n - 1 : m \in Matches[f]}
  BY DEF NewestMatches
<1>5. CASE n \in Matches[f]
  <2>1. Hit(f, n) = <<n>>
    BY <1>5 DEF Hit
  <2>2. /\ <<n>> \in Seq(1..n) /\ Len(<<n>>) = 1 /\ <<n>>[1] = n /\ Range(<<n>>) = {n}
    BY <1>2, RangeOfOne
  <2>3. /\ <<n>> \o s \in Seq(1..n) /\ Range(<<n>> \o s) = {n} \union Range(s)
    <3> DEFINE T == 1..n
               one == <<n>>
    <3>1. s \in Seq(T) /\ one \in Seq(T) /\ Range(one) = {n}
      BY <1>3, <2>2
    <3> HIDE DEF T, one
    <3>2. one \o s \in Seq(T) /\ Range(one \o s) = {n} \union Range(s)
      BY <3>1, ConcatProperties, RangeConcatenation
    <3>3. QED
      BY <3>2 DEF T, one
  <2>4. /\ Len(<<n>> \o s) = 1 + Len(s)
        /\ \A i \in 1..1 + Len(s) :
             (<<n>> \o s)[i] = IF i <= 1 THEN <<n>>[i] ELSE s[i - 1]
    BY <1>3, <2>2, ConcatProperties
  <2>5. {n} \union Range(s) = {m \in 1..n : m \in Matches[f]}
    BY <1>2, <1>4, <1>5
  <2>6. ASSUME NEW i \in 1..Len(<<n>> \o s), NEW j \in 1..Len(<<n>> \o s), i < j
        PROVE  (<<n>> \o s)[i] > (<<n>> \o s)[j]
    <3>1. j - 1 \in 1..Len(s) /\ (<<n>> \o s)[j] = s[j - 1] /\ i \in 1..1 + Len(s)
      BY <1>1, <2>4, <2>6
    <3>2. s[j - 1] \in 1..n - 1
      BY <1>1, <3>1, ElementOfSeq
    <3>3. CASE i = 1
      BY <1>1, <2>2, <2>4, <3>1, <3>2, <3>3
    <3>4. CASE i # 1
      <4>1. i - 1 \in 1..Len(s) /\ i - 1 < j - 1 /\ (<<n>> \o s)[i] = s[i - 1]
        BY <1>1, <2>4, <2>6, <3>1, <3>4
      <4>2. s[i - 1] > s[j - 1]
        BY <3>1, <4>1 DEF NewestMatches
      <4>3. QED
        BY <3>1, <4>1, <4>2
    <3>5. QED
      BY <3>3, <3>4
  <2>7. QED
    BY <2>1, <2>3, <2>5, <2>6 DEF NewestMatches
<1>6. CASE n \notin Matches[f]
  <2>1. Hit(f, n) \o s = s
    BY <1>3, <1>6, ConcatEmptySeq DEF Hit
  <2>2. {m \in 1..n - 1 : m \in Matches[f]} = {m \in 1..n : m \in Matches[f]}
    BY <1>2, <1>6
  <2>3. QED
    BY <1>3, <1>4, <2>1, <2>2 DEF NewestMatches
<1>7. QED
  BY <1>5, <1>6

\* The server answers with all traces that match and no others, newest first and
\* each once, for any number of traces and any filter.
THEOREM NewestAnswer ==
  ASSUME NEW f, NEW count \in Nat
  PROVE  NewestMatches(f, count, Answer(f, count))
<1> DEFINE g == CHOOSE newest : Solves(f, count, newest)
           Bad == {n \in 0..count : ~NewestMatches(f, n, g[n])}
<1>1. Answer(f, count) = g[count]
  BY DEF Answer, Solves, Hit
<1>2. Solves(f, count, g)
  BY SolutionExists
<1>3. \A n \in 0..count : g[n] = IF n = 0 THEN <<>> ELSE Hit(f, n) \o g[n - 1]
  BY <1>2 DEF Solves
<1> HIDE DEF g
<1>4. SUFFICES ASSUME Bad # {} PROVE FALSE
  BY <1>1
<1>5. PICK n \in Bad : \A m \in Bad : n <= m
  <2>1. Bad \in SUBSET Nat
    OBVIOUS
  <2>2. QED
    BY <1>4, <2>1, LeastNat, Zenon
<1>6. n \in 0..count /\ ~NewestMatches(f, n, g[n])
  BY <1>5
<1>7. CASE n = 0
  <2>1. g[0] = <<>> /\ <<>> \in Seq(1..0) /\ Len(<<>>) = 0 /\ 1..0 = {}
    BY <1>3, <1>6, <1>7, EmptySeq
  <2>2. NewestMatches(f, 0, g[0])
    BY <2>1, RangeOfEmpty DEF NewestMatches
  <2>3. QED
    BY <1>6, <1>7, <2>2
<1>8. CASE n # 0
  <2>1. n \in Nat \ {0} /\ n - 1 \in 0..count /\ n - 1 \notin Bad
    BY <1>5, <1>6, <1>8
  <2>2. NewestMatches(f, n - 1, g[n - 1])
    BY <2>1
  <2>3. g[n] = Hit(f, n) \o g[n - 1]
    BY <1>3, <1>6, <1>8
  <2>4. QED
    BY <1>6, <2>1, <2>2, <2>3, OneMoreTrace
<1>9. QED
  BY <1>7, <1>8

-----------------------------------------------------------------------------
(* Pages *)

\* The smaller and the larger of two numbers.
LEMMA MinOfTwo ==
  ASSUME NEW a \in Int, NEW b \in Int
  PROVE  Min({a, b}) = IF a <= b THEN a ELSE b
<1>1. \E x \in {a, b} : \A y \in {a, b} : x =< y
  OBVIOUS
<1>2. Min({a, b}) \in {a, b} /\ \A y \in {a, b} : Min({a, b}) =< y
  BY <1>1 DEF Min
<1>3. QED
  BY <1>2

LEMMA MaxOfTwo ==
  ASSUME NEW a \in Int, NEW b \in Int
  PROVE  Max({a, b}) = IF a <= b THEN b ELSE a
<1>1. \E x \in {a, b} : \A y \in {a, b} : x >= y
  OBVIOUS
<1>2. Max({a, b}) \in {a, b} /\ \A y \in {a, b} : Max({a, b}) >= y
  BY <1>1 DEF Max
<1>3. QED
  BY <1>2

\* A prefix, element by element.
LEMMA PrefixByElements ==
  ASSUME NEW T, NEW s \in Seq(T), NEW t \in Seq(T)
  PROVE  IsPrefix(t, s) <=> Len(t) <= Len(s) /\ \A i \in 1..Len(t) : t[i] = s[i]
<1>1. Len(t) \in Nat /\ Len(s) \in Nat /\ SubSeq(t, 1, Len(t)) = t
  BY LenProperties, SubSeqFull
<1>2. ASSUME Len(t) <= Len(s)
      PROVE  /\ SubSeq(s, 1, Len(t)) \in Seq(T) /\ Len(SubSeq(s, 1, Len(t))) = Len(t)
             /\ \A i \in 1..Len(t) : SubSeq(s, 1, Len(t))[i] = s[i]
  <2>1. \A i \in 1..Len(t) : s[i] \in T
    BY <1>1, <1>2, ElementOfSeq
  <2>2. /\ SubSeq(s, 1, Len(t)) \in Seq(T)
        /\ Len(SubSeq(s, 1, Len(t))) = IF 1 <= Len(t) THEN Len(t) - 1 + 1 ELSE 0
        /\ \A i \in 1..Len(t) - 1 + 1 : SubSeq(s, 1, Len(t))[i] = s[1 + i - 1]
    BY <1>1, <2>1, SubSeqProperties
  <2>3. QED
    BY <1>1, <2>2
<1>3. ASSUME Len(t) <= Len(s), \A i \in 1..Len(t) : t[i] = s[i]
      PROVE  t = SubSeq(s, 1, Len(t))
  BY <1>2, <1>3, SeqEqual
<1>4. QED
  BY <1>1, <1>2, <1>3 DEF IsPrefix

\* What Cut takes out of an answer.
LEMMA CutElements ==
  ASSUME NEW T, NEW s \in Seq(T), NEW limit \in Nat, NEW from \in Nat
  PROVE  /\ Cut(s, limit, from) \in Seq(T)
         /\ Len(Cut(s, limit, from)) =
              IF Len(s) <= from THEN 0
              ELSE IF Len(s) - from <= limit THEN Len(s) - from ELSE limit
         /\ \A i \in 1..Len(Cut(s, limit, from)) :
              from + i \in 1..Len(s) /\ Cut(s, limit, from)[i] = s[from + i]
<1> DEFINE n == IF from + limit < Len(s) THEN from + limit ELSE Len(s)
           upto == Limited(s, from + limit)
<1>1. Len(s) \in Nat /\ n \in 0..Len(s) /\ n - 1 + 1 = n
  BY LenProperties
<1>2. \A i \in 1..Len(s) : s[i] \in T
  BY ElementOfSeq
<1>3. upto = SubSeq(s, 1, n)
  BY DEF Limited
<1> HIDE DEF upto, n
<1>4. upto \in Seq(T) /\ Len(upto) = n /\ \A i \in 1..n : upto[i] = s[i]
  <2>1. \A i \in 1..n : s[i] \in T
    BY <1>1, <1>2
  <2>2. /\ upto \in Seq(T) /\ Len(upto) = IF 1 <= n THEN n - 1 + 1 ELSE 0
        /\ \A i \in 1..n - 1 + 1 : upto[i] = s[1 + i - 1]
    BY <1>1, <1>3, <2>1, SubSeqProperties
  <2>3. QED
    BY <1>1, <2>2
<1>5. Cut(s, limit, from) = SubSeq(upto, from + 1, n)
  BY <1>4 DEF Cut, upto
<1>6. /\ Cut(s, limit, from) \in Seq(T)
      /\ Len(Cut(s, limit, from)) = IF from + 1 <= n THEN n - (from + 1) + 1 ELSE 0
      /\ \A i \in 1..n - (from + 1) + 1 : Cut(s, limit, from)[i] = upto[from + 1 + i - 1]
  <2>1. \A i \in from + 1..n : upto[i] \in T
    BY <1>1, <1>2, <1>4
  <2>2. from + 1 \in Int /\ n \in Int
    BY <1>1
  <2>3. QED
    BY <1>5, <2>1, <2>2, SubSeqProperties
<1>7. Len(Cut(s, limit, from)) = IF from < n THEN n - from ELSE 0
  BY <1>1, <1>6
<1>8. ASSUME NEW i \in 1..Len(Cut(s, limit, from))
      PROVE  from + i \in 1..Len(s) /\ Cut(s, limit, from)[i] = s[from + i]
  <2>1. i \in 1..n - (from + 1) + 1 /\ from + i \in 1..n
    BY <1>1, <1>7
  <2>2. Cut(s, limit, from)[i] = upto[from + i]
    BY <1>1, <1>6, <2>1
  <2>3. QED
    BY <1>1, <1>4, <2>1, <2>2
<1>9. QED
  BY <1>1, <1>6, <1>7, <1>8 DEF n

\* A page behind what is shown makes it longer; a short page makes it complete.
LEMMA PageFits ==
  ASSUME NEW T, NEW s \in Seq(T), NEW shown \in Seq(T), NEW limit \in Nat,
         IsPrefix(shown, s)
  PROVE  LET page == Cut(s, limit, Len(shown))
         IN  /\ shown \o page \in Seq(T) /\ Len(shown \o page) = Len(shown) + Len(page)
             /\ IsPrefix(shown \o page, s)
             /\ Len(page) < limit => shown \o page = s
             /\ Len(page) <= limit
<1> DEFINE page == Cut(s, limit, Len(shown))
           all == shown \o page
<1>1. /\ Len(shown) \in Nat /\ Len(s) \in Nat /\ Len(shown) <= Len(s)
      /\ \A i \in 1..Len(shown) : shown[i] = s[i]
  BY LenProperties, PrefixByElements
<1>2. /\ page \in Seq(T)
      /\ Len(page) = IF Len(s) <= Len(shown) THEN 0
                     ELSE IF Len(s) - Len(shown) <= limit THEN Len(s) - Len(shown) ELSE limit
      /\ \A i \in 1..Len(page) : page[i] = s[Len(shown) + i]
  BY <1>1, CutElements
<1> HIDE DEF page
<1>3. /\ all \in Seq(T) /\ Len(all) = Len(shown) + Len(page)
      /\ \A i \in 1..Len(shown) + Len(page) :
           all[i] = IF i <= Len(shown) THEN shown[i] ELSE page[i - Len(shown)]
  BY <1>2, ConcatProperties
<1>4. Len(all) <= Len(s) /\ Len(page) <= limit /\ (Len(page) < limit => Len(all) = Len(s))
  BY <1>1, <1>2, <1>3
<1>5. ASSUME NEW i \in 1..Len(all) PROVE all[i] = s[i]
  <2>1. CASE i <= Len(shown)
    BY <1>1, <1>2, <1>3, <1>5, <2>1
  <2>2. CASE ~(i <= Len(shown))
    <3>1. i - Len(shown) \in 1..Len(page) /\ Len(shown) + (i - Len(shown)) = i
      BY <1>1, <1>2, <1>3, <2>2
    <3>2. QED
      BY <1>2, <1>3, <2>2, <3>1
  <2>3. QED
    BY <2>1, <2>2
<1>6. IsPrefix(all, s)
  <2> HIDE DEF all
  <2> QED
    BY <1>3, <1>4, <1>5, PrefixByElements
<1>7. Len(page) < limit => all = s
  <2> HIDE DEF all
  <2> QED
    BY <1>3, <1>4, <1>5, SeqEqual
<1>8. QED
  BY <1>3, <1>4, <1>6, <1>7 DEF page

-----------------------------------------------------------------------------
(* Elements by rank *)

\* R puts the elements of S one after another.
Orders(R, S) ==
  /\ \A a \in S : <<a, a>> \notin R
  /\ \A a, b \in S : a # b => <<a, b>> \in R \/ <<b, a>> \in R
  /\ \A a, b, c \in S : <<a, b>> \in R /\ <<b, c>> \in R => <<a, c>> \in R

Below(R, S, a) == {b \in S : <<b, a>> \in R}

\* The elements of a finite set that is ordered have the ranks 0, 1, 2 ... in order.
LEMMA RanksInOrder ==
  ASSUME NEW S, IsFiniteSet(S), NEW R, Orders(R, S)
  PROVE  /\ \A a \in S : Cardinality(Below(R, S, a)) \in 0..Cardinality(S) - 1
         /\ \A a, b \in S :
              <<a, b>> \in R <=> Cardinality(Below(R, S, a)) < Cardinality(Below(R, S, b))
         /\ \A a, b \in S : Cardinality(Below(R, S, a)) = Cardinality(Below(R, S, b)) => a = b
         /\ \A k \in 0..Cardinality(S) - 1 : \E a \in S : Cardinality(Below(R, S, a)) = k
<1> DEFINE B(a) == Below(R, S, a)
           rank == [a \in S |-> Cardinality(B(a))]
           n == Cardinality(S)
<1>1. n \in Nat
  BY FS_CardinalityType
<1>2. \A a \in S : IsFiniteSet(B(a)) /\ Cardinality(B(a)) \in Nat
  <2>1. \A a \in S : B(a) \in SUBSET S
    BY DEF Below
  <2> HIDE DEF B
  <2>2. QED
    BY <2>1, FS_Subset, FS_CardinalityType
<1>3. \A a \in S : Cardinality(B(a)) \in 0..n - 1
  <2> TAKE a \in S
  <2>1. B(a) \in SUBSET (S \ {a})
    BY DEF Below, Orders
  <2> HIDE DEF B
  <2>2. IsFiniteSet(S \ {a}) /\ Cardinality(S \ {a}) = n - 1
    BY FS_RemoveElement
  <2>3. Cardinality(B(a)) <= n - 1
    BY <2>1, <2>2, FS_Subset
  <2>4. QED
    BY <1>1, <1>2, <2>3
<1>4. \A a, b \in S : <<a, b>> \in R => Cardinality(B(a)) < Cardinality(B(b))
  <2> SUFFICES ASSUME NEW a \in S, NEW b \in S, <<a, b>> \in R
               PROVE  Cardinality(B(a)) < Cardinality(B(b))
    OBVIOUS
  <2>1. B(a) \in SUBSET (B(b) \ {a}) /\ a \in B(b)
    BY DEF Below, Orders
  <2> HIDE DEF B
  <2>2. IsFiniteSet(B(b) \ {a}) /\ Cardinality(B(b) \ {a}) = Cardinality(B(b)) - 1
    BY <1>2, <2>1, FS_RemoveElement
  <2>3. Cardinality(B(a)) <= Cardinality(B(b)) - 1
    BY <2>1, <2>2, FS_Subset
  <2>4. QED
    BY <1>2, <2>3
<1> HIDE DEF B
<1>5. \A a, b \in S : Cardinality(B(a)) = Cardinality(B(b)) => a = b
  <2> SUFFICES ASSUME NEW a \in S, NEW b \in S, Cardinality(B(a)) = Cardinality(B(b)), a # b
               PROVE  FALSE
    OBVIOUS
  <2>1. <<a, b>> \in R \/ <<b, a>> \in R
    BY DEF Orders
  <2>2. Cardinality(B(a)) < Cardinality(B(b)) \/ Cardinality(B(b)) < Cardinality(B(a))
    BY <1>4, <2>1
  <2>3. QED
    BY <1>2, <2>2
<1>6. \A a, b \in S : Cardinality(B(a)) < Cardinality(B(b)) => <<a, b>> \in R
  <2> SUFFICES ASSUME NEW a \in S, NEW b \in S, Cardinality(B(a)) < Cardinality(B(b))
               PROVE  <<a, b>> \in R
    OBVIOUS
  <2>1. a # b /\ ~(Cardinality(B(b)) < Cardinality(B(a)))
    BY <1>2
  <2>2. <<b, a>> \notin R
    BY <1>4, <2>1
  <2>3. QED
    BY <2>1, <2>2 DEF Orders
<1>7. \A k \in 0..n - 1 : \E a \in S : Cardinality(B(a)) = k
  <2>1. rank \in [S -> 0..n - 1] /\ \A a \in S : rank[a] = Cardinality(B(a))
    BY <1>3
  <2> HIDE DEF rank
  <2>2. rank \in Injection(S, 0..n - 1)
    BY <1>5, <2>1 DEF Injection, IsInjective
  <2>3. IsFiniteSet(0..n - 1) /\ Cardinality(0..n - 1) = n
    <3>1. 0 \in Int /\ n - 1 \in Int
      BY <1>1
    <3>2. /\ IsFiniteSet(0..n - 1)
          /\ Cardinality(0..n - 1) = IF 0 > n - 1 THEN 0 ELSE n - 1 - 0 + 1
      BY <3>1, FS_Interval
    <3>3. QED
      BY <1>1, <3>2
  <2>4. rank \in Surjection(S, 0..n - 1)
    BY <2>2, <2>3, FS_Injection
  <2>5. QED
    BY <2>1, <2>4 DEF Surjection
<1>8. QED
  BY <1>3, <1>4, <1>5, <1>6, <1>7 DEF B

-----------------------------------------------------------------------------
(* The page *)

Trace == 1..MaxTraces

Flight ==
  [more : BOOLEAN, filter : Filter, offset : Nat, refresh : BOOLEAN,
   since : 0..MaxTraces, alone : BOOLEAN]

\* The types, and that no request was sent in the future.
TypeOK ==
  /\ filter \in Filter /\ traces \in Seq(Trace) /\ offset \in Nat
  /\ hasMore \in BOOLEAN /\ error \in BOOLEAN
  /\ loading \in BOOLEAN /\ refreshing \in BOOLEAN /\ loadingMore \in BOOLEAN
  /\ observing \in BOOLEAN
  /\ sort \in [field : SortField, order : {"asc", "desc"}]
  /\ flights \in Seq(Flight)
  /\ \A i \in 1..Len(flights) : flights[i].since <= stored
  /\ exact \in BOOLEAN
  /\ stored \in 0..MaxTraces /\ inbox \in Seq(Trace) /\ pushes \in Nat
  /\ calm \in BOOLEAN

\* A fetch that nothing has crossed is the only request, and is for the list as it
\* is asked for now.
FetchesFirst ==
  \A i \in 1..Len(flights) :
    flights[i].alone /\ ~flights[i].more =>
      /\ Len(flights) = 1 /\ flights[i].filter = filter /\ flights[i].since = stored
      /\ offset = 0

\* As long as the list is exact, it ends where the next page begins, and the only
\* request is for that page.
FetchesNext ==
  exact =>
    /\ hasMore => Len(traces) = offset + PAGE_SIZE
    /\ flights # <<>> =>
         /\ Len(flights) = 1 /\ hasMore
         /\ flights[1].more /\ flights[1].filter = filter
         /\ flights[1].offset = offset + PAGE_SIZE /\ flights[1].since = stored

IInv == TypeOK /\ FlagsSound /\ FetchesFirst /\ FetchesNext /\ PagesExact

\* The requests, one by one.
LEMMA FlightsIndexed ==
  ASSUME TypeOK
  PROVE  /\ Len(flights) \in Nat /\ DOMAIN flights = 1..Len(flights)
         /\ flights = <<>> <=> Len(flights) = 0
         /\ \A i \in 1..Len(flights) : flights[i] \in Flight
  BY LenProperties, ElementOfSeq, EmptySeq DEF TypeOK

\* A crossed request is the same but for not being alone.
LEMMA CrossedFlights ==
  ASSUME TypeOK
  PROVE  /\ Crossed(flights) \in Seq(Flight) /\ Len(Crossed(flights)) = Len(flights)
         /\ \A i \in 1..Len(flights) :
              /\ Crossed(flights)[i].more = flights[i].more
              /\ Crossed(flights)[i].since = flights[i].since
              /\ Crossed(flights)[i].offset = flights[i].offset
              /\ ~Crossed(flights)[i].alone
<1> DEFINE n == Len(flights)
           L(i) == [flights[i] EXCEPT !.alone = FALSE]
<1>1. n \in Nat /\ \A i \in 1..n : flights[i] \in Flight
  BY FlightsIndexed
<1>2. \A f \in Flight :
        /\ [f EXCEPT !.alone = FALSE] \in Flight
        /\ [f EXCEPT !.alone = FALSE].more = f.more
        /\ [f EXCEPT !.alone = FALSE].since = f.since
        /\ [f EXCEPT !.alone = FALSE].offset = f.offset
        /\ [f EXCEPT !.alone = FALSE].alone = FALSE
  BY DEF Flight
<1>3. \A i \in 1..n : L(i) \in Flight
  BY <1>1, <1>2
<1>4. Crossed(flights) = [i \in 1..n |-> L(i)]
  BY FlightsIndexed DEF Crossed
<1>5. Crossed(flights) \in Seq(Flight) /\ Len(Crossed(flights)) = n
  <2> HIDE DEF n
  <2>1. Crossed(flights) \in [1..n -> Flight]
    BY <1>3, <1>4
  <2>2. Crossed(flights) \in Seq(Flight)
    BY <1>1, <2>1, SeqDef
  <2>3. QED
    BY <1>1, <2>1, <2>2, LenProperties
<1>6. \A i \in 1..n : Crossed(flights)[i] = L(i)
  BY <1>4
<1>7. QED
  BY <1>1, <1>2, <1>5, <1>6

\* A new request is the last one, and has crossed the others.
LEMMA SentFlights ==
  ASSUME TypeOK, NEW more \in BOOLEAN, NEW f \in Filter, NEW from \in Nat, Send(more, f, from)
  PROVE  /\ flights' \in Seq(Flight) /\ Len(flights') = Len(flights) + 1
         /\ \A i \in 1..Len(flights) :
              /\ flights'[i].more = flights[i].more
              /\ flights'[i].since = flights[i].since
              /\ flights'[i].offset = flights[i].offset
              /\ ~flights'[i].alone
         /\ LET r == flights'[Len(flights) + 1]
            IN  /\ r.more = more /\ r.filter = f /\ r.offset = from /\ r.since = stored
                /\ r.alone <=> flights = <<>>
<1> DEFINE r == [more |-> more, filter |-> f, offset |-> from, refresh |-> traces # <<>>,
                 since |-> stored, alone |-> flights = <<>>]
<1>1. r \in Flight /\ r.more = more /\ r.filter = f /\ r.offset = from /\ r.since = stored
      /\ (r.alone <=> flights = <<>>)
  BY DEF TypeOK, Flight
<1>2. flights' = Append(Crossed(flights), r)
  BY DEF Send
<1> HIDE DEF r
<1>3. /\ flights' \in Seq(Flight) /\ Len(flights') = Len(flights) + 1
      /\ \A i \in 1..Len(flights) : flights'[i] = Crossed(flights)[i]
      /\ flights'[Len(flights) + 1] = r
  BY <1>1, <1>2, CrossedFlights, AppendProperties
<1>4. QED
  BY <1>1, <1>3, CrossedFlights

\* A request that has landed leaves the others, in their order.
LEMMA LandedFlights ==
  ASSUME TypeOK, NEW i \in 1..Len(flights), flights' = RemoveAt(flights, i)
  PROVE  /\ flights' \in Seq(Flight) /\ Len(flights') = Len(flights) - 1
         /\ \A j \in 1..Len(flights) - 1 :
              flights'[j] = IF j < i THEN flights[j] ELSE flights[j + 1]
<1> DEFINE n == Len(flights)
           front == SubSeq(flights, 1, i - 1)
           back == SubSeq(flights, i + 1, n)
<1>1. n \in Nat /\ i \in 1..n /\ \A j \in 1..n : flights[j] \in Flight
  BY FlightsIndexed
<1>2. /\ front \in Seq(Flight) /\ Len(front) = i - 1
      /\ \A j \in 1..i - 1 : front[j] = flights[j]
  <2>1. /\ SubSeq(flights, 1, i - 1) \in Seq(Flight)
        /\ Len(SubSeq(flights, 1, i - 1)) = IF 1 <= i - 1 THEN i - 1 - 1 + 1 ELSE 0
        /\ \A j \in 1..i - 1 - 1 + 1 : SubSeq(flights, 1, i - 1)[j] = flights[1 + j - 1]
    BY <1>1, SubSeqProperties
  <2>2. QED
    BY <1>1, <2>1
<1>3. /\ back \in Seq(Flight) /\ Len(back) = n - i
      /\ \A j \in 1..n - i : back[j] = flights[i + j]
  <2>1. /\ SubSeq(flights, i + 1, n) \in Seq(Flight)
        /\ Len(SubSeq(flights, i + 1, n)) = IF i + 1 <= n THEN n - (i + 1) + 1 ELSE 0
        /\ \A j \in 1..n - (i + 1) + 1 : SubSeq(flights, i + 1, n)[j] = flights[i + 1 + j - 1]
    BY <1>1, SubSeqProperties
  <2>2. QED
    BY <1>1, <2>1
<1>4. flights' = front \o back
  BY DEF RemoveAt
<1> HIDE DEF front, back
<1>5. /\ flights' \in Seq(Flight) /\ Len(flights') = n - 1
      /\ \A j \in 1..n - 1 : flights'[j] = IF j <= i - 1 THEN front[j] ELSE back[j - (i - 1)]
  <2>1. /\ front \o back \in Seq(Flight) /\ Len(front \o back) = Len(front) + Len(back)
        /\ \A j \in 1..Len(front) + Len(back) :
             (front \o back)[j] = IF j <= Len(front) THEN front[j] ELSE back[j - Len(front)]
    BY <1>2, <1>3, ConcatProperties
  <2>2. Len(front) + Len(back) = n - 1 /\ Len(front) = i - 1
    BY <1>1, <1>2, <1>3
  <2>3. QED
    BY <1>4, <2>1, <2>2
<1>6. ASSUME NEW j \in 1..n - 1
      PROVE  flights'[j] = IF j < i THEN flights[j] ELSE flights[j + 1]
  <2>1. CASE j < i
    BY <1>1, <1>2, <1>5, <2>1
  <2>2. CASE ~(j < i)
    <3>1. j - (i - 1) \in 1..n - i /\ i + (j - (i - 1)) = j + 1
      BY <1>1, <2>2
    <3>2. QED
      BY <1>1, <1>3, <1>5, <2>2, <3>1
  <2>3. QED
    BY <2>1, <2>2
<1>7. QED
  BY <1>5, <1>6

\* The others are the same requests.
LEMMA OthersStay ==
  ASSUME TypeOK, NEW i \in 1..Len(flights), flights' = RemoveAt(flights, i)
  PROVE  /\ \A k \in 1..Len(flights) - 1 :
              \E j \in 1..Len(flights) : j # i /\ flights'[k] = flights[j]
         /\ \A j \in 1..Len(flights) :
              j # i => \E k \in 1..Len(flights) - 1 : flights'[k] = flights[j]
<1> DEFINE n == Len(flights)
<1>1. /\ n \in Nat
      /\ \A j \in 1..n - 1 : flights'[j] = IF j < i THEN flights[j] ELSE flights[j + 1]
  BY FlightsIndexed, LandedFlights
<1>2. ASSUME NEW k \in 1..n - 1 PROVE \E j \in 1..n : j # i /\ flights'[k] = flights[j]
  <2>1. CASE k < i
    BY <1>1, <2>1
  <2>2. CASE ~(k < i)
    <3>1. k + 1 \in 1..n /\ k + 1 # i
      BY <1>1, <2>2
    <3>2. QED
      BY <1>1, <2>2, <3>1
  <2>3. QED
    BY <2>1, <2>2
<1>3. ASSUME NEW j \in 1..n, j # i PROVE \E k \in 1..n - 1 : flights'[k] = flights[j]
  <2>1. CASE j < i
    <3>1. j \in 1..n - 1
      BY <1>1, <2>1
    <3>2. QED
      BY <1>1, <2>1, <3>1
  <2>2. CASE j > i
    <3>1. j - 1 \in 1..n - 1 /\ ~(j - 1 < i) /\ j - 1 + 1 = j
      BY <1>1, <2>2
    <3>2. QED
      BY <1>1, <3>1
  <2>3. QED
    BY <1>1, <1>3, <2>1, <2>2
<1>4. QED
  BY <1>2, <1>3

\* What a commit may do to the observer and the order.
CommitTypes ==
  observing \in BOOLEAN /\ sort \in [field : SortField, order : {"asc", "desc"}]

LEMMA CommitKeepsTypes ==
  ASSUME TypeOK, Commit \/ CommitFilter
  PROVE  CommitTypes'
<1>1. sort' \in [field : SortField, order : {"asc", "desc"}]
  <2>1. sort' = sort \/ sort' = DefaultSort
    BY DEF Commit, CommitFilter
  <2>2. DefaultSort \in [field : SortField, order : {"asc", "desc"}]
    BY DEF DefaultSort, SortField
  <2>3. QED
    BY <2>1, <2>2 DEF TypeOK
<1>2. observing' \in BOOLEAN
  <2>1. CASE CommitFilter
    BY <2>1 DEF CommitFilter, Trigger
  <2>2. CASE Commit
    <3>1. CASE Trigger /\ Dependencies' = Dependencies
      BY <2>2, <3>1 DEF Commit, Trigger
    <3>2. CASE ~(Trigger /\ Dependencies' = Dependencies)
      BY <2>2, <3>2 DEF Commit, Trigger
    <3>3. QED
      BY <3>1, <3>2
  <2>3. QED
    BY <2>1, <2>2
<1>3. QED
  BY <1>1, <1>2 DEF CommitTypes

\* FlagsSound, request by request.
LEMMA FlagsByRequest ==
  ASSUME TypeOK
  PROVE  FlagsSound <=>
           /\ \A i, j \in 1..Len(flights) : flights[i].more /\ flights[j].more => i = j
           /\ loadingMore <=> \E i \in 1..Len(flights) : flights[i].more
           /\ loading \/ refreshing => \E i \in 1..Len(flights) : ~flights[i].more
<1>1. DOMAIN flights = 1..Len(flights)
  BY FlightsIndexed
<1>2. QED
  BY <1>1 DEF FlagsSound

\* An answer lists traces.
LEMMA AnswerType ==
  ASSUME NEW f \in Filter, NEW count \in 0..MaxTraces
  PROVE  Answer(f, count) \in Seq(Trace)
<1>1. MaxTraces \in Nat
  BY TracesAssumption
<1>2. Answer(f, count) \in Seq(1..count) /\ 1..count \subseteq Trace
  BY <1>1, NewestAnswer DEF NewestMatches, Trace
<1>3. QED
  BY <1>2, SeqMonotonic

-----------------------------------------------------------------------------
(* The steps *)

\* A fetch starts paging anew and crosses the other requests.
LEMMA FetchKeepsInv ==
  ASSUME IInv, NEW f \in Filter, FetchTraces(f), filter' = f, CommitTypes'
  PROVE  IInv'
<1> DEFINE n == Len(flights)
<1>1. TypeOK /\ n \in Nat /\ (flights = <<>> <=> n = 0)
  BY FlightsIndexed DEF IInv
<1>2. /\ loading' = (loading \/ traces = <<>>) /\ refreshing' = (refreshing \/ traces # <<>>)
      /\ offset' = 0 /\ hasMore' = TRUE /\ exact' = FALSE
      /\ UNCHANGED <<traces, error, loadingMore, stored, inbox, pushes, calm>>
      /\ Send(FALSE, f, 0)
  BY DEF FetchTraces, server
<1>3. /\ flights' \in Seq(Flight) /\ Len(flights') = n + 1
      /\ \A i \in 1..n : /\ flights'[i].more = flights[i].more
                         /\ flights'[i].since = flights[i].since
                         /\ ~flights'[i].alone
      /\ flights'[n + 1].more = FALSE /\ flights'[n + 1].filter = f
      /\ flights'[n + 1].since = stored
      /\ flights'[n + 1].alone <=> flights = <<>>
  BY <1>1, <1>2, SentFlights
<1>4. \A i \in 1..n + 1 : i \in 1..n \/ i = n + 1
  BY <1>1
<1>5. TypeOK'
  <2>1. \A i \in 1..n + 1 : flights'[i].since <= stored'
    BY <1>1, <1>2, <1>3, <1>4 DEF TypeOK
  <2>2. QED
    BY <1>1, <1>2, <1>3, <2>1 DEF TypeOK, CommitTypes
<1>6. FlagsSound'
  <2>1. /\ \A i, j \in 1..n : flights[i].more /\ flights[j].more => i = j
        /\ loadingMore <=> \E i \in 1..n : flights[i].more
    BY <1>1, FlagsByRequest DEF IInv
  <2>2. \A i, j \in 1..n + 1 : flights'[i].more /\ flights'[j].more => i = j
    BY <1>3, <1>4, <2>1
  <2>3. loadingMore' <=> \E i \in 1..n + 1 : flights'[i].more
    BY <1>1, <1>2, <1>3, <1>4, <2>1
  <2>4. n + 1 \in 1..n + 1 /\ ~flights'[n + 1].more
    BY <1>1, <1>3
  <2>5. DOMAIN flights' = 1..n + 1
    BY <1>3, LenProperties
  <2>6. QED
    BY <2>2, <2>3, <2>4, <2>5 DEF FlagsSound
<1>7. FetchesFirst'
  BY <1>1, <1>2, <1>3, <1>4 DEF FetchesFirst
<1>8. FetchesNext' /\ PagesExact'
  BY <1>2 DEF FetchesNext, PagesExact
<1>9. QED
  BY <1>5, <1>6, <1>7, <1>8 DEF IInv

\* A landing fetch brings the first page; one that nothing has crossed brings the
\* first page of what the list is asked for now.
LEMMA LandFetchKeepsInv ==
  ASSUME IInv, NEW i \in 1..Len(flights), LandFetch(i)
  PROVE  IInv'
<1> DEFINE n == Len(flights)
           f == flights[i]
<1>1. TypeOK /\ n \in Nat /\ (flights = <<>> <=> n = 0) /\ f \in Flight
  BY FlightsIndexed DEF IInv
<1>2. /\ ~f.more /\ loading' = FALSE /\ refreshing' = FALSE
      /\ flights' = RemoveAt(flights, i)
      /\ UNCHANGED <<filter, offset, loadingMore, stored, inbox, pushes, calm>>
      /\ Commit
      /\ \/ \E count \in f.since..stored :
              /\ traces' = Page(f.filter, 0, count)
              /\ hasMore' = (Len(traces') >= PAGE_SIZE)
              /\ error' = FALSE
              /\ exact' = f.alone
         \/ error' = (error \/ ~f.refresh) /\ UNCHANGED <<traces, hasMore, exact>>
  BY DEF LandFetch, server
<1>3. /\ flights' \in Seq(Flight) /\ Len(flights') = n - 1
      /\ \A j \in 1..n - 1 : flights'[j] = IF j < i THEN flights[j] ELSE flights[j + 1]
      /\ DOMAIN flights' = 1..n - 1
  BY <1>1, <1>2, LandedFlights, LenProperties
<1>4. CommitTypes'
  BY <1>1, <1>2, CommitKeepsTypes
<1>5. \A j \in 1..n - 1 : j \in 1..n /\ j + 1 \in 1..n
  BY <1>1
<1>6. /\ PAGE_SIZE \in Nat \ {0} /\ MaxTraces \in Nat /\ stored \in 0..MaxTraces
      /\ f.filter \in Filter /\ f.since \in Nat /\ f.alone \in BOOLEAN /\ f.refresh \in BOOLEAN
  BY <1>1, TracesAssumption DEF TypeOK, Flight
<1>7. ASSUME NEW count \in f.since..stored, traces' = Page(f.filter, 0, count)
      PROVE  /\ traces' \in Seq(Trace)
             /\ IsPrefix(traces', Answer(f.filter, count))
             /\ Len(traces') < PAGE_SIZE => traces' = Answer(f.filter, count)
             /\ Len(traces') <= PAGE_SIZE
  <2> DEFINE s == Answer(f.filter, count)
             page == Cut(s, PAGE_SIZE, 0)
  <2>1. s \in Seq(Trace) /\ <<>> \in Seq(Trace) /\ Len(<<>>) = 0
    BY <1>6, AnswerType, EmptySeq
  <2> HIDE DEF s
  <2>2. IsPrefix(<<>>, s)
    <3>1. Len(s) \in Nat
      BY <2>1, LenProperties
    <3>2. Len(<<>>) <= Len(s) /\ \A j \in 1..Len(<<>>) : <<>>[j] = s[j]
      BY <2>1, <3>1
    <3>3. QED
      BY <2>1, <3>2, PrefixByElements
  <2>3. page \in Seq(Trace) /\ <<>> \o page = page
    BY <1>6, <2>1, CutElements, ConcatEmptySeq
  <2>4. /\ IsPrefix(<<>> \o page, s) /\ (Len(page) < PAGE_SIZE => <<>> \o page = s)
        /\ Len(page) <= PAGE_SIZE
    BY <1>6, <2>1, <2>2, PageFits
  <2>5. traces' = page
    BY <1>7 DEF Page, s
  <2>6. QED
    BY <2>3, <2>4, <2>5 DEF s
<1>8. TypeOK'
  <2>1. \A j \in 1..n - 1 : flights'[j].since <= stored'
    BY <1>1, <1>2, <1>3, <1>5 DEF TypeOK
  <2>2. traces' \in Seq(Trace)
    BY <1>1, <1>2, <1>7 DEF TypeOK
  <2>3. hasMore' \in BOOLEAN
    <3>1. (Len(traces') >= PAGE_SIZE) \in BOOLEAN /\ hasMore \in BOOLEAN
      BY <1>1 DEF TypeOK
    <3>2. QED
      BY <1>2, <3>1, Zenon
  <2>6. error' \in BOOLEAN
    <3>1. (error \/ ~f.refresh) \in BOOLEAN
      BY Zenon
    <3>2. QED
      BY <1>2, <3>1, Zenon
  <2>4. exact' \in BOOLEAN
    BY <1>1, <1>2, <1>6, Zenon DEF TypeOK
  <2>5. QED
    BY <1>1, <1>2, <1>3, <1>4, <2>1, <2>2, <2>3, <2>4, <2>6 DEF TypeOK, CommitTypes
<1>9. FlagsSound'
  <2>1. /\ \A j, k \in 1..n : flights[j].more /\ flights[k].more => j = k
        /\ loadingMore <=> \E j \in 1..n : flights[j].more
    BY <1>1, FlagsByRequest DEF IInv
  <2>2. ASSUME NEW j \in 1..n - 1, NEW k \in 1..n - 1, flights'[j].more, flights'[k].more
        PROVE  j = k
    <3>1. j \in 1..n /\ j + 1 \in 1..n /\ k \in 1..n /\ k + 1 \in 1..n
      BY <1>5
    <3>2. (IF j < i THEN j ELSE j + 1) = (IF k < i THEN k ELSE k + 1)
      BY <1>3, <2>1, <2>2, <3>1
    <3>3. QED
      BY <1>1, <3>2
  <2>3. (\E j \in 1..n - 1 : flights'[j].more) <=> loadingMore
    <3>1. ASSUME NEW j \in 1..n, flights[j].more PROVE \E k \in 1..n - 1 : flights'[k].more
      <4>1. \E k \in 1..n - 1 : flights'[k] = flights[j]
        BY <1>1, <1>2, <3>1, OthersStay
      <4>2. QED
        BY <3>1, <4>1
    <3>2. ASSUME NEW j \in 1..n - 1, flights'[j].more PROVE \E k \in 1..n : flights[k].more
      BY <1>3, <1>5, <3>2
    <3>3. QED
      BY <2>1, <3>1, <3>2
  <2>4. QED
    BY <1>2, <1>3, <2>2, <2>3 DEF FlagsSound
<1>10. f.alone => n = 1 /\ f.filter = filter /\ f.since = stored /\ offset = 0
  BY <1>2 DEF IInv, FetchesFirst
<1>11. FetchesFirst'
  <2>1. ASSUME NEW j \in 1..n - 1, flights'[j].alone, ~flights'[j].more PROVE FALSE
    <3>1. \E k \in 1..n : flights'[j] = flights[k]
      BY <1>3, <1>5
    <3>2. n = 1
      BY <2>1, <3>1 DEF IInv, FetchesFirst
    <3>3. QED
      BY <3>2
  <2>2. QED
    BY <1>3, <2>1 DEF FetchesFirst
<1>12. FetchesNext' /\ PagesExact'
  <2>1. CASE error' = (error \/ ~f.refresh) /\ UNCHANGED <<traces, hasMore, exact>>
    <3>1. ~exact
      <4>1. SUFFICES ASSUME exact PROVE FALSE
        OBVIOUS
      <4>2. n = 1 /\ flights[1].more
        BY <1>1, <4>1 DEF IInv, FetchesNext
      <4>3. QED
        BY <1>2, <4>2
    <3>2. QED
      BY <2>1, <3>1 DEF FetchesNext, PagesExact
  <2>2. ASSUME NEW count \in f.since..stored, traces' = Page(f.filter, 0, count),
               hasMore' = (Len(traces') >= PAGE_SIZE), exact' = f.alone
        PROVE  FetchesNext' /\ PagesExact'
    <3>1. CASE ~f.alone
      BY <2>2, <3>1 DEF FetchesNext, PagesExact
    <3>2. CASE f.alone
      <4>1. count = stored' /\ f.filter = filter' /\ offset' = 0 /\ flights' = <<>>
        <5>0. n = 1
          BY <1>10, <3>2
        <5>1. Len(flights') = 0
          BY <1>3, <5>0
        <5>2. flights' = <<>>
          BY <1>3, <5>1, EmptySeq
        <5>3. QED
          BY <1>2, <1>6, <1>10, <3>2, <5>2
      <4>2. /\ Len(traces') \in Nat /\ Len(traces') <= PAGE_SIZE
            /\ IsPrefix(traces', Answer(filter', stored'))
            /\ Len(traces') < PAGE_SIZE => traces' = Answer(filter', stored')
        BY <1>7, <2>2, <4>1, LenProperties
      <4>0. hasMore' <=> Len(traces') >= PAGE_SIZE
        BY <2>2, Zenon
      <4>3. hasMore' => Len(traces') = offset' + PAGE_SIZE
        BY <1>6, <4>0, <4>1, <4>2
      <4>4. ~hasMore' => traces' = Answer(filter', stored')
        BY <1>6, <4>0, <4>2
      <4>5. QED
        BY <4>1, <4>2, <4>3, <4>4 DEF FetchesNext, PagesExact
    <3>3. QED
      BY <3>1, <3>2
  <2>3. QED
    BY <1>2, <2>1, <2>2
<1>13. QED
  BY <1>8, <1>9, <1>11, <1>12 DEF IInv

\* The observer asks for the page behind the list.
LEMMA LoadMoreKeepsInv ==
  ASSUME IInv, LoadMore
  PROVE  IInv'
<1> DEFINE n == Len(flights)
<1>1. TypeOK /\ n \in Nat /\ (flights = <<>> <=> n = 0)
  BY FlightsIndexed DEF IInv
<1>2. /\ ~loadingMore /\ hasMore /\ loadingMore' = TRUE
      /\ Send(TRUE, filter, offset + PAGE_SIZE)
      /\ exact' = (exact /\ flights = <<>>)
      /\ UNCHANGED <<filter, traces, offset, hasMore, error, loading, refreshing,
                     stored, inbox, pushes, calm>>
      /\ Commit
  BY DEF LoadMore, list, server
<1>3. filter \in Filter /\ offset + PAGE_SIZE \in Nat
  BY <1>1, TracesAssumption DEF TypeOK
<1>4. /\ flights' \in Seq(Flight) /\ Len(flights') = n + 1
      /\ \A i \in 1..n : /\ flights'[i].more = flights[i].more
                         /\ flights'[i].since = flights[i].since
                         /\ ~flights'[i].alone
      /\ flights'[n + 1].more = TRUE /\ flights'[n + 1].filter = filter
      /\ flights'[n + 1].offset = offset + PAGE_SIZE
      /\ flights'[n + 1].since = stored
  BY <1>1, <1>2, <1>3, SentFlights
<1>5. \A i \in 1..n + 1 : i \in 1..n \/ i = n + 1
  BY <1>1
<1>6. CommitTypes'
  BY <1>1, <1>2, CommitKeepsTypes
<1>7. TypeOK'
  <2>1. \A i \in 1..n + 1 : flights'[i].since <= stored'
    <3>1. stored' = stored /\ stored <= stored
      BY <1>1, <1>2, TracesAssumption DEF TypeOK
    <3>2. \A i \in 1..n : flights'[i].since <= stored
      BY <1>1, <1>4 DEF TypeOK
    <3>3. flights'[n + 1].since <= stored
      BY <1>4, <3>1
    <3>4. QED
      BY <1>5, <3>1, <3>2, <3>3
  <2>2. exact' \in BOOLEAN
    BY <1>1, <1>2 DEF TypeOK
  <2>3. QED
    BY <1>1, <1>2, <1>4, <1>6, <2>1, <2>2 DEF TypeOK, CommitTypes
<1>8. FlagsSound'
  <2>1. /\ \A i \in 1..n : ~flights[i].more
        /\ loading \/ refreshing => \E i \in 1..n : ~flights[i].more
    BY <1>1, <1>2, FlagsByRequest DEF IInv
  <2>2. \A i, j \in 1..n + 1 : flights'[i].more /\ flights'[j].more => i = j
    BY <1>4, <1>5, <2>1
  <2>3. n + 1 \in 1..n + 1 /\ \A i \in 1..n : i \in 1..n + 1
    BY <1>1
  <2>4. loading' \/ refreshing' => \E i \in 1..n + 1 : ~flights'[i].more
    BY <1>2, <1>4, <2>1, <2>3
  <2>5. DOMAIN flights' = 1..n + 1
    BY <1>4, LenProperties
  <2>6. QED
    BY <1>2, <1>4, <2>2, <2>3, <2>4, <2>5 DEF FlagsSound
<1>9. FetchesFirst'
  BY <1>4, <1>5 DEF FetchesFirst
<1>10. FetchesNext'
  <2>1. SUFFICES ASSUME exact' PROVE FetchesNext'
    BY DEF FetchesNext
  <2>0. exact /\ flights = <<>>
    BY <1>2, <2>1, Zenon
  <2>2. /\ n = 0 /\ flights'[1].more /\ flights'[1].filter = filter
        /\ flights'[1].offset = offset + PAGE_SIZE /\ flights'[1].since = stored
    BY <1>1, <1>4, <2>0
  <2>3. Len(traces) = offset + PAGE_SIZE
    BY <1>2, <2>0 DEF IInv, FetchesNext
  <2>4. QED
    BY <1>1, <1>2, <1>4, <2>2, <2>3 DEF FetchesNext
<1>11. PagesExact'
  BY <1>2 DEF IInv, PagesExact
<1>12. QED
  BY <1>7, <1>8, <1>9, <1>10, <1>11 DEF IInv

\* A further page fits behind the list, or is behind a list nothing is said of.
LEMMA LandMoreKeepsInv ==
  ASSUME IInv, NEW i \in 1..Len(flights), LandMore(i)
  PROVE  IInv'
<1> DEFINE n == Len(flights)
           f == flights[i]
<1>1. TypeOK /\ n \in Nat /\ f \in Flight
  BY FlightsIndexed DEF IInv
<1>2. /\ f.more /\ loadingMore' = FALSE /\ flights' = RemoveAt(flights, i)
      /\ UNCHANGED <<filter, error, loading, refreshing, exact, stored, inbox, pushes, calm>>
      /\ Commit
      /\ \/ \E count \in f.since..stored :
              /\ traces' = traces \o Page(f.filter, f.offset, count)
              /\ offset' = IF Page(f.filter, f.offset, count) = <<>> THEN offset ELSE f.offset
              /\ hasMore' = (hasMore /\ Len(Page(f.filter, f.offset, count)) >= PAGE_SIZE)
         \/ UNCHANGED <<traces, offset, hasMore>>
  BY DEF LandMore, server
<1>3. /\ flights' \in Seq(Flight) /\ Len(flights') = n - 1 /\ DOMAIN flights' = 1..n - 1
      /\ \A k \in 1..n - 1 : \E j \in 1..n : j # i /\ flights'[k] = flights[j]
      /\ \A j \in 1..n : j # i => \E k \in 1..n - 1 : flights'[k] = flights[j]
  BY <1>1, <1>2, LandedFlights, OthersStay, LenProperties
<1>4. CommitTypes'
  BY <1>1, <1>2, CommitKeepsTypes
<1>5. /\ PAGE_SIZE \in Nat \ {0} /\ MaxTraces \in Nat /\ stored \in 0..MaxTraces
      /\ f.filter \in Filter /\ f.since \in Nat /\ f.offset \in Nat
  BY <1>1, TracesAssumption DEF TypeOK, Flight
<1>6. ASSUME NEW count \in f.since..stored PROVE Page(f.filter, f.offset, count) \in Seq(Trace)
  <2>1. Answer(f.filter, count) \in Seq(Trace)
    BY <1>5, AnswerType
  <2>2. QED
    BY <1>5, <2>1, CutElements DEF Page
<1>7. TypeOK'
  <2>1. \A k \in 1..n - 1 : flights'[k].since <= stored'
    BY <1>1, <1>2, <1>3 DEF TypeOK
  <2>2. traces' \in Seq(Trace) /\ offset' \in Nat
    <3>1. traces \in Seq(Trace) /\ offset \in Nat
      BY <1>1 DEF TypeOK
    <3>2. \A count \in f.since..stored : traces \o Page(f.filter, f.offset, count) \in Seq(Trace)
      BY <1>6, <3>1, ConcatProperties
    <3>3. QED
      BY <1>2, <1>5, <3>1, <3>2
  <2>3. hasMore' \in BOOLEAN
    <3>1. \A count : (hasMore /\ Len(Page(f.filter, f.offset, count)) >= PAGE_SIZE) \in BOOLEAN
      OBVIOUS
    <3>2. hasMore \in BOOLEAN
      BY <1>1 DEF TypeOK
    <3>3. QED
      BY <1>2, <3>1, <3>2, Zenon
  <2>4. QED
    BY <1>1, <1>2, <1>3, <1>4, <2>1, <2>2, <2>3 DEF TypeOK, CommitTypes
<1>8. FlagsSound'
  <2>1. /\ \A j, k \in 1..n : flights[j].more /\ flights[k].more => j = k
        /\ loading \/ refreshing => \E j \in 1..n : ~flights[j].more
    BY <1>1, FlagsByRequest DEF IInv
  <2>2. \A k \in 1..n - 1 : ~flights'[k].more
    BY <1>2, <1>3, <2>1
  <2>3. loading' \/ refreshing' => \E k \in 1..n - 1 : ~flights'[k].more
    BY <1>2, <1>3, <2>1
  <2>4. QED
    BY <1>2, <1>3, <2>2, <2>3 DEF FlagsSound
<1>9. FetchesFirst'
  <2>1. ASSUME NEW k \in 1..n - 1, flights'[k].alone, ~flights'[k].more PROVE FALSE
    <3>1. PICK j \in 1..n : j # i /\ flights'[k] = flights[j]
      BY <1>3
    <3>2. n = 1
      BY <2>1, <3>1 DEF IInv, FetchesFirst
    <3>3. QED
      BY <3>1, <3>2
  <2>2. QED
    BY <1>3, <2>1 DEF FetchesFirst
<1>10. FetchesNext' /\ PagesExact'
  <2>1. SUFFICES ASSUME exact PROVE FetchesNext' /\ PagesExact'
    BY <1>2 DEF FetchesNext, PagesExact
  <2>2. /\ n = 1 /\ i = 1 /\ hasMore /\ Len(traces) = offset + PAGE_SIZE
        /\ f.filter = filter /\ f.offset = Len(traces) /\ f.since = stored
        /\ IsPrefix(traces, Answer(filter, stored))
    BY <1>1, <2>1, FlightsIndexed DEF IInv, FetchesNext, PagesExact
  <2>3. flights' = <<>>
    BY <1>3, <2>2, EmptySeq
  <2>4. CASE UNCHANGED <<traces, offset, hasMore>>
    BY <1>2, <2>2, <2>3, <2>4 DEF FetchesNext, PagesExact
  <2>5. ASSUME NEW count \in f.since..stored,
               traces' = traces \o Page(f.filter, f.offset, count),
               offset' = IF Page(f.filter, f.offset, count) = <<>> THEN offset ELSE f.offset,
               hasMore' = (hasMore /\ Len(Page(f.filter, f.offset, count)) >= PAGE_SIZE)
        PROVE  FetchesNext' /\ PagesExact'
    <3> DEFINE s == Answer(filter, stored)
               page == Cut(s, PAGE_SIZE, Len(traces))
    <3>1. count = stored
      BY <1>5, <2>2
    <3>2. Page(f.filter, f.offset, count) = page
      BY <2>2, <3>1 DEF Page
    <3>3. s \in Seq(Trace) /\ traces \in Seq(Trace)
      BY <1>1, <1>5, AnswerType DEF TypeOK
    <3>0. IsPrefix(traces, s) /\ PAGE_SIZE \in Nat
      BY <1>5, <2>2
    <3> HIDE DEF s
    <3>4. /\ Len(traces \o page) = Len(traces) + Len(page)
          /\ IsPrefix(traces \o page, s) /\ (Len(page) < PAGE_SIZE => traces \o page = s)
          /\ Len(page) <= PAGE_SIZE
      BY <3>0, <3>3, PageFits
    <3>5. page \in Seq(Trace) /\ Len(page) \in Nat /\ (page = <<>> => Len(page) = 0)
      BY <1>5, <3>3, CutElements, LenProperties, EmptySeq
    <3> HIDE DEF page
    <3>6. hasMore' <=> Len(page) >= PAGE_SIZE
      BY <2>2, <2>5, <3>2, Zenon
    <3>7. hasMore' => Len(traces') = offset' + PAGE_SIZE
      BY <1>5, <2>2, <2>5, <3>2, <3>4, <3>5, <3>6
    <3>8. IsPrefix(traces', s) /\ (~hasMore' => traces' = s)
      BY <1>5, <2>5, <3>2, <3>4, <3>5, <3>6
    <3>9. QED
      BY <1>2, <2>3, <3>7, <3>8 DEF FetchesNext, PagesExact, s
  <2>6. QED
    BY <1>2, <2>4, <2>5
<1>11. QED
  BY <1>7, <1>8, <1>9, <1>10 DEF IInv

\* What is stored crosses every request, and what the list was exact about.
LEMMA StoreKeepsInv ==
  ASSUME IInv, NEW m \in 1..Min({stored + 1, MaxTraces}), Store(m)
  PROVE  IInv'
<1> DEFINE n == Len(flights)
<1>1. TypeOK /\ n \in Nat /\ DOMAIN flights = 1..n
      /\ stored \in 0..MaxTraces /\ MaxTraces \in Nat /\ PAGE_SIZE \in Nat
  BY FlightsIndexed, TracesAssumption DEF IInv, TypeOK
<1>2. m \in Trace
  BY <1>1, MinOfTwo DEF Trace
<1>3. stored' = (IF m > stored THEN m ELSE stored)
  BY <1>1, <1>2, MaxOfTwo DEF Store, Trace
<1>4. /\ inbox' \in {inbox, Append(inbox, m)} /\ pushes' = pushes + 1
      /\ UNCHANGED <<filter, traces, offset, hasMore, error, loading, refreshing, loadingMore,
                     observing, sort, calm>>
      /\ IF m > stored THEN exact' = FALSE /\ flights' = Crossed(flights)
                       ELSE UNCHANGED <<exact, flights>>
  BY DEF Store, list, flags
<1>5. inbox' \in Seq(Trace)
  <2>1. inbox \in Seq(Trace)
    BY <1>1 DEF TypeOK
  <2>2. Append(inbox, m) \in Seq(Trace)
    BY <1>2, <2>1, AppendProperties
  <2>3. QED
    BY <1>4, <2>1, <2>2
<1>6. CASE m > stored
  <2>1. /\ flights' \in Seq(Flight) /\ Len(flights') = n /\ DOMAIN flights' = 1..n
        /\ \A i \in 1..n : /\ flights'[i].more = flights[i].more
                           /\ flights'[i].since = flights[i].since
                           /\ ~flights'[i].alone
    BY <1>1, <1>4, <1>6, CrossedFlights, LenProperties
  <2>2. TypeOK'
    <3>1. stored' \in 0..MaxTraces /\ stored <= stored'
      BY <1>1, <1>2, <1>3, <1>6 DEF Trace
    <3>2. \A i \in 1..n : flights[i].since \in Nat /\ flights[i].since <= stored
      BY <1>1, FlightsIndexed DEF TypeOK, Flight
    <3>3. \A i \in 1..n : flights'[i].since <= stored'
      BY <1>1, <2>1, <3>1, <3>2
    <3>4. pushes' \in Nat
      BY <1>1, <1>4 DEF TypeOK
    <3>8. exact' \in BOOLEAN
      BY <1>4, <1>6
    <3>5. flights' \in Seq(Flight) /\ \A i \in 1..Len(flights') : flights'[i].since <= stored'
      BY <2>1, <3>3
    <3>6. UNCHANGED <<filter, traces, offset, hasMore, error, loading, refreshing, loadingMore,
                      observing, sort, calm>>
      BY <1>4
    <3>7. QED
      BY <1>1, <1>5, <3>1, <3>4, <3>5, <3>6, <3>8 DEF TypeOK
  <2>3. FlagsSound'
    BY <1>1, <1>4, <2>1 DEF IInv, FlagsSound
  <2>4. FetchesFirst' /\ FetchesNext' /\ PagesExact'
    BY <1>4, <1>6, <2>1 DEF FetchesFirst, FetchesNext, PagesExact
  <2>5. QED
    BY <2>2, <2>3, <2>4 DEF IInv
<1>7. CASE ~(m > stored)
  <2>1. UNCHANGED <<stored, exact, flights>>
    BY <1>3, <1>4, <1>7
  <2>2. TypeOK'
    BY <1>1, <1>4, <1>5, <2>1 DEF TypeOK
  <2>3. QED
    BY <1>4, <2>1, <2>2 DEF IInv, FlagsSound, FetchesFirst, FetchesNext, PagesExact
<1>8. QED
  BY <1>6, <1>7

\* A pushed trace at the head of the list ends what is known of it.
LEMMA ReceiveKeepsInv ==
  ASSUME IInv, Receive
  PROVE  IInv'
<1>1. TypeOK /\ CAP \in Nat
  BY TracesAssumption DEF IInv
<1>2. /\ inbox # <<>> /\ inbox' = Tail(inbox) /\ exact' = FALSE
      /\ traces' = SubSeq(<<Head(inbox)>> \o traces, 1, Min({CAP, Len(traces) + 1}))
      /\ UNCHANGED <<filter, offset, hasMore, error, loading, refreshing, loadingMore, flights,
                     stored, pushes, calm>>
      /\ Commit
  BY DEF Receive, flags
<1>3. Head(inbox) \in Trace /\ inbox' \in Seq(Trace)
  BY <1>1, <1>2, HeadTailProperties DEF TypeOK
<1>4. traces' \in Seq(Trace)
  <2> DEFINE longer == <<Head(inbox)>> \o traces
  <2>1. /\ longer \in Seq(Trace) /\ Len(longer) = Len(traces) + 1 /\ Len(traces) \in Nat
    <3>1. <<Head(inbox)>> \in Seq(Trace) /\ Len(<<Head(inbox)>>) = 1
      BY <1>3
    <3>2. QED
      BY <1>1, <3>1, ConcatProperties, LenProperties DEF TypeOK
  <2>2. Min({CAP, Len(traces) + 1}) \in 0..Len(traces) + 1
    BY <1>1, <2>1, MinOfTwo
  <2> HIDE DEF longer
  <2>3. \A k \in 1..Len(longer) : longer[k] \in Trace
    BY <2>1, ElementOfSeq
  <2>4. ASSUME NEW kept \in 0..Len(traces) + 1 PROVE SubSeq(longer, 1, kept) \in Seq(Trace)
    <3>1. \A k \in 1..kept : longer[k] \in Trace
      BY <2>1, <2>3, <2>4
    <3>2. QED
      BY <2>4, <3>1, SubSeqProperties
  <2>5. QED
    BY <1>2, <2>2, <2>4 DEF longer
<1>5. CommitTypes'
  BY <1>1, <1>2, CommitKeepsTypes
<1>6. TypeOK'
  BY <1>1, <1>2, <1>3, <1>4, <1>5 DEF TypeOK, CommitTypes
<1>7. QED
  BY <1>2, <1>6 DEF IInv, FlagsSound, FetchesFirst, FetchesNext, PagesExact

\* The page that has just been opened.
LEMMA InitIInv ==
  ASSUME Init
  PROVE  IInv
<1> DEFINE r == [more |-> FALSE, filter |-> filter, offset |-> 0, refresh |-> FALSE,
                 since |-> stored, alone |-> TRUE]
<1>1. r \in Flight /\ ~r.more /\ r.filter = filter /\ r.since = stored
  BY DEF Init, Flight
<1>2. flights = <<r>>
  BY DEF Init
<1> HIDE DEF r
<1>3. flights \in Seq(Flight) /\ Len(flights) = 1 /\ flights[1] = r /\ DOMAIN flights = 1..1
  BY <1>1, <1>2
<1>4. TypeOK
  <2>1. DefaultSort \in [field : SortField, order : {"asc", "desc"}]
    BY DEF DefaultSort, SortField
  <2>2. \A i \in 1..1 : flights[i].since <= stored
    BY <1>1, <1>3, TracesAssumption DEF Init
  <2>3. QED
    BY <1>3, <2>1, <2>2, EmptySeq DEF Init, TypeOK
<1>5. FlagsSound
  <2>1. {i \in DOMAIN flights : flights[i].more} = {}
    BY <1>1, <1>3
  <2>2. DOMAIN flights # {}
    BY <1>3
  <2>3. QED
    BY <2>1, <2>2 DEF Init, FlagsSound
<1>6. FetchesFirst /\ FetchesNext /\ PagesExact
  BY <1>1, <1>3 DEF Init, FetchesFirst, FetchesNext, PagesExact
<1>7. QED
  BY <1>4, <1>5, <1>6 DEF IInv

\* The order and the phase change nothing the rest of the invariant speaks of.
LEMMA ViewKeepsInv ==
  ASSUME IInv, UNCHANGED <<list, flags, observing, flights, exact, stored, inbox, pushes>>,
         sort' \in [field : SortField, order : {"asc", "desc"}], calm' \in BOOLEAN
  PROVE  IInv'
<1>1. UNCHANGED <<filter, traces, offset, hasMore, error, loading, refreshing, loadingMore>>
  BY DEF list, flags
<1>2. TypeOK'
  BY <1>1 DEF IInv, TypeOK
<1>3. QED
  BY <1>1, <1>2 DEF IInv, FlagsSound, FetchesFirst, FetchesNext, PagesExact

\* No step of the page, the server or the user breaks the invariant.
LEMMA NextIInv ==
  ASSUME IInv, [Next]_vars
  PROVE  IInv'
<1>1. TypeOK
  BY DEF IInv
<1>2. ASSUME NEW f \in Filter, ChangeFilter(f) PROVE IInv'
  <2>1. CommitTypes'
    BY <1>1, <1>2, CommitKeepsTypes DEF ChangeFilter
  <2>2. QED
    BY <1>2, <2>1, FetchKeepsInv DEF ChangeFilter
<1>3. CASE Search
  <2>1. CommitTypes'
    BY <1>1, <1>3, CommitKeepsTypes DEF Search
  <2>2. filter \in Filter
    BY <1>1 DEF TypeOK
  <2>3. QED
    BY <1>3, <2>1, <2>2, FetchKeepsInv DEF Search
<1>4. ASSUME NEW field \in SortField, HandleSort(field) PROVE IInv'
  <2>1. /\ sort' \in [field : SortField, order : {"asc", "desc"}] /\ calm' \in BOOLEAN
        /\ UNCHANGED <<list, flags, observing, flights, exact, stored, inbox, pushes>>
    BY <1>1, <1>4 DEF HandleSort, TypeOK, server
  <2>2. QED
    BY <2>1, ViewKeepsInv
<1>5. CASE SelectSort
  <2>1. /\ sort' \in [field : SortField, order : {"asc", "desc"}] /\ calm' \in BOOLEAN
        /\ UNCHANGED <<list, flags, observing, flights, exact, stored, inbox, pushes>>
    BY <1>1, <1>5 DEF SelectSort, TypeOK, server
  <2>2. QED
    BY <2>1, ViewKeepsInv
<1>6. CASE Settle
  BY <1>1, <1>6, ViewKeepsInv DEF Settle, TypeOK
<1>7. CASE UNCHANGED vars
  <2>1. /\ sort' \in [field : SortField, order : {"asc", "desc"}] /\ calm' \in BOOLEAN
        /\ UNCHANGED <<list, flags, observing, flights, exact, stored, inbox, pushes>>
    BY <1>1, <1>7 DEF vars, TypeOK, server
  <2>2. QED
    BY <2>1, ViewKeepsInv
<1>8. QED
  BY <1>2, <1>3, <1>4, <1>5, <1>6, <1>7, LoadMoreKeepsInv, LandFetchKeepsInv, LandMoreKeepsInv,
     StoreKeepsInv, ReceiveKeepsInv DEF Next

\* The invariant holds in every state.
LEMMA AlwaysIInv == Spec => []IInv
<1>1. Init => IInv
  BY InitIInv
<1>2. IInv /\ [Next]_vars => IInv'
  BY NextIInv
<1>3. QED
  BY <1>1, <1>2, PTL DEF Spec

-----------------------------------------------------------------------------
(* The rows *)

PlaceOf(i) == Rank(sort.field, traces[i])

GoesBefore(i, j) ==
  IF sort.order = "asc" THEN PlaceOf(i) < PlaceOf(j) ELSE PlaceOf(i) > PlaceOf(j)

Precedes(i, j) == GoesBefore(i, j) \/ (~GoesBefore(j, i) /\ i < j)

Precedence == {p \in (1..Len(traces)) \X (1..Len(traces)) : Precedes(p[1], p[2])}

\* Traces are compared by numbers.
LEMMA RankIsNumber ==
  ASSUME NEW field \in SortField, NEW a \in Trace
  PROVE  Rank(field, a) \in Int
<1>1. a \in Int /\ DurationOf[a] \in Int /\ StatusOf[a] \in 0..2
  BY TracesAssumption DEF Trace
<1>2. StatusRank(StatusOf[a]) \in Int
  BY <1>1 DEF StatusRank
<1>3. QED
  BY <1>1, <1>2 DEF Rank, SortField

\* So are the rows of the list, position by position.
LEMMA PlacesAreNumbers ==
  ASSUME TypeOK
  PROVE  /\ Len(traces) \in Nat /\ DOMAIN traces = 1..Len(traces)
         /\ \A i \in 1..Len(traces) : traces[i] \in Trace /\ PlaceOf(i) \in Int
<1>1. sort.field \in SortField /\ traces \in Seq(Trace)
  BY DEF TypeOK
<1>2. Len(traces) \in Nat /\ DOMAIN traces = 1..Len(traces)
      /\ \A i \in 1..Len(traces) : traces[i] \in Trace
  BY <1>1, LenProperties, ElementOfSeq
<1>3. QED
  BY <1>1, <1>2, RankIsNumber DEF PlaceOf

\* Of two positions one precedes the other, whatever the field and the order.
LEMMA PrecedenceOrders ==
  ASSUME TypeOK
  PROVE  Orders(Precedence, 1..Len(traces))
<1> DEFINE n == Len(traces)
<1>1. n \in Nat /\ \A i \in 1..n : PlaceOf(i) \in Int
  BY PlacesAreNumbers
<1>2. \A i, j \in 1..n : <<i, j>> \in Precedence <=> Precedes(i, j)
  BY DEF Precedence
<1>3. \A i \in 1..n : ~Precedes(i, i)
  BY <1>1 DEF Precedes, GoesBefore
<1>4. \A i, j \in 1..n : i # j => Precedes(i, j) \/ Precedes(j, i)
  BY <1>1 DEF Precedes, GoesBefore
<1>5. \A i, j, k \in 1..n : Precedes(i, j) /\ Precedes(j, k) => Precedes(i, k)
  BY <1>1 DEF Precedes, GoesBefore
<1> HIDE DEF n
<1>6. QED
  BY <1>2, <1>3, <1>4, <1>5, Zenon DEF Orders, n

\* Sorted shows every position once, each behind those that precede it.
LEMMA SortedPlaces ==
  ASSUME TypeOK
  PROVE  \E order \in [1..Len(traces) -> 1..Len(traces)] :
           /\ Sorted(traces) = [k \in 1..Len(traces) |-> traces[order[k]]]
           /\ \A i \in 1..Len(traces) : \E k \in 1..Len(traces) : order[k] = i
           /\ \A k, l \in 1..Len(traces) : k < l <=> Precedes(order[k], order[l])
<1> DEFINE n == Len(traces)
           Ahead(i) == {j \in 1..n : Precedes(j, i)}
           order == [k \in 1..n |-> CHOOSE i \in 1..n : Cardinality(Ahead(i)) = k - 1]
<1>1. n \in Nat /\ DOMAIN traces = 1..n /\ IsFiniteSet(1..n) /\ Cardinality(1..n) = n
  BY PlacesAreNumbers, UpTo
<1>2. \A i \in 1..n : Ahead(i) = Below(Precedence, 1..n, i)
  BY DEF Below, Precedence
<1>3. Sorted(traces) = [k \in 1..n |-> traces[order[k]]]
  BY <1>1 DEF Sorted, StableOrder, Precedes, GoesBefore, PlaceOf
<1>4. \A i, j \in 1..n : <<i, j>> \in Precedence <=> Precedes(i, j)
  BY DEF Precedence
<1>5. /\ \A i \in 1..n : Cardinality(Ahead(i)) \in 0..n - 1
      /\ \A i, j \in 1..n : Precedes(i, j) <=> Cardinality(Ahead(i)) < Cardinality(Ahead(j))
      /\ \A i, j \in 1..n : Cardinality(Ahead(i)) = Cardinality(Ahead(j)) => i = j
      /\ \A k \in 0..n - 1 : \E i \in 1..n : Cardinality(Ahead(i)) = k
  <2>1. Orders(Precedence, 1..n)
    BY PrecedenceOrders
  <2> DEFINE S == 1..n
             B(i) == Below(Precedence, S, i)
  <2>2. IsFiniteSet(S) /\ Cardinality(S) = n /\ Orders(Precedence, S)
    BY <1>1, <2>1
  <2> HIDE DEF S, B
  <2>3. /\ \A i \in S : Cardinality(B(i)) \in 0..Cardinality(S) - 1
        /\ \A i, j \in S : <<i, j>> \in Precedence <=> Cardinality(B(i)) < Cardinality(B(j))
        /\ \A i, j \in S : Cardinality(B(i)) = Cardinality(B(j)) => i = j
        /\ \A k \in 0..Cardinality(S) - 1 : \E i \in S : Cardinality(B(i)) = k
    BY <2>2, RanksInOrder DEF B
  <2>4. \A i \in S : B(i) = Ahead(i)
    BY <1>2 DEF S, B
  <2>5. \A i, j \in S : <<i, j>> \in Precedence <=> Precedes(i, j)
    BY <1>4 DEF S
  <2> HIDE DEF n, Ahead
  <2>6. /\ \A i \in S : Cardinality(Ahead(i)) \in 0..n - 1
        /\ \A i, j \in S : Precedes(i, j) <=> Cardinality(Ahead(i)) < Cardinality(Ahead(j))
        /\ \A i, j \in S : Cardinality(Ahead(i)) = Cardinality(Ahead(j)) => i = j
        /\ \A k \in 0..n - 1 : \E i \in S : Cardinality(Ahead(i)) = k
    BY <2>2, <2>3, <2>4, <2>5, Zenon
  <2>7. QED
    BY <2>6 DEF S
<1> HIDE DEF Ahead
<1>6. \A k \in 1..n : order[k] \in 1..n /\ Cardinality(Ahead(order[k])) = k - 1
  <2> TAKE k \in 1..n
  <2>1. k - 1 \in 0..n - 1
    BY <1>1
  <2>2. QED
    BY <1>5, <2>1
<1>7. order \in [1..n -> 1..n]
  BY <1>6
<1> HIDE DEF order
<1>8. \A i \in 1..n : \E k \in 1..n : order[k] = i
  <2> TAKE i \in 1..n
  <2>1. PICK k \in 1..n : Cardinality(Ahead(i)) = k - 1
    <3> DEFINE k == Cardinality(Ahead(i)) + 1
    <3>1. k \in 1..n /\ Cardinality(Ahead(i)) = k - 1
      BY <1>1, <1>5
    <3> HIDE DEF k
    <3>2. QED
      BY <3>1
  <2>2. order[k] \in 1..n /\ Cardinality(Ahead(order[k])) = Cardinality(Ahead(i))
    BY <1>6, <2>1
  <2>3. QED
    BY <1>5, <2>2
<1>9. \A k, l \in 1..n : k < l <=> Precedes(order[k], order[l])
  <2> TAKE k, l \in 1..n
  <2>1. order[k] \in 1..n /\ order[l] \in 1..n
    BY <1>6
  <2>2. Precedes(order[k], order[l])
          <=> Cardinality(Ahead(order[k])) < Cardinality(Ahead(order[l]))
    BY <1>5, <2>1
  <2>3. Cardinality(Ahead(order[k])) = k - 1 /\ Cardinality(Ahead(order[l])) = l - 1
    BY <1>6
  <2>4. (k < l) <=> (k - 1 < l - 1)
    BY <1>1
  <2>5. QED
    BY <2>2, <2>3, <2>4
<1>10. QED
  BY <1>3, <1>7, <1>8, <1>9

\* What SortedView compares is the rank.
LEMMA LaterIsRank ==
  ASSUME NEW a \in Trace, NEW b \in Trace
  PROVE  /\ a > b <=> Rank("start_time", a) > Rank("start_time", b)
         /\ DurationOf[a] > DurationOf[b] <=> Rank("duration_ms", a) > Rank("duration_ms", b)
         /\ StatusOf[b] # 2 /\ StatusOf[a] # 1 /\ StatusOf[a] # StatusOf[b]
              <=> Rank("status_code", a) > Rank("status_code", b)
<1>1. StatusOf[a] \in 0..2 /\ StatusOf[b] \in 0..2
  BY TracesAssumption DEF Trace
<1>2. (StatusOf[b] # 2 /\ StatusOf[a] # 1 /\ StatusOf[a] # StatusOf[b])
        <=> StatusRank(StatusOf[a]) > StatusRank(StatusOf[b])
  BY <1>1 DEF StatusRank
<1>3. QED
  BY <1>2 DEF Rank

\* The same traces, row by row, are among those of equal rank as far up as before.
LEMMA SameAmongEquals ==
  ASSUME TypeOK, NEW order \in [1..Len(traces) -> 1..Len(traces)],
         \A i \in 1..Len(traces) : \E k \in 1..Len(traces) : order[k] = i,
         \A k, l \in 1..Len(traces) : k < l <=> Precedes(order[k], order[l]),
         NEW k \in 1..Len(traces), NEW i \in 1..Len(traces), i = order[k]
  PROVE  Cardinality({l \in 1..k - 1 : PlaceOf(order[l]) = PlaceOf(i)})
           = Cardinality({j \in 1..i - 1 : PlaceOf(j) = PlaceOf(i)})
<1> DEFINE n == Len(traces)
           Up == {l \in 1..k - 1 : PlaceOf(order[l]) = PlaceOf(i)}
           Down == {j \in 1..i - 1 : PlaceOf(j) = PlaceOf(i)}
           back == [l \in Up |-> order[l]]
<1>1. n \in Nat /\ i \in 1..n /\ \A j \in 1..n : PlaceOf(j) \in Int
  BY PlacesAreNumbers
<1>2. \A j \in 1..n : PlaceOf(j) = PlaceOf(i) => (Precedes(j, i) <=> j < i)
  <2> TAKE j \in 1..n
  <2> HAVE PlaceOf(j) = PlaceOf(i)
  <2>1. ~GoesBefore(j, i) /\ ~GoesBefore(i, j)
    BY <1>1 DEF GoesBefore
  <2>2. QED
    BY <2>1 DEF Precedes
<1>3. ASSUME NEW l \in Up PROVE l \in 1..n /\ order[l] \in Down
  <2>0. l \in 1..k - 1 /\ PlaceOf(order[l]) = PlaceOf(i)
    OBVIOUS
  <2>1. l \in 1..n /\ l < k /\ order[l] \in 1..n /\ PlaceOf(order[l]) = PlaceOf(i)
    <3>1. l \in 1..n /\ l < k
      BY <1>1, <2>0
    <3>2. QED
      BY <2>0, <3>1
  <2>2. Precedes(order[l], i)
    BY <2>1
  <2>3. order[l] < i
    BY <1>2, <2>1, <2>2
  <2>4. QED
    BY <1>1, <2>1, <2>3
<1>4. ASSUME NEW j \in Down PROVE \E l \in Up : order[l] = j
  <2>0. j \in 1..i - 1 /\ PlaceOf(j) = PlaceOf(i)
    OBVIOUS
  <2>1. j \in 1..n /\ j < i /\ PlaceOf(j) = PlaceOf(i)
    <3>0. i \in 1..n /\ n \in Nat /\ j \in 1..i - 1
      BY <1>1, <2>0
    <3> HIDE DEF n, Up, Down
    <3>1. j \in 1..n /\ j < i
      BY <3>0
    <3>2. QED
      BY <2>0, <3>1
  <2>2. PICK l \in 1..n : order[l] = j
    BY <2>1
  <2>3. Precedes(order[l], i)
    BY <1>2, <2>1, <2>2
  <2>4. l < k
    BY <2>3
  <2>5. l \in Up
    BY <2>1, <2>2, <2>4
  <2>6. QED
    BY <2>2, <2>5
<1>5. \A l, m \in 1..n : order[l] = order[m] => l = m
  <2> SUFFICES ASSUME NEW l \in 1..n, NEW m \in 1..n, order[l] = order[m], l # m
               PROVE  FALSE
    OBVIOUS
  <2>1. Precedes(order[l], order[m]) /\ Precedes(order[m], order[l])
        /\ order[l] \in 1..n
    <3>1. l < m \/ m < l
      BY <1>1
    <3>2. Precedes(order[l], order[m]) \/ Precedes(order[m], order[l])
      BY <3>1
    <3>3. QED
      BY <3>2
  <2>2. l < m /\ m < l
    BY <2>1
  <2>3. QED
    BY <2>2
<1>6. IsFiniteSet(Up)
  <2>1. Up \in SUBSET (1..n)
    BY <1>3
  <2>2. IsFiniteSet(1..n)
    BY <1>1, FS_Interval
  <2> HIDE DEF Up, n
  <2>3. QED
    BY <2>1, <2>2, FS_Subset
<1> HIDE DEF Up, Down
<1>7. back \in Bijection(Up, Down)
  <2>1. back \in [Up -> Down] /\ \A l \in Up : back[l] = order[l]
    BY <1>3
  <2> HIDE DEF back
  <2>2. back \in Injection(Up, Down)
    BY <1>3, <1>5, <2>1 DEF Injection, IsInjective
  <2>3. back \in Surjection(Up, Down)
    BY <1>4, <2>1 DEF Surjection
  <2>4. QED
    BY <2>2, <2>3 DEF Bijection
<1>8. Cardinality(Down) = Cardinality(Up)
  BY <1>6, <1>7, FS_Bijection DEF ExistsBijection
<1>9. QED
  BY <1>8 DEF Up, Down

\* The rows of every list of traces are as SortedView says.
LEMMA RowsSorted ==
  ASSUME TypeOK
  PROVE  SortedView
<1> DEFINE n == Len(traces)
           rows == Sorted(traces)
           Later(a, b) ==
             CASE sort.field = "start_time" -> a > b
               [] sort.field = "duration_ms" -> DurationOf[a] > DurationOf[b]
               [] sort.field = "status_code" ->
                    StatusOf[b] # 2 /\ StatusOf[a] # 1 /\ StatusOf[a] # StatusOf[b]
           Equal(a, b) == ~Later(a, b) /\ ~Later(b, a)
           EqualBefore(s, i) == {j \in 1..i - 1 : Equal(s[j], s[i])}
<1>1. /\ n \in Nat /\ DOMAIN traces = 1..n
      /\ \A i \in 1..n : traces[i] \in Trace /\ PlaceOf(i) \in Int
  BY PlacesAreNumbers
<1>2. PICK order \in [1..n -> 1..n] :
        /\ rows = [k \in 1..n |-> traces[order[k]]]
        /\ \A i \in 1..n : \E k \in 1..n : order[k] = i
        /\ \A k, l \in 1..n : k < l <=> Precedes(order[k], order[l])
  BY SortedPlaces
<1>3. \A i, j \in 1..n : Later(traces[i], traces[j]) <=> PlaceOf(i) > PlaceOf(j)
  <2> TAKE i, j \in 1..n
  <2>1. sort.field \in SortField
    BY DEF TypeOK
  <2>2. traces[i] \in Trace /\ traces[j] \in Trace
    BY <1>1
  <2>3. QED
    BY <2>1, <2>2, LaterIsRank DEF SortField, PlaceOf
<1> HIDE DEF rows, Later
<1>4. \A i, j \in 1..n : Equal(traces[i], traces[j]) <=> PlaceOf(i) = PlaceOf(j)
  BY <1>1, <1>3
<1>5. DOMAIN rows = 1..n /\ Len(rows) = n /\ \A k \in 1..n : rows[k] = traces[order[k]]
  <2>1. DOMAIN rows = 1..n /\ \A k \in 1..n : rows[k] = traces[order[k]]
    BY <1>2
  <2>2. rows \in [1..n -> Trace]
    BY <1>1, <1>2
  <2>3. rows \in Seq(Trace)
    BY <1>1, <2>2, SeqDef
  <2>4. QED
    BY <1>1, <2>1, <2>3, LenProperties
<1>6. ASSUME NEW k \in 1..n, NEW l \in 1..n, k < l
      PROVE  IF sort.order = "asc" THEN ~Later(rows[k], rows[l]) ELSE ~Later(rows[l], rows[k])
  <2>1. Precedes(order[k], order[l]) /\ order[k] \in 1..n /\ order[l] \in 1..n
    BY <1>2, <1>6
  <2>2. ~GoesBefore(order[l], order[k])
    BY <1>1, <2>1 DEF Precedes, GoesBefore
  <2>3. IF sort.order = "asc" THEN ~(PlaceOf(order[k]) > PlaceOf(order[l]))
                              ELSE ~(PlaceOf(order[l]) > PlaceOf(order[k]))
    BY <1>1, <2>1, <2>2 DEF GoesBefore
  <2>4. QED
    BY <1>3, <1>5, <2>1, <2>3
<1>7. ASSUME NEW i \in 1..n
      PROVE  \E k \in 1..n : /\ rows[k] = traces[i]
                             /\ Cardinality(EqualBefore(rows, k))
                                  = Cardinality(EqualBefore(traces, i))
  <2>1. PICK k \in 1..n : order[k] = i
    BY <1>2
  <2>2. EqualBefore(rows, k) = {l \in 1..k - 1 : PlaceOf(order[l]) = PlaceOf(i)}
    <3>1. ASSUME NEW l \in 1..k - 1
          PROVE  Equal(rows[l], rows[k]) <=> PlaceOf(order[l]) = PlaceOf(i)
      <4>1. l \in 1..n /\ order[l] \in 1..n /\ order[k] \in 1..n
        BY <1>1
      <4>2. rows[l] = traces[order[l]] /\ rows[k] = traces[order[k]]
        BY <1>5, <4>1
      <4>3. QED
        BY <1>4, <2>1, <4>1, <4>2
    <3> HIDE DEF Equal
    <3>2. QED
      BY <3>1
  <2>3. EqualBefore(traces, i) = {j \in 1..i - 1 : PlaceOf(j) = PlaceOf(i)}
    <3>1. ASSUME NEW j \in 1..i - 1
          PROVE  Equal(traces[j], traces[i]) <=> PlaceOf(j) = PlaceOf(i)
      <4>1. j \in 1..n
        BY <1>1
      <4>2. QED
        BY <1>4, <4>1
    <3> HIDE DEF Equal
    <3>2. QED
      BY <2>1, <3>1
  <2>4. Cardinality(EqualBefore(rows, k)) = Cardinality(EqualBefore(traces, i))
    <3>1. Cardinality({l \in 1..k - 1 : PlaceOf(order[l]) = PlaceOf(i)})
            = Cardinality({j \in 1..i - 1 : PlaceOf(j) = PlaceOf(i)})
      BY <1>2, <2>1, SameAmongEquals
    <3> HIDE DEF EqualBefore
    <3>2. QED
      BY <2>2, <2>3, <3>1
  <2>5. QED
    BY <1>5, <2>1, <2>4
<1> HIDE DEF EqualBefore
<1>8. /\ Len(rows) = Len(traces)
      /\ \A i, j \in DOMAIN rows :
           i < j => IF sort.order = "asc" THEN ~Later(rows[i], rows[j])
                                          ELSE ~Later(rows[j], rows[i])
      /\ \A i \in DOMAIN traces : \E k \in DOMAIN rows :
           /\ rows[k] = traces[i]
           /\ Cardinality(EqualBefore(rows, k)) = Cardinality(EqualBefore(traces, i))
  BY <1>1, <1>5, <1>6, <1>7
<1>9. QED
  BY <1>8, Zenon DEF SortedView, rows, Later, EqualBefore

-----------------------------------------------------------------------------
(* Offsets *)

\* The list stands at a page that the answer has, and asks for pages only.
OffsetsArePages ==
  /\ offset \in Offsets
  /\ \A i \in 1..Len(flights) : flights[i].more => \E k \in Nat : flights[i].offset = PAGE_SIZE * k

\* No answer is longer than there are traces.
LEMMA AnswerLength ==
  ASSUME NEW f, NEW n \in Nat
  PROVE  Len(Answer(f, n)) \in 0..n
<1> DEFINE s == Answer(f, n)
<1>1. s \in Seq(1..n) /\ \A i, j \in 1..Len(s) : i < j => s[i] > s[j]
  BY NewestAnswer DEF NewestMatches
<1> HIDE DEF s
<1>2. Len(s) \in Nat /\ s \in [1..Len(s) -> 1..n]
  BY <1>1, LenProperties
<1>3. ASSUME NEW i \in 1..Len(s), NEW j \in 1..Len(s), s[i] = s[j] PROVE i = j
  <2>1. s[i] \in 1..n
    BY <1>2
  <2>2. ~(s[i] > s[j]) /\ ~(s[j] > s[i])
    BY <1>3, <2>1
  <2>3. ~(i < j) /\ ~(j < i)
    BY <1>1, <2>2
  <2>4. QED
    BY <1>2, <2>3
<1>4. s \in Injection(1..Len(s), 1..n)
  BY <1>2, <1>3 DEF Injection, IsInjective
<1>5. /\ IsFiniteSet(1..n) /\ Cardinality(1..n) = n
      /\ Cardinality(1..Len(s)) = Len(s)
  BY <1>2, UpTo
<1>6. Len(s) <= n
  BY <1>4, <1>5, FS_Injection
<1>7. QED
  BY <1>2, <1>6 DEF s

\* An offset the answer reaches beyond is one of a page.
LEMMA ReachedOffset ==
  ASSUME NEW k \in Nat, PAGE_SIZE * k < MaxTraces
  PROVE  PAGE_SIZE * k \in Offsets
<1>1. PAGE_SIZE \in Nat /\ PAGE_SIZE >= 1 /\ MaxTraces \in Nat
  BY TracesAssumption
<1>2. PAGE_SIZE * k >= k
  BY <1>1
<1>3. k \in 0..MaxTraces
  BY <1>1, <1>2
<1>4. QED
  BY <1>3 DEF Offsets

LEMMA FirstOffset == 0 \in Offsets
<1>1. PAGE_SIZE * 0 = 0 /\ 0 \in 0..MaxTraces
  BY TracesAssumption
<1>2. QED
  BY <1>1 DEF Offsets

\* A fetch goes back to the first page; the requests on their way stay the same.
LEMMA FetchKeepsOffsets ==
  ASSUME TypeOK, OffsetsArePages, NEW f \in Filter, FetchTraces(f)
  PROVE  OffsetsArePages'
<1> DEFINE n == Len(flights)
<1>1. Send(FALSE, f, 0) /\ offset' = 0 /\ n \in Nat
  BY FlightsIndexed DEF FetchTraces
<1>2. /\ Len(flights') = n + 1
      /\ \A i \in 1..n : flights'[i].more = flights[i].more /\ flights'[i].offset = flights[i].offset
      /\ flights'[n + 1].more = FALSE
  BY <1>1, SentFlights
<1>3. \A i \in 1..n + 1 : i \in 1..n \/ i = n + 1
  BY <1>1
<1>4. QED
  BY <1>1, <1>2, <1>3, FirstOffset DEF OffsetsArePages, Offsets

\* The next page is asked for.
LEMMA LoadMoreKeepsOffsets ==
  ASSUME TypeOK, OffsetsArePages, LoadMore
  PROVE  OffsetsArePages'
<1> DEFINE n == Len(flights)
<1>1. /\ Send(TRUE, filter, offset + PAGE_SIZE) /\ offset' = offset /\ n \in Nat
      /\ filter \in Filter /\ offset + PAGE_SIZE \in Nat /\ PAGE_SIZE \in Nat
  <2>1. PAGE_SIZE \in Nat /\ offset \in Nat /\ filter \in Filter
    BY TracesAssumption DEF TypeOK
  <2>2. n \in Nat
    BY FlightsIndexed
  <2>3. Send(TRUE, filter, offset + PAGE_SIZE) /\ offset' = offset
    <3>1. Send(TRUE, filter, offset + PAGE_SIZE) /\ list' = list
      BY DEF LoadMore
    <3>2. QED
      BY <3>1 DEF list
  <2>4. offset + PAGE_SIZE \in Nat
    BY <2>1
  <2>5. QED
    BY <2>1, <2>2, <2>3, <2>4, Zenon
<1>2. /\ Len(flights') = n + 1
      /\ \A i \in 1..n : flights'[i].more = flights[i].more /\ flights'[i].offset = flights[i].offset
      /\ flights'[n + 1].offset = offset + PAGE_SIZE
  BY <1>1, SentFlights
<1>3. PICK k \in 0..MaxTraces : offset = PAGE_SIZE * k
  BY DEF OffsetsArePages, Offsets
<1>4. k + 1 \in Nat /\ offset + PAGE_SIZE = PAGE_SIZE * (k + 1)
  BY <1>1, <1>3, TracesAssumption
<1>5. \A i \in 1..n + 1 : i \in 1..n \/ i = n + 1
  BY <1>1
<1>6. \A i \in 1..n + 1 : flights'[i].more => \E j \in Nat : flights'[i].offset = PAGE_SIZE * j
  BY <1>2, <1>4, <1>5 DEF OffsetsArePages
<1>7. offset' \in Offsets
  BY <1>1 DEF OffsetsArePages
<1>8. QED
  BY <1>2, <1>6, <1>7 DEF OffsetsArePages, Offsets

\* The list moves on to a page that was not empty.
LEMMA LandMoreKeepsOffsets ==
  ASSUME TypeOK, OffsetsArePages, NEW i \in 1..Len(flights), LandMore(i)
  PROVE  OffsetsArePages'
<1> DEFINE f == flights[i]
<1>1. /\ f \in Flight /\ f.more /\ f.since <= stored /\ stored \in 0..MaxTraces
      /\ flights' = RemoveAt(flights, i) /\ Len(flights) \in Nat
  BY FlightsIndexed DEF LandMore, TypeOK
<1>2. f.offset \in Nat /\ f.since \in Nat /\ PAGE_SIZE \in Nat /\ MaxTraces \in Nat
  BY <1>1, TracesAssumption DEF Flight
<1>3. PICK k \in Nat : f.offset = PAGE_SIZE * k
  BY <1>1 DEF OffsetsArePages
<1>4. \/ offset' = offset
      \/ \E count \in f.since..stored :
           Page(f.filter, f.offset, count) # <<>> /\ offset' = f.offset
  BY DEF LandMore
<1> HIDE DEF f
<1>5. ASSUME NEW count \in f.since..stored, Page(f.filter, f.offset, count) # <<>>
      PROVE  f.offset \in Offsets
  <2> DEFINE s == Answer(f.filter, count)
  <2>1. count \in Nat /\ count <= MaxTraces
    BY <1>1, <1>2
  <2>2. s \in Seq(1..count) /\ Len(s) \in 0..count
    BY <2>1, NewestAnswer, AnswerLength DEF NewestMatches
  <2>3. Page(f.filter, f.offset, count) = Cut(s, PAGE_SIZE, f.offset)
    BY DEF Page
  <2> HIDE DEF s
  <2> DEFINE from == f.offset
  <2>4. from \in Nat
    BY <1>2
  <2> HIDE DEF from
  <2>5. /\ Cut(s, PAGE_SIZE, from) \in Seq(1..count)
        /\ Len(s) <= from => Len(Cut(s, PAGE_SIZE, from)) = 0
    BY <1>2, <2>2, <2>4, CutElements
  <2>6. Cut(s, PAGE_SIZE, from) # <<>>
    BY <1>5, <2>3 DEF from
  <2>7. Len(Cut(s, PAGE_SIZE, from)) # 0
    BY <2>5, <2>6, EmptySeq
  <2>8. from < MaxTraces
    BY <1>2, <2>1, <2>2, <2>4, <2>5, <2>7
  <2>9. QED
    BY <1>3, <2>8, ReachedOffset DEF from
<1>6. offset' \in Offsets
  BY <1>4, <1>5 DEF OffsetsArePages
<1>7. Len(flights') = Len(flights) - 1
  BY <1>1, LandedFlights
<1>8. \A j \in 1..Len(flights') : flights'[j].more => \E m \in Nat : flights'[j].offset = PAGE_SIZE * m
  <2> TAKE j \in 1..Len(flights')
  <2>1. PICK p \in 1..Len(flights) : flights'[j] = flights[p]
    BY <1>1, <1>7, OthersStay
  <2>2. QED
    BY <2>1 DEF OffsetsArePages
<1>9. QED
  BY <1>6, <1>8 DEF OffsetsArePages, Offsets

\* Nothing else asks for a page or moves the list.
LEMMA NextOffsets ==
  ASSUME TypeOK, OffsetsArePages, [Next]_vars
  PROVE  OffsetsArePages'
<1>1. ASSUME NEW f \in Filter, ChangeFilter(f) PROVE OffsetsArePages'
  BY <1>1, FetchKeepsOffsets DEF ChangeFilter
<1>2. CASE Search
  BY <1>2, FetchKeepsOffsets DEF Search, TypeOK
<1>3. ASSUME NEW i \in 1..Len(flights), LandFetch(i) PROVE OffsetsArePages'
  <2>1. flights' = RemoveAt(flights, i) /\ offset' = offset /\ Len(flights) \in Nat
    BY <1>3, FlightsIndexed DEF LandFetch
  <2>2. Len(flights') = Len(flights) - 1
    BY <2>1, LandedFlights
  <2>3. \A j \in 1..Len(flights') : flights'[j].more => \E m \in Nat : flights'[j].offset = PAGE_SIZE * m
    <3> TAKE j \in 1..Len(flights')
    <3>1. PICK p \in 1..Len(flights) : flights'[j] = flights[p]
      BY <2>1, <2>2, OthersStay
    <3>2. QED
      BY <3>1 DEF OffsetsArePages
  <2>4. QED
    BY <2>1, <2>3 DEF OffsetsArePages, Offsets
<1>4. ASSUME NEW m \in 1..Min({stored + 1, MaxTraces}), Store(m) PROVE OffsetsArePages'
  <2>1. offset' = offset /\ (flights' = flights \/ flights' = Crossed(flights))
    BY <1>4 DEF Store, list
  <2>2. /\ Len(flights') = Len(flights)
        /\ \A i \in 1..Len(flights) :
             flights'[i].more = flights[i].more /\ flights'[i].offset = flights[i].offset
    BY <2>1, CrossedFlights
  <2>3. QED
    BY <2>1, <2>2 DEF OffsetsArePages, Offsets
<1>5. CASE UNCHANGED <<offset, flights>>
  BY <1>5 DEF OffsetsArePages, Offsets
<1>6. ASSUME Receive \/ Settle \/ SelectSort \/ UNCHANGED vars \/ \E field \in SortField : HandleSort(field)
      PROVE  UNCHANGED <<offset, flights>>
  BY <1>6 DEF Receive, Settle, SelectSort, HandleSort, vars, list
<1>7. QED
  BY <1>1, <1>2, <1>3, <1>4, <1>5, <1>6, LoadMoreKeepsOffsets, LandMoreKeepsOffsets DEF Next

LEMMA AlwaysOffsets == Spec => []OffsetsArePages
<1>1. Init => OffsetsArePages
  <2> SUFFICES ASSUME Init PROVE OffsetsArePages
    OBVIOUS
  <2> DEFINE r == [more |-> FALSE, filter |-> filter, offset |-> 0, refresh |-> FALSE,
                   since |-> stored, alone |-> TRUE]
  <2>1. flights = <<r>> /\ ~r.more /\ offset = 0
    BY DEF Init
  <2> HIDE DEF r
  <2>2. Len(flights) = 1 /\ flights[1] = r
    BY <2>1
  <2>3. QED
    BY <2>1, <2>2, FirstOffset DEF OffsetsArePages
<1>2. TypeOK /\ OffsetsArePages /\ [Next]_vars => OffsetsArePages'
  BY NextOffsets
<1>3. Spec => []TypeOK
  <2>1. IInv => TypeOK
    BY DEF IInv
  <2>2. QED
    BY <2>1, AlwaysIInv, PTL
<1>4. QED
  BY <1>1, <1>2, <1>3, PTL DEF Spec

-----------------------------------------------------------------------------
(* The newest rows *)

\* What a query sorts: finitely many rows, and no two of the same time.
Dated(rows) ==
  /\ IsFiniteSet(rows)
  /\ \A r \in rows : r.start \in Int
  /\ \A r, s \in rows : r.start = s.start => r = s

Newer(rows, r) == {s \in rows : s.start > r.start}

Top(rows, m) == {r \in rows : Cardinality(Newer(rows, r)) < m}

LEMMA DatedSubset ==
  ASSUME NEW S, Dated(S), NEW T \in SUBSET S
  PROVE  Dated(T)
BY FS_Subset DEF Dated

\* The number of newer rows is a row's rank.
LEMMA NewerRanks ==
  ASSUME NEW S, Dated(S)
  PROVE  /\ Cardinality(S) \in Nat
         /\ \A r \in S : IsFiniteSet(Newer(S, r)) /\ Cardinality(Newer(S, r)) \in 0..Cardinality(S) - 1
         /\ \A r, s \in S :
              r.start > s.start <=> Cardinality(Newer(S, r)) < Cardinality(Newer(S, s))
         /\ \A r, s \in S : Cardinality(Newer(S, r)) = Cardinality(Newer(S, s)) => r = s
         /\ \A k \in 0..Cardinality(S) - 1 : \E r \in S : Cardinality(Newer(S, r)) = k
<1> DEFINE R == {p \in S \X S : p[1].start > p[2].start}
           n == Cardinality(S)
<1>1. IsFiniteSet(S) /\ n \in Nat
  BY FS_CardinalityType DEF Dated
<1>2. \A r, s \in S : <<r, s>> \in R <=> r.start > s.start
  OBVIOUS
<1>3. Orders(R, S)
  <2> HIDE DEF R
  <2>1. \A r \in S : <<r, r>> \notin R
    BY <1>2 DEF Dated
  <2>2. \A r, s \in S : r # s => <<r, s>> \in R \/ <<s, r>> \in R
    <3> SUFFICES ASSUME NEW r \in S, NEW s \in S, r # s PROVE r.start > s.start \/ s.start > r.start
      BY <1>2
    <3>1. r.start \in Int /\ s.start \in Int /\ r.start # s.start
      BY DEF Dated
    <3>2. QED
      BY <3>1
  <2>3. \A r, s, t \in S : <<r, s>> \in R /\ <<s, t>> \in R => <<r, t>> \in R
    <3> SUFFICES ASSUME NEW r \in S, NEW s \in S, NEW t \in S, r.start > s.start, s.start > t.start
                 PROVE  r.start > t.start
      BY <1>2
    <3>1. r.start \in Int /\ s.start \in Int /\ t.start \in Int
      BY DEF Dated
    <3>2. QED
      BY <3>1
  <2>4. QED
    BY <2>1, <2>2, <2>3 DEF Orders
<1>4. \A r \in S : Below(R, S, r) = Newer(S, r)
  BY DEF Below, Newer
<1> HIDE DEF R, n
<1>5. /\ \A a \in S : Cardinality(Newer(S, a)) \in 0..n - 1
      /\ \A a, b \in S : <<a, b>> \in R <=> Cardinality(Newer(S, a)) < Cardinality(Newer(S, b))
      /\ \A a, b \in S : Cardinality(Newer(S, a)) = Cardinality(Newer(S, b)) => a = b
      /\ \A k \in 0..n - 1 : \E a \in S : Cardinality(Newer(S, a)) = k
  <2>1. /\ \A a \in S : Cardinality(Below(R, S, a)) \in 0..Cardinality(S) - 1
        /\ \A a, b \in S :
             <<a, b>> \in R <=> Cardinality(Below(R, S, a)) < Cardinality(Below(R, S, b))
        /\ \A a, b \in S : Cardinality(Below(R, S, a)) = Cardinality(Below(R, S, b)) => a = b
        /\ \A k \in 0..Cardinality(S) - 1 : \E a \in S : Cardinality(Below(R, S, a)) = k
    BY <1>1, <1>3, RanksInOrder
  <2>2. QED
    BY <1>4, <2>1, Zenon DEF n
<1>6. \A r \in S : IsFiniteSet(Newer(S, r))
  <2>1. \A r \in S : Newer(S, r) \in SUBSET S
    BY DEF Newer
  <2>2. QED
    BY <1>1, <2>1, FS_Subset
<1>7. QED
  BY <1>1, <1>2, <1>5, <1>6 DEF n

\* Newest lists every row once, the i-th with i - 1 newer ones.
LEMMA NewestByRank ==
  ASSUME NEW S, Dated(S)
  PROVE  /\ Newest(S) \in Seq(S) /\ Len(Newest(S)) = Cardinality(S)
         /\ \A i \in 1..Cardinality(S) :
              Newest(S)[i] \in S /\ Cardinality(Newer(S, Newest(S)[i])) = i - 1
         /\ \A r \in S : Newest(S)[Cardinality(Newer(S, r)) + 1] = r
<1> DEFINE n == Cardinality(S)
           c(r) == Cardinality(Newer(S, r))
<1>1. /\ n \in Nat
      /\ \A r \in S : c(r) \in 0..n - 1
      /\ \A r, s \in S : c(r) = c(s) => r = s
      /\ \A k \in 0..n - 1 : \E r \in S : c(r) = k
  BY NewerRanks
<1>2. Newest(S) = [i \in 1..n |-> CHOOSE r \in S : c(r) = i - 1]
  BY DEF Newest, Newer
<1> HIDE DEF n, c
<1>3. \A i \in 1..n : Newest(S)[i] \in S /\ c(Newest(S)[i]) = i - 1
  <2> TAKE i \in 1..n
  <2>1. \E r \in S : c(r) = i - 1
    <3>1. i - 1 \in 0..n - 1
      BY <1>1
    <3>2. \A k \in 0..n - 1 : \E r \in S : c(r) = k
      BY <1>1
    <3>3. QED
      BY <3>1, <3>2, Zenon
  <2>2. Newest(S)[i] = CHOOSE r \in S : c(r) = i - 1
    BY <1>2
  <2>3. QED
    BY <2>1, <2>2
<1>4. Newest(S) \in Seq(S) /\ Len(Newest(S)) = n
  <2>1. Newest(S) \in [1..n -> S]
    BY <1>2, <1>3
  <2>2. Newest(S) \in Seq(S)
    BY <1>1, <2>1, SeqDef
  <2>3. QED
    BY <1>1, <2>1, <2>2, LenProperties
<1>5. \A r \in S : Newest(S)[c(r) + 1] = r
  <2> TAKE r \in S
  <2> DEFINE i == c(r) + 1
  <2>1. i \in 1..n /\ i - 1 = c(r)
    BY <1>1
  <2> HIDE DEF i
  <2>2. Newest(S)[i] \in S /\ c(Newest(S)[i]) = c(r)
    BY <1>3, <2>1
  <2>3. Newest(S)[i] = r
    BY <1>1, <2>2
  <2>4. QED
    BY <2>3 DEF i
<1>6. QED
  BY <1>3, <1>4, <1>5 DEF n, c

\* What LIMIT lets through.
LEMMA LimitedElements ==
  ASSUME NEW T, NEW s \in Seq(T), NEW m \in Nat
  PROVE  /\ Limited(s, m) \in Seq(T)
         /\ Len(Limited(s, m)) = IF m < Len(s) THEN m ELSE Len(s)
         /\ \A i \in 1..Len(Limited(s, m)) : i \in 1..Len(s) /\ Limited(s, m)[i] = s[i]
<1> DEFINE n == IF m < Len(s) THEN m ELSE Len(s)
<1>1. Len(s) \in Nat /\ n \in 0..Len(s) /\ n - 1 + 1 = n
  BY LenProperties
<1>2. \A i \in 1..Len(s) : s[i] \in T
  BY ElementOfSeq
<1>3. Limited(s, m) = SubSeq(s, 1, n)
  BY DEF Limited
<1>4. n = IF m < Len(s) THEN m ELSE Len(s)
  OBVIOUS
<1> HIDE DEF n
<1>5. \A i \in 1..n : s[i] \in T
  BY <1>1, <1>2
<1>6. /\ SubSeq(s, 1, n) \in Seq(T) /\ Len(SubSeq(s, 1, n)) = IF 1 <= n THEN n - 1 + 1 ELSE 0
      /\ \A i \in 1..n - 1 + 1 : SubSeq(s, 1, n)[i] = s[1 + i - 1]
  BY <1>1, <1>5, SubSeqProperties
<1>7. Len(Limited(s, m)) = n
  BY <1>1, <1>3, <1>6
<1>8. QED
  BY <1>1, <1>3, <1>4, <1>6, <1>7

LEMMA RowsOfLimited ==
  ASSUME NEW S, Dated(S), NEW m \in Nat
  PROVE  Rows(Limited(Newest(S), m)) = Top(S, m)
<1> DEFINE s == Newest(S)
           l == Limited(s, m)
           n == Cardinality(S)
           c(r) == Cardinality(Newer(S, r))
<1>1. /\ s \in Seq(S) /\ Len(s) = n /\ n \in Nat
      /\ \A i \in 1..n : s[i] \in S /\ c(s[i]) = i - 1
      /\ \A r \in S : s[c(r) + 1] = r /\ c(r) \in 0..n - 1
  BY NewestByRank, NewerRanks
<1> HIDE DEF s, c, n
<1>2. /\ l \in Seq(S) /\ Len(l) = (IF m < n THEN m ELSE n)
      /\ \A i \in 1..Len(l) : l[i] = s[i]
  <2>1. s \in Seq(S) /\ Len(s) = n
    BY <1>1
  <2>2. /\ l \in Seq(S) /\ Len(l) = IF m < Len(s) THEN m ELSE Len(s)
        /\ \A i \in 1..Len(l) : i \in 1..Len(s) /\ l[i] = s[i]
    BY <2>1, LimitedElements
  <2>3. QED
    BY <2>1, <2>2
<1>3. DOMAIN l = 1..Len(l)
  BY <1>2, LenProperties
<1> HIDE DEF l
<1>4. ASSUME NEW i \in 1..Len(l) PROVE l[i] \in S /\ c(l[i]) < m
  <2>1. Len(l) = (IF m < n THEN m ELSE n) /\ n \in Nat
    BY <1>1, <1>2
  <2>2. i \in 1..n /\ i - 1 < m
    BY <2>1
  <2>3. l[i] = s[i]
    BY <1>2
  <2>4. s[i] \in S /\ c(s[i]) = i - 1
    BY <1>1, <2>2
  <2>5. QED
    BY <2>2, <2>3, <2>4
<1>5. ASSUME NEW r \in S, c(r) < m PROVE \E i \in 1..Len(l) : l[i] = r
  <2> DEFINE i == c(r) + 1
  <2>1. i \in 1..Len(l) /\ s[i] = r
    BY <1>1, <1>2, <1>5
  <2> HIDE DEF i
  <2>2. QED
    BY <1>2, <2>1
<1>6. Rows(l) = {l[i] : i \in 1..Len(l)}
  BY <1>3 DEF Rows
<1>7. QED
  BY <1>4, <1>5, <1>6 DEF Top, l, s, c

\* Rows that have the m newest of all have the same m newest.
LEMMA NewestDecided ==
  ASSUME NEW S, Dated(S), NEW T \in SUBSET S, NEW m \in Nat, Top(S, m) \subseteq T
  PROVE  Limited(Newest(T), m) = Limited(Newest(S), m)
<1> DEFINE a == Cardinality(T)
           b == Cardinality(S)
           s == Newest(S)
           t == Newest(T)
           c(r) == Cardinality(Newer(S, r))
<1>1. Dated(T)
  BY DatedSubset
<1>2. /\ s \in Seq(S) /\ Len(s) = b /\ b \in Nat
      /\ \A i \in 1..b : s[i] \in S /\ c(s[i]) = i - 1
      /\ \A r \in S : c(r) \in 0..b - 1
      /\ \A k \in 0..b - 1 : \E r \in S : c(r) = k
      /\ \A r, q \in S : r.start > q.start <=> c(r) < c(q)
  BY NewestByRank, NewerRanks
<1>3. /\ t \in Seq(T) /\ Len(t) = a /\ a \in Nat
      /\ \A r \in T : t[Cardinality(Newer(T, r)) + 1] = r
      /\ \A r \in T : Cardinality(Newer(T, r)) \in 0..a - 1
  BY <1>1, NewestByRank, NewerRanks
<1>4. a <= b
  BY FS_Subset DEF Dated
<1>5. ASSUME NEW r \in S, c(r) < m PROVE r \in T /\ Newer(T, r) = Newer(S, r)
  <2>1. r \in T
    BY <1>5 DEF Top
  <2>2. ASSUME NEW q \in Newer(S, r) PROVE q \in T
    <3>1. q \in S /\ c(q) < c(r)
      BY <1>2 DEF Newer
    <3>2. c(q) < m
      BY <1>2, <1>5, <3>1
    <3>3. QED
      BY <3>1, <3>2 DEF Top
  <2>3. QED
    BY <2>1, <2>2 DEF Newer
<1> HIDE DEF s, t, c
<1>6. \A r \in S : c(r) < m => r \in T /\ t[c(r) + 1] = r /\ c(r) \in 0..a - 1
  BY <1>3, <1>5 DEF c
<1> HIDE DEF a, b
<1>7. b <= m \/ m <= a
  <2> SUFFICES ASSUME m < b PROVE m <= a
    BY <1>2
  <2>1. CASE m = 0
    BY <1>3, <2>1
  <2>2. CASE m # 0
    <3>1. m - 1 \in 0..b - 1
      BY <1>2, <2>2
    <3>2. PICK r \in S : c(r) = m - 1
      BY <1>2, <3>1
    <3>3. c(r) < m
      BY <3>2
    <3>4. m - 1 \in 0..a - 1
      BY <1>6, <3>2, <3>3
    <3>5. QED
      BY <1>3, <3>4
  <2>3. QED
    BY <2>1, <2>2
<1>8. b <= m => a = b
  <2> SUFFICES ASSUME b <= m PROVE a = b
    OBVIOUS
  <2>1. CASE b = 0
    BY <1>2, <1>3, <1>4, <2>1
  <2>2. CASE b # 0
    <3>1. b - 1 \in 0..b - 1
      BY <1>2, <2>2
    <3>2. PICK r \in S : c(r) = b - 1
      BY <1>2, <3>1
    <3>3. c(r) < m
      BY <1>2, <3>2
    <3>4. b - 1 \in 0..a - 1
      BY <1>6, <3>2, <3>3
    <3>5. QED
      BY <1>2, <1>3, <1>4, <3>4
  <2>3. QED
    BY <2>1, <2>2
<1> DEFINE k == IF m < b THEN m ELSE b
<1>9. k = (IF m < b THEN m ELSE b) /\ k = (IF m < a THEN m ELSE a)
  <2>1. a \in Nat /\ b \in Nat
    BY <1>2, <1>3
  <2>2. CASE b <= m
    BY <1>8, <2>1, <2>2
  <2>3. CASE m < b
    BY <1>7, <2>1, <2>3
  <2>4. QED
    BY <2>1, <2>2, <2>3
<1>10. ASSUME NEW i \in 1..k PROVE t[i] = s[i]
  <2>1. i \in 1..b /\ i - 1 < m
    BY <1>2
  <2>2. s[i] \in S /\ c(s[i]) = i - 1
    BY <1>2, <2>1
  <2>3. t[c(s[i]) + 1] = s[i]
    BY <1>6, <2>1, <2>2
  <2>4. c(s[i]) + 1 = i
    BY <2>1, <2>2
  <2>5. QED
    BY <2>3, <2>4
<1>11. t \in Seq(S)
  BY <1>3, SeqMonotonic
<1> HIDE DEF k
<1>12. /\ Limited(t, m) \in Seq(S) /\ Len(Limited(t, m)) = k
       /\ \A i \in 1..k : Limited(t, m)[i] = t[i]
  <2>1. t \in Seq(S) /\ Len(t) = a
    BY <1>3, <1>11
  <2>2. /\ Limited(t, m) \in Seq(S)
        /\ Len(Limited(t, m)) = IF m < Len(t) THEN m ELSE Len(t)
        /\ \A i \in 1..Len(Limited(t, m)) : i \in 1..Len(t) /\ Limited(t, m)[i] = t[i]
    BY <2>1, LimitedElements
  <2>3. QED
    BY <1>9, <2>1, <2>2
<1>13. /\ Limited(s, m) \in Seq(S) /\ Len(Limited(s, m)) = k
       /\ \A i \in 1..k : Limited(s, m)[i] = s[i]
  <2>1. s \in Seq(S) /\ Len(s) = b
    BY <1>2
  <2>2. /\ Limited(s, m) \in Seq(S)
        /\ Len(Limited(s, m)) = IF m < Len(s) THEN m ELSE Len(s)
        /\ \A i \in 1..Len(Limited(s, m)) : i \in 1..Len(s) /\ Limited(s, m)[i] = s[i]
    BY <2>1, LimitedElements
  <2>3. QED
    BY <1>9, <2>1, <2>2
<1>14. Limited(t, m) = Limited(s, m)
  BY <1>10, <1>12, <1>13, SeqEqual
<1>15. QED
  BY <1>14 DEF s, t

\* A page depends on the first rows only.
LEMMA CutDecided ==
  ASSUME NEW S, Dated(S), NEW T \in SUBSET S, NEW limit \in Nat, NEW from \in Nat,
         Top(S, limit + from) \subseteq T
  PROVE  Cut(Newest(T), limit, from) = Cut(Newest(S), limit, from)
<1>1. from + limit = limit + from /\ from + limit \in Nat
  OBVIOUS
<1>2. Limited(Newest(T), from + limit) = Limited(Newest(S), from + limit)
  BY <1>1, NewestDecided
<1>3. QED
  BY <1>2 DEF Cut

\* The newest of all are among the newest of their part.
LEMMA PartsSuffice ==
  ASSUME NEW S, Dated(S), NEW P \in SUBSET S, NEW m \in Nat
  PROVE  Top(S, m) \cap P \subseteq Top(P, m)
<1> SUFFICES ASSUME NEW r \in P, Cardinality(Newer(S, r)) < m
             PROVE  Cardinality(Newer(P, r)) < m
  BY DEF Top
<1>1. Dated(P)
  BY DatedSubset
<1>2. IsFiniteSet(Newer(S, r)) /\ Cardinality(Newer(S, r)) \in Nat
  BY NewerRanks
<1>3. Newer(P, r) \in SUBSET Newer(S, r)
  BY DEF Newer
<1>4. Cardinality(Newer(P, r)) <= Cardinality(Newer(S, r)) /\ Cardinality(Newer(P, r)) \in Nat
  BY <1>1, <1>2, <1>3, FS_Subset, NewerRanks
<1>5. QED
  BY <1>2, <1>4

\* QueryLogs answers as one database would, however the logs are spread over days.
THEOREM LogsMerged ==
  ASSUME NEW days, Dated(All(days)), NEW limit \in Nat, NEW from \in Nat
  PROVE  LogsExact(days, limit, from)
<1> DEFINE S == All(days)
           m == limit + from
           rows == UNION {Rows(Limited(Newest(days[d]), m)) : d \in DOMAIN days}
<1>1. m \in Nat
  OBVIOUS
<1>2. \A d \in DOMAIN days : days[d] \in SUBSET S
  BY DEF All
<1>3. \A r \in S : \E d \in DOMAIN days : r \in days[d]
  BY DEF All
<1> HIDE DEF S, m
<1>4. Dated(S)
  BY DEF S
<1>5. \A d \in DOMAIN days :
        /\ Rows(Limited(Newest(days[d]), m)) = Top(days[d], m)
        /\ Top(days[d], m) \subseteq S
        /\ Top(S, m) \cap days[d] \subseteq Top(days[d], m)
  <2> TAKE d \in DOMAIN days
  <2>1. days[d] \in SUBSET S /\ Dated(days[d])
    BY <1>2, <1>4, DatedSubset
  <2>2. Top(days[d], m) \subseteq S
    BY <2>1 DEF Top
  <2>3. QED
    BY <1>1, <1>4, <2>1, <2>2, RowsOfLimited, PartsSuffice
<1>6. rows \in SUBSET S
  BY <1>5
<1>7. Top(S, m) \subseteq rows
  <2> SUFFICES ASSUME NEW r \in Top(S, m) PROVE r \in rows
    OBVIOUS
  <2>1. r \in S
    BY DEF Top
  <2>2. PICK d \in DOMAIN days : r \in days[d]
    BY <1>3, <2>1
  <2>3. r \in Rows(Limited(Newest(days[d]), m))
    BY <1>5, <2>2
  <2>4. QED
    BY <2>3
<1>8. QueryLogs(days, limit, from) = Cut(Newest(rows), limit, from)
  BY DEF QueryLogs, m
<1> HIDE DEF rows
<1>9. Cut(Newest(rows), limit, from) = Cut(Newest(S), limit, from)
  BY <1>4, <1>6, <1>7, CutDecided DEF m
<1>10. QED
  BY <1>8, <1>9 DEF LogsExact, S

-----------------------------------------------------------------------------
(* Summaries *)

TracesIn(rows) == {r.trace : r \in rows}

Own(rows, t) == {r \in rows : r.trace = t}

Summary(spans, t) ==
  [trace |-> t, start |-> Earliest(Own(spans, t)), spans |-> Cardinality(Own(spans, t))]

MergedRow(rows, t) ==
  [trace |-> t, start |-> Earliest(Own(rows, t)),
   spans |-> Cardinality(UNION {{r} \X (1..r.spans) : r \in Own(rows, t)})]

\* MIN(start_time) is the start of a row.
LEMMA EarliestIsOfARow ==
  ASSUME NEW S, Dated(S), S # {}
  PROVE  \E r \in S : r.start = Earliest(S) /\ \A s \in S : r.start <= s.start
<1> DEFINE n == Cardinality(S)
           c(r) == Cardinality(Newer(S, r))
<1>1. /\ n \in Nat
      /\ \A r \in S : c(r) \in 0..n - 1
      /\ \A r, s \in S : r.start > s.start <=> c(r) < c(s)
      /\ \A k \in 0..n - 1 : \E r \in S : c(r) = k
  BY NewerRanks
<1>2. \A r \in S : r.start \in Int
  BY DEF Dated
<1> HIDE DEF n, c
<1>3. PICK q \in S : c(q) \in 0..n - 1
  BY <1>1
<1>4. n - 1 \in 0..n - 1
  BY <1>1, <1>3
<1>5. PICK r \in S : c(r) = n - 1
  <2>1. \A k \in 0..n - 1 : \E r \in S : c(r) = k
    BY <1>1
  <2>2. QED
    BY <1>4, <2>1, Zenon
<1>6. \A s \in S : r.start <= s.start
  <2> TAKE s \in S
  <2>1. c(s) \in 0..n - 1 /\ ~(c(r) < c(s))
    BY <1>1, <1>5
  <2>2. ~(r.start > s.start)
    BY <1>1, <2>1
  <2>3. QED
    BY <1>2, <2>2
<1>7. \A t \in {s.start : s \in S} : (\A s \in S : t <= s.start) => t = r.start
  <2> SUFFICES ASSUME NEW s \in S, \A q1 \in S : s.start <= q1.start
               PROVE  s.start = r.start
    OBVIOUS
  <2>1. s.start <= r.start /\ r.start <= s.start
    BY <1>6
  <2>2. QED
    BY <1>2, <2>1
<1>8. r.start \in {s.start : s \in S}
  OBVIOUS
<1>9. Earliest(S) = r.start
  BY <1>6, <1>7, <1>8 DEF Earliest
<1>10. QED
  BY <1>6, <1>9

\* One record for each trace, standing at the start of one of the trace's rows.
LEMMA OneForEachTrace ==
  ASSUME NEW S, Dated(S), NEW M,
         \A r \in M : r.trace \in TracesIn(S) /\ r.start = Earliest(Own(S, r.trace)),
         \A r, q \in M : r.trace = q.trace => r = q
  PROVE  /\ Dated(M)
         /\ \A r \in M : \E s \in S : s.trace = r.trace /\ s.start = r.start
<1>1. ASSUME NEW r \in M PROVE \E s \in S : s.trace = r.trace /\ s.start = r.start
  <2>1. Own(S, r.trace) # {} /\ Own(S, r.trace) \in SUBSET S
    BY DEF Own, TracesIn
  <2>2. Dated(Own(S, r.trace))
    BY <2>1, DatedSubset
  <2>3. PICK s \in Own(S, r.trace) : s.start = Earliest(Own(S, r.trace))
    BY <2>1, <2>2, EarliestIsOfARow
  <2>4. s \in S /\ s.trace = r.trace
    BY DEF Own
  <2>5. QED
    BY <2>3, <2>4
<1>2. \A r \in M : r.start \in Int
  BY <1>1 DEF Dated
<1>3. ASSUME NEW r \in M, NEW q \in M, r.start = q.start PROVE r = q
  <2>1. PICK s \in S : s.trace = r.trace /\ s.start = r.start
    BY <1>1
  <2>2. PICK u \in S : u.trace = q.trace /\ u.start = q.start
    BY <1>1
  <2>3. s = u
    BY <1>3, <2>1, <2>2 DEF Dated
  <2>4. QED
    BY <2>1, <2>2, <2>3
<1>4. IsFiniteSet(M)
  <2> DEFINE f == [r \in M |-> CHOOSE s \in S : s.trace = r.trace /\ s.start = r.start]
  <2>1. f \in [M -> S] /\ \A r \in M : f[r].trace = r.trace
    BY <1>1
  <2> HIDE DEF f
  <2>2. f \in Injection(M, S)
    BY <2>1 DEF Injection, IsInjective
  <2>3. QED
    BY <2>2, FS_Injection DEF Dated
<1>5. QED
  BY <1>1, <1>2, <1>3, <1>4 DEF Dated

LEMMA SummariesDated ==
  ASSUME NEW S, Dated(S)
  PROVE  /\ Dated(Summaries(S))
         /\ \A r \in Summaries(S) : \E s \in S : s.trace = r.trace /\ s.start = r.start
         /\ \A r, q \in Summaries(S) : r.trace = q.trace => r = q
         /\ \A r \in Summaries(S) : r = Summary(S, r.trace) /\ r.spans \in Nat
         /\ \A s \in S : Summary(S, s.trace) \in Summaries(S)
<1> DEFINE M == Summaries(S)
<1>1. M = {Summary(S, t) : t \in TracesIn(S)}
  BY DEF Summaries, Summary, Own, TracesIn
<1> HIDE DEF M
<1>2. \A t : /\ Summary(S, t).trace = t /\ Summary(S, t).start = Earliest(Own(S, t))
             /\ Summary(S, t).spans = Cardinality(Own(S, t))
  BY DEF Summary
<1>3. \A r \in M : r = Summary(S, r.trace) /\ r.trace \in TracesIn(S)
  BY <1>1, <1>2
<1>4. \A r, q \in M : r.trace = q.trace => r = q
  BY <1>3
<1>6. \A s \in S : Summary(S, s.trace) \in M
  BY <1>1 DEF TracesIn
<1>7. \A r \in M : r.trace \in TracesIn(S) /\ r.start = Earliest(Own(S, r.trace))
  BY <1>2, <1>3
<1>8. \A r \in M : r.spans \in Nat
  <2> TAKE r \in M
  <2>1. Own(S, r.trace) \in SUBSET S
    BY DEF Own
  <2>2. IsFiniteSet(Own(S, r.trace))
    BY <2>1, FS_Subset DEF Dated
  <2>3. r.spans = Cardinality(Own(S, r.trace))
    BY <1>2, <1>3
  <2>4. QED
    BY <2>2, <2>3, FS_CardinalityType
<1>9. Dated(M) /\ \A r \in M : \E s \in S : s.trace = r.trace /\ s.start = r.start
  BY <1>4, <1>7, OneForEachTrace
<1>10. QED
  BY <1>3, <1>4, <1>6, <1>8, <1>9 DEF M

LEMMA MergedDated ==
  ASSUME NEW R, Dated(R)
  PROVE  /\ Dated(Merged(R))
         /\ \A m \in Merged(R) : \E r \in R : r.trace = m.trace
         /\ \A m, q \in Merged(R) : m.trace = q.trace => m = q
         /\ \A m \in Merged(R) : m = MergedRow(R, m.trace)
         /\ \A r \in R : MergedRow(R, r.trace) \in Merged(R)
<1> DEFINE M == Merged(R)
<1>1. M = {MergedRow(R, t) : t \in TracesIn(R)}
  BY DEF Merged, MergedRow, Own, TracesIn
<1> HIDE DEF M
<1>2. \A t : MergedRow(R, t).trace = t /\ MergedRow(R, t).start = Earliest(Own(R, t))
  BY DEF MergedRow
<1>3. \A m \in M : m = MergedRow(R, m.trace) /\ m.trace \in TracesIn(R)
  BY <1>1, <1>2
<1>4. \A m, q \in M : m.trace = q.trace => m = q
  BY <1>3
<1>6. \A r \in R : MergedRow(R, r.trace) \in M
  BY <1>1 DEF TracesIn
<1>7. \A m \in M : m.trace \in TracesIn(R) /\ m.start = Earliest(Own(R, m.trace))
  BY <1>2, <1>3
<1>8. Dated(M) /\ \A m \in M : \E r \in R : r.trace = m.trace /\ r.start = m.start
  BY <1>4, <1>7, OneForEachTrace
<1>9. QED
  BY <1>3, <1>4, <1>6, <1>8 DEF M

\* A trace with one row is merged into that row.
LEMMA OneRowMerged ==
  ASSUME NEW r, r = [trace |-> r.trace, start |-> r.start, spans |-> r.spans],
         r.start \in Int, r.spans \in Nat, NEW R, Own(R, r.trace) = {r}
  PROVE  MergedRow(R, r.trace) = r
<1>1. Earliest({r}) = r.start
  <2>1. {s.start : s \in {r}} = {r.start} /\ r.start <= r.start
    OBVIOUS
  <2>2. QED
    BY <2>1 DEF Earliest
<1>2. Cardinality(UNION {{s} \X (1..s.spans) : s \in {r}}) = r.spans
  <2> DEFINE k == r.spans
  <2>1. UNION {{s} \X (1..s.spans) : s \in {r}} = {r} \X (1..k)
    OBVIOUS
  <2>2. IsFiniteSet(1..k) /\ Cardinality(1..k) = k
    BY UpTo
  <2>3. IsFiniteSet({r}) /\ Cardinality({r}) = 1
    BY FS_Singleton
  <2>4. Cardinality({r} \X (1..k)) = 1 * k
    BY <2>2, <2>3, FS_Product
  <2>5. QED
    BY <2>1, <2>4
<1>3. QED
  BY <1>1, <1>2 DEF MergedRow

-----------------------------------------------------------------------------
(* Traces over several days *)

\* What the partitions hold: finitely many spans, each on one day.
Parts(days) ==
  /\ IsFiniteSet(DOMAIN days)
  /\ Dated(All(days))
  /\ \A d, e \in DOMAIN days : d # e => days[d] \cap days[e] = {}

Summed(days) == UNION {Summaries(days[d]) : d \in DOMAIN days}

\* What the partitions answer.
Asked(days, m) == UNION {Top(Summaries(days[d]), m) : d \in DOMAIN days}

\* The traces of one day that are newer than w.
WholeNewer(R, Z, w) == {q \in R : q.start > w.start /\ q.trace \notin Z}

LEMMA SpanningFinite ==
  ASSUME NEW days, Parts(days)
  PROVE  IsFiniteSet(Spanning(days)) /\ Cardinality(Spanning(days)) \in Nat
<1> DEFINE S == All(days)
           T == {s.trace : s \in S}
           f == [s \in S |-> s.trace]
<1>1. IsFiniteSet(S)
  BY DEF Parts, Dated
<1>2. Spanning(days) \in SUBSET T
  BY DEF Spanning
<1> HIDE DEF S
<1>3. f \in Surjection(S, T)
  BY DEF Surjection
<1> HIDE DEF f, T
<1>4. QED
  BY <1>1, <1>2, <1>3, FS_Surjection, FS_Subset, FS_CardinalityType

LEMMA SummedDated ==
  ASSUME NEW days, Parts(days)
  PROVE  /\ Dated(Summed(days))
         /\ \A d \in DOMAIN days : Dated(days[d]) /\ days[d] \subseteq All(days)
         /\ \A r \in Summed(days) : r = [trace |-> r.trace, start |-> r.start, spans |-> r.spans]
                                    /\ r.spans \in Nat
<1>1. \A d \in DOMAIN days : days[d] \in SUBSET All(days)
  BY DEF All
<1>2. \A d \in DOMAIN days : Dated(days[d])
  BY <1>1, DatedSubset DEF Parts
<1>3. \A d \in DOMAIN days :
        /\ Dated(Summaries(days[d]))
        /\ \A r \in Summaries(days[d]) : \E s \in days[d] : s.trace = r.trace /\ s.start = r.start
        /\ \A r, q \in Summaries(days[d]) : r.trace = q.trace => r = q
        /\ \A r \in Summaries(days[d]) : r = Summary(days[d], r.trace) /\ r.spans \in Nat
  BY <1>2, SummariesDated
<1>4. IsFiniteSet(Summed(days))
  <2> DEFINE f == [d \in DOMAIN days |-> Summaries(days[d])]
             T == {Summaries(days[d]) : d \in DOMAIN days}
  <2>1. f \in Surjection(DOMAIN days, T)
    BY DEF Surjection
  <2>2. \A X \in T : IsFiniteSet(X)
    BY <1>3 DEF Dated
  <2> HIDE DEF f, T
  <2>3. IsFiniteSet(T)
    BY <2>1, FS_Surjection DEF Parts
  <2>4. QED
    BY <2>2, <2>3, FS_UNION DEF Summed, T
<1>5. \A r \in Summed(days) : r.start \in Int
  BY <1>3 DEF Summed, Dated
<1>6. ASSUME NEW r \in Summed(days), NEW q \in Summed(days), r.start = q.start
      PROVE  r = q
  <2>1. PICK d \in DOMAIN days : r \in Summaries(days[d])
    BY DEF Summed
  <2>2. PICK e \in DOMAIN days : q \in Summaries(days[e])
    BY DEF Summed
  <2>3. PICK s \in days[d] : s.trace = r.trace /\ s.start = r.start
    BY <1>3, <2>1
  <2>4. PICK u \in days[e] : u.trace = q.trace /\ u.start = q.start
    BY <1>3, <2>2
  <2>5. s = u
    BY <1>1, <1>6, <2>3, <2>4 DEF Parts, Dated
  <2>6. d = e
    BY <2>5 DEF Parts
  <2>7. QED
    BY <1>3, <2>1, <2>2, <2>3, <2>4, <2>5, <2>6
<1>7. \A r \in Summed(days) : r = [trace |-> r.trace, start |-> r.start, spans |-> r.spans]
                               /\ r.spans \in Nat
  <2> TAKE r \in Summed(days)
  <2>1. PICK d \in DOMAIN days : r \in Summaries(days[d])
    BY DEF Summed
  <2>2. r = Summary(days[d], r.trace) /\ r.spans \in Nat
    BY <1>3, <2>1
  <2>3. QED
    BY <2>2 DEF Summary
<1>8. QED
  BY <1>1, <1>2, <1>4, <1>5, <1>6, <1>7 DEF Dated

\* A trace of one day has the same summary there as in one database.
LEMMA WholeSummaries ==
  ASSUME NEW days, Parts(days)
  PROVE  /\ \A r \in Summed(days) : r.trace \notin Spanning(days) => r \in Summaries(All(days))
         /\ \A r \in Summaries(All(days)) : r.trace \notin Spanning(days) =>
              \E d \in DOMAIN days : r \in Summaries(days[d])
<1> DEFINE S == All(days)
<1>1. Dated(S) /\ \A d \in DOMAIN days : Dated(days[d]) /\ days[d] \subseteq S
  BY SummedDated DEF Parts
<1>2. \A s \in S : \E d \in DOMAIN days : s \in days[d]
  BY DEF All
<1>3. Spanning(days) =
        {t \in {s.trace : s \in S} :
           \E d, e \in DOMAIN days :
             d # e /\ \E a \in days[d], b \in days[e] : a.trace = t /\ b.trace = t}
  BY DEF Spanning
<1> HIDE DEF S
<1>4. ASSUME NEW d \in DOMAIN days, NEW s \in days[d], s.trace \notin Spanning(days)
      PROVE  Summary(days[d], s.trace) = Summary(S, s.trace)
  <2>1. s.trace \in {u.trace : u \in S}
    BY <1>1
  <2>2. ASSUME NEW u \in S, u.trace = s.trace PROVE u \in days[d]
    <3>1. PICK e \in DOMAIN days : u \in days[e]
      BY <1>2
    <3>2. d = e
      BY <1>3, <1>4, <2>1, <2>2, <3>1
    <3>3. QED
      BY <3>1, <3>2
  <2>3. Own(days[d], s.trace) = Own(S, s.trace)
    BY <1>1, <2>2 DEF Own
  <2>4. QED
    BY <2>3 DEF Summary
<1>5. ASSUME NEW r \in Summed(days), r.trace \notin Spanning(days)
      PROVE  r \in Summaries(S)
  <2>1. PICK d \in DOMAIN days : r \in Summaries(days[d])
    BY DEF Summed
  <2>2. Dated(days[d])
    BY <1>1
  <2>3. r = Summary(days[d], r.trace) /\ \E s \in days[d] : s.trace = r.trace
    BY <2>1, <2>2, SummariesDated
  <2>4. PICK s \in days[d] : s.trace = r.trace
    BY <2>3
  <2>5. r = Summary(S, s.trace) /\ s \in S
    BY <1>1, <1>4, <1>5, <2>3, <2>4
  <2>6. QED
    BY <1>1, <2>5, SummariesDated
<1>6. ASSUME NEW r \in Summaries(S), r.trace \notin Spanning(days)
      PROVE  \E d \in DOMAIN days : r \in Summaries(days[d])
  <2>1. r = Summary(S, r.trace) /\ \E s \in S : s.trace = r.trace
    BY <1>1, SummariesDated
  <2>2. PICK s \in S : s.trace = r.trace
    BY <2>1
  <2>3. PICK d \in DOMAIN days : s \in days[d]
    BY <1>2
  <2>4. r = Summary(days[d], s.trace)
    BY <1>4, <1>6, <2>1, <2>2, <2>3
  <2>5. Dated(days[d])
    BY <1>1
  <2>6. QED
    BY <2>3, <2>4, <2>5, SummariesDated
<1>7. QED
  BY <1>5, <1>6 DEF S

\* What traceMap makes of the partitions' answers: a trace of one day keeps its
\* summary, if its day has answered with it.
LEMMA AskedMerged ==
  ASSUME NEW days, Parts(days), NEW m \in Nat
  PROVE  /\ Asked(days, m) \subseteq Summed(days) /\ Dated(Asked(days, m))
         /\ Dated(Merged(Asked(days, m)))
         /\ \A p, q \in Merged(Asked(days, m)) : p.trace = q.trace => p = q
         /\ \A r : r.trace \notin Spanning(days) =>
              (r \in Merged(Asked(days, m)) <=> r \in Asked(days, m))
         /\ \A p \in Merged(Asked(days, m)) : \E r \in Asked(days, m) : r.trace = p.trace
<1> DEFINE A == Asked(days, m)
           Z == Spanning(days)
           S == All(days)
<1>1. A \in SUBSET Summed(days)
  BY DEF Asked, Summed, Top
<1>2. Dated(A)
  BY <1>1, SummedDated, DatedSubset
<1>3. \A r, q \in A : r.trace \notin Z /\ q.trace = r.trace => q = r
  <2> SUFFICES ASSUME NEW r \in A, NEW q \in A, r.trace \notin Z, q.trace = r.trace
               PROVE  q = r
    OBVIOUS
  <2>1. r \in Summaries(S) /\ q \in Summaries(S)
    BY <1>1, WholeSummaries
  <2>2. Dated(S)
    BY DEF Parts
  <2>3. QED
    BY <2>1, <2>2, SummariesDated
<1> HIDE DEF A, Z, S
<1>4. /\ Dated(Merged(A))
      /\ \A p \in Merged(A) : \E r \in A : r.trace = p.trace
      /\ \A p, q \in Merged(A) : p.trace = q.trace => p = q
      /\ \A p \in Merged(A) : p = MergedRow(A, p.trace)
      /\ \A r \in A : MergedRow(A, r.trace) \in Merged(A)
  BY <1>2, MergedDated
<1>5. ASSUME NEW r \in A, r.trace \notin Z
      PROVE  MergedRow(A, r.trace) = r
  <2>1. r = [trace |-> r.trace, start |-> r.start, spans |-> r.spans] /\ r.spans \in Nat
    BY <1>1, SummedDated
  <2>2. r.start \in Int
    BY <1>2 DEF Dated
  <2>3. Own(A, r.trace) = {r}
    BY <1>3, <1>5 DEF Own
  <2>4. QED
    BY <2>1, <2>2, <2>3, OneRowMerged
<1>6. ASSUME NEW r \in A, r.trace \notin Z
      PROVE  r \in Merged(A)
  BY <1>4, <1>5, <1>6
<1>7. ASSUME NEW p \in Merged(A), p.trace \notin Z
      PROVE  p \in A
  <2>1. PICK r \in A : r.trace = p.trace
    BY <1>4
  <2>2. MergedRow(A, r.trace) = r
    BY <1>5, <1>7, <2>1
  <2>3. p = r
    BY <1>4, <2>1, <2>2
  <2>4. QED
    BY <2>3
<1>8. QED
  BY <1>1, <1>2, <1>4, <1>6, <1>7 DEF A, Z

\* The newer traces of several days are no more than there are such traces.
LEMMA CostOfTraces ==
  ASSUME NEW R, Dated(R), \A r, q \in R : r.trace = q.trace => r = q,
         NEW Z, IsFiniteSet(Z), NEW w \in R
  PROVE  /\ IsFiniteSet(WholeNewer(R, Z, w)) /\ Cardinality(WholeNewer(R, Z, w)) \in Nat
         /\ Cardinality(Newer(R, w)) <= Cardinality(WholeNewer(R, Z, w)) + Cardinality(Z)
<1> DEFINE W == WholeNewer(R, Z, w)
           N == Newer(R, w)
           B == {q \in N : q.trace \in Z}
           f == [q \in B |-> q.trace]
<1>1. W \in SUBSET R /\ B \in SUBSET R /\ N = W \cup B
  BY DEF WholeNewer, Newer
<1>2. IsFiniteSet(W) /\ IsFiniteSet(B)
  BY <1>1, FS_Subset DEF Dated
<1>3. f \in Injection(B, Z)
  BY <1>1 DEF Injection, IsInjective
<1> HIDE DEF W, N, B, f
<1>4. Cardinality(B) <= Cardinality(Z)
  BY <1>3, FS_Injection
<1>5. /\ Cardinality(W \cup B) = Cardinality(W) + Cardinality(B) - Cardinality(W \cap B)
      /\ IsFiniteSet(W \cap B)
  BY <1>2, FS_Union, FS_Intersection
<1>6. /\ Cardinality(W) \in Nat /\ Cardinality(B) \in Nat /\ Cardinality(Z) \in Nat
      /\ Cardinality(W \cap B) \in Nat
  BY <1>2, <1>5, FS_CardinalityType
<1>7. Cardinality(N) <= Cardinality(W) + Cardinality(Z)
  BY <1>1, <1>4, <1>5, <1>6
<1>8. QED
  BY <1>2, <1>6, <1>7 DEF W, N

\* The places up to w's that traces of one day take.
LEMMA WholePlaces ==
  ASSUME NEW S, Dated(S), NEW Z, NEW w \in S, w.trace \notin Z,
         NEW i \in Nat, i = Cardinality(Newer(S, w)) + 1,
         NEW s, \A j \in 1..i : s[j] = Newest(S)[j]
  PROVE  Cardinality({j \in 1..i : s[j].trace \notin Z}) = Cardinality(WholeNewer(S, Z, w)) + 1
<1> DEFINE P == {j \in 1..i : s[j].trace \notin Z}
           W == WholeNewer(S, Z, w)
           c(r) == Cardinality(Newer(S, r))
           n == Cardinality(S)
           f == [j \in P |-> s[j]]
<1>1. /\ n \in Nat
      /\ \A j \in 1..n : Newest(S)[j] \in S /\ c(Newest(S)[j]) = j - 1
      /\ \A r \in S : Newest(S)[c(r) + 1] = r
      /\ \A r \in S : c(r) \in 0..n - 1
      /\ \A r, q \in S : r.start > q.start <=> c(r) < c(q)
  BY NewestByRank, NewerRanks
<1>2. /\ W \in SUBSET S /\ w \notin W
      /\ \A q : q \in W <=> q \in S /\ q.start > w.start /\ q.trace \notin Z
  <2>1. ~(w.start > w.start)
    BY DEF Dated
  <2>2. QED
    BY <2>1 DEF WholeNewer
<1>3. i = c(w) + 1
  OBVIOUS
<1> HIDE DEF c, n, W
<1>4. i \in 1..n
  BY <1>1, <1>3
<1>5. \A j \in 1..i : s[j] \in S /\ c(s[j]) = j - 1
  BY <1>1, <1>4
<1>6. \A r \in S : c(r) + 1 <= i => c(r) + 1 \in 1..i /\ s[c(r) + 1] = r
  BY <1>1
<1>7. ASSUME NEW j \in P PROVE s[j] \in W \cup {w}
  <2>1. j \in 1..i /\ s[j].trace \notin Z
    OBVIOUS
  <2>2. CASE j = i
    <3>1. s[i] = w
      BY <1>3, <1>4, <1>6
    <3>2. QED
      BY <2>2, <3>1
  <2>3. CASE j # i
    <3>1. c(s[j]) < c(w) /\ s[j] \in S
      BY <1>1, <1>3, <1>5, <2>1, <2>3
    <3>2. s[j].start > w.start
      BY <1>1, <3>1
    <3>3. QED
      BY <1>2, <2>1, <3>1, <3>2
  <2>4. QED
    BY <2>2, <2>3
<1>8. ASSUME NEW q \in W \cup {w} PROVE \E j \in P : s[j] = q
  <2>1. q \in S /\ q.trace \notin Z
    BY <1>2
  <2>2. c(q) <= c(w) /\ c(q) \in Nat
    <3>1. CASE q = w
      BY <1>1, <3>1
    <3>2. CASE q \in W
      <4>1. c(q) < c(w)
        BY <1>1, <1>2, <3>2
      <4>2. QED
        BY <1>1, <2>1, <4>1
    <3>3. QED
      BY <3>1, <3>2
  <2>3. c(q) + 1 \in 1..i /\ s[c(q) + 1] = q
    BY <1>3, <1>6, <2>1, <2>2, <1>1
  <2>4. QED
    BY <2>1, <2>3
<1>9. \A j, k \in P : s[j] = s[k] => j = k
  <2> SUFFICES ASSUME NEW j \in P, NEW k \in P, s[j] = s[k] PROVE j = k
    OBVIOUS
  <2>1. c(s[j]) = j - 1 /\ c(s[k]) = k - 1 /\ j \in Int /\ k \in Int
    BY <1>5
  <2>2. QED
    BY <2>1
<1>10. IsFiniteSet(P)
  <2>1. P \in SUBSET (1..i)
    OBVIOUS
  <2>2. IsFiniteSet(1..i)
    BY UpTo
  <2>3. QED
    BY <2>1, <2>2, FS_Subset
<1> HIDE DEF P
<1>11. f \in Bijection(P, W \cup {w})
  <2>1. f \in [P -> W \cup {w}] /\ \A j \in P : f[j] = s[j]
    BY <1>7
  <2> HIDE DEF f
  <2>2. f \in Injection(P, W \cup {w})
    BY <1>9, <2>1 DEF Injection, IsInjective
  <2>3. f \in Surjection(P, W \cup {w})
    BY <1>8, <2>1 DEF Surjection
  <2>4. QED
    BY <2>2, <2>3 DEF Bijection
<1>12. Cardinality(W \cup {w}) = Cardinality(P)
  <2>1. ExistsBijection(P, W \cup {w})
    BY <1>11 DEF ExistsBijection
  <2>2. QED
    BY <1>10, <2>1, FS_Bijection
<1>13. Cardinality(W \cup {w}) = Cardinality(W) + 1
  <2>1. IsFiniteSet(W)
    BY <1>2, FS_Subset DEF Dated
  <2>2. QED
    BY <1>2, <2>1, FS_AddElement
<1>14. QED
  BY <1>12, <1>13 DEF P, W

\* A trace of one day is in its day's answer, if the traces before it leave room.
LEMMA WholeAsked ==
  ASSUME NEW days, Parts(days), NEW m \in Nat,
         NEW w \in Summaries(All(days)), w.trace \notin Spanning(days),
         Cardinality(WholeNewer(Summaries(All(days)), Spanning(days), w))
           + Cardinality(Spanning(days)) < m
  PROVE  w \in Asked(days, m)
<1> DEFINE Z == Spanning(days)
           M == Summaries(All(days))
<1>1. PICK d \in DOMAIN days : w \in Summaries(days[d])
  BY WholeSummaries
<1> DEFINE D == Summaries(days[d])
<1>2. Dated(D) /\ \A r, q \in D : r.trace = q.trace => r = q
  BY SummedDated, SummariesDated
<1>3. Dated(M) /\ \A r, q \in M : r.trace = q.trace => r = q
  BY SummariesDated DEF Parts
<1>4. IsFiniteSet(Z) /\ Cardinality(Z) \in Nat
  BY SpanningFinite
<1>5. \A q \in D : q.trace \notin Z => q \in M
  BY WholeSummaries DEF Summed
<1> HIDE DEF Z, M, D
<1>6. WholeNewer(D, Z, w) \in SUBSET WholeNewer(M, Z, w)
  BY <1>5 DEF WholeNewer
<1>7. /\ Cardinality(Newer(D, w)) <= Cardinality(WholeNewer(D, Z, w)) + Cardinality(Z)
      /\ Cardinality(WholeNewer(D, Z, w)) \in Nat
  BY <1>1, <1>2, <1>4, CostOfTraces DEF D
<1>8. IsFiniteSet(WholeNewer(M, Z, w)) /\ Cardinality(WholeNewer(M, Z, w)) \in Nat
  BY <1>3, <1>4, CostOfTraces DEF M
<1>9. Cardinality(WholeNewer(D, Z, w)) <= Cardinality(WholeNewer(M, Z, w))
  BY <1>6, <1>8, FS_Subset
<1>10. Cardinality(Newer(D, w)) \in Nat
  BY <1>1, <1>2, NewerRanks DEF D
<1>11. Cardinality(WholeNewer(M, Z, w)) + Cardinality(Z) < m
  BY DEF M, Z
<1>12. Cardinality(Newer(D, w)) < m
  BY <1>4, <1>7, <1>8, <1>9, <1>10, <1>11
<1>13. w \in Top(D, m)
  BY <1>1, <1>12 DEF Top, D
<1>14. QED
  BY <1>13 DEF Asked, D

\* The rows QueryTraces merges.
LEMMA TracesOfParts ==
  ASSUME NEW days, Parts(days), NEW limit \in Nat, NEW from \in Nat
  PROVE  QueryTraces(days, limit, from) = Cut(Newest(Merged(Asked(days, limit + from))), limit, from)
<1>1. ASSUME NEW d \in DOMAIN days
      PROVE  Rows(DayTraces(days[d], limit, from)) = Top(Summaries(days[d]), limit + from)
  <2>1. Dated(Summaries(days[d]))
    BY SummedDated, SummariesDated
  <2>2. limit + from \in Nat
    OBVIOUS
  <2>3. QED
    BY <2>1, <2>2, RowsOfLimited DEF DayTraces
<1>2. UNION {Rows(DayTraces(days[d], limit, from)) : d \in DOMAIN days} = Asked(days, limit + from)
  BY <1>1 DEF Asked
<1>3. QED
  BY <1>2 DEF QueryTraces

\* QueryTraces answers as one database would, but for what a trace over several
\* days costs.
THEOREM TracesMerged ==
  ASSUME NEW days, Parts(days), NEW limit \in Nat, NEW from \in Nat
  PROVE  PageExact(days, limit, from)
<1> DEFINE Z == Spanning(days)
           M == Summaries(All(days))
           m == limit + from
           A == Asked(days, m)
           R == Merged(A)
           answer == AllTraces(days)
           result == QueryTraces(days, m, 0)
           Whole(s, upto) == {i \in 1..upto : s[i].trace \notin Z}
<1>1. m \in Nat /\ m + 0 = m /\ 0 + m = m
  OBVIOUS
<1>2. Dated(M) /\ \A r, q \in M : r.trace = q.trace => r = q
  BY SummariesDated DEF Parts
<1>3. IsFiniteSet(Z) /\ Cardinality(Z) \in Nat
  BY SpanningFinite
<1>4. /\ A \subseteq Summed(days) /\ Dated(A) /\ Dated(R)
      /\ \A p, q \in R : p.trace = q.trace => p = q
      /\ \A r : r.trace \notin Z => (r \in R <=> r \in A)
      /\ \A p \in R : \E r \in A : r.trace = p.trace
  BY <1>1, AskedMerged
<1>5. \A r \in Summed(days) : r.trace \notin Z => r \in M
  BY WholeSummaries
<1>6. \A w \in M : /\ w.trace \notin Z
                   /\ Cardinality(WholeNewer(M, Z, w)) + Cardinality(Z) < m
                   => w \in A
  BY <1>1, WholeAsked
<1>7. result = Cut(Newest(R), m, 0)
  <2>1. 0 \in Nat
    OBVIOUS
  <2>2. result = Cut(Newest(Merged(Asked(days, m + 0))), m, 0)
    BY <1>1, <2>1, TracesOfParts
  <2>3. QED
    BY <1>1, <2>2
<1>8. answer = Newest(M)
  BY DEF AllTraces
<1>9. QueryTraces(days, limit, from) = Cut(Newest(R), limit, from)
  BY TracesOfParts
<1>10. Z = {} => M \subseteq Summed(days)
  BY WholeSummaries DEF Summed
<1>11. \A d \in DOMAIN days : Summaries(days[d]) \subseteq Summed(days)
  BY DEF Summed
<1>12. A = UNION {Top(Summaries(days[d]), m) : d \in DOMAIN days}
  BY DEF Asked
<1> HIDE DEF Z, M, A, R, m, answer, result
<1>13. ASSUME NEW i \in Whole(answer, Len(answer)),
              Cardinality(Whole(answer, i)) + Cardinality(Z) <= m
       PROVE  \E k \in Whole(result, Len(result)) :
                /\ result[k] = answer[i]
                /\ Cardinality(Whole(result, k)) = Cardinality(Whole(answer, i))
  <2> DEFINE w == answer[i]
             k == Cardinality(Newer(R, w)) + 1
             n == Cardinality(WholeNewer(M, Z, w))
  <2>1. /\ Len(answer) = Cardinality(M) /\ Len(answer) \in Nat
        /\ \A j \in 1..Len(answer) : answer[j] \in M /\ Cardinality(Newer(M, answer[j])) = j - 1
    BY <1>2, <1>8, NewestByRank, NewerRanks
  <2>2. i \in 1..Len(answer) /\ w.trace \notin Z
    OBVIOUS
  <2>3. i \in Nat /\ w \in M /\ i = Cardinality(Newer(M, w)) + 1
    BY <2>1, <2>2
  <2>4. \A j \in 1..i : answer[j] = Newest(M)[j]
    BY <1>8
  <2> HIDE DEF w
  <2>5. Cardinality(Whole(answer, i)) = n + 1
    BY <1>2, <2>2, <2>3, <2>4, WholePlaces
  <2>6. n \in Nat /\ IsFiniteSet(WholeNewer(M, Z, w))
    BY <1>2, <1>3, <2>3, CostOfTraces
  <2> HIDE DEF n
  <2>7. n + Cardinality(Z) < m
    BY <1>1, <1>3, <1>13, <2>5, <2>6
  <2>8. w \in R
    BY <1>4, <1>6, <2>2, <2>3, <2>7 DEF n
  <2>9. WholeNewer(R, Z, w) = WholeNewer(M, Z, w)
    <3>1. ASSUME NEW q \in WholeNewer(R, Z, w) PROVE q \in WholeNewer(M, Z, w)
      <4>1. q \in R /\ q.start > w.start /\ q.trace \notin Z
        BY DEF WholeNewer
      <4>2. q \in M
        BY <1>4, <1>5, <4>1
      <4>3. QED
        BY <4>1, <4>2 DEF WholeNewer
    <3>2. ASSUME NEW q \in WholeNewer(M, Z, w) PROVE q \in WholeNewer(R, Z, w)
      <4>1. q \in M /\ q.start > w.start /\ q.trace \notin Z
        BY DEF WholeNewer
      <4>2. WholeNewer(M, Z, q) \in SUBSET WholeNewer(M, Z, w)
        <5>1. \A x, y, z \in M : x.start > y.start /\ y.start > z.start => x.start > z.start
          BY <1>2 DEF Dated
        <5>2. QED
          BY <2>3, <4>1, <5>1 DEF WholeNewer
      <4>3. Cardinality(WholeNewer(M, Z, q)) <= n
        BY <2>6, <4>2, FS_Subset DEF n
      <4>4. Cardinality(WholeNewer(M, Z, q)) \in Nat
        BY <1>2, <1>3, <4>1, CostOfTraces
      <4>5. Cardinality(WholeNewer(M, Z, q)) + Cardinality(Z) < m
        BY <1>1, <1>3, <2>6, <2>7, <4>3, <4>4
      <4>6. q \in R
        BY <1>4, <1>6, <4>1, <4>5
      <4>7. QED
        BY <4>1, <4>6 DEF WholeNewer
    <3>3. QED
      BY <3>1, <3>2
  <2>10. /\ Cardinality(Newer(R, w)) <= n + Cardinality(Z)
         /\ Cardinality(Newer(R, w)) \in 0..Cardinality(R) - 1
         /\ Cardinality(R) \in Nat
    BY <1>3, <1>4, <2>8, <2>9, CostOfTraces, NewerRanks DEF n
  <2>11. /\ Newest(R) \in Seq(R) /\ Len(Newest(R)) = Cardinality(R)
         /\ Newest(R)[k] = w
    BY <1>4, <2>8, NewestByRank
  <2>12. k \in Nat /\ k \in 1..Cardinality(R) /\ k <= m
    BY <1>1, <1>3, <2>6, <2>7, <2>10
  <2>13. /\ Len(result) = IF Cardinality(R) <= 0 THEN 0
                          ELSE IF Cardinality(R) - 0 <= m THEN Cardinality(R) - 0 ELSE m
         /\ \A j \in 1..Len(result) : result[j] = Newest(R)[0 + j]
    <3>1. /\ Len(Cut(Newest(R), m, 0)) =
               IF Len(Newest(R)) <= 0 THEN 0
               ELSE IF Len(Newest(R)) - 0 <= m THEN Len(Newest(R)) - 0 ELSE m
          /\ \A j \in 1..Len(Cut(Newest(R), m, 0)) : Cut(Newest(R), m, 0)[j] = Newest(R)[0 + j]
      <4>1. 0 \in Nat
        OBVIOUS
      <4>2. QED
        BY <1>1, <2>11, <4>1, CutElements
    <3>2. QED
      BY <1>7, <2>11, <3>1
  <2>14. k = Cardinality(Newer(R, w)) + 1
    OBVIOUS
  <2> HIDE DEF k
  <2>15. k \in 1..Len(result) /\ Len(result) \in Nat
    BY <1>1, <2>10, <2>12, <2>13
  <2>16. \A j \in 1..k : result[j] = Newest(R)[j]
    BY <2>13, <2>15
  <2>17. result[k] = w
    BY <2>11, <2>12, <2>16
  <2>18. Cardinality(Whole(result, k)) = Cardinality(WholeNewer(R, Z, w)) + 1
    BY <1>4, <2>2, <2>8, <2>12, <2>14, <2>16, WholePlaces
  <2>19. k \in Whole(result, Len(result))
    BY <2>2, <2>15, <2>17
  <2>20. Cardinality(Whole(result, k)) = Cardinality(Whole(answer, i))
    BY <2>5, <2>9, <2>18 DEF n
  <2>21. result[k] = answer[i]
    BY <2>17 DEF w
  <2>22. QED
    BY <2>19, <2>20, <2>21
<1>14. ASSUME Z = {}
       PROVE  QueryTraces(days, limit, from) = Cut(answer, limit, from)
  <2>1. R = A
    BY <1>4, <1>14
  <2>2. A \in SUBSET M
    BY <1>4, <1>5, <1>14
  <2>3. Top(M, m) \subseteq A
    <3> SUFFICES ASSUME NEW r \in Top(M, m) PROVE r \in A
      OBVIOUS
    <3>1. r \in M
      BY DEF Top
    <3>2. PICK d \in DOMAIN days : r \in Summaries(days[d])
      BY <1>10, <1>14, <3>1 DEF Summed
    <3>3. Summaries(days[d]) \in SUBSET M
      BY <1>5, <1>11, <1>14
    <3>4. r \in Top(Summaries(days[d]), m)
      BY <1>1, <1>2, <3>2, <3>3, PartsSuffice
    <3>5. QED
      BY <1>12, <3>4
  <2>4. Cut(Newest(A), limit, from) = Cut(Newest(M), limit, from)
    BY <1>2, <2>2, <2>3, CutDecided DEF m
  <2>5. QED
    BY <1>8, <1>9, <2>1, <2>4
<1>15. QED
  BY <1>13, <1>14 DEF PageExact, Z, m, answer, result

-----------------------------------------------------------------------------
(* Layouts *)

\* The spans of a layout are on one day each, and no two start at the same time.
LEMMA LayoutsAreParts ==
  ASSUME NEW days \in Layouts
  PROVE  Parts(days)
<1>1. PICK f \in [Slot -> 0..4] : days = Layout(f)
  BY DEF Layouts
<1> DEFINE At(d) == {j \in 3 * d - 2..3 * d : f[j] # 0}
           Span(i) == [trace |-> f[i], start |-> i]
<1>2. DOMAIN days = 1..2 /\ \A d \in 1..2 : days[d] = {Span(i) : i \in At(d)}
  BY <1>1 DEF Layout
<1>3. \A d \in 1..2 : At(d) \in SUBSET Slot
  BY DEF Slot
<1>4. \A i, j : Span(i) = Span(j) <=> i = j
  OBVIOUS
<1>5. \A i : Span(i).start = i
  OBVIOUS
<1>6. \A d, e \in 1..2 : d # e => At(d) \cap At(e) = {}
  OBVIOUS
<1> HIDE DEF At, Span
<1>7. All(days) \in SUBSET {Span(i) : i \in Slot}
  BY <1>2, <1>3 DEF All
<1>8. IsFiniteSet({Span(i) : i \in Slot})
  <2> DEFINE T == {Span(i) : i \in Slot}
             g == [i \in Slot |-> Span(i)]
  <2>1. g \in Surjection(Slot, T)
    BY DEF Surjection
  <2>2. IsFiniteSet(Slot)
    BY UpTo DEF Slot
  <2> HIDE DEF g, T
  <2>3. IsFiniteSet(T)
    BY <2>1, <2>2, FS_Surjection
  <2>4. QED
    BY <2>3 DEF T
<1>9. Dated({Span(i) : i \in Slot})
  BY <1>4, <1>5, <1>8 DEF Dated, Slot
<1>10. Dated(All(days))
  BY <1>7, <1>9, DatedSubset
<1>11. \A d, e \in 1..2 : d # e => days[d] \cap days[e] = {}
  BY <1>2, <1>4, <1>6
<1>12. IsFiniteSet(1..2)
  BY UpTo
<1>13. QED
  BY <1>2, <1>10, <1>11, <1>12 DEF Parts

-----------------------------------------------------------------------------
(* Theorems *)

\* The page's state keeps its types, and no request is from the future.
THEOREM TracesTypeCorrect == Spec => []TypeOK
<1>1. IInv => TypeOK
  BY DEF IInv
<1>2. QED
  BY <1>1, AlwaysIInv, PTL

\* Whatever lands in whatever order, a page is never asked for twice at a time,
\* loadingMore is set exactly while one is awaited, and no spinner turns without a
\* fetch (loadMore, fetchTraces and their finally blocks).
THEOREM TracesFlagsSound == Spec => []FlagsSound
<1>1. IInv => FlagsSound
  BY DEF IInv
<1>2. QED
  BY <1>1, AlwaysIInv, PTL

\* As long as nothing has crossed the paging, the list is the first part of the
\* server's answer, without a gap or a repetition, and all of it when hasMore is
\* false: for every page size, every number of pages and every filter.
THEOREM TracesPagesExact == Spec => []PagesExact
<1>1. IInv => PagesExact
  BY DEF IInv
<1>2. QED
  BY <1>1, AlwaysIInv, PTL

\* Whatever the list and whatever the user clicked, the rows are in the chosen order,
\* the most serious status first, none is lost, and traces of equal rank stay in the
\* order of the list (sortedTraces).
THEOREM TracesSortedView == Spec => []SortedView
<1>1. TypeOK => SortedView
  BY RowsSorted
<1>2. QED
  BY <1>1, TracesTypeCorrect, PTL

\* Whatever page the list asks for, QueryTraces and QueryLogs, which merge the
\* partitions' answers in memory, give what one database would give, in every layout
\* of the model; TracesMerged and LogsMerged say it of any days.
THEOREM TracesMergeExact == Spec => []MergeExact
<1>1. \A from \in Offsets : from \in Nat
  <2>1. \A k \in 0..MaxTraces : PAGE_SIZE * k \in Nat
    BY TracesAssumption
  <2>2. QED
    BY <2>1 DEF Offsets
<1>2. ASSUME NEW from \in Offsets, NEW days \in Layouts
      PROVE  PageExact(days, PAGE_SIZE, from) /\ LogsExact(days, PAGE_SIZE, from)
  <2>1. Parts(days) /\ Dated(All(days))
    BY LayoutsAreParts DEF Parts
  <2>2. PAGE_SIZE \in Nat /\ from \in Nat
    BY <1>1, TracesAssumption
  <2>3. PageExact(days, PAGE_SIZE, from)
    BY <2>1, <2>2, TracesMerged
  <2>4. LogsExact(days, PAGE_SIZE, from)
    BY <2>1, <2>2, LogsMerged
  <2>5. QED
    BY <2>3, <2>4
<1>3. ExactEverywhere
  BY <1>2 DEF ExactEverywhere
<1>4. OffsetsArePages => MergeExact
  BY <1>3 DEF OffsetsArePages, MergeExact
<1>5. QED
  BY <1>4, AlwaysOffsets, PTL

=============================================================================
