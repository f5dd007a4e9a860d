----------------------------- MODULE LogsProofs -----------------------------
(***************************************************************************)
(* Proofs about Logs, for any services and logs, any capacity of the list, *)
(* of the pause buffer and of an answer, and any number of actions,        *)
(* requests and messages on their way.                                     *)
(***************************************************************************)
EXTENDS Logs, SequenceTheorems, WellFoundedInduction, TLAPS

-----------------------------------------------------------------------------
(* Sequences *)

\* The least element of a set of naturals.
LEMMA LeastNat ==
  ASSUME NEW S \in SUBSET Nat, S # {}
  PROVE  \E m \in S : \A n \in S : m <= n
<1>1. PICK m \in S : \A n \in S : ~(<<n, m>> \in OpToRel(<, Nat))
  BY NatLessThanWellFounded, WFMin
<1>2. \A n \in S : ~(n < m)
  BY <1>1 DEF OpToRel
<1>3. QED
  BY <1>2

\* A sequence of one element.
LEMMA RangeOfOne ==
  ASSUME NEW S, NEW x \in S
  PROVE  <<x>> \in Seq(S) /\ Len(<<x>>) = 1 /\ <<x>>[1] = x /\ Range(<<x>>) = {x}
<1>1. <<x>> \in Seq(S) /\ Len(<<x>>) = 1 /\ <<x>>[1] = x
  OBVIOUS
<1>2. Range(<<x>>) = {x}
  BY DEF Range
<1>3. QED
  BY <1>1, <1>2

\* Nothing is in the empty sequence.
LEMMA RangeOfEmpty == Range(<<>>) = {}
  BY DEF Range

\* One element more.
LEMMA RangeOfAppend ==
  \A S : \A s \in Seq(S), x \in S :
    Append(s, x) \in Seq(S) /\ Range(Append(s, x)) = Range(s) \union {x}
<1> TAKE S
<1> TAKE s \in Seq(S), x \in S
<1> DEFINE one == <<x>>
<1>1. one \in Seq(S) /\ Range(one) = {x}
  BY RangeOfOne
<1>2. Append(s, x) = s \o one
  BY AppendIsConcat
<1> HIDE DEF one
<1>3. s \o one \in Seq(S) /\ Range(s \o one) = Range(s) \union Range(one)
  BY <1>1, ConcatProperties, RangeConcatenation
<1>4. QED
  BY <1>1, <1>2, <1>3

\* What is in a sequence is in its reverse.
LEMMA RangeOfReverse ==
  ASSUME NEW S, NEW s \in Seq(S)
  PROVE  Reverse(s) \in Seq(S) /\ Len(Reverse(s)) = Len(s) /\ Range(Reverse(s)) = Range(s)
<1> DEFINE n == Len(s)
           r == [i \in 1..n |-> s[(n - i) + 1]]
<1>1. n \in Nat /\ Range(s) = {s[i] : i \in 1..n}
  BY LenProperties, RangeEquality
<1>2. \A i \in 1..n : (n - i) + 1 \in 1..n /\ (n - ((n - i) + 1)) + 1 = i
  BY <1>1
<1>3. r \in [1..n -> S]
  BY <1>2, ElementOfSeq
<1>4. r \in Seq(S)
  BY <1>1, <1>3, SeqDef
<1>5. Len(r) = n
  BY <1>1, <1>3, <1>4, LenProperties
<1>6. Range(r) = {r[i] : i \in 1..n}
  BY <1>4, <1>5, RangeEquality
<1>7. \A i \in 1..n : r[i] = s[(n - i) + 1] /\ r[(n - i) + 1] = s[i]
  BY <1>2
<1> HIDE DEF r
<1>8. Range(r) = Range(s)
  BY <1>1, <1>2, <1>6, <1>7
<1>9. Reverse(s) = r
  BY DEF Reverse, r
<1>10. QED
  BY <1>4, <1>5, <1>8, <1>9

\* The smaller of two numbers.
LEMMA MinOfTwo ==
  ASSUME NEW a \in Nat, NEW b \in Nat
  PROVE  Min({a, b}) = IF a <= b THEN a ELSE b
  BY DEF Min

-----------------------------------------------------------------------------
(* What the server answers *)

\* The first element of an answer to 1..n, if it is one.
Hit(query, n) == IF Matches(query, n) THEN <<n>> ELSE <<>>

\* The function Matching defines by recursion.
Solves(query, k, g) ==
  g = [n \in 0..k |-> IF n = 0 THEN <<>> ELSE Hit(query, n) \o g[n - 1]]

\* There is one, for every number of logs: there is no least number without one.
LEMMA SolutionExists ==
  ASSUME NEW query, NEW count \in Nat
  PROVE  \E g : Solves(query, count, g)
<1> DEFINE Bad == {k \in Nat : ~\E g : Solves(query, k, g)}
<1>1. SUFFICES ASSUME Bad # {} PROVE FALSE
  OBVIOUS
<1>2. PICK k \in Bad : \A m \in Bad : k <= m
  BY <1>1, LeastNat
<1>3. k \in Nat /\ ~\E g : Solves(query, k, g)
  BY <1>2
<1>4. CASE k = 0
  <2> DEFINE g == [n \in 0..0 |-> <<>>]
  <2>1. Solves(query, 0, g)
    BY DEF Solves
  <2>2. QED
    BY <1>3, <1>4, <2>1
<1>5. CASE k # 0
  <2>1. k - 1 \in Nat /\ k - 1 \notin Bad
    BY <1>2, <1>3, <1>5
  <2>2. PICK g : Solves(query, k - 1, g)
    BY <2>1
  <2> DEFINE h == [n \in 0..k |-> IF n = k THEN Hit(query, k) \o g[k - 1] ELSE g[n]]
  <2>3. \A n \in 0..k - 1 : g[n] = IF n = 0 THEN <<>> ELSE Hit(query, n) \o g[n - 1]
    BY <2>2 DEF Solves
  <2>4. ASSUME NEW n \in 0..k
        PROVE  h[n] = IF n = 0 THEN <<>> ELSE Hit(query, n) \o h[n - 1]
    <3>1. CASE n = k
      <4>1. k - 1 \in 0..k /\ k - 1 # k
        BY <1>3, <2>1
      <4>2. h[k - 1] = g[k - 1] /\ h[k] = Hit(query, k) \o g[k - 1]
        BY <1>3, <4>1
      <4>3. QED
        BY <1>5, <3>1, <4>2
    <3>2. CASE n # k
      <4>1. n \in 0..k - 1 /\ h[n] = g[n]
        BY <1>3, <3>2
      <4>2. CASE n = 0
        BY <2>3, <4>1, <4>2
      <4>3. CASE n # 0
        <5>1. n - 1 \in 0..k /\ n - 1 # k
          BY <1>3, <4>1, <4>3
        <5>2. h[n - 1] = g[n - 1]
          BY <5>1
        <5>3. g[n] = Hit(query, n) \o g[n - 1]
          BY <2>3, <4>1, <4>3
        <5>4. QED
          BY <4>1, <4>3, <5>2, <5>3
      <4>4. QED
        BY <4>2, <4>3
    <3>3. QED
      BY <3>1, <3>2
  <2>5. h = [n \in 0..k |-> h[n]]
    OBVIOUS
  <2> HIDE DEF h
  <2>6. Solves(query, k, h)
    BY <2>4, <2>5 DEF Solves
  <2>7. QED
    BY <1>3, <2>6
<1>6. QED
  BY <1>4, <1>5

\* The first n logs that match, newest first.
NewestMatches(query, n, s) ==
  /\ s \in Seq(1..n)
  /\ Range(s) = {m \in 1..n : Matches(query, m)}
  /\ \A i, j \in 1..Len(s) : i < j => s[i] > s[j]

\* One log more.
LEMMA OneMoreLog ==
  ASSUME NEW query, NEW n \in Nat \ {0}, NEW s, NewestMatches(query, n - 1, s)
  PROVE  NewestMatches(query, n, Hit(query, n) \o s)
<1>1. s \in Seq(1..n - 1) /\ Len(s) \in Nat
  BY LenProperties DEF NewestMatches
<1>2. 1..n = 1..(n - 1) \union {n} /\ n \notin 1..(n - 1)
  OBVIOUS
<1>3. s \in Seq(1..n)
  <2>1. \A i \in 1..Len(s) : s[i] \in 1..n - 1
    BY <1>1, ElementOfSeq
  <2>2. s \in [1..Len(s) -> 1..n]
    BY <1>1, <1>2, <2>1, LenProperties
  <2>3. QED
    BY <1>1, <2>2, SeqDef
<1>4. Range(s) = {m \in 1..n - 1 : Matches(query, m)}
  BY DEF NewestMatches
<1>5. CASE Matches(query, n)
  <2>1. Hit(query, n) = <<n>>
    BY <1>5 DEF Hit
  <2>2. /\ <<n>> \in Seq(1..n) /\ Len(<<n>>) = 1 /\ <<n>>[1] = n /\ Range(<<n>>) = {n}
    BY <1>2, RangeOfOne
  <2>3. /\ <<n>> \o s \in Seq(1..n) /\ Range(<<n>> \o s) = {n} \union Range(s)
    <3> DEFINE T == 1..n
               one == <<n>>
    <3>1. s \in Seq(T) /\ one \in Seq(T) /\ Range(one) = {n}
      BY <1>3, <2>2
    <3> HIDE DEF T, one
    <3>2. one \o s \in Seq(T) /\ Range(one \o s) = {n} \union Range(s)
      BY <3>1, ConcatProperties, RangeConcatenation
    <3>3. QED
      BY <3>2 DEF T, one
  <2>4. /\ Len(<<n>> \o s) = 1 + Len(s)
        /\ \A i \in 1..1 + Len(s) :
             (<<n>> \o s)[i] = IF i <= 1 THEN <<n>>[i] ELSE s[i - 1]
    BY <1>3, <2>2, ConcatProperties
  <2>5. {n} \union Range(s) = {m \in 1..n : Matches(query, m)}
    BY <1>2, <1>4, <1>5
  <2>6. ASSUME NEW i \in 1..Len(<<n>> \o s), NEW j \in 1..Len(<<n>> \o s), i < j
        PROVE  (<<n>> \o s)[i] > (<<n>> \o s)[j]
    <3>1. j - 1 \in 1..Len(s) /\ (<<n>> \o s)[j] = s[j - 1] /\ i \in 1..1 + Len(s)
      BY <1>1, <2>4, <2>6
    <3>2. s[j - 1] \in 1..n - 1
      BY <1>1, <3>1, ElementOfSeq
    <3>3. CASE i = 1
      BY <1>1, <2>2, <2>4, <3>1, <3>2, <3>3
    <3>4. CASE i # 1
      <4>1. i - 1 \in 1..Len(s) /\ i - 1 < j - 1 /\ (<<n>> \o s)[i] = s[i - 1]
        BY <1>1, <2>4, <2>6, <3>1, <3>4
      <4>2. s[i - 1] > s[j - 1]
        BY <3>1, <4>1 DEF NewestMatches
      <4>3. QED
        BY <3>1, <4>1, <4>2
    <3>5. QED
      BY <3>3, <3>4
  <2>7. QED
    BY <2>1, <2>3, <2>5, <2>6 DEF NewestMatches
<1>6. CASE ~Matches(query, n)
  <2>1. Hit(query, n) \o s = s
    BY <1>3, <1>6, ConcatEmptySeq DEF Hit
  <2>2. {m \in 1..n - 1 : Matches(query, m)} = {m \in 1..n : Matches(query, m)}
    BY <1>2, <1>6
  <2>3. QED
    BY <1>3, <1>4, <2>1, <2>2 DEF NewestMatches
<1>7. QED
  BY <1>5, <1>6

\* All logs that match and no others, newest first and each once, for any number
\* of logs and any query.
LEMMA MatchingExact ==
  ASSUME NEW query, NEW count \in Nat
  PROVE  NewestMatches(query, count, Matching(query, count))
<1> DEFINE g == CHOOSE Newest : Solves(query, count, Newest)
           Bad == {n \in 0..count : ~NewestMatches(query, n, g[n])}
<1>1. Matching(query, count) = g[count]
  BY DEF Matching, Solves, Hit
<1>2. Solves(query, count, g)
  BY SolutionExists
<1>3. \A n \in 0..count : g[n] = IF n = 0 THEN <<>> ELSE Hit(query, n) \o g[n - 1]
  BY <1>2 DEF Solves
<1> HIDE DEF g
<1>4. SUFFICES ASSUME Bad # {} PROVE FALSE
  BY <1>1
<1>5. PICK n \in Bad : \A m \in Bad : n <= m
  <2>1. Bad \in SUBSET Nat
    OBVIOUS
  <2>2. QED
    BY <1>4, <2>1, LeastNat, Zenon
<1>6. n \in 0..count /\ ~NewestMatches(query, n, g[n])
  BY <1>5
<1>7. CASE n = 0
  <2>1. g[0] = <<>> /\ <<>> \in Seq(1..0) /\ Len(<<>>) = 0 /\ 1..0 = {}
    BY <1>3, <1>6, <1>7, EmptySeq
  <2>2. NewestMatches(query, 0, g[0])
    BY <2>1, RangeOfEmpty DEF NewestMatches
  <2>3. QED
    BY <1>6, <1>7, <2>2
<1>8. CASE n # 0
  <2>1. n \in Nat \ {0} /\ n - 1 \in 0..count /\ n - 1 \notin Bad
    BY <1>5, <1>6, <1>8
  <2>2. NewestMatches(query, n - 1, g[n - 1])
    BY <2>1
  <2>3. g[n] = Hit(query, n) \o g[n - 1]
    BY <1>3, <1>6, <1>8
  <2>4. QED
    BY <1>6, <2>1, <2>2, <2>3, OneMoreLog
<1>9. QED
  BY <1>7, <1>8

\* QueryLogs answers with logs that match, newest first and each once, at most LIMIT
\* of them; one that matches is left out only by a full answer of newer ones.
THEOREM AnswerExact ==
  ASSUME NEW query, NEW count \in Nat, NEW answer, answer = Answer(query, count)
  PROVE  /\ answer \in Seq(1..count) /\ Len(answer) <= LIMIT
         /\ \A i \in 1..Len(answer) : Matches(query, answer[i])
         /\ \A i, j \in 1..Len(answer) : i < j => answer[i] > answer[j]
         /\ \A m \in 1..count :
              Matches(query, m) /\ m \notin Range(answer)
                => Len(answer) = LIMIT /\ \A i \in 1..Len(answer) : answer[i] > m
<1> DEFINE found == Matching(query, count)
           n == Min({LIMIT, Len(found)})
<1>1. NewestMatches(query, count, found)
  BY MatchingExact
<1> HIDE DEF found
<1>2. /\ found \in Seq(1..count) /\ Len(found) \in Nat
      /\ Range(found) = {m \in 1..count : Matches(query, m)}
      /\ \A i, j \in 1..Len(found) : i < j => found[i] > found[j]
  BY <1>1, LenProperties DEF NewestMatches
<1>3. Range(found) = {found[i] : i \in 1..Len(found)}
  BY <1>2, RangeEquality
<1>4. LIMIT \in Nat /\ n = IF LIMIT <= Len(found) THEN LIMIT ELSE Len(found)
  BY <1>2, LogsAssumption, MinOfTwo
<1> HIDE DEF n
<1>5. n \in Nat /\ n <= LIMIT /\ n <= Len(found) /\ (n < Len(found) => n = LIMIT)
  BY <1>2, <1>4
<1>6. answer = SubSeq(found, 1, n)
  BY DEF Answer, found, n
<1>7. /\ answer \in Seq(1..count) /\ Len(answer) = n
      /\ \A i \in 1..n : answer[i] = found[i] /\ i \in 1..Len(found)
  <2>1. \A i \in 1..n : i \in 1..Len(found)
    BY <1>2, <1>5
  <2>2. \A i \in 1..n : found[i] \in 1..count
    BY <1>2, <2>1, ElementOfSeq
  <2>3. /\ answer \in Seq(1..count) /\ Len(answer) = n
        /\ \A i \in 1..n : answer[i] = found[i]
    BY <1>5, <1>6, <2>2, SubSeqProperties
  <2>4. QED
    BY <2>1, <2>3
<1>8. \A i \in 1..n : Matches(query, answer[i])
  BY <1>2, <1>3, <1>7
<1>9. \A i, j \in 1..n : i < j => answer[i] > answer[j]
  BY <1>2, <1>7
<1>10. ASSUME NEW m \in 1..count, Matches(query, m), m \notin Range(answer)
       PROVE  n = LIMIT /\ \A i \in 1..n : answer[i] > m
  <2>1. PICK k \in 1..Len(found) : found[k] = m
    BY <1>2, <1>3, <1>10
  <2>2. Range(answer) = {answer[i] : i \in 1..n}
    BY <1>7, RangeEquality
  <2>3. k \notin 1..n
    BY <1>7, <1>10, <2>1, <2>2
  <2>4. n < k /\ n < Len(found)
    BY <1>2, <1>5, <2>3
  <2>5. ASSUME NEW i \in 1..n PROVE answer[i] > m
    <3>1. i \in 1..Len(found) /\ answer[i] = found[i] /\ i < k
      BY <1>5, <1>7, <2>4
    <3>2. QED
      BY <1>2, <2>1, <3>1
  <2>6. QED
    BY <1>5, <2>4, <2>5
<1>11. QED
  BY <1>5, <1>7, <1>8, <1>9, <1>10

-----------------------------------------------------------------------------
(* Types *)

Queries == [service : Service, body : Body, trace : Trace]

Request == [query : Queries, background : BOOLEAN, since : 0..stored]

FormOK ==
  /\ url \in Trace /\ captured \in Trace /\ same \in BOOLEAN
  /\ service \in Service /\ body \in Body /\ streaming \in BOOLEAN

ListOK ==
  /\ logs \in Seq(1..stored)
  /\ error \in BOOLEAN /\ loading \in BOOLEAN /\ refreshing \in BOOLEAN
  /\ flights \in Seq(Request)

LinkOK ==
  /\ status \in TheLink!Status
  /\ wire \in Seq(Service \union {None})
  /\ sub \in Service \union {None}
  /\ inbox \in Seq(1..stored)
  /\ tracked \in BOOLEAN

ServerOK ==
  /\ stored \in 0..Len(Log)
  /\ fresh \in SUBSET (1..stored)
  /\ passed \in SUBSET (1..stored)
  /\ due \in SUBSET (1..stored)
  /\ acts \in Nat /\ calm \in BOOLEAN

PauseOK ==
  /\ paused \in BOOLEAN
  /\ held \in Seq(1..stored)
  /\ spilled \in SUBSET (1..stored)

\* Whatever is shown, on its way, held or due is one of the logs stored, and no
\* request was sent in the future.
TypeOK == FormOK /\ ListOK /\ LinkOK /\ ServerOK /\ PauseOK

\* A server that has lost the client has no subscription and nothing to read.
Linked == status # "connected" => wire = <<>> /\ sub = None

\* Logs are due only to a stream in force, and are of its service.
DueInForce == due # {} => InForce /\ \A n \in due : service \in {"", Log[n].service}

IInv == TypeOK /\ SubscriptionTracks /\ StreamComplete /\ Linked /\ DueInForce

LEMMA LogCount == Len(Log) \in Nat
  BY LogsAssumption

\* A sequence over a set is one over every larger set.
LEMMA WiderSeq ==
  ASSUME NEW S, NEW T, S \subseteq T, NEW s \in Seq(S)
  PROVE  s \in Seq(T)
<1>1. Len(s) \in Nat /\ s \in [1..Len(s) -> S]
  BY LenProperties
<1>2. s \in [1..Len(s) -> T]
  BY <1>1
<1>3. QED
  BY <1>1, <1>2, SeqDef

LEMMA QueryType ==
  ASSUME NEW s \in Service, NEW b \in Body, NEW t \in Trace
  PROVE  Query(s, b, t) \in Queries
  BY DEF Query, Queries

\* Requests are added and flags set, nothing else.
LEMMA FetchType ==
  ASSUME TypeOK, NEW query \in Queries, NEW background \in Seq(BOOLEAN),
         Fetch(query, background), stored' = stored
  PROVE  ListOK'
<1> DEFINE r(i) == [query |-> query, background |-> background[i], since |-> stored]
           new == [i \in DOMAIN background |-> r(i)]
<1>1. Len(background) \in Nat /\ DOMAIN background = 1..Len(background)
  BY LenProperties
<1>2. \A i \in 1..Len(background) : background[i] \in BOOLEAN
  BY ElementOfSeq
<1>3. stored \in 0..stored
  BY LogCount DEF TypeOK, ServerOK
<1>4. \A i \in 1..Len(background) : r(i) \in Request
  BY <1>2, <1>3 DEF Request
<1>5. new \in [1..Len(background) -> Request]
  BY <1>1, <1>4
<1>6. new \in Seq(Request)
  BY <1>1, <1>5, SeqDef
<1>7. flights' = flights \o new /\ UNCHANGED <<logs, error>>
  BY DEF Fetch
<1> HIDE DEF new
<1>8. flights' \in Seq(Request)
  BY <1>6, <1>7, ConcatProperties DEF TypeOK, ListOK
<1>9. Request' = Request
  BY DEF Request
<1>10. loading' \in BOOLEAN /\ refreshing' \in BOOLEAN
  BY DEF Fetch
<1>11. QED
  BY <1>7, <1>8, <1>9, <1>10 DEF TypeOK, ListOK

LEMMA SameList ==
  ASSUME TypeOK, UNCHANGED list, stored' = stored
  PROVE  ListOK'
<1>1. Request' = Request
  BY DEF Request
<1>2. QED
  BY <1>1 DEF TypeOK, ListOK, list

-----------------------------------------------------------------------------
(* Subscriptions *)

\* What is said on an open connection will be the last word there.
LEMMA TellSays ==
  ASSUME TypeOK, Linked, NEW msgs \in Seq(Service \union {None}), msgs # <<>>, Tell(msgs)
  PROVE  /\ wire' \in Seq(Service \union {None})
         /\ tracked' \in BOOLEAN
         /\ status # "connected" => wire' = <<>>
         /\ tracked' => wire' # <<>> /\ Last(wire') = Last(msgs)
<1>1. tracked' = (status = "connected")
  BY DEF Tell
<1>2. CASE status = "connected"
  <2>1. wire' = wire \o msgs
    BY <1>2 DEF Tell
  <2>2. wire \in Seq(Service \union {None}) /\ Len(wire) \in Nat /\ Len(msgs) \in Nat \ {0}
    BY LenProperties, EmptySeq DEF TypeOK, LinkOK
  <2>3. /\ wire' \in Seq(Service \union {None}) /\ Len(wire') = Len(wire) + Len(msgs)
        /\ \A i \in 1..Len(wire) + Len(msgs) :
             wire'[i] = IF i <= Len(wire) THEN wire[i] ELSE msgs[i - Len(wire)]
    BY <2>1, <2>2, ConcatProperties
  <2>4. /\ wire' # <<>>
        /\ Len(wire) + Len(msgs) \in 1..Len(wire) + Len(msgs)
        /\ ~(Len(wire) + Len(msgs) <= Len(wire))
        /\ Len(wire) + Len(msgs) - Len(wire) = Len(msgs)
    BY <2>2, <2>3, EmptySeq
  <2>5. Last(wire') = Last(msgs)
    BY <2>3, <2>4 DEF Last
  <2>6. QED
    BY <1>1, <1>2, <2>3, <2>4, <2>5
<1>3. CASE status # "connected"
  BY <1>1, <1>3 DEF Tell, Linked, TypeOK, LinkOK
<1>4. QED
  BY <1>2, <1>3

\* The messages that are sent, and the last of each.
LEMMA Messages ==
  ASSUME NEW s \in Service
  PROVE  /\ <<None>> \in Seq(Service \union {None}) /\ <<None>> # <<>> /\ Last(<<None>>) = None
         /\ <<None, s>> \in Seq(Service \union {None}) /\ <<None, s>> # <<>>
         /\ Last(<<None, s>>) = s
         /\ <<s, None, s>> \in Seq(Service \union {None}) /\ <<s, None, s>> # <<>>
         /\ Last(<<s, None, s>>) = s
<1>1. Len(<<None>>) = 1 /\ Len(<<None, s>>) = 2 /\ Len(<<s, None, s>>) = 3
  OBVIOUS
<1>2. /\ Last(<<None>>) = None /\ Last(<<None, s>>) = s /\ Last(<<s, None, s>>) = s
  BY <1>1 DEF Last
<1>3. /\ <<None>> \in Seq(Service \union {None})
      /\ <<None, s>> \in Seq(Service \union {None})
      /\ <<s, None, s>> \in Seq(Service \union {None})
  OBVIOUS
<1>4. <<None>> # <<>> /\ <<None, s>> # <<>> /\ <<s, None, s>> # <<>>
  OBVIOUS
<1>5. QED
  BY <1>2, <1>3, <1>4

LEMMA SamePause ==
  ASSUME TypeOK, UNCHANGED pause, stored' = stored
  PROVE  PauseOK'
  BY DEF TypeOK, PauseOK, pause

\* Nothing is said and nothing read.
LEMMA SameWord ==
  ASSUME SubscriptionTracks, UNCHANGED <<wire, sub, service, streaming>>, tracked' => tracked
  PROVE  SubscriptionTracks'
  BY DEF SubscriptionTracks

\* Where nothing is due, nothing is missing.
LEMMA NothingDue ==
  ASSUME due' = {}
  PROVE  StreamComplete' /\ DueInForce'
  BY DEF StreamComplete, DueInForce

-----------------------------------------------------------------------------
(* The invariant *)

LEMMA InitIInv == Init => IInv
<1> SUFFICES ASSUME Init PROVE IInv
  OBVIOUS
<1>1. FormOK
  BY LogsAssumption DEF Init, FormOK
<1>2. stored = 0 /\ due = {} /\ wire = <<>> /\ sub = None /\ ~streaming
  BY DEF Init
<1>3. ListOK
  <2> DEFINE r == [query |-> Query("", "", url), background |-> FALSE, since |-> stored]
  <2>1. r \in Request
    <3>1. Query("", "", url) \in Queries
      BY <1>1, LogsAssumption, QueryType DEF FormOK
    <3>2. stored \in 0..stored
      BY <1>2
    <3>3. QED
      BY <3>1, <3>2 DEF Request
  <2>2. flights = <<r>>
    BY DEF Init
  <2> HIDE DEF r
  <2>3. flights \in Seq(Request)
    BY <2>1, <2>2
  <2>4. logs \in Seq(1..stored)
    BY EmptySeq DEF Init
  <2>5. QED
    BY <2>3, <2>4 DEF Init, ListOK
<1>4. LinkOK
  <2>1. wire \in Seq(Service \union {None}) /\ inbox \in Seq(1..stored)
    BY EmptySeq DEF Init
  <2>2. QED
    BY <2>1 DEF Init, LinkOK, TheLink!Init, TheLink!Status
<1>5. ServerOK
  <2>1. stored \in 0..Len(Log)
    BY <1>2, LogCount
  <2>2. acts \in Nat /\ calm \in BOOLEAN /\ fresh = {} /\ passed = {}
    BY DEF Init
  <2>3. QED
    BY <1>2, <2>1, <2>2 DEF ServerOK
<1>6. SubscriptionTracks /\ Linked /\ StreamComplete /\ DueInForce
  BY <1>2 DEF SubscriptionTracks, Linked, StreamComplete, DueInForce
<1>7. PauseOK
  BY EmptySeq DEF Init, PauseOK
<1>8. QED
  BY <1>1, <1>3, <1>4, <1>5, <1>6, <1>7 DEF IInv, TypeOK

\* Whatever the user does, the last word on this connection is said about what
\* the page then shows.
LEMMA UserKeepsInv ==
  ASSUME IInv,
         \/ ToggleStreaming \/ Search \/ ClearTrace
         \/ \E s \in Service, b \in Body : ChangeForm(s, b)
         \/ \E t \in Trace : GoTo(t) \/ Visit(t)
  PROVE  IInv'
<1> USE DEF IInv
<1>1. /\ url \in Trace /\ captured \in Trace /\ service \in Service /\ body \in Body
      /\ streaming \in BOOLEAN /\ acts \in Nat /\ tracked \in BOOLEAN /\ same \in BOOLEAN
  BY DEF TypeOK, FormOK, LinkOK, ServerOK
<1>2. /\ <<FALSE>> \in Seq(BOOLEAN) /\ <<FALSE, FALSE>> \in Seq(BOOLEAN)
  OBVIOUS
<1>3. \A act : act \in Nat => act + 1 \in Nat
  OBVIOUS
<1>4. ASSUME Did, acts' \in Nat, FormOK', ListOK', SubscriptionTracks',
             wire' \in Seq(Service \union {None}), tracked' \in BOOLEAN,
             status # "connected" => wire' = <<>>,
             held' \in {held, <<>>}
      PROVE  IInv'
  <2>1. due' = {} /\ spilled' = {} /\ UNCHANGED <<status, inbox, sub, server, paused, calm>>
    BY <1>4 DEF Did
  <2>2. LinkOK'
    BY <1>4, <2>1 DEF TypeOK, LinkOK, server
  <2>3. ServerOK'
    BY <1>4, <2>1 DEF TypeOK, ServerOK, server
  <2>4. Linked'
    BY <1>4, <2>1 DEF Linked
  <2>5. PauseOK'
    BY <1>4, <2>1, EmptySeq DEF TypeOK, PauseOK, server
  <2>6. QED
    BY <1>4, <2>1, <2>2, <2>3, <2>4, <2>5, NothingDue DEF TypeOK
<1>5. Act => Did /\ acts' \in Nat
  BY <1>1 DEF Act
<1>6. Did => stored' = stored
  BY DEF Did, server
<1>7. Say => /\ wire' \in Seq(Service \union {None}) /\ tracked' = tracked /\ wire' = wire
             /\ status # "connected" => wire' = <<>>
  BY DEF Say, TypeOK, LinkOK, Linked
<1>8. ASSUME NEW q \in Queries, Fetch(q, <<FALSE>>) \/ Fetch(q, <<FALSE, FALSE>>), Did
      PROVE  ListOK'
  BY <1>2, <1>6, <1>8, FetchType
<1>9. UNCHANGED list /\ Did => ListOK'
  BY <1>6, SameList
<1>10. CASE ToggleStreaming
  <2>1. Did /\ acts' \in Nat
    BY <1>1, <1>5, <1>10 DEF ToggleStreaming
  <2>2. streaming' = ~streaming /\ UNCHANGED <<params, form, held>>
    BY <1>10 DEF ToggleStreaming
  <2>3. FormOK'
    BY <1>1, <2>2 DEF FormOK, params, form
  <2>4. CASE streaming
    <3>1. Tell(<<None>>) /\ Fetch(Query(service, body, captured), <<FALSE>>)
      BY <1>10, <2>4 DEF ToggleStreaming
    <3>2. ListOK'
      BY <1>1, <1>8, <2>1, <3>1, QueryType
    <3>3. /\ wire' \in Seq(Service \union {None}) /\ tracked' \in BOOLEAN
          /\ status # "connected" => wire' = <<>>
          /\ tracked' => wire' # <<>> /\ Last(wire') = None
      BY <1>1, <3>1, TellSays, Messages
    <3>4. SubscriptionTracks'
      BY <2>2, <2>4, <3>3 DEF SubscriptionTracks
    <3>5. QED
      BY <1>4, <2>1, <2>2, <2>3, <3>2, <3>3, <3>4
  <2>5. CASE ~streaming
    <3>1. Tell(<<service, None, service>>) /\ UNCHANGED list
      BY <1>10, <2>5 DEF ToggleStreaming
    <3>2. ListOK'
      BY <1>9, <2>1, <3>1
    <3>3. /\ wire' \in Seq(Service \union {None}) /\ tracked' \in BOOLEAN
          /\ status # "connected" => wire' = <<>>
          /\ tracked' => wire' # <<>> /\ Last(wire') = service
      BY <1>1, <3>1, TellSays, Messages
    <3>4. SubscriptionTracks'
      BY <2>2, <2>5, <3>3 DEF SubscriptionTracks, form
    <3>5. QED
      BY <1>4, <2>1, <2>2, <2>3, <3>2, <3>3, <3>4
  <2>6. QED
    BY <2>4, <2>5
<1>11. CASE Search
  <2>1. /\ Act /\ Fetch(Query(service, body, captured), <<FALSE>>)
        /\ Say /\ UNCHANGED <<params, form, streaming, held>>
    BY <1>11 DEF Search
  <2>2. ListOK'
    BY <1>1, <1>5, <1>8, <2>1, QueryType
  <2>3. FormOK' /\ SubscriptionTracks'
    BY <1>1, <1>5, <1>7, <2>1, SameWord DEF FormOK, params, form, Did
  <2>4. QED
    BY <1>1, <1>4, <1>5, <1>7, <2>1, <2>2, <2>3
<1>12. CASE ClearTrace
  <2>1. /\ Act /\ Say /\ UNCHANGED <<form, streaming, held>>
        /\ url' = "" /\ same' = FALSE /\ captured' = IF same THEN "" ELSE captured
    BY <1>12 DEF ClearTrace
  <2>2. captured' \in Trace /\ url' \in Trace
    BY <1>1, <2>1, LogsAssumption
  <2>3. Query(service, body, captured') \in Queries
    BY <1>1, <2>2, QueryType
  <2>4. \/ Fetch(Query(service, body, captured'), <<FALSE>>)
        \/ Fetch(Query(service, body, captured'), <<FALSE, FALSE>>)
    BY <1>12 DEF ClearTrace
  <2>5. ListOK'
    BY <1>5, <1>8, <2>1, <2>3, <2>4
  <2>6. FormOK' /\ SubscriptionTracks'
    <3>1. FormOK'
      BY <1>1, <2>1, <2>2 DEF FormOK, form
    <3>2. UNCHANGED <<wire, sub, service, streaming, tracked>>
      BY <1>5, <1>7, <2>1 DEF form, Did
    <3>3. QED
      BY <3>1, <3>2, SameWord
  <2>7. QED
    BY <1>1, <1>4, <1>5, <1>7, <2>1, <2>5, <2>6
<1>13. ASSUME NEW s \in Service, NEW b \in Body, ChangeForm(s, b) PROVE IInv'
  <2>1. /\ Act /\ service' = s /\ body' = b /\ captured' = url /\ same' = TRUE
        /\ UNCHANGED <<url, streaming, held>>
    BY <1>13 DEF ChangeForm
  <2>2. FormOK'
    BY <1>1, <2>1 DEF FormOK
  <2>3. UNCHANGED list \/ Fetch(Query(s, b, url), <<FALSE>>)
    BY <1>13 DEF ChangeForm
  <2>4. ListOK'
    BY <1>1, <1>5, <1>8, <1>9, <2>1, <2>3, QueryType
  <2>5. CASE streaming /\ s # service
    <3>1. Tell(<<None, s>>)
      BY <1>13, <2>5 DEF ChangeForm
    <3>2. /\ wire' \in Seq(Service \union {None}) /\ tracked' \in BOOLEAN
          /\ status # "connected" => wire' = <<>>
          /\ tracked' => wire' # <<>> /\ Last(wire') = s
      BY <3>1, TellSays, Messages
    <3>3. SubscriptionTracks'
      BY <2>1, <2>5, <3>2 DEF SubscriptionTracks
    <3>4. QED
      BY <1>4, <1>5, <2>1, <2>2, <2>4, <3>2, <3>3
  <2>6. CASE ~(streaming /\ s # service)
    <3>1. Say
      BY <1>13, <2>6 DEF ChangeForm
    <3>2. sub' = sub
      BY <1>5, <2>1 DEF Did
    <3>3. SubscriptionTracks'
      BY <1>1, <1>7, <2>1, <2>6, <3>1, <3>2 DEF SubscriptionTracks
    <3>4. QED
      BY <1>1, <1>4, <1>5, <1>7, <2>1, <2>2, <2>4, <3>1, <3>3
  <2>7. QED
    BY <2>5, <2>6
<1>14. ASSUME NEW t \in Trace, GoTo(t) PROVE IInv'
  <2>1. /\ Act /\ Say /\ UNCHANGED <<captured, form, streaming, held>>
        /\ url' = t /\ same' = FALSE
        /\ UNCHANGED list \/ Fetch(Query(service, body, captured), <<FALSE>>)
    BY <1>14 DEF GoTo
  <2>2. ListOK'
    BY <1>1, <1>5, <1>8, <1>9, <2>1, QueryType
  <2>3. FormOK' /\ SubscriptionTracks'
    <3>1. FormOK'
      BY <1>1, <2>1 DEF FormOK, form
    <3>2. SubscriptionTracks'
      BY <1>5, <1>7, <2>1, SameWord DEF form, Did
    <3>3. QED
      BY <3>1, <3>2
  <2>4. QED
    BY <1>1, <1>4, <1>5, <1>7, <2>1, <2>2, <2>3
<1>15. ASSUME NEW t \in Trace, Visit(t) PROVE IInv'
  <2>1. /\ Act /\ Mounted(t) /\ wire' = wire /\ tracked' = (tracked /\ ~streaming)
    BY <1>15 DEF Visit
  <2>2. FormOK'
    BY <2>1, LogsAssumption DEF Mounted, FormOK
  <2>3. ListOK'
    <3> DEFINE r == [query |-> Query("", "", t), background |-> FALSE, since |-> stored]
    <3>1. stored' = stored /\ stored \in 0..stored
      BY <1>5, <1>6, <2>1, LogCount DEF TypeOK, ServerOK
    <3>2. r \in Request /\ Request' = Request
      <4>1. Query("", "", t) \in Queries
        BY LogsAssumption, QueryType
      <4>2. QED
        BY <3>1, <4>1 DEF Request
    <3>3. flights' = <<r>> /\ logs' = <<>>
      BY <2>1 DEF Mounted
    <3> HIDE DEF r
    <3>4. flights' \in Seq(Request) /\ logs' \in Seq(1..stored)
      BY <3>2, <3>3, EmptySeq
    <3>5. error' \in BOOLEAN /\ loading' \in BOOLEAN /\ refreshing' \in BOOLEAN
      BY <2>1 DEF Mounted
    <3>6. QED
      BY <3>1, <3>2, <3>4, <3>5 DEF ListOK
  <2>4. sub' = sub /\ streaming' = FALSE
    BY <1>5, <2>1 DEF Did, Mounted
  <2>5. SubscriptionTracks'
    BY <1>1, <2>1, <2>4 DEF SubscriptionTracks
  <2>6. wire' \in Seq(Service \union {None}) /\ (status # "connected" => wire' = <<>>)
    BY <2>1 DEF TypeOK, LinkOK, Linked
  <2>7. tracked' \in BOOLEAN /\ held' = <<>>
    BY <2>1 DEF Mounted
  <2>8. QED
    BY <1>4, <1>5, <2>1, <2>2, <2>3, <2>5, <2>6, <2>7
<1>16. QED
  BY <1>10, <1>11, <1>12, <1>13, <1>14, <1>15

\* The interval fires, or a request ends.
LEMMA PollingKeepsInv ==
  ASSUME IInv, Poll \/ \E i \in DOMAIN flights : Land(i)
  PROVE  IInv'
<1> USE DEF IInv
<1>1. CASE Poll
  <2>1. /\ ~streaming /\ Fetch(Query(service, body, captured), <<TRUE>>)
        /\ UNCHANGED <<params, form, streaming, pause, connection, server,
                       tracked, due, acts, calm>>
    BY <1>1 DEF Poll
  <2>2. <<TRUE>> \in Seq(BOOLEAN) /\ Query(service, body, captured) \in Queries
    BY QueryType DEF TypeOK, FormOK
  <2>3. ListOK' /\ logs' = logs
    BY <2>1, <2>2, FetchType DEF server, Fetch
  <2>4. FormOK' /\ LinkOK' /\ ServerOK'
    BY <2>1 DEF TypeOK, FormOK, LinkOK, ServerOK, params, form, connection, server
  <2>5. SubscriptionTracks' /\ Linked' /\ StreamComplete' /\ DueInForce'
    BY <2>1, <2>3 DEF SubscriptionTracks, Linked, StreamComplete, DueInForce, InForce,
                      form, connection, server, pause
  <2>6. PauseOK'
    BY <2>1, SamePause DEF server
  <2>7. QED
    BY <2>3, <2>4, <2>5, <2>6 DEF TypeOK
<1>2. ASSUME NEW i \in DOMAIN flights, Land(i) PROVE IInv'
  <2>1. /\ due' = {} /\ spilled' = {} /\ flights' = RemoveAt(flights, i)
        /\ loading' = FALSE /\ refreshing' = FALSE
        /\ UNCHANGED <<params, form, streaming, paused, held, connection, server,
                       tracked, acts, calm>>
    BY <1>2 DEF Land
  <2>2. flights \in Seq(Request) /\ i \in 1..Len(flights) /\ Len(flights) \in Nat
    BY LenProperties DEF TypeOK, ListOK
  <2>3. stored \in Nat
    BY LogCount DEF TypeOK, ServerOK
  <2>4. flights[i].since \in 0..stored
    <3>1. flights[i] \in Request
      BY <2>2, ElementOfSeq
    <3>2. QED
      BY <3>1 DEF Request
  <2>5. logs' \in Seq(1..stored) /\ error' \in BOOLEAN
    <3>1. ASSUME NEW count \in flights[i].since..stored,
                 logs' = Answer(flights[i].query, count)
          PROVE  logs' \in Seq(1..stored)
      <4>1. count \in Nat /\ 1..count \subseteq 1..stored
        BY <2>3, <2>4
      <4>2. logs' \in Seq(1..count)
        BY <3>1, <4>1, AnswerExact
      <4>3. QED
        BY <4>1, <4>2, WiderSeq
    <3>2. error' \in BOOLEAN
      BY <1>2 DEF Land
    <3>3. QED
      BY <1>2, <3>1, <3>2 DEF Land, TypeOK, ListOK
  <2>6. flights' \in Seq(Request)
    <3>1. /\ SubSeq(flights, 1, i - 1) \in Seq(Request)
          /\ SubSeq(flights, i + 1, Len(flights)) \in Seq(Request)
      BY <2>2, SubSeqProperties, ElementOfSeq
    <3>2. QED
      BY <2>1, <3>1, ConcatProperties DEF RemoveAt
  <2>7. ListOK'
    <3>1. stored' = stored /\ Request' = Request
      BY <2>1 DEF server, Request
    <3>2. QED
      BY <2>1, <2>5, <2>6, <3>1 DEF ListOK
  <2>8. FormOK' /\ LinkOK' /\ ServerOK'
    BY <2>1 DEF TypeOK, FormOK, LinkOK, ServerOK, params, form, connection, server
  <2>9. SubscriptionTracks' /\ Linked'
    BY <2>1 DEF SubscriptionTracks, Linked, form, connection
  <2>10. PauseOK'
    BY <2>1 DEF TypeOK, PauseOK, server
  <2>11. QED
    BY <2>1, <2>7, <2>8, <2>9, <2>10, NothingDue DEF TypeOK
<1>3. QED
  BY <1>1, <1>2

\* A list that is not full has kept what it had, and has all that was new.
LEMMA ShownKeeps ==
  ASSUME TypeOK, NEW news \in Seq(1..stored)
  PROVE  /\ Shown(news) \in Seq(1..stored)
         /\ streaming /\ Len(Shown(news)) < CAP =>
              Len(logs) < CAP /\ Range(Shown(news)) = Range(news) \union Range(logs)
<1> DEFINE T == 1..stored
           back == Reverse(news)
           longer == back \o logs
           n == Min({CAP, Len(news) + Len(logs)})
<1>1. logs \in Seq(T) /\ Len(logs) \in Nat /\ Len(news) \in Nat /\ CAP \in Nat
  <2>1. logs \in Seq(T)
    BY DEF TypeOK, ListOK
  <2>2. QED
    BY <2>1, LenProperties, LogsAssumption
<1>2. back \in Seq(T) /\ Len(back) = Len(news) /\ Range(back) = Range(news)
  BY RangeOfReverse
<1>3. Shown(news) = IF streaming THEN SubSeq(longer, 1, n) ELSE logs
  BY DEF Shown
<1> HIDE DEF T, back
<1>4. /\ longer \in Seq(T) /\ Len(longer) = Len(news) + Len(logs)
      /\ Range(longer) = Range(news) \union Range(logs)
  <2>1. back \o logs \in Seq(T) /\ Len(back \o logs) = Len(back) + Len(logs)
    BY <1>1, <1>2, ConcatProperties
  <2>2. Range(back \o logs) = Range(back) \union Range(logs)
    BY <1>1, <1>2, RangeConcatenation
  <2>3. QED
    BY <1>2, <2>1, <2>2
<1>5. n = IF CAP <= Len(news) + Len(logs) THEN CAP ELSE Len(news) + Len(logs)
  BY <1>1, MinOfTwo
<1> HIDE DEF longer, n
<1>6. /\ n \in Nat /\ n <= Len(longer)
      /\ n < CAP => n = Len(longer) /\ Len(logs) < CAP
  BY <1>1, <1>4, <1>5
<1>7. \A i \in 1..n : longer[i] \in T
  BY <1>4, <1>6, ElementOfSeq
<1>8. /\ SubSeq(longer, 1, n) \in Seq(T) /\ Len(SubSeq(longer, 1, n)) = n
      /\ \A i \in 1..n : SubSeq(longer, 1, n)[i] = longer[i]
  BY <1>6, <1>7, SubSeqProperties
<1>9. n = Len(longer) => SubSeq(longer, 1, n) = longer
  BY <1>4, <1>8, SeqEqual
<1>10. Shown(news) \in Seq(T)
  BY <1>1, <1>3, <1>8
<1>11. ASSUME streaming, Len(Shown(news)) < CAP
       PROVE  Len(logs) < CAP /\ Range(Shown(news)) = Range(news) \union Range(logs)
  BY <1>3, <1>4, <1>6, <1>8, <1>9, <1>11
<1>12. QED
  BY <1>10, <1>11 DEF T

\* A message goes into the list or into the buffer, or is dropped by a full buffer.
LEMMA ReceiveKeepsInv ==
  ASSUME IInv, Receive
  PROVE  IInv'
<1> USE DEF IInv
<1> DEFINE h == Head(inbox)
<1>1. /\ inbox # <<>> /\ inbox' = Tail(inbox)
      /\ UNCHANGED <<params, form, streaming, error, loading, refreshing, flights,
                     status, wire, sub, server, paused, tracked, due, acts, calm>>
  BY DEF Receive
<1>2. /\ logs \in Seq(1..stored) /\ inbox \in Seq(1..stored) /\ held \in Seq(1..stored)
      /\ due \in SUBSET (1..stored) /\ spilled \in SUBSET (1..stored)
  BY DEF TypeOK, ListOK, LinkOK, ServerOK, PauseOK
<1>3. h \in 1..stored /\ Tail(inbox) \in Seq(1..stored)
  BY <1>1, <1>2, HeadTailProperties
<1>4. Range(inbox) = {h} \union Range(Tail(inbox))
  <2>1. /\ Len(inbox) \in Nat \ {0} /\ Len(Tail(inbox)) = Len(inbox) - 1 /\ h = inbox[1]
        /\ \A i \in 1..Len(inbox) - 1 : Tail(inbox)[i] = inbox[i + 1]
    BY <1>1, <1>2, EmptySeq, HeadTailProperties
  <2>2. /\ Range(inbox) = {inbox[i] : i \in 1..Len(inbox)}
        /\ Range(Tail(inbox)) = {Tail(inbox)[i] : i \in 1..Len(Tail(inbox))}
    BY <1>2, <1>3, RangeEquality
  <2>3. ASSUME NEW i \in 1..Len(inbox), i # 1 PROVE inbox[i] \in Range(Tail(inbox))
    <3>1. i - 1 \in 1..Len(inbox) - 1 /\ (i - 1) + 1 = i
      BY <2>1, <2>3
    <3>2. QED
      BY <2>1, <2>2, <3>1
  <2>4. ASSUME NEW i \in 1..Len(inbox) - 1 PROVE Tail(inbox)[i] \in Range(inbox)
    <3>1. i + 1 \in 1..Len(inbox)
      BY <2>1
    <3>2. QED
      BY <2>1, <2>2, <3>1
  <2>5. 1 \in 1..Len(inbox)
    BY <2>1
  <2>6. QED
    BY <2>1, <2>2, <2>3, <2>4, <2>5
<1>5. <<h>> \in Seq(1..stored) /\ Range(<<h>>) = {h}
  BY <1>3, RangeOfOne
<1> HIDE DEF h
<1>6. SubscriptionTracks' /\ Linked' /\ DueInForce'
  BY <1>1 DEF SubscriptionTracks, Linked, DueInForce, InForce, form
<1>7. stored' = stored /\ Request' = Request
  BY <1>1 DEF server, Request
<1>8. ASSUME logs' \in Seq(1..stored), held' \in Seq(1..stored),
             spilled' \in SUBSET (1..stored)
      PROVE  TypeOK'
  <2>1. ListOK' /\ PauseOK'
    BY <1>1, <1>7, <1>8 DEF TypeOK, ListOK, PauseOK
  <2>2. LinkOK'
    BY <1>1, <1>3, <1>7 DEF TypeOK, LinkOK
  <2>3. FormOK' /\ ServerOK'
    BY <1>1 DEF TypeOK, FormOK, ServerOK, params, form, server
  <2>4. QED
    BY <2>1, <2>2, <2>3 DEF TypeOK
<1>9. ASSUME due # {} =>
               (Len(logs') < CAP =>
                  /\ Len(logs) < CAP
                  /\ h \in due => h \in spilled' \union Range(held') \union Range(logs')
                  /\ spilled \subseteq spilled'
                  /\ Range(held) \subseteq Range(held') /\ Range(logs) \subseteq Range(logs'))
      PROVE  StreamComplete'
  <2>1. UNCHANGED <<fresh, passed, due>>
    BY <1>1 DEF server
  <2>2. SUFFICES ASSUME Len(logs') < CAP, NEW m \in due, m \notin spilled'
                 PROVE  m \in fresh \union passed \union Range(inbox') \union Range(held')
                               \union Range(logs')
    BY <2>1 DEF StreamComplete
  <2>3. /\ Len(logs) < CAP /\ spilled \subseteq spilled'
        /\ Range(held) \subseteq Range(held') /\ Range(logs) \subseteq Range(logs')
    BY <1>9, <2>2
  <2>4. m \in fresh \union passed \union Range(inbox) \union Range(held) \union Range(logs)
    BY <2>2, <2>3 DEF StreamComplete
  <2>5. CASE m = h
    BY <1>9, <2>2, <2>5
  <2>6. CASE m # h
    BY <1>1, <1>4, <2>3, <2>4, <2>6
  <2>7. QED
    BY <2>5, <2>6
<1>10. CASE ~paused /\ logs' = Shown(<<h>>) /\ UNCHANGED <<held, spilled>>
  <2>1. logs' \in Seq(1..stored)
    BY <1>5, <1>10, ShownKeeps
  <2>2. due # {} => streaming
    BY DEF DueInForce, InForce
  <2>3. ASSUME due # {}, Len(logs') < CAP
        PROVE  Len(logs) < CAP /\ Range(logs') = {h} \union Range(logs)
    BY <1>5, <1>10, <2>2, <2>3, ShownKeeps
  <2>4. StreamComplete'
    BY <1>9, <1>10, <2>3
  <2>5. QED
    BY <1>2, <1>6, <1>8, <1>10, <2>1, <2>4
<1>11. CASE paused /\ held' = Append(held, h) /\ UNCHANGED <<logs, spilled>>
  <2> DEFINE T == 1..stored
  <2>1. held \in Seq(T) /\ h \in T
    BY <1>2, <1>3
  <2> HIDE DEF T, h
  <2>2. /\ Append(held, h) \in Seq(T)
        /\ Range(Append(held, h)) = Range(held) \union {h}
    BY <2>1, RangeOfAppend
  <2>3. held' \in Seq(1..stored) /\ Range(held') = Range(held) \union {h}
    BY <1>11, <2>2 DEF T
  <2>4. StreamComplete'
    BY <1>9, <1>11, <2>3
  <2>5. QED
    BY <1>2, <1>6, <1>8, <1>11, <2>3, <2>4
<1>12. CASE /\ paused /\ spilled' = spilled \union ({h} \intersect due)
            /\ UNCHANGED <<logs, held>>
  <2>1. spilled' \in SUBSET (1..stored)
    BY <1>2, <1>12
  <2>2. StreamComplete'
    BY <1>9, <1>12
  <2>3. QED
    BY <1>2, <1>6, <1>8, <1>12, <2>1, <2>2
<1>13. QED
  BY <1>10, <1>11, <1>12 DEF Receive, h

\* A pause keeps everything where it is; its end moves the buffer into the list.
LEMMA TogglePauseKeepsInv ==
  ASSUME IInv, TogglePause
  PROVE  IInv'
<1> USE DEF IInv
<1>1. /\ paused' = ~paused
      /\ UNCHANGED <<params, form, streaming, error, loading, refreshing, flights,
                     connection, server, spilled, tracked, due, calm>>
  BY DEF TogglePause
<1>2. acts' \in Nat
  <2>1. acts \in Nat /\ (acts' = acts \/ acts' = acts + 1)
    BY DEF TogglePause, TypeOK, ServerOK
  <2>2. QED
    BY <2>1
<1>3. logs \in Seq(1..stored) /\ held \in Seq(1..stored)
  BY DEF TypeOK, ListOK, PauseOK
<1>4. \/ logs' = Shown(held) /\ held' = <<>>
      \/ UNCHANGED <<logs, held>>
  BY DEF TogglePause
<1>5. logs' \in Seq(1..stored) /\ held' \in Seq(1..stored)
  BY <1>3, <1>4, ShownKeeps, EmptySeq
<1>6. TypeOK'
  <2>1. stored' = stored /\ Request' = Request
    BY <1>1 DEF server, Request
  <2>2. ListOK' /\ PauseOK'
    BY <1>1, <1>5, <2>1 DEF TypeOK, ListOK, PauseOK
  <2>3. FormOK' /\ LinkOK' /\ ServerOK'
    BY <1>1, <1>2 DEF TypeOK, FormOK, LinkOK, ServerOK, params, form, connection, server
  <2>4. QED
    BY <2>2, <2>3 DEF TypeOK
<1>7. SubscriptionTracks' /\ Linked' /\ DueInForce'
  BY <1>1 DEF SubscriptionTracks, Linked, DueInForce, InForce, form, connection
<1>8. StreamComplete'
  <2>1. SUFFICES ASSUME Len(logs') < CAP, due # {}
                 PROVE  due \ spilled \subseteq fresh \union passed \union Range(inbox)
                                             \union Range(held') \union Range(logs')
    BY <1>1 DEF StreamComplete, server, connection
  <2>2. streaming
    BY <2>1 DEF DueInForce, InForce
  <2>3. Len(logs) < CAP /\ Range(held') \union Range(logs') = Range(held) \union Range(logs)
    <3>1. CASE logs' = Shown(held) /\ held' = <<>>
      BY <1>3, <2>1, <2>2, <3>1, ShownKeeps, RangeOfEmpty
    <3>2. CASE UNCHANGED <<logs, held>>
      BY <2>1, <3>2
    <3>3. QED
      BY <1>4, <3>1, <3>2
  <2>4. due \ spilled \subseteq fresh \union passed \union Range(inbox) \union Range(held)
                             \union Range(logs)
    BY <2>3 DEF StreamComplete
  <2>5. QED
    BY <2>3, <2>4
<1>9. QED
  BY <1>6, <1>7, <1>8

\* The server reads what was said; nothing is due while there is something to read.
LEMMA HandleKeepsInv ==
  ASSUME IInv, Handle
  PROVE  IInv'
<1> USE DEF IInv
<1>1. /\ wire # <<>> /\ sub' = Head(wire) /\ wire' = Tail(wire)
      /\ UNCHANGED <<params, form, streaming, pause, list, status, inbox, server,
                     tracked, due, acts, calm>>
  BY DEF Handle
<1>2. wire \in Seq(Service \union {None}) /\ Len(wire) \in Nat \ {0}
  BY <1>1, EmptySeq DEF TypeOK, LinkOK
<1>3. /\ Head(wire) \in Service \union {None} /\ Tail(wire) \in Seq(Service \union {None})
      /\ Len(Tail(wire)) = Len(wire) - 1 /\ Head(wire) = wire[1]
      /\ \A i \in 1..Len(wire) - 1 : Tail(wire)[i] = wire[i + 1]
  BY <1>1, <1>2, HeadTailProperties
<1>4. IF Tail(wire) = <<>> THEN Head(wire) = Last(wire) ELSE Last(Tail(wire)) = Last(wire)
  <2>1. CASE Len(wire) = 1
    <3>1. Len(Tail(wire)) = 0
      BY <1>3, <2>1
    <3>2. Tail(wire) = <<>>
      BY <1>3, <3>1, EmptySeq
    <3>3. QED
      BY <1>3, <2>1, <3>2 DEF Last
  <2>2. CASE Len(wire) # 1
    <3>1. Len(wire) - 1 \in 1..(Len(wire) - 1) /\ (Len(wire) - 1) + 1 = Len(wire)
      <4>1. \A n \in Nat \ {0} : n # 1 => n - 1 \in 1..(n - 1) /\ (n - 1) + 1 = n
        OBVIOUS
      <4>2. QED
        BY <1>2, <2>2, <4>1
    <3>2. Tail(wire) # <<>>
      <4>1. Len(Tail(wire)) # 0
        BY <1>2, <1>3, <2>2
      <4>2. Len(<<>>) = 0
        OBVIOUS
      <4>3. QED
        BY <4>1, <4>2, Zenon
    <3>3. QED
      BY <1>3, <3>1, <3>2 DEF Last
  <2>3. QED
    BY <2>1, <2>2
<1>5. SubscriptionTracks'
  BY <1>1, <1>4 DEF SubscriptionTracks, form
<1>6. due = {}
  BY <1>1 DEF DueInForce, InForce
<1>7. Linked'
  BY <1>1 DEF Linked
<1>8. TypeOK'
  <2>1. ListOK'
    BY <1>1, SameList DEF server
  <2>2. LinkOK'
    BY <1>1, <1>3 DEF TypeOK, LinkOK, server
  <2>3. FormOK' /\ ServerOK'
    BY <1>1 DEF TypeOK, FormOK, ServerOK, params, form, server
  <2>4. PauseOK'
    BY <1>1, SamePause DEF server
  <2>5. QED
    BY <2>1, <2>2, <2>3, <2>4 DEF TypeOK
<1>9. QED
  BY <1>1, <1>5, <1>6, <1>7, <1>8, NothingDue

\* A log is due to a stream in force only, whose connection the flush then sees.
LEMMA StoreKeepsInv ==
  ASSUME IInv, Store
  PROVE  IInv'
<1> USE DEF IInv
<1>1. /\ stored < Len(Log) /\ stored' = stored + 1
      /\ fresh' = IF status = "connected" THEN fresh \union {stored'} ELSE fresh
      /\ due' = IF InForce /\ service \in {"", Log[stored'].service}
                  THEN due \union {stored'} ELSE due
      /\ UNCHANGED <<params, form, streaming, pause, list, connection, passed,
                     tracked, acts, calm>>
  BY DEF Store
<1>2. stored \in Nat /\ stored' \in 0..Len(Log) /\ stored' \in 1..stored'
      /\ 1..stored \subseteq 1..stored' /\ 0..stored \subseteq 0..stored'
  <2>1. stored \in Nat
    BY LogCount DEF TypeOK, ServerOK
  <2>2. stored' = stored + 1 /\ stored' \in 0..Len(Log)
    <3>1. \A m, n \in Nat : m < n => m + 1 \in 0..n
      OBVIOUS
    <3>2. QED
      BY <1>1, <2>1, <3>1, LogCount
  <2>3. QED
    BY <2>1, <2>2
<1>3. TypeOK'
  <2>1. Request \subseteq Request'
    BY <1>2 DEF Request
  <2>2. ListOK'
    <3>1. logs \in Seq(1..stored') /\ flights \in Seq(Request')
      BY <1>2, <2>1, WiderSeq DEF TypeOK, ListOK
    <3>2. QED
      BY <1>1, <3>1 DEF TypeOK, ListOK, list
  <2>3. LinkOK'
    <3>1. inbox \in Seq(1..stored')
      BY <1>2, WiderSeq DEF TypeOK, LinkOK
    <3>2. QED
      BY <1>1, <3>1 DEF TypeOK, LinkOK, connection
  <2>4. ServerOK'
    <3>1. fresh' \in SUBSET (1..stored') /\ due' \in SUBSET (1..stored')
      BY <1>1, <1>2 DEF TypeOK, ServerOK
    <3>2. passed' \in SUBSET (1..stored')
      BY <1>1, <1>2 DEF TypeOK, ServerOK
    <3>3. acts' \in Nat /\ calm' \in BOOLEAN
      BY <1>1 DEF TypeOK, ServerOK
    <3>4. QED
      BY <1>2, <3>1, <3>2, <3>3 DEF ServerOK
  <2>5. FormOK'
    BY <1>1 DEF TypeOK, FormOK, params, form
  <2>6. PauseOK'
    <3>1. held \in Seq(1..stored') /\ spilled \in SUBSET (1..stored')
      BY <1>2, WiderSeq DEF TypeOK, PauseOK
    <3>2. QED
      BY <1>1, <3>1 DEF TypeOK, PauseOK, pause
  <2>7. QED
    BY <2>2, <2>3, <2>4, <2>5, <2>6 DEF TypeOK
<1>4. SubscriptionTracks' /\ Linked'
  BY <1>1 DEF SubscriptionTracks, Linked, form, connection
<1>5. InForce' = InForce /\ service' = service
  BY <1>1 DEF InForce, form, connection
<1>6. DueInForce'
  BY <1>1, <1>5 DEF DueInForce
<1>7. InForce => status = "connected"
  BY LogsAssumption DEF InForce, Linked, TypeOK, FormOK
<1>8. StreamComplete'
  <2>1. SUFFICES ASSUME Len(logs) < CAP
                 PROVE  due' \ spilled \subseteq fresh' \union passed \union Range(inbox)
                                              \union Range(held) \union Range(logs)
    BY <1>1 DEF StreamComplete, list, connection, pause
  <2>2. due \ spilled \subseteq fresh \union passed \union Range(inbox) \union Range(held)
                             \union Range(logs)
    BY <2>1 DEF StreamComplete
  <2>3. QED
    BY <1>1, <1>7, <2>2
<1>9. QED
  BY <1>3, <1>4, <1>6, <1>8

\* A goroutine looks at the subscription, then at the filter: neither stands in
\* the way of a log that is due.
LEMMA BroadcastKeepsInv ==
  ASSUME IInv, (\E n \in fresh : Visited(n)) \/ \E n \in passed : Push(n)
  PROVE  IInv'
<1> USE DEF IInv
<1>1. sub = None => due = {}
  BY LogsAssumption DEF DueInForce, InForce, TypeOK, FormOK
<1>2. ASSUME NEW n \in fresh, Visited(n) PROVE IInv'
  <2>1. /\ fresh' = fresh \ {n}
        /\ passed' = IF sub = None THEN passed ELSE passed \union {n}
        /\ UNCHANGED <<params, form, streaming, pause, list, connection, stored,
                       tracked, due, acts, calm>>
    BY <1>2 DEF Visited
  <2>2. TypeOK'
    <3>1. ListOK'
      BY <2>1, SameList
    <3>2. fresh' \in SUBSET (1..stored) /\ passed' \in SUBSET (1..stored)
      BY <2>1 DEF TypeOK, ServerOK
    <3>3. FormOK' /\ LinkOK' /\ ServerOK'
      BY <2>1, <3>2 DEF TypeOK, FormOK, LinkOK, ServerOK, params, form, connection
    <3>4. PauseOK'
      BY <2>1, SamePause
    <3>5. QED
      BY <3>1, <3>3, <3>4 DEF TypeOK
  <2>3. SubscriptionTracks' /\ Linked' /\ DueInForce'
    BY <2>1 DEF SubscriptionTracks, Linked, DueInForce, InForce, form, connection
  <2>4. StreamComplete'
    <3>1. SUFFICES ASSUME Len(logs) < CAP, sub # None
                   PROVE  due \ spilled \subseteq fresh' \union passed' \union Range(inbox)
                                               \union Range(held) \union Range(logs)
      BY <1>1, <2>1 DEF StreamComplete, list, connection, pause
    <3>2. QED
      BY <2>1, <3>1 DEF StreamComplete
  <2>5. QED
    BY <2>2, <2>3, <2>4
<1>3. ASSUME NEW n \in passed, Push(n) PROVE IInv'
  <2>1. /\ passed' = passed \ {n}
        /\ inbox' = IF sub \in {None, "", Log[n].service} THEN Append(inbox, n) ELSE inbox
        /\ UNCHANGED <<params, form, streaming, pause, list, status, wire, sub, stored, fresh,
                       tracked, due, acts, calm>>
    BY <1>3 DEF Push
  <2>2. inbox \in Seq(1..stored) /\ n \in 1..stored
    BY DEF TypeOK, LinkOK, ServerOK
  <2>3. /\ Append(inbox, n) \in Seq(1..stored)
        /\ Range(Append(inbox, n)) = Range(inbox) \union {n}
    <3> DEFINE T == 1..stored
    <3>1. inbox \in Seq(T) /\ n \in T
      BY <2>2
    <3> HIDE DEF T
    <3>2. /\ Append(inbox, n) \in Seq(T)
          /\ Range(Append(inbox, n)) = Range(inbox) \union {n}
      BY <3>1, RangeOfAppend
    <3>3. QED
      BY <3>2 DEF T
  <2>4. TypeOK'
    <3>1. ListOK'
      BY <2>1, SameList
    <3>2. passed' \in SUBSET (1..stored) /\ inbox' \in Seq(1..stored)
      BY <2>1, <2>2, <2>3 DEF TypeOK, ServerOK
    <3>3. FormOK' /\ LinkOK' /\ ServerOK'
      BY <2>1, <3>2 DEF TypeOK, FormOK, LinkOK, ServerOK, params, form
    <3>4. PauseOK'
      BY <2>1, SamePause
    <3>5. QED
      BY <3>1, <3>3, <3>4 DEF TypeOK
  <2>5. SubscriptionTracks' /\ Linked' /\ DueInForce'
    BY <2>1 DEF SubscriptionTracks, Linked, DueInForce, InForce, form
  <2>6. n \in due => sub \in {None, "", Log[n].service}
    BY DEF DueInForce, InForce
  <2>7. StreamComplete'
    <3>1. SUFFICES ASSUME Len(logs) < CAP
                   PROVE  due \ spilled \subseteq fresh \union passed' \union Range(inbox')
                                               \union Range(held) \union Range(logs)
      BY <2>1 DEF StreamComplete, list, pause
    <3>2. due \ spilled \subseteq fresh \union passed \union Range(inbox) \union Range(held)
                               \union Range(logs)
      BY <3>1 DEF StreamComplete
    <3>3. CASE n \in due
      <4>1. Range(inbox') = Range(inbox) \union {n}
        BY <2>1, <2>3, <2>6, <3>3
      <4>2. QED
        BY <2>1, <3>2, <4>1
    <3>4. CASE n \notin due
      <4>1. Range(inbox) \subseteq Range(inbox')
        BY <2>1, <2>3
      <4>2. QED
        BY <2>1, <3>2, <3>4, <4>1
    <3>5. QED
      BY <3>3, <3>4
  <2>8. QED
    BY <2>4, <2>5, <2>7
<1>4. QED
  BY <1>2, <1>3

\* The link opens, is tried again or fails; nothing arrives any more.
LEMMA LinkKeepsInv ==
  ASSUME IInv, Open \/ Retry \/ Lose \/ Settle
  PROVE  IInv'
<1> USE DEF IInv
<1>1. ASSUME UNCHANGED <<params, form, streaming, pause, list, wire, inbox, sub, server,
                         tracked, due, acts>>,
             calm' \in BOOLEAN, status' \in TheLink!Status,
             status = "connected" => status' = "connected"
      PROVE  IInv'
  <2>1. ListOK'
    BY <1>1, SameList DEF server
  <2>2. FormOK' /\ LinkOK' /\ ServerOK'
    BY <1>1 DEF TypeOK, FormOK, LinkOK, ServerOK, params, form, server
  <2>3. SubscriptionTracks' /\ DueInForce' /\ StreamComplete'
    BY <1>1 DEF SubscriptionTracks, DueInForce, InForce, StreamComplete, form, list, server,
                  pause
  <2>4. Linked'
    BY <1>1 DEF Linked
  <2>5. PauseOK'
    BY <1>1, SamePause DEF server
  <2>6. QED
    BY <2>1, <2>2, <2>3, <2>4, <2>5 DEF TypeOK
<1>2. CASE Open
  <2>1. status' = "connected" /\ status' \in TheLink!Status
    BY <1>2 DEF Open, TheLink!Open, TheLink!Status
  <2>2. QED
    BY <1>1, <1>2, <2>1 DEF Open, TypeOK, ServerOK
<1>3. CASE Retry
  <2>1. status = "disconnected" /\ status' \in TheLink!Status
    BY <1>3 DEF Retry, TheLink!Retry, TheLink!Status
  <2>2. QED
    BY <1>1, <1>3, <2>1 DEF Retry, TypeOK, ServerOK
<1>4. CASE Settle
  <2>1. /\ calm' = TRUE
        /\ UNCHANGED <<params, form, streaming, pause, list, connection, server,
                       tracked, due, acts>>
    BY <1>4 DEF Settle
  <2>2. status' \in TheLink!Status
    BY <2>1 DEF connection, TypeOK, LinkOK
  <2>3. QED
    BY <1>1, <2>1, <2>2 DEF connection
<1>5. CASE Lose
  <2>1. /\ wire' = <<>> /\ inbox' = <<>> /\ sub' = None
        /\ fresh' = {} /\ passed' = {} /\ due' = {} /\ spilled' = {}
        /\ tracked' = ~streaming
        /\ UNCHANGED <<params, form, streaming, paused, held, list, stored, acts, calm>>
    BY <1>5 DEF Lose
  <2>2. status' \in TheLink!Status
    BY <1>5 DEF Lose, TheLink!Lose, TheLink!Status
  <2>3. ListOK'
    BY <2>1, SameList
  <2>4. LinkOK'
    BY <2>1, <2>2, EmptySeq DEF LinkOK
  <2>5. FormOK' /\ ServerOK'
    BY <2>1 DEF TypeOK, FormOK, ServerOK, params, form
  <2>6. SubscriptionTracks' /\ Linked'
    BY <2>1 DEF SubscriptionTracks, Linked
  <2>7. PauseOK'
    BY <2>1 DEF TypeOK, PauseOK
  <2>8. QED
    BY <2>1, <2>3, <2>4, <2>5, <2>6, <2>7, NothingDue DEF TypeOK
<1>6. QED
  BY <1>2, <1>3, <1>4, <1>5

LEMMA NextIInv == IInv /\ [Next]_vars => IInv'
<1> SUFFICES ASSUME IInv, [Next]_vars PROVE IInv'
  OBVIOUS
<1>1. CASE Next
  <2>1. CASE \/ ToggleStreaming \/ Search \/ ClearTrace
             \/ \E s \in Service, b \in Body : ChangeForm(s, b)
             \/ \E t \in Trace : GoTo(t) \/ Visit(t)
    BY <2>1, UserKeepsInv
  <2>2. CASE Poll \/ \E i \in DOMAIN flights : Land(i)
    BY <2>2, PollingKeepsInv
  <2>3. CASE Receive \/ TogglePause \/ Handle \/ Store
    BY <2>3, ReceiveKeepsInv, TogglePauseKeepsInv, HandleKeepsInv, StoreKeepsInv
  <2>4. CASE (\E n \in fresh : Visited(n)) \/ \E n \in passed : Push(n)
    BY <2>4, BroadcastKeepsInv
  <2>5. CASE Open \/ Retry \/ Lose \/ Settle
    BY <2>5, LinkKeepsInv
  <2>6. QED
    BY <1>1, <2>1, <2>2, <2>3, <2>4, <2>5 DEF Next
<1>2. CASE UNCHANGED vars
  <2>1. ListOK'
    BY <1>2, SameList DEF IInv, vars, server
  <2>2. FormOK' /\ LinkOK' /\ ServerOK'
    BY <1>2 DEF IInv, TypeOK, FormOK, LinkOK, ServerOK, vars, params, form, connection, server
  <2>3. SubscriptionTracks' /\ DueInForce' /\ StreamComplete' /\ Linked'
    BY <1>2 DEF IInv, SubscriptionTracks, DueInForce, InForce, StreamComplete, Linked,
                vars, form, list, connection, server, pause
  <2>4. PauseOK'
    BY <1>2, SamePause DEF IInv, vars, server
  <2>5. QED
    BY <2>1, <2>2, <2>3, <2>4 DEF IInv, TypeOK
<1>3. QED
  BY <1>1, <1>2

LEMMA AlwaysIInv == Spec => []IInv
  BY InitIInv, NextIInv, PTL DEF Spec

\* The page shows, and the link carries, only what the server has stored, and no
\* request asks for more than there was when it was sent.
THEOREM LogsTypeCorrect == Spec => []TypeOK
<1>1. IInv => TypeOK
  BY DEF IInv
<1>2. QED
  BY <1>1, AlwaysIInv, PTL

\* The server's subscription follows the page wherever the last word was said on
\* this connection; and while its list is not full, a stream in force misses no log
\* but the ones a full buffer dropped during a pause.
THEOREM LogsStreamSound == Spec => []StreamSound
<1>1. IInv => StreamSound
  BY DEF IInv, StreamSound
<1>2. QED
  BY <1>1, AlwaysIInv, PTL

=============================================================================
