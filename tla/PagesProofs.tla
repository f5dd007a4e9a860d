----------------------------- MODULE PagesProofs -----------------------------
(***************************************************************************)
(* Proofs about Pages, for any things to ask for, any number of requests   *)
(* in flight, versions and buffered messages, and about TraceDetail, for   *)
(* traces of any number of spans.                                          *)
(*                                                                         *)
(* What a page shows cannot be explained by what it shows: the inductive   *)
(* invariant IInv relates it to the requests that are still under way.     *)
(* That the waterfall is complete and its bars are exact is a fact about   *)
(* the functions that compute them, proved by induction on the spans       *)
(* sorted, the sequences flattened and the levels traversed.  With it,     *)
(* DInv relates the selected span to the trace that is shown.              *)
(***************************************************************************)
EXTENDS TraceDetail, SequenceTheorems, FiniteSetTheorems, WellFoundedInduction, TLAPS

Flight ==
  [key : Key \union {None}, background : BOOLEAN, late : BOOLEAN,
   answer : Nat \union {Pending, Failed}]

Data == [key : Key \union {None}, version : Nat]

\* A page has a parameter exactly when its kind has one; requests, messages and
\* the buffer are sequences of what the code puts into them.
TypeOK ==
  /\ kind \in Kind
  /\ want \in (IF kind \in Keyed THEN Key ELSE {None})
  /\ data \in Data \union {None}
  /\ loading \in BOOLEAN /\ refreshing \in BOOLEAN /\ error \in BOOLEAN
  /\ flights \in Seq(Flight)
  /\ last \in {"none", "late", "failed", "fresh"}
  /\ status \in WS!Status
  /\ casts \in Seq(Nat \union {Pending})
  /\ inbox \in Seq(Nat)
  /\ paused \in BOOLEAN /\ buffer \in Seq(Nat)
  /\ version \in Nat /\ up \in BOOLEAN /\ calm \in BOOLEAN

\* The page waits for a request: none of the flags outlives the last one, and a
\* page with nothing to show has reported a failure or waits for a request
\* whose failure it will report (a poll's it would not, and TraceDetail
\* reports none).
Waits ==
  /\ flights = <<>> => ~loading
  /\ kind # "trace" /\ data = None /\ ~error =>
       \E i \in 1..Len(flights) : ~flights[i].background

\* The youngest request asks for what the page is asked for, unless a request
\* made after it has landed; a page whose last request brought the newest
\* answer shows that one's key.
Youngest ==
  /\ flights # <<>> => flights[Len(flights)].late \/ flights[Len(flights)].key = want
  /\ flights = <<>> /\ last = "fresh" => data # None /\ data.key = want

IInv == TypeOK /\ Waits /\ Youngest

-----------------------------------------------------------------------------
(* Operators of the pages *)

\* The elements of a sequence and its length.
LEMMA FlightsIndexed ==
  ASSUME TypeOK
  PROVE  /\ Len(flights) \in Nat
         /\ flights = <<>> <=> Len(flights) = 0
         /\ \A i \in 1..Len(flights) : flights[i] \in Flight
  BY LenProperties, ElementOfSeq, EmptySeq DEF TypeOK

\* A request that has landed leaves the others, in their order.
LEMMA LandedFlights ==
  ASSUME TypeOK, NEW i \in 1..Len(flights)
  PROVE  /\ Landed(i) \in Seq(Flight)
         /\ Len(Landed(i)) = Len(flights) - 1
         /\ \A j \in 1..Len(flights) - 1 :
              /\ Landed(i)[j].key = IF j < i THEN flights[j].key ELSE flights[j + 1].key
              /\ Landed(i)[j].background =
                   IF j < i THEN flights[j].background ELSE flights[j + 1].background
              /\ Landed(i)[j].late = IF j < i THEN TRUE ELSE flights[j + 1].late
<1> DEFINE n == Len(flights) - 1
           L(j) == IF j < i THEN [flights[j] EXCEPT !.late = TRUE] ELSE flights[j + 1]
<1>1. n \in Nat /\ i \in 1..n + 1 /\ \A j \in 1..n + 1 : flights[j] \in Flight
  BY FlightsIndexed
<1>2. \A f \in Flight :
        /\ [f EXCEPT !.late = TRUE] \in Flight
        /\ [f EXCEPT !.late = TRUE].key = f.key
        /\ [f EXCEPT !.late = TRUE].background = f.background
        /\ [f EXCEPT !.late = TRUE].late = TRUE
  BY DEF Flight
<1>3. \A j \in 1..n : j \in 1..n + 1 /\ j + 1 \in 1..n + 1
  BY <1>1
<1>4. \A j \in 1..n : L(j) \in Flight
  BY <1>1, <1>2, <1>3
<1>5. Landed(i) = [j \in 1..n |-> L(j)]
  BY DEF Landed
<1>6. Landed(i) \in [1..n -> Flight]
  BY <1>4, <1>5
<1>7. Landed(i) \in Seq(Flight) /\ Len(Landed(i)) = n
  <2> HIDE DEF n
  <2>1. Landed(i) \in Seq(Flight)
    BY <1>1, <1>6, SeqDef
  <2>2. QED
    BY <1>1, <1>6, <2>1, LenProperties
<1>8. ASSUME NEW j \in 1..n
      PROVE  /\ Landed(i)[j].key = IF j < i THEN flights[j].key ELSE flights[j + 1].key
             /\ Landed(i)[j].background =
                  IF j < i THEN flights[j].background ELSE flights[j + 1].background
             /\ Landed(i)[j].late = IF j < i THEN TRUE ELSE flights[j + 1].late
  <2>1. Landed(i)[j] = L(j)
    BY <1>5
  <2>2. flights[j] \in Flight
    BY <1>1, <1>3
  <2> QED
    BY <1>2, <2>1, <2>2
<1>9. QED
  BY <1>7, <1>8

\* An answer changes no other part of a request.
LEMMA AnsweredFlights ==
  ASSUME TypeOK, NEW i \in 1..Len(flights), NEW a \in Nat \union {Pending, Failed},
         flights' = [flights EXCEPT ![i].answer = a]
  PROVE  /\ flights' \in Seq(Flight) /\ Len(flights') = Len(flights)
         /\ \A j \in 1..Len(flights) :
              /\ flights'[j].key = flights[j].key
              /\ flights'[j].background = flights[j].background
              /\ flights'[j].late = flights[j].late
<1>1. \A j \in 1..Len(flights) : flights[j] \in Flight
  BY FlightsIndexed
<1>2. \A f \in Flight :
        /\ [f EXCEPT !.answer = a] \in Flight
        /\ [f EXCEPT !.answer = a].key = f.key
        /\ [f EXCEPT !.answer = a].background = f.background
        /\ [f EXCEPT !.answer = a].late = f.late
  BY DEF Flight
<1>3. flights' = [flights EXCEPT ![i] = [flights[i] EXCEPT !.answer = a]]
  OBVIOUS
<1>4. flights' \in Seq(Flight) /\ Len(flights') = Len(flights)
  BY <1>1, <1>2, <1>3, ExceptSeq DEF TypeOK
<1>5. \A j \in 1..Len(flights) :
        flights'[j] = IF j = i THEN [flights[i] EXCEPT !.answer = a] ELSE flights[j]
  BY <1>3, ExceptSeq DEF TypeOK
<1>6. QED
  BY <1>1, <1>2, <1>4, <1>5

\* A new request is the youngest, the others stay, and so does what is shown.
LEMMA FetchAppends ==
  ASSUME TypeOK, NEW key \in Key \union {None}, NEW background \in BOOLEAN,
         Fetch(key, background)
  PROVE  /\ flights' \in Seq(Flight)
         /\ Len(flights') = Len(flights) + 1
         /\ flights'[Len(flights) + 1].key = key
         /\ flights'[Len(flights) + 1].background = background
         /\ \A i \in 1..Len(flights) : flights'[i] = flights[i]
         /\ data' = data /\ last' = last
         /\ loading' \in BOOLEAN /\ refreshing' \in BOOLEAN /\ error' \in BOOLEAN
         /\ background => error' = error \/ kind # "dashboard"
<1> DEFINE f == [key |-> key, background |-> background, late |-> FALSE, answer |-> Pending]
<1>1. f \in Flight /\ f.key = key /\ f.background = background
  BY DEF Flight
<1>2. flights' = Append(flights, f) /\ data' = data /\ last' = last
  BY DEF Fetch
<1>3. /\ loading' \in BOOLEAN /\ refreshing' \in BOOLEAN /\ error' \in BOOLEAN
      /\ background => error' = error \/ kind # "dashboard"
  BY DEF Fetch, TypeOK, Kind, DashboardSends, ServiceSends, ExemplarsSends,
         SettingsSends, TraceSends
<1>4. /\ flights' \in Seq(Flight) /\ Len(flights') = Len(flights) + 1
      /\ flights'[Len(flights) + 1] = f
      /\ \A i \in 1..Len(flights) : flights'[i] = flights[i]
  <2> HIDE DEF f
  <2> QED
    BY <1>1, <1>2, AppendProperties DEF TypeOK
<1>5. QED
  BY <1>1, <1>2, <1>3, <1>4

\* Requests made in order keep both halves of the invariant: a request is the
\* youngest and asks for what the page is asked for.
LEMMA FetchKeepsInv ==
  ASSUME TypeOK, Waits, Youngest, NEW key \in Key \union {None}, NEW background \in BOOLEAN,
         Fetch(key, background), background => kind = "dashboard",
         kind' = kind, want' = key
  PROVE  Waits' /\ Youngest'
<1>1. /\ Len(flights) \in Nat /\ Len(flights') = Len(flights) + 1 /\ flights' # <<>>
      /\ flights'[Len(flights')].key = want'
      /\ flights'[Len(flights')].background = background
      /\ \A i \in 1..Len(flights) : i \in 1..Len(flights') /\ flights'[i] = flights[i]
      /\ Len(flights') \in 1..Len(flights')
  <2>1. /\ flights' \in Seq(Flight)
        /\ Len(flights') = Len(flights) + 1
        /\ flights'[Len(flights) + 1].key = key
        /\ flights'[Len(flights) + 1].background = background
        /\ \A i \in 1..Len(flights) : flights'[i] = flights[i]
    BY FetchAppends
  <2>2. Len(flights) \in Nat
    BY FlightsIndexed
  <2>3. flights' # <<>>
    BY <2>1, <2>2, EmptySeq
  <2>4. QED
    BY <2>1, <2>2, <2>3
<1>2. Youngest'
  BY <1>1 DEF Youngest
<1>3. ASSUME (kind # "trace" /\ data = None /\ ~error)'
      PROVE  \E i \in 1..Len(flights') : ~flights'[i].background
  <2>1. CASE background
    <3>1. kind # "trace" /\ data = None /\ ~error
      BY <1>3, <2>1, FetchAppends
    <3>2. PICK i \in 1..Len(flights) : ~flights[i].background
      BY <3>1 DEF Waits
    <3>3. QED
      BY <1>1, <3>2
  <2>2. CASE ~background
    BY <1>1, <2>2
  <2>3. QED
    BY <2>1, <2>2
<1>4. QED
  BY <1>1, <1>2, <1>3 DEF Waits

\* What neither sends nor lands anything and shows nothing new keeps the invariant.
LEMMA QuietKeepsInv ==
  ASSUME Waits, Youngest, UNCHANGED <<kind, want, page>>
  PROVE  Waits' /\ Youngest'
  BY DEF Waits, Youngest, page

\* Data that is pushed is about what the page is asked for.
LEMMA HandleKeepsInv ==
  ASSUME TypeOK, Waits, Youngest, NEW v \in Nat, Handle(v),
         UNCHANGED <<kind, want, loading, flights, last>>
  PROVE  /\ data' \in Data /\ error' \in BOOLEAN
         /\ Waits' /\ Youngest'
<1>1. want \in Key \union {None}
  BY DEF TypeOK
<1>2. data' = [key |-> want, version |-> v] /\ error' = FALSE
  BY DEF Handle
<1>3. data' \in Data /\ data'.key = want'
  BY <1>1, <1>2 DEF Data
<1>4. data' # None
  BY <1>3, PagesAssumption DEF Data
<1>5. QED
  BY <1>2, <1>3, <1>4 DEF Waits, Youngest

-----------------------------------------------------------------------------
(* The invariant *)

LEMMA InitIInv == Init => IInv
<1> SUFFICES ASSUME Init PROVE IInv
  OBVIOUS
<1> DEFINE f == [key |-> want, background |-> FALSE, late |-> FALSE, answer |-> Pending]
<1>1. want \in Key \union {None} /\ flights = <<f>>
  BY DEF Init
<1>2. f \in Flight /\ f.key = want /\ ~f.background
  BY <1>1 DEF Flight
<1>3. flights \in Seq(Flight) /\ Len(flights) = 1 /\ flights[1] = f /\ flights # <<>>
  <2> HIDE DEF f
  <2> QED
    BY <1>1, <1>2
<1>4. TypeOK
  <2>1. status \in WS!Status
    BY DEF Init, WS!Status
  <2>2. casts \in Seq(Nat \union {Pending}) /\ inbox \in Seq(Nat) /\ buffer \in Seq(Nat)
    BY EmptySeq DEF Init
  <2>3. flights \in Seq(Flight)
    BY <1>3
  <2>4. kind \in Kind /\ want \in (IF kind \in Keyed THEN Key ELSE {None})
    BY DEF Init
  <2>5. data \in Data \union {None} /\ last \in {"none", "late", "failed", "fresh"}
    BY DEF Init
  <2>6. version \in Nat
    BY DEF Init
  <2>7. /\ loading \in BOOLEAN /\ refreshing \in BOOLEAN /\ error \in BOOLEAN
        /\ paused \in BOOLEAN /\ up \in BOOLEAN /\ calm \in BOOLEAN
    BY DEF Init
  <2>8. QED
    BY <2>1, <2>2, <2>3, <2>4, <2>5, <2>6, <2>7 DEF TypeOK
<1>5. Waits /\ Youngest
  BY <1>2, <1>3 DEF Init, Waits, Youngest
<1>6. QED
  BY <1>4, <1>5 DEF IInv

\* Requests that are made.
LEMMA SendersKeepInv ==
  ASSUME IInv,
         \/ \E k \in Key : Navigate(k)
         \/ Retry \/ Poll \/ Reconnect \/ Disconnect
  PROVE  IInv'
<1> USE DEF IInv
<1>1. want \in Key \union {None}
  BY DEF TypeOK
<1>2. ASSUME NEW k \in Key, Navigate(k) PROVE IInv'
  <2>1. Fetch(k, FALSE) /\ kind' = kind /\ want' = k /\ kind \in Keyed
    BY <1>2 DEF Navigate
  <2>2. UNCHANGED <<socket, pause, server>>
    BY <1>2 DEF Navigate
  <2>3. TypeOK'
    BY <2>1, <2>2, FetchAppends DEF TypeOK, socket, pause, server
  <2>4. QED
    BY <2>1, <2>3, FetchKeepsInv
<1>3. CASE Retry
  <2>1. Fetch(want, FALSE) /\ UNCHANGED <<kind, want, socket, pause, server>>
    BY <1>3 DEF Retry
  <2>2. TypeOK'
    BY <1>1, <2>1, FetchAppends DEF TypeOK, socket, pause, server
  <2>3. QED
    BY <1>1, <2>1, <2>2, FetchKeepsInv
<1>4. CASE Poll
  <2>1. Fetch(want, TRUE) /\ UNCHANGED <<kind, want, socket, pause, server>> /\ kind = "dashboard"
    BY <1>4 DEF Poll
  <2>2. TypeOK'
    BY <1>1, <2>1, FetchAppends DEF TypeOK, socket, pause, server
  <2>3. QED
    BY <1>1, <2>1, <2>2, FetchKeepsInv
<1>5. CASE Reconnect \/ Disconnect
  <2>1. Fetch(want, FALSE) /\ UNCHANGED <<kind, want, casts, pause, server>> /\ inbox' = <<>>
    BY <1>5 DEF Reconnect, Disconnect, NewStatus
  <2>2. status' \in WS!Status
    BY <1>5 DEF Reconnect, Disconnect, WS!Retry, WS!Open, WS!Lose, WS!Status
  <2>3. TypeOK'
    BY <1>1, <2>1, <2>2, FetchAppends, EmptySeq DEF TypeOK, pause, server
  <2>4. QED
    BY <1>1, <2>1, <2>3, FetchKeepsInv
<1>6. QED
  BY <1>2, <1>3, <1>4, <1>5

\* An answer is on its way, but not yet seen.
LEMMA AnswerKeepsInv ==
  ASSUME IInv, NEW i \in 1..Len(flights), Answer(i)
  PROVE  IInv'
<1> USE DEF IInv
<1> DEFINE a == IF NoAnswer THEN Failed ELSE version
<1>1. a \in Nat \union {Pending, Failed}
  BY DEF TypeOK
<1>2. flights' = [flights EXCEPT ![i].answer = a]
  BY DEF Answer
<1>3. UNCHANGED <<kind, want, data, loading, refreshing, error, last, socket, pause, server>>
  BY DEF Answer
<1> HIDE DEF a
<1>4. /\ flights' \in Seq(Flight) /\ Len(flights') = Len(flights)
      /\ \A j \in 1..Len(flights) :
           /\ flights'[j].key = flights[j].key
           /\ flights'[j].background = flights[j].background
           /\ flights'[j].late = flights[j].late
  BY <1>1, <1>2, AnsweredFlights
<1>5. /\ Len(flights) \in Nat \ {0} /\ Len(flights) \in 1..Len(flights)
      /\ flights # <<>> /\ flights' # <<>>
  BY <1>4, FlightsIndexed, EmptySeq
<1>6. TypeOK'
  BY <1>3, <1>4 DEF TypeOK, socket, pause, server
<1>7. Waits'
  BY <1>3, <1>4, <1>5 DEF Waits
<1>8. Youngest'
  BY <1>3, <1>4, <1>5 DEF Youngest
<1>9. QED
  BY <1>6, <1>7, <1>8

\* An answer lands: the youngest request that is left is late, or it is the one
\* that was the youngest before.
LEMMA LandKeepsInv ==
  ASSUME IInv, NEW i \in 1..Len(flights), Land(i)
  PROVE  IInv'
<1> USE DEF IInv
<1> DEFINE f == flights[i]
           n == Len(flights)
<1>1. /\ n \in Nat \ {0} /\ n \in 1..n /\ flights # <<>>
      /\ \A j \in 1..n : flights[j] \in Flight
  BY FlightsIndexed
<1>2. /\ f.key \in Key \union {None} /\ f.background \in BOOLEAN /\ f.late \in BOOLEAN
      /\ f.answer # Failed => f.answer \in Nat
  BY <1>1 DEF Flight, Land
<1>3. flights' = Landed(i)
  BY DEF Land
<1>4. /\ flights' \in Seq(Flight) /\ Len(flights') = n - 1
      /\ \A j \in 1..n - 1 :
           /\ flights'[j].key = IF j < i THEN flights[j].key ELSE flights[j + 1].key
           /\ flights'[j].background =
                IF j < i THEN flights[j].background ELSE flights[j + 1].background
           /\ flights'[j].late = IF j < i THEN TRUE ELSE flights[j + 1].late
  <2>1. /\ Landed(i) \in Seq(Flight) /\ Len(Landed(i)) = n - 1
        /\ \A j \in 1..n - 1 :
             /\ Landed(i)[j].key = IF j < i THEN flights[j].key ELSE flights[j + 1].key
             /\ Landed(i)[j].background =
                  IF j < i THEN flights[j].background ELSE flights[j + 1].background
             /\ Landed(i)[j].late = IF j < i THEN TRUE ELSE flights[j + 1].late
    BY LandedFlights
  <2>2. QED
    BY <1>3, <2>1
<1>5. flights' = <<>> <=> n = 1
  BY <1>1, <1>4, EmptySeq
<1>6. /\ UNCHANGED <<kind, want, socket, pause, server>>
      /\ loading' = FALSE /\ refreshing' = FALSE
      /\ last' = CASE f.late -> "late" [] f.answer = Failed -> "failed" [] OTHER -> "fresh"
  BY DEF Land
<1>7. f.answer = Failed =>
        /\ error' = (error \/ (~f.background /\ kind # "trace"))
        /\ data' = data
  BY DEF Land
<1>8. f.answer # Failed =>
        /\ error' = FALSE /\ data' = [key |-> f.key, version |-> f.answer]
  BY DEF Land
<1>9. f.answer # Failed => data' \in Data /\ data' # None /\ data'.key = f.key
  BY <1>2, <1>8, PagesAssumption DEF Data
<1> HIDE DEF f, n
<1>10. TypeOK'
  <2>1. last' \in {"none", "late", "failed", "fresh"}
    BY <1>6
  <2>2. data' \in Data \union {None} /\ error' \in BOOLEAN
    BY <1>2, <1>7, <1>8, <1>9 DEF TypeOK
  <2>3. QED
    BY <1>4, <1>6, <2>1, <2>2 DEF TypeOK, socket, pause, server
<1>11. Waits'
  <2>1. ASSUME kind # "trace", data' = None, ~error'
        PROVE  \E j \in 1..Len(flights') : ~flights'[j].background
    <3>1. f.answer = Failed /\ data = None /\ ~error /\ f.background
      BY <1>2, <1>7, <1>9, <2>1 DEF TypeOK
    <3>2. PICK j \in 1..n : ~flights[j].background
      BY <2>1, <3>1 DEF Waits, n
    <3>3. j # i
      BY <3>1, <3>2 DEF f
    <3>4. CASE j < i
      <4>1. j \in 1..n - 1
        BY <1>1, <3>4 DEF n
      <4>2. QED
        BY <1>4, <3>2, <3>4, <4>1
    <3>5. CASE ~(j < i)
      <4>1. j - 1 \in 1..n - 1 /\ ~(j - 1 < i) /\ (j - 1) + 1 = j
        BY <1>1, <3>3, <3>5 DEF n
      <4>2. QED
        BY <1>4, <3>2, <4>1
    <3>6. QED
      BY <3>4, <3>5
  <2>2. QED
    BY <1>6, <2>1 DEF Waits
<1>12. Youngest'
  <2>1. ASSUME n # 1
        PROVE  flights'[n - 1].late \/ flights'[n - 1].key = want
    <3>1. n - 1 \in 1..n - 1 /\ (n - 1) + 1 = n
      BY <1>1, <2>1
    <3>2. CASE n - 1 < i
      BY <1>4, <3>1, <3>2
    <3>3. CASE ~(n - 1 < i)
      <4>1. flights[n].late \/ flights[n].key = want
        BY <1>1 DEF Youngest, n
      <4>2. QED
        BY <1>4, <3>1, <3>3, <4>1
    <3>4. QED
      BY <3>2, <3>3
  <2>2. ASSUME n = 1, last' = "fresh"
        PROVE  data' # None /\ data'.key = want
    <3>1. ~f.late /\ f.answer # Failed
      BY <1>6, <2>2
    <3>2. f.key = want
      BY <1>1, <2>2, <3>1 DEF Youngest, f, n
    <3>3. QED
      BY <1>9, <3>1, <3>2
  <2>3. QED
    BY <1>4, <1>5, <1>6, <2>1, <2>2 DEF Youngest
<1>13. QED
  BY <1>10, <1>11, <1>12

\* What the hub pushes, and the pause that holds it back.
LEMMA PushesKeepInv ==
  ASSUME IInv, Receive \/ TogglePause
  PROVE  IInv'
<1> USE DEF IInv
<1>1. CASE Receive
  <2>1. Head(inbox) \in Nat /\ Tail(inbox) \in Seq(Nat)
    BY <1>1, HeadTailProperties DEF Receive, TypeOK
  <2>2. UNCHANGED <<kind, want, loading, refreshing, flights, last, status, casts, paused, server>>
    BY <1>1 DEF Receive
  <2>3. inbox' = Tail(inbox)
    BY <1>1 DEF Receive
  <2>4. CASE paused
    <3>1. buffer' = Buffered(Head(inbox)) /\ UNCHANGED <<data, error>>
      BY <1>1, <2>4 DEF Receive
    <3>2. buffer' \in Seq(Nat)
      BY <2>1, <3>1, AppendProperties DEF Buffered, TypeOK
    <3>3. TypeOK'
      BY <2>1, <2>2, <2>3, <3>1, <3>2 DEF TypeOK, server
    <3>4. QED
      BY <2>2, <3>1, <3>3, QuietKeepsInv DEF page
  <2>5. CASE ~paused
    <3>1. Handle(Head(inbox)) /\ buffer' = buffer
      BY <1>1, <2>5 DEF Receive
    <3>2. data' \in Data /\ error' \in BOOLEAN /\ Waits' /\ Youngest'
      BY <2>1, <2>2, <3>1, HandleKeepsInv
    <3>3. TypeOK'
      BY <2>1, <2>2, <2>3, <3>1, <3>2 DEF TypeOK, server
    <3>4. QED
      BY <3>2, <3>3
  <2>6. QED
    BY <2>4, <2>5
<1>2. CASE TogglePause
  <2>1. UNCHANGED <<kind, want, loading, refreshing, flights, last, socket, server>>
    BY <1>2 DEF TogglePause
  <2>2. paused' \in BOOLEAN
    BY <1>2 DEF TogglePause
  <2>3. CASE paused /\ buffer # <<>>
    <3>1. Handle(buffer[Len(buffer)]) /\ buffer' = <<>>
      BY <1>2, <2>3 DEF TogglePause
    <3>2. buffer[Len(buffer)] \in Nat
      <4>1. buffer \in Seq(Nat) /\ Len(buffer) \in 1..Len(buffer)
        BY <2>3, EmptySeq DEF TypeOK
      <4>2. QED
        BY <4>1, ElementOfSeq
    <3>3. data' \in Data /\ error' \in BOOLEAN /\ Waits' /\ Youngest'
      BY <2>1, <3>1, <3>2, HandleKeepsInv
    <3>4. buffer' \in Seq(Nat)
      BY <3>1, EmptySeq
    <3>5. TypeOK'
      BY <2>1, <2>2, <3>3, <3>4 DEF TypeOK, socket, server
    <3>6. QED
      BY <3>3, <3>5
  <2>4. CASE ~(paused /\ buffer # <<>>)
    <3>1. UNCHANGED <<data, error, buffer>>
      BY <1>2, <2>4 DEF TogglePause
    <3>2. TypeOK'
      BY <2>1, <2>2, <3>1 DEF TypeOK, socket, server
    <3>3. QED
      BY <2>1, <3>1, <3>2, QuietKeepsInv DEF page
  <2>5. QED
    BY <2>3, <2>4
<1>3. QED
  BY <1>1, <1>2

\* What happens away from the page.
LEMMA ServerKeepsInv ==
  ASSUME IInv,
         \/ Ingest \/ Fail \/ Restart \/ Settle
         \/ \E i \in 1..Len(casts) : ReadStats(i) \/ Broadcast(i)
  PROVE  IInv'
<1> USE DEF IInv
<1>1. CASE Ingest
  <2>1. version' \in Nat /\ casts' \in Seq(Nat \union {Pending})
    BY <1>1, AppendProperties DEF Ingest, TypeOK
  <2>2. UNCHANGED <<kind, want, page, status, inbox, pause, up, calm>>
    BY <1>1 DEF Ingest
  <2>3. TypeOK'
    BY <2>1, <2>2 DEF TypeOK, page, pause
  <2>4. QED
    BY <2>2, <2>3, QuietKeepsInv
<1>2. CASE Fail
  <2>1. casts' \in Seq(Nat \union {Pending}) /\ up' \in BOOLEAN
    BY <1>2, EmptySeq DEF Fail
  <2>2. UNCHANGED <<kind, want, page, status, inbox, pause, version, calm>>
    BY <1>2 DEF Fail
  <2>3. TypeOK'
    BY <2>1, <2>2 DEF TypeOK, page, pause
  <2>4. QED
    BY <2>2, <2>3, QuietKeepsInv
<1>3. CASE Restart \/ Settle
  <2>1. up' \in BOOLEAN /\ calm' \in BOOLEAN
    BY <1>3 DEF Restart, Settle, TypeOK
  <2>2. UNCHANGED <<kind, want, page, socket, pause, version>>
    BY <1>3 DEF Restart, Settle
  <2>3. TypeOK'
    BY <2>1, <2>2 DEF TypeOK, page, socket, pause
  <2>4. QED
    BY <2>2, <2>3, QuietKeepsInv
<1>4. ASSUME NEW i \in 1..Len(casts), ReadStats(i) PROVE IInv'
  <2>1. casts' \in Seq(Nat \union {Pending})
    BY <1>4, ExceptSeq DEF ReadStats, TypeOK
  <2>2. UNCHANGED <<kind, want, page, status, inbox, pause, server>>
    BY <1>4 DEF ReadStats
  <2>3. TypeOK'
    BY <2>1, <2>2 DEF TypeOK, page, pause, server
  <2>4. QED
    BY <2>2, <2>3, QuietKeepsInv
<1>5. ASSUME NEW i \in 1..Len(casts), Broadcast(i) PROVE IInv'
  <2>1. casts \in Seq(Nat \union {Pending}) /\ Len(casts) \in Nat
    BY LenProperties DEF TypeOK
  <2>2. casts[i] \in Nat
    BY <1>5, <2>1, ElementOfSeq DEF Broadcast
  <2>3. casts' \in Seq(Nat \union {Pending})
    <3>1. /\ SubSeq(casts, 1, i - 1) \in Seq(Nat \union {Pending})
          /\ SubSeq(casts, i + 1, Len(casts)) \in Seq(Nat \union {Pending})
      BY <2>1, SubSeqProperties
    <3>2. QED
      BY <1>5, <3>1, ConcatProperties DEF Broadcast
  <2>4. inbox' \in Seq(Nat)
    BY <1>5, <2>2, AppendProperties DEF Broadcast, TypeOK
  <2>5. UNCHANGED <<kind, want, page, status, pause, server>>
    BY <1>5 DEF Broadcast
  <2>6. TypeOK'
    BY <2>3, <2>4, <2>5 DEF TypeOK, page, pause, server
  <2>7. QED
    BY <2>5, <2>6, QuietKeepsInv
<1>6. QED
  BY <1>1, <1>2, <1>3, <1>4, <1>5

LEMMA NextIInv == IInv /\ [Next]_vars => IInv'
<1> SUFFICES ASSUME IInv, [Next]_vars PROVE IInv'
  OBVIOUS
<1>1. CASE Next
  BY <1>1, SendersKeepInv, AnswerKeepsInv, LandKeepsInv, PushesKeepInv, ServerKeepsInv
     DEF Next, Other
<1>2. CASE UNCHANGED vars
  <2>1. TypeOK'
    BY <1>2 DEF IInv, TypeOK, vars, page, socket, pause, server
  <2>2. QED
    BY <1>2, <2>1, QuietKeepsInv DEF IInv, vars
<1>3. QED
  BY <1>1, <1>2

LEMMA AlwaysIInv == Spec => []IInv
  BY InitIInv, NextIInv, PTL DEF Spec

-----------------------------------------------------------------------------
(* What pages show *)

\* The pages keep their types: for any keys, requests and messages, a page with a
\* parameter is never asked for nothing, and its answers are about a key.
THEOREM PagesTypeCorrect == Spec => []TypeOK
<1>1. IInv => TypeOK
  BY DEF IInv
<1>2. QED
  BY <1>1, AlwaysIInv, PTL

\* What is shown and under which title, whatever the kind of the page.
LEMMA ShownParts ==
  ASSUME TypeOK
  PROVE  /\ Shown.title = want
         /\ Shown.content = IF View = "ready" THEN data ELSE None
  BY DEF View, Shown, Screen, TypeOK, Kind, Keyed, DashboardScreen, ServiceScreen,
         ExemplarsScreen, SettingsScreen, TraceScreen

\* The panel of a page with no request under way.
LEMMA PanelAtRest ==
  ASSUME TypeOK, ~loading
  PROVE  /\ View # "loading"
         /\ View = "ready" => data # None \/ (kind = "dashboard" /\ ~error)
         /\ data = None /\ (kind \in {"dashboard", "service"} => error) =>
              View = IF kind \in {"exemplars", "trace"} THEN "empty" ELSE "error"
  BY DEF View, Shown, Screen, AsyncView, NothingIn, TypeOK, Kind, DashboardScreen, ServiceScreen,
         ExemplarsScreen, SettingsScreen, TraceScreen

\* Whatever order answers and messages land in, a page that is loading waits for
\* a request, and one at rest shows data or says that there is none.
THEOREM PagesPanelsExplained == Spec => []PanelsExplained
<1>1. IInv => PanelsExplained
  <2> SUFFICES ASSUME IInv PROVE PanelsExplained
    OBVIOUS
  <2> USE DEF IInv
  <2>1. View = "loading" => flights # <<>>
    BY PanelAtRest DEF Waits, TypeOK
  <2>2. ASSUME flights = <<>>, data = None
        PROVE  kind \in {"dashboard", "service"} => error
    <3>1. Len(flights) = 0
      BY <2>2
    <3>2. QED
      BY <2>2, <3>1 DEF Waits
  <2>3. ASSUME flights = <<>>, data = None
        PROVE  View = IF kind \in {"exemplars", "trace"} THEN "empty" ELSE "error"
    BY <2>2, <2>3, PanelAtRest DEF Waits
  <2>4. ASSUME View = "ready", flights = <<>> PROVE Shown.content # None
    <3>1. data # None
      BY <2>3, <2>4
    <3>2. QED
      BY <2>4, <3>1, ShownParts
  <2>5. QED
    BY <2>1, <2>3, <2>4 DEF PanelsExplained
<1>2. QED
  BY <1>1, AlwaysIInv, PTL

\* A page at rest shows what its URL asks for, unless its last request failed or
\* was answered after a later one.
THEOREM PagesStaleExplained == Spec => []StaleExplained
<1>1. IInv => StaleExplained
  BY ShownParts DEF IInv, Youngest, StaleExplained
<1>2. QED
  BY <1>1, AlwaysIInv, PTL

-----------------------------------------------------------------------------
(* Induction up to a bound, recursion and least elements *)

\* The least element of a set of naturals.
LEMMA LeastNat ==
  ASSUME NEW S \in SUBSET Nat, S # {}
  PROVE  \E m \in S : \A n \in S : m <= n
<1>1. PICK m \in S : \A n \in S : ~(<<n, m>> \in OpToRel(<, Nat))
  BY NatLessThanWellFounded, WFMin
<1>2. \A n \in S : ~(n < m)
  BY <1>1 DEF OpToRel
<1>3. QED
  BY <1>2

\* A set that has a and with every number the next one has all up to b.
LEMMA UpTo ==
  ASSUME NEW a \in Nat, NEW b \in Nat, NEW T,
         a \in T, \A n \in a + 1..b : n - 1 \in T => n \in T
  PROVE  \A n \in a..b : n \in T
<1> DEFINE Bad == {n \in a..b : n \notin T}
<1>1. SUFFICES ASSUME Bad # {} PROVE FALSE
  OBVIOUS
<1>2. PICK m \in Bad : \A n \in Bad : m <= n
  <2>1. Bad \in SUBSET Nat
    OBVIOUS
  <2>2. QED
    BY <1>1, <2>1, LeastNat
<1>3. m # a /\ m \in a + 1..b /\ m - 1 \in a..b /\ m - 1 \notin Bad
  BY <1>2
<1>4. QED
  BY <1>2, <1>3

\* What follows from every value is computed by step.
Follows(f, a, b, base, step) ==
  \A n \in a..b : f[n] = IF n = a THEN base ELSE step[n][f[n - 1]]

\* A function is defined by its first value and by what follows from every value.
LEMMA Recursion ==
  ASSUME NEW a \in Nat, NEW b \in Nat, a <= b, NEW T, NEW base \in T,
         NEW step \in [a + 1..b -> [T -> T]]
  PROVE  \E f \in [a..b -> T] : Follows(f, a, b, base, step)
<1> DEFINE Good == {k \in a..b : \E f \in [a..k -> T] : Follows(f, a, k, base, step)}
<1>1. a \in Good
  <2> DEFINE f == [n \in a..a |-> base]
  <2>1. f \in [a..a -> T] /\ Follows(f, a, a, base, step)
    BY DEF Follows
  <2>2. a \in a..b
    OBVIOUS
  <2> HIDE DEF f
  <2>3. QED
    BY <2>1, <2>2
<1>2. ASSUME NEW k \in a + 1..b, k - 1 \in Good PROVE k \in Good
  <2>1. PICK f \in [a..k - 1 -> T] : Follows(f, a, k - 1, base, step)
    BY <1>2
  <2>2. k - 1 \in a..k - 1 /\ k \in a..b /\ k # a
    OBVIOUS
  <2> DEFINE next == step[k][f[k - 1]]
             g == [n \in a..k |-> IF n = k THEN next ELSE f[n]]
  <2>3. next \in T
    <3>1. step[k] \in [T -> T] /\ f[k - 1] \in T
      BY <2>1, <2>2
    <3>2. QED
      BY <3>1
  <2>4. g \in [a..k -> T]
    <3> HIDE DEF next
    <3>1. QED
      BY <2>1, <2>3
  <2>5. ASSUME NEW n \in a..k PROVE g[n] = IF n = a THEN base ELSE step[n][g[n - 1]]
    <3>1. CASE n = k
      <4>1. g[k - 1] = f[k - 1] /\ g[k] = next
        BY <2>2
      <4>2. QED
        BY <2>2, <3>1, <4>1
    <3>2. CASE n # k
      <4>1. n \in a..k - 1 /\ (n # a => n - 1 \in a..k - 1)
        BY <3>2
      <4>2. g[n] = f[n] /\ (n # a => g[n - 1] = f[n - 1])
        BY <4>1
      <4>3. QED
        BY <2>1, <4>1, <4>2 DEF Follows
    <3>3. QED
      BY <3>1, <3>2
  <2> HIDE DEF g
  <2>6. Follows(g, a, k, base, step)
    BY <2>5 DEF Follows
  <2>7. QED
    BY <2>2, <2>4, <2>6
<1>3. \A n \in a..b : n \in Good
  <2> HIDE DEF Good
  <2>1. QED
    BY <1>1, <1>2, UpTo
<1>4. QED
  BY <1>3

\* Numbers at finitely many places have a least one.
LEMMA LeastAt ==
  ASSUME NEW n \in Nat, NEW S \in SUBSET (1..n), S # {}, NEW f \in [S -> Int]
  PROVE  \E i \in S : \A j \in S : f[i] <= f[j]
<1> DEFINE Good == {k \in 0..n : \A T \in SUBSET S :
                      T # {} /\ T \subseteq 1..k => \E i \in T : \A j \in T : f[i] <= f[j]}
<1>1. 0 \in Good
  <2>1. 1..0 = {} /\ 0 \in 0..n
    OBVIOUS
  <2>2. \A T \in SUBSET S : ~(T # {} /\ T \subseteq 1..0)
    BY <2>1
  <2>3. QED
    BY <2>1, <2>2
<1>2. ASSUME NEW k \in 0 + 1..n, k - 1 \in Good PROVE k \in Good
  <2>1. ASSUME NEW T \in SUBSET S, T # {}, T \subseteq 1..k
        PROVE  \E i \in T : \A j \in T : f[i] <= f[j]
    <3> DEFINE U == T \ {k}
    <3>1. U \in SUBSET S /\ U \subseteq 1..k - 1
      BY <2>1
    <3>2. CASE U = {}
      <4>1. T = {k} /\ f[k] \in Int
        BY <2>1, <3>2
      <4>2. QED
        BY <4>1
    <3>3. CASE U # {}
      <4>1. PICK i \in U : \A j \in U : f[i] <= f[j]
        BY <1>2, <3>1, <3>3
      <4>2. \A j \in T : f[j] \in Int
        OBVIOUS
      <4>3. CASE k \in T /\ f[k] <= f[i]
        <5>1. \A j \in T : f[k] <= f[j]
          BY <4>1, <4>2, <4>3
        <5>2. QED
          BY <4>3, <5>1
      <4>4. CASE ~(k \in T /\ f[k] <= f[i])
        <5>1. \A j \in T : f[i] <= f[j]
          BY <4>1, <4>2, <4>4
        <5>2. QED
          BY <5>1
      <4>5. QED
        BY <4>3, <4>4
    <3>4. QED
      BY <3>2, <3>3
  <2>2. QED
    BY <1>2, <2>1
<1>3. \A k \in 0..n : k \in Good
  <2> HIDE DEF Good
  <2>1. QED
    BY <1>1, <1>2, UpTo
<1>4. n \in Good
  BY <1>3
<1>5. QED
  BY <1>4

\* The least and the greatest of the numbers at finitely many places.
LEMMA MinMaxAt ==
  ASSUME NEW n \in Nat, NEW S \in SUBSET (1..n), S # {}, NEW f \in [S -> Int],
         NEW T, T = {f[i] : i \in S}
  PROVE  /\ Min(T) \in T /\ \A t \in T : Min(T) <= t
         /\ Max(T) \in T /\ \A t \in T : t <= Max(T)
<1>1. Min(T) \in T /\ \A t \in T : Min(T) <= t
  <2>1. PICK i \in S : \A j \in S : f[i] <= f[j]
    BY LeastAt
  <2>2. f[i] \in T /\ \A t \in T : f[i] <= t
    BY <2>1
  <2>3. QED
    BY <2>2 DEF Min
<1>2. Max(T) \in T /\ \A t \in T : t <= Max(T)
  <2> DEFINE g == [i \in S |-> -f[i]]
  <2>1. PICK i \in S : \A j \in S : g[i] <= g[j]
    <3>1. g \in [S -> Int]
      OBVIOUS
    <3> HIDE DEF g
    <3>2. QED
      BY <3>1, LeastAt
  <2>2. \A j \in S : f[j] <= f[i]
    BY <2>1
  <2>3. f[i] \in T /\ \A t \in T : t <= f[i]
    BY <2>2
  <2>4. \A t \in T : t \in Int
    OBVIOUS
  <2>5. \E x \in T : \A y \in T : x >= y
    BY <2>3, <2>4
  <2>6. Max(T) \in T /\ \A y \in T : Max(T) >= y
    BY <2>5 DEF Max
  <2>7. QED
    BY <2>4, <2>6
<1>3. QED
  BY <1>1, <1>2

LEMMA OfPositions ==
  ASSUME NEW n \in Nat, NEW S \in SUBSET (1..n), S # {}
  PROVE  Min(S) \in S /\ Max(S) \in S /\ \A i \in S : Min(S) <= i /\ i <= Max(S)
<1> DEFINE f == [i \in S |-> i]
<1>1. \A i \in S : f[i] = i /\ i \in Int
  OBVIOUS
<1>2. f \in [S -> Int] /\ S = {f[i] : i \in S}
  BY <1>1
<1> HIDE DEF f
<1>3. QED
  BY <1>2, MinMaxAt

\* Two sequences of known length.
LEMMA Joined ==
  ASSUME NEW S, NEW s \in Seq(S), NEW t \in Seq(S), NEW a, NEW b, Len(s) = a, Len(t) = b
  PROVE  /\ s \o t \in Seq(S) /\ Len(s \o t) = a + b
         /\ \A i \in 1..a + b : (s \o t)[i] = IF i <= a THEN s[i] ELSE t[i - a]
  BY ConcatProperties

LEMMA OfTwo ==
  ASSUME NEW a \in Int, NEW b \in Int
  PROVE  /\ Max({a, b}) = IF a >= b THEN a ELSE b
         /\ Min({a, b}) = IF a <= b THEN a ELSE b
  BY DEF Max, Min

LEMMA Clamped ==
  ASSUME NEW a \in Int, NEW b \in Int, 0 <= a, a <= b
  PROVE  Max({a, 0}) = a /\ Min({a, b}) = a
<1>1. Max({a, 0}) = IF a >= 0 THEN a ELSE 0
  BY OfTwo
<1>2. QED
  BY <1>1, OfTwo

LEMMA MaxOfThree ==
  ASSUME NEW a \in Int, NEW b \in Int, NEW c \in Int
  PROVE  /\ Max({a, b, c}) \in {a, b, c}
         /\ Max({a, b, c}) >= a /\ Max({a, b, c}) >= b /\ Max({a, b, c}) >= c
<1>1. \E x \in {a, b, c} : \A y \in {a, b, c} : x >= y
  OBVIOUS
<1>2. QED
  BY <1>1 DEF Max

-----------------------------------------------------------------------------
(* The timeline *)

\* The spans of a trace are numbered, and their numbers are those of its spans.
LEMMA TraceIndexed ==
  ASSUME NEW spans, IsTrace(spans)
  PROVE  /\ Len(spans) \in Nat \ {0} /\ DOMAIN spans = 1..Len(spans)
         /\ \A i \in 1..Len(spans) : spans[i] \in Range(spans)
         /\ \A s \in Range(spans) : \E i \in 1..Len(spans) : spans[i] = s
<1>1. spans \in Seq(Range(spans)) /\ spans # <<>>
  BY DEF IsTrace
<1>2. Len(spans) \in Nat \ {0} /\ DOMAIN spans = 1..Len(spans)
  BY <1>1, LenProperties, EmptySeq
<1>3. Range(spans) = {spans[i] : i \in 1..Len(spans)}
  BY <1>1, RangeEquality
<1>4. QED
  BY <1>2, <1>3

\* A span is as long as it was reported to be and as was observed, at least.
LEMMA DurationBounds ==
  ASSUME NEW s, s.start \in Int, s.end \in Int, s.duration \in Int
  PROVE  Duration(s) \in Nat /\ Duration(s) >= s.end - s.start
<1>1. s.end - s.start \in Int /\ 0 \in Int
  OBVIOUS
<1>2. /\ Duration(s) \in {s.duration, s.end - s.start, 0}
      /\ Duration(s) >= s.end - s.start /\ Duration(s) >= 0
  BY <1>1, MaxOfThree DEF Duration
<1>3. QED
  BY <1>1, <1>2

\* The primary root is a span of the trace.
LEMMA PrimaryRootIsSpan ==
  ASSUME NEW spans, IsTrace(spans)
  PROVE  PrimaryRoot(spans) \in Range(spans) \union {None}
<1> DEFINE roots == {i \in DOMAIN spans : spans[i].parent = None}
           longest == {i \in roots : \A j \in roots : Duration(spans[j]) <= Duration(spans[i])}
           earliest == {i \in longest : \A j \in longest : spans[i].start <= spans[j].start}
<1>1. /\ Len(spans) \in Nat /\ roots \in SUBSET (1..Len(spans))
      /\ \A i \in 1..Len(spans) :
           /\ spans[i] \in Range(spans)
           /\ spans[i].start \in Int /\ Duration(spans[i]) \in Nat
  BY TraceIndexed, DurationBounds DEF IsTrace
<1>2. PrimaryRoot(spans) = IF roots = {} THEN None ELSE spans[Min(earliest)]
  BY DEF PrimaryRoot
<1>3. longest \in SUBSET roots /\ earliest \in SUBSET longest
  OBVIOUS
<1>4. ASSUME roots # {} PROVE longest # {}
  <2> DEFINE f == [i \in roots |-> -Duration(spans[i])]
  <2>1. f \in [roots -> Int]
    BY <1>1
  <2>2. PICK i \in roots : \A j \in roots : f[i] <= f[j]
    <3> HIDE DEF f, roots
    <3>1. QED
      BY <1>1, <1>4, <2>1, LeastAt
  <2>3. \A j \in roots : Duration(spans[j]) \in Nat /\ f[j] = -Duration(spans[j])
    BY <1>1
  <2> HIDE DEF f, roots
  <2>4. \A j \in roots : Duration(spans[j]) <= Duration(spans[i])
    BY <2>2, <2>3
  <2>5. QED
    BY <2>4
<1>5. ASSUME longest # {} PROVE earliest # {}
  <2> DEFINE f == [i \in longest |-> spans[i].start]
  <2>1. f \in [longest -> Int]
    BY <1>1, <1>3
  <2>2. PICK i \in longest : \A j \in longest : f[i] <= f[j]
    <3>1. longest \in SUBSET (1..Len(spans))
      BY <1>1, <1>3
    <3> HIDE DEF f, longest
    <3>2. QED
      BY <1>1, <1>5, <2>1, <3>1, LeastAt
  <2>3. QED
    BY <2>2
<1>6. ASSUME earliest # {} PROVE Min(earliest) \in earliest
  <2>1. earliest \in SUBSET (1..Len(spans))
    BY <1>1, <1>3
  <2> HIDE DEF earliest
  <2>2. QED
    BY <1>1, <1>6, <2>1, OfPositions
<1> HIDE DEF roots, longest, earliest
<1>7. roots # {} => Min(earliest) \in 1..Len(spans)
  BY <1>1, <1>3, <1>4, <1>5, <1>6
<1>8. QED
  BY <1>1, <1>2, <1>7

\* The timeline begins with the first span and ends with the last.
LEMMA TimelineBounds ==
  ASSUME NEW spans, IsTrace(spans)
  PROVE  /\ TimelineStart(spans) \in Int /\ TimelineEnd(spans) \in Int
         /\ \A i \in 1..Len(spans) :
              /\ TimelineStart(spans) <= spans[i].start
              /\ spans[i].start + Duration(spans[i]) <= TimelineEnd(spans)
         /\ \E i \in 1..Len(spans) :
              TimelineEnd(spans) = spans[i].start + Duration(spans[i])
<1> DEFINE n == Len(spans)
           starts == [i \in 1..n |-> spans[i].start]
           ends == [i \in 1..n |-> spans[i].start + Duration(spans[i])]
<1>1. /\ n \in Nat \ {0} /\ DOMAIN spans = 1..n
      /\ \A i \in 1..n : /\ spans[i].start \in Int /\ spans[i].end \in Int
                         /\ Duration(spans[i]) \in Nat
                         /\ Duration(spans[i]) >= spans[i].end - spans[i].start
  BY TraceIndexed, DurationBounds DEF IsTrace
<1>2. 1..n # {} /\ 1..n \in SUBSET (1..n)
  BY <1>1
<1>3. starts \in [1..n -> Int] /\ ends \in [1..n -> Int]
  BY <1>1
<1>4. TimelineStart(spans) = Min({starts[i] : i \in 1..n})
  BY <1>1 DEF TimelineStart
<1>5. TimelineEnd(spans) = Max({ends[i] : i \in 1..n})
  <2>1. \A i \in 1..n : Max({spans[i].end, spans[i].start + Duration(spans[i])}) = ends[i]
    <3> SUFFICES ASSUME NEW i \in 1..n
                 PROVE  Max({spans[i].end, spans[i].start + Duration(spans[i])}) =
                          spans[i].start + Duration(spans[i])
      OBVIOUS
    <3>1. /\ spans[i].end \in Int /\ spans[i].start + Duration(spans[i]) \in Int
          /\ spans[i].start + Duration(spans[i]) >= spans[i].end
      BY <1>1
    <3>2. QED
      BY <3>1, OfTwo
  <2>2. {Max({spans[i].end, spans[i].start + Duration(spans[i])}) : i \in DOMAIN spans} =
          {ends[i] : i \in 1..n}
    BY <1>1, <2>1
  <2>3. QED
    BY <2>2 DEF TimelineEnd
<1>6. /\ Min({starts[i] : i \in 1..n}) \in {starts[i] : i \in 1..n}
      /\ \A i \in 1..n : Min({starts[j] : j \in 1..n}) <= starts[i]
  <2> DEFINE T == {starts[i] : i \in 1..n}
  <2>1. Min(T) \in T /\ \A t \in T : Min(T) <= t
    <3> HIDE DEF starts
    <3>1. QED
      BY <1>1, <1>2, <1>3, MinMaxAt
  <2>2. QED
    BY <2>1
<1>7. /\ Max({ends[i] : i \in 1..n}) \in {ends[i] : i \in 1..n}
      /\ \A i \in 1..n : ends[i] <= Max({ends[j] : j \in 1..n})
  <2> DEFINE T == {ends[i] : i \in 1..n}
  <2>1. Max(T) \in T /\ \A t \in T : t <= Max(T)
    <3> HIDE DEF ends
    <3>1. QED
      BY <1>1, <1>2, <1>3, MinMaxAt
  <2>2. QED
    BY <2>1
<1>8. \A i \in 1..n : starts[i] = spans[i].start /\ ends[i] = spans[i].start + Duration(spans[i])
  OBVIOUS
<1> HIDE DEF starts, ends
<1>9. QED
  BY <1>3, <1>4, <1>5, <1>6, <1>7, <1>8

\* The timeline is as long as what lies between its ends: the primary root lies
\* between them, too.
LEMMA TimelineLength ==
  ASSUME NEW spans, IsTrace(spans)
  PROVE  /\ TimelineDuration(spans) \in Nat
         /\ TimelineDuration(spans) =
              IF TimelineEnd(spans) > TimelineStart(spans)
                THEN TimelineEnd(spans) - TimelineStart(spans) ELSE 1
         /\ TimelineEnd(spans) >= TimelineStart(spans)
<1> DEFINE long == TimelineEnd(spans) - TimelineStart(spans)
<1>1. /\ Len(spans) \in Nat \ {0}
      /\ \A i \in 1..Len(spans) : spans[i].start \in Int /\ Duration(spans[i]) \in Nat
      /\ \A s \in Range(spans) : \E i \in 1..Len(spans) : spans[i] = s
  BY TraceIndexed, DurationBounds DEF IsTrace
<1>2. \A i \in 1..Len(spans) : Duration(spans[i]) <= long
  BY <1>1, TimelineBounds
<1>3. long \in Nat
  <2>1. 1 \in 1..Len(spans)
    BY <1>1
  <2>2. QED
    BY <1>1, <1>2, <2>1, TimelineBounds
<1>4. EnvelopeDuration(spans) = long
  BY <1>3, OfTwo DEF EnvelopeDuration
<1>5. RequestDuration(spans) \in Nat /\ RequestDuration(spans) <= long
  <2>1. CASE PrimaryRoot(spans) = None
    BY <1>3, <1>4, <2>1 DEF RequestDuration
  <2>2. CASE PrimaryRoot(spans) # None
    <3>1. PICK i \in 1..Len(spans) : spans[i] = PrimaryRoot(spans)
      BY <1>1, <2>2, PrimaryRootIsSpan
    <3>2. QED
      BY <1>1, <1>2, <2>2, <3>1 DEF RequestDuration
  <2>3. QED
    BY <2>1, <2>2
<1> HIDE DEF long
<1>6. /\ TimelineDuration(spans) \in {long, RequestDuration(spans), 1}
      /\ TimelineDuration(spans) >= long /\ TimelineDuration(spans) >= 1
      /\ TimelineDuration(spans) >= RequestDuration(spans)
  BY <1>3, <1>4, <1>5, MaxOfThree DEF TimelineDuration
<1>7. TimelineDuration(spans) = IF long > 0 THEN long ELSE 1
  BY <1>3, <1>5, <1>6
<1>8. QED
  BY <1>3, <1>7, TimelineBounds DEF long

\* A bar is where its span is and as long, and does not go beyond the timeline.
LEMMA BarOfSpan ==
  ASSUME NEW spans, IsTrace(spans), NEW i \in 1..Len(spans)
  PROVE  /\ Bar(spans, spans[i]) =
              [start |-> spans[i].start - TimelineStart(spans),
               visible |-> Duration(spans[i])]
         /\ spans[i].start - TimelineStart(spans) + Duration(spans[i]) <= TimelineDuration(spans)
<1> DEFINE offset == spans[i].start - TimelineStart(spans)
           total == TimelineDuration(spans)
           length == Duration(spans[i])
<1>1. length \in Nat /\ spans[i].start \in Int
  BY TraceIndexed, DurationBounds DEF IsTrace
<1>2. offset \in Nat /\ total \in Nat /\ offset + length <= total
  BY <1>1, TimelineBounds, TimelineLength
<1> HIDE DEF offset, total, length
<1>3. Max({offset, 0}) = offset /\ Min({offset, total}) = offset
  <2>1. offset \in Int /\ total \in Int /\ offset >= 0 /\ offset <= total
    BY <1>1, <1>2
  <2>2. QED
    BY <2>1, Clamped
<1>4. total - offset \in Int /\ total - offset >= 0 /\ length <= total - offset
  BY <1>1, <1>2
<1>5. Max({total - offset, 0}) = total - offset /\ Min({length, total - offset}) = length
  <2>1. length \in Int /\ length >= 0 /\ total - offset <= total - offset
    BY <1>1, <1>4
  <2>2. QED
    BY <1>4, <2>1, Clamped
<1>6. Bar(spans, spans[i]) =
        LET start == Min({Max({offset, 0}), total})
        IN [start |-> start, visible |-> Min({length, Max({total - start, 0})})]
  BY DEF Bar, offset, total, length
<1>7. Bar(spans, spans[i]) = [start |-> offset, visible |-> length]
  BY <1>3, <1>5, <1>6
<1>8. QED
  BY <1>2, <1>7 DEF offset, total, length

\* However the clocks of the services disagree: for any number of spans with any
\* times, every bar starts where its span does and is as long, and the timeline is
\* used to its end.
THEOREM EveryBarExact == ASSUME NEW spans, IsTrace(spans) PROVE ExactBars(spans)
<1>1. DOMAIN spans = 1..Len(spans) /\ Len(spans) \in Nat \ {0}
  BY TraceIndexed
<1>2. \A i \in DOMAIN spans :
        Bar(spans, spans[i]) = [start |-> spans[i].start - TimelineStart(spans),
                                visible |-> Duration(spans[i])]
  BY <1>1, BarOfSpan
<1>3. \A i \in 1..Len(spans) : spans[i].start \in Int /\ Duration(spans[i]) \in Nat
  BY TraceIndexed, DurationBounds DEF IsTrace
<1>4. CASE TimelineEnd(spans) > TimelineStart(spans)
  <2>1. PICK i \in 1..Len(spans) : TimelineEnd(spans) = spans[i].start + Duration(spans[i])
    BY TimelineBounds
  <2>2. spans[i].start - TimelineStart(spans) + Duration(spans[i]) = TimelineDuration(spans)
    BY <1>3, <1>4, <2>1, TimelineBounds, TimelineLength
  <2>3. QED
    BY <1>1, <1>2, <2>2 DEF ExactBars
<1>5. CASE ~(TimelineEnd(spans) > TimelineStart(spans))
  <2>1. TimelineDuration(spans) = 1
    BY <1>5, TimelineLength
  <2>2. \A i \in 1..Len(spans) : Duration(spans[i]) = 0
    BY <1>3, <1>5, TimelineBounds
  <2>3. QED
    BY <1>1, <1>2, <2>1, <2>2 DEF ExactBars
<1>6. QED
  BY <1>4, <1>5

-----------------------------------------------------------------------------
(* The nodes *)

\* nodesMap has a span of the trace for every id, and only one is there to find.
LEMMA NodeIsSpan ==
  ASSUME NEW spans, IsTrace(spans), NEW id \in Ids(spans)
  PROVE  Node(spans, id) \in Range(spans) /\ Node(spans, id).id = id
<1> DEFINE same == {i \in DOMAIN spans : spans[i].id = id}
<1>1. /\ Len(spans) \in Nat /\ DOMAIN spans = 1..Len(spans)
      /\ \A i \in 1..Len(spans) : spans[i] \in Range(spans)
      /\ \A s \in Range(spans) : \E i \in 1..Len(spans) : spans[i] = s
  BY TraceIndexed
<1>2. PICK s \in Range(spans) : s.id = id
  BY DEF Ids
<1>3. same \in SUBSET (1..Len(spans)) /\ same # {}
  BY <1>1, <1>2
<1>4. Max(same) \in same
  <2> HIDE DEF same
  <2>1. QED
    BY <1>1, <1>3, OfPositions
<1>5. spans[Max(same)].id = id /\ spans[Max(same)] \in Range(spans)
  BY <1>1, <1>4
<1>6. QED
  BY <1>5 DEF Node

LEMMA NodeOfSpan ==
  ASSUME NEW spans, IsTrace(spans), NEW s \in Range(spans)
  PROVE  s.id \in Ids(spans) /\ Node(spans, s.id) = s
<1>1. s.id \in Ids(spans)
  BY DEF Ids
<1>2. QED
  BY <1>1, NodeIsSpan DEF IsTrace

ByStart(nodes) == \A i, j \in 1..Len(nodes) : i < j => nodes[i].start <= nodes[j].start

\* The new one at its place, the others in their order.
Extended(nodes, node, p) ==
  [j \in 1..Len(nodes) + 1 |->
     IF j < p THEN nodes[j] ELSE IF j = p THEN node ELSE nodes[j - 1]]

LEMMA InsertAtExtends ==
  ASSUME NEW S, NEW nodes \in Seq(S), NEW node \in S, NEW p \in 1..Len(nodes) + 1
  PROVE  /\ InsertAt(nodes, p, node) = Extended(nodes, node, p)
         /\ InsertAt(nodes, p, node) \in Seq(S)
         /\ Len(InsertAt(nodes, p, node)) = Len(nodes) + 1
<1> DEFINE n == Len(nodes)
           left == SubSeq(nodes, 1, p - 1)
           right == SubSeq(nodes, p, n)
           one == <<node>>
<1>1. n \in Nat /\ p \in Int /\ \A i \in 1..n : nodes[i] \in S
  BY LenProperties, ElementOfSeq
<1>2. /\ left \in Seq(S) /\ Len(left) = p - 1
      /\ \A i \in 1..p - 1 : left[i] = nodes[i]
  <2>1. \A i \in 1..p - 1 : nodes[i] \in S
    BY <1>1
  <2>2. /\ left \in Seq(S) /\ Len(left) = IF 1 <= p - 1 THEN p - 1 - 1 + 1 ELSE 0
        /\ \A i \in 1..p - 1 - 1 + 1 : left[i] = nodes[1 + i - 1]
    BY <1>1, <2>1, SubSeqProperties
  <2>3. \A i \in 1..p - 1 : i \in 1..p - 1 - 1 + 1 /\ 1 + i - 1 = i
    BY <1>1
  <2> HIDE DEF left
  <2>4. QED
    BY <1>1, <2>2, <2>3
<1>3. /\ right \in Seq(S) /\ Len(right) = n - p + 1
      /\ \A i \in 1..n - p + 1 : right[i] = nodes[p + i - 1]
  <2>1. \A i \in p..n : nodes[i] \in S
    BY <1>1
  <2>2. /\ right \in Seq(S) /\ Len(right) = IF p <= n THEN n - p + 1 ELSE 0
        /\ \A i \in 1..n - p + 1 : right[i] = nodes[p + i - 1]
    BY <1>1, <2>1, SubSeqProperties
  <2> HIDE DEF right
  <2>3. QED
    BY <1>1, <2>2
<1>4. one \in Seq(S) /\ Len(one) = 1 /\ one[1] = node
  OBVIOUS
<1>5. InsertAt(nodes, p, node) = (left \o one) \o right
  BY DEF InsertAt
<1> HIDE DEF left, right, one
<1> DEFINE front == left \o one
<1>6. /\ front \in Seq(S) /\ Len(front) = p
      /\ \A i \in 1..p : front[i] = IF i < p THEN nodes[i] ELSE node
  <2> DEFINE a == p - 1
  <2>1. /\ front \in Seq(S) /\ Len(front) = a + 1
        /\ \A i \in 1..a + 1 : front[i] = IF i <= a THEN left[i] ELSE one[i - a]
    <3>1. Len(left) = a
      BY <1>2
    <3> HIDE DEF a
    <3>2. /\ front \in Seq(S) /\ Len(front) = Len(left) + Len(one)
          /\ \A i \in 1..Len(left) + Len(one) :
               front[i] = IF i <= Len(left) THEN left[i] ELSE one[i - Len(left)]
      BY <1>2, <1>4, ConcatProperties
    <3> HIDE DEF front
    <3>3. QED
      BY <1>4, <3>1, <3>2
  <2> HIDE DEF front
  <2>2. (p - 1) + 1 = p
    BY <1>1
  <2>3. ASSUME NEW i \in 1..p PROVE front[i] = IF i < p THEN nodes[i] ELSE node
    <3>1. CASE i < p
      BY <1>1, <1>2, <2>1, <2>2, <3>1
    <3>2. CASE ~(i < p)
      <4>1. i = p /\ i - (p - 1) = 1 /\ ~(i <= p - 1)
        BY <1>1, <3>2
      <4>2. QED
        BY <1>4, <2>1, <2>2, <4>1
    <3>3. QED
      BY <3>1, <3>2
  <2>4. QED
    BY <2>1, <2>2, <2>3
<1> HIDE DEF front
<1> DEFINE r == front \o right
<1>7. /\ r \in Seq(S) /\ Len(r) = n + 1
      /\ \A i \in 1..n + 1 : r[i] = IF i <= p THEN front[i] ELSE right[i - p]
  <2>1. /\ r \in Seq(S) /\ Len(r) = p + (n - p + 1)
        /\ \A i \in 1..p + (n - p + 1) :
             r[i] = IF i <= p THEN front[i] ELSE right[i - p]
    BY <1>3, <1>6, Joined
  <2> HIDE DEF r
  <2>2. p + (n - p + 1) = n + 1
    BY <1>1
  <2>3. QED
    BY <2>1, <2>2
<1> HIDE DEF r
<1>8. ASSUME NEW i \in 1..n + 1 PROVE r[i] = Extended(nodes, node, p)[i]
  <2>1. Extended(nodes, node, p)[i] =
          IF i < p THEN nodes[i] ELSE IF i = p THEN node ELSE nodes[i - 1]
    BY DEF Extended
  <2>2. CASE i <= p
    BY <1>1, <1>6, <1>7, <2>1, <2>2
  <2>3. CASE i > p
    <3>1. i - p \in 1..n - p + 1 /\ p + (i - p) - 1 = i - 1
      BY <1>1, <2>3
    <3>2. right[i - p] = nodes[p + (i - p) - 1]
      BY <1>3, <3>1
    <3>3. r[i] = right[i - p] /\ ~(i < p) /\ i # p
      BY <1>1, <1>7, <2>3
    <3>4. QED
      BY <2>1, <3>1, <3>2, <3>3
  <2>4. QED
    BY <1>1, <2>2, <2>3
<1>9. r = Extended(nodes, node, p)
  <2>1. Extended(nodes, node, p) \in Seq(S) /\ Len(Extended(nodes, node, p)) = n + 1
    <3>1. Extended(nodes, node, p) \in [1..n + 1 -> S]
      BY <1>1 DEF Extended
    <3>2. n + 1 \in Nat
      BY <1>1
    <3>3. QED
      BY <3>1, <3>2
  <2>2. QED
    BY <1>7, <1>8, <2>1, SeqEqual
<1>10. InsertAt(nodes, p, node) = r
  BY <1>5 DEF r, front
<1>11. QED
  BY <1>7, <1>9, <1>10

\* The place Insert chooses is behind those that do not start later.
Place(node, nodes) == 1 + Cardinality({i \in DOMAIN nodes : nodes[i].start <= node.start})

LEMMA PlaceInside ==
  ASSUME NEW S, NEW nodes \in Seq(S), NEW node \in S
  PROVE  Place(node, nodes) \in 1..Len(nodes) + 1
<1> DEFINE E == {i \in DOMAIN nodes : nodes[i].start <= node.start}
<1>1. Len(nodes) \in Nat /\ DOMAIN nodes = 1..Len(nodes)
  BY LenProperties
<1>2. IsFiniteSet(1..Len(nodes)) /\ Cardinality(1..Len(nodes)) = Len(nodes)
  BY <1>1, FS_Interval
<1>3. E \in SUBSET (1..Len(nodes))
  BY <1>1
<1> HIDE DEF E
<1>4. Cardinality(E) \in Nat /\ Cardinality(E) <= Len(nodes)
  BY <1>2, <1>3, FS_Subset, FS_CardinalityType
<1>5. Place(node, nodes) = 1 + Cardinality(E)
  BY DEF Place, E
<1>6. QED
  BY <1>1, <1>4, <1>5

\* Sorted nodes stay sorted.
LEMMA InsertKeepsOrder ==
  ASSUME NEW S, \A s \in S : s.start \in Int,
         NEW nodes \in Seq(S), NEW node \in S, ByStart(nodes)
  PROVE  ByStart(Extended(nodes, node, Place(node, nodes)))
<1> DEFINE n == Len(nodes)
           E == {i \in 1..n : nodes[i].start <= node.start}
           p == Place(node, nodes)
           r == Extended(nodes, node, p)
<1>1. /\ n \in Nat /\ DOMAIN nodes = 1..n
      /\ node.start \in Int /\ \A i \in 1..n : nodes[i].start \in Int
  BY LenProperties, ElementOfSeq
<1>2. p = 1 + Cardinality(E) /\ p \in 1..n + 1
  BY <1>1, PlaceInside DEF Place
<1>3. E = 1..Cardinality(E)
  <2>1. CASE E = {}
    <3>1. Cardinality(E) = 0
      BY <2>1, FS_EmptySet
    <3>2. 1..0 = {}
      OBVIOUS
    <3>3. QED
      BY <2>1, <3>1, <3>2
  <2>2. CASE E # {}
    <3> DEFINE f == [i \in E |-> -i]
    <3>1. E \in SUBSET (1..n) /\ f \in [E -> Int]
      OBVIOUS
    <3>2. PICK m \in E : \A j \in E : f[m] <= f[j]
      <4> HIDE DEF E, f
      <4>1. QED
        BY <1>1, <2>2, <3>1, LeastAt
    <3>3. \A j \in E : j <= m
      BY <3>1, <3>2
    <3>4. \A j \in 1..m : j \in E
      <4> SUFFICES ASSUME NEW j \in 1..m PROVE j \in E
        OBVIOUS
      <4>1. j \in 1..n /\ m \in 1..n /\ nodes[m].start <= node.start
        BY <1>1
      <4>2. j = m \/ j < m
        BY <4>1
      <4>3. j < m => nodes[j].start <= nodes[m].start
        BY <4>1 DEF ByStart
      <4>4. nodes[j].start <= node.start
        BY <1>1, <4>1, <4>2, <4>3
      <4>5. QED
        BY <4>1, <4>4
    <3>5. E = 1..m
      BY <3>1, <3>3, <3>4
    <3>6. m \in Nat
      OBVIOUS
    <3> HIDE DEF E
    <3>7. Cardinality(1..m) = m
      BY <3>6, FS_Interval
    <3>8. QED
      BY <3>5, <3>7
  <2>3. QED
    BY <2>1, <2>2
<1>4. \A i \in 1..n : i < p <=> nodes[i].start <= node.start
  <2>1. \A i \in 1..n : nodes[i].start <= node.start <=> i \in E
    OBVIOUS
  <2> HIDE DEF E, p
  <2>2. Cardinality(E) \in Nat
    <3>1. E \in SUBSET (1..n) /\ IsFiniteSet(1..n)
      BY <1>1, FS_Interval DEF E
    <3>2. QED
      BY <3>1, FS_Subset, FS_CardinalityType
  <2>3. \A i \in 1..n : i \in E <=> i <= Cardinality(E)
    BY <1>1, <1>3, <2>2
  <2>4. QED
    BY <1>1, <1>2, <2>1, <2>2, <2>3
<1> HIDE DEF E, p
<1>5. /\ Len(r) = n + 1
      /\ \A j \in 1..n + 1 :
           r[j] = IF j < p THEN nodes[j] ELSE IF j = p THEN node ELSE nodes[j - 1]
  BY <1>1 DEF Extended
<1> HIDE DEF r
<1>6. ASSUME NEW i \in 1..n + 1, NEW j \in 1..n + 1, i < j
      PROVE  r[i].start <= r[j].start
  <2>1. CASE j < p
    <3>1. i \in 1..n /\ j \in 1..n /\ r[i] = nodes[i] /\ r[j] = nodes[j]
      BY <1>1, <1>2, <1>5, <1>6, <2>1
    <3>2. QED
      BY <1>6, <3>1 DEF ByStart
  <2>2. CASE j = p
    <3>1. i \in 1..n /\ r[i] = nodes[i] /\ r[j] = node /\ i < p
      BY <1>1, <1>2, <1>5, <1>6, <2>2
    <3>2. QED
      BY <1>4, <3>1
  <2>3. CASE j > p
    <3>1. j - 1 \in 1..n /\ r[j] = nodes[j - 1] /\ ~(j - 1 < p)
      BY <1>1, <1>2, <1>5, <2>3
    <3>2. CASE i < p
      <4>1. i \in 1..n /\ r[i] = nodes[i] /\ i < j - 1
        BY <1>1, <1>2, <1>5, <2>3, <3>2
      <4>2. QED
        BY <3>1, <4>1 DEF ByStart
    <3>3. CASE i = p
      BY <1>1, <1>4, <1>5, <3>1, <3>3
    <3>4. CASE i > p
      <4>1. i - 1 \in 1..n /\ r[i] = nodes[i - 1] /\ i - 1 < j - 1
        BY <1>1, <1>2, <1>5, <1>6, <3>4
      <4>2. QED
        BY <3>1, <4>1 DEF ByStart
    <3>5. QED
      BY <1>2, <3>2, <3>3, <3>4
  <2>4. QED
    BY <1>2, <2>1, <2>2, <2>3
<1>7. QED
  BY <1>5, <1>6 DEF ByStart, r, p

\* With as many ids as spans, no two spans have the same.
LEMMA DistinctIds ==
  ASSUME NEW spans, IsTrace(spans), Distinct(spans)
  PROVE  \A i, j \in 1..Len(spans) : spans[i].id = spans[j].id => i = j
<1> DEFINE N == Len(spans)
           f == [i \in 1..N |-> spans[i].id]
<1>1. /\ N \in Nat
      /\ \A i \in 1..N : spans[i] \in Range(spans)
      /\ \A s \in Range(spans) : \E i \in 1..N : spans[i] = s
  BY TraceIndexed
<1>2. f \in Surjection(1..N, Ids(spans))
  BY <1>1 DEF Ids, Surjection
<1>3. IsFiniteSet(1..N) /\ Cardinality(1..N) = N
  BY <1>1, FS_Interval
<1>4. Cardinality(1..N) = Cardinality(Ids(spans))
  BY <1>3 DEF Distinct
<1> HIDE DEF f, N
<1>5. f \in Injection(1..N, Ids(spans))
  BY <1>2, <1>3, <1>4, FS_SurjSameCardinalityImpliesInj, FS_Surjection
<1>6. \A i, j \in 1..N : f[i] = f[j] => i = j
  BY <1>5 DEF Injection, IsInjective
<1>7. QED
  BY <1>6 DEF f, N

\* The spans at the first n positions, as far as chosen, sorted.
Sorts(spans, chosen, n, s) ==
  /\ s \in Seq(Range(spans)) /\ ByStart(s)
  /\ \A k \in 1..Len(s) : \E i \in chosen : i <= n /\ s[k] = spans[i]
  /\ \A i \in chosen : i <= n => \E k \in 1..Len(s) : s[k] = spans[i]
  /\ Distinct(spans) => \A k, l \in 1..Len(s) : k # l => s[k].id # s[l].id

LEMMA OneMoreNode ==
  ASSUME NEW spans, IsTrace(spans), NEW chosen \in SUBSET (1..Len(spans)),
         NEW n \in chosen, NEW s, Sorts(spans, chosen, n - 1, s)
  PROVE  Sorts(spans, chosen, n, Insert(Node(spans, spans[n].id), s))
<1> DEFINE node == spans[n]
           p == Place(node, s)
           r == Extended(s, node, p)
           m == Len(s)
<1>1. /\ Len(spans) \in Nat /\ n \in 1..Len(spans)
      /\ \A i \in 1..Len(spans) : spans[i] \in Range(spans)
  BY TraceIndexed
<1>2. Node(spans, spans[n].id) = node
  BY <1>1, NodeOfSpan
<1>3. s \in Seq(Range(spans)) /\ ByStart(s) /\ m \in Nat
  BY LenProperties DEF Sorts
<1>4. p \in 1..m + 1
  BY <1>1, <1>3, PlaceInside
<1>5. /\ Insert(Node(spans, spans[n].id), s) = r
      /\ r \in Seq(Range(spans)) /\ Len(r) = m + 1
  <2>1. Insert(node, s) = InsertAt(s, p, node)
    BY DEF Insert, Place
  <2> HIDE DEF p
  <2>2. QED
    BY <1>1, <1>2, <1>3, <1>4, <2>1, InsertAtExtends
<1>6. ByStart(r)
  <2>1. \A t \in Range(spans) : t.start \in Int
    BY DEF IsTrace
  <2>2. QED
    BY <1>1, <1>3, <2>1, InsertKeepsOrder
<1> HIDE DEF p
<1>7. \A k \in 1..m + 1 :
        r[k] = IF k < p THEN s[k] ELSE IF k = p THEN node ELSE s[k - 1]
  BY DEF Extended
<1> HIDE DEF r
<1>8. \A k \in 1..m : \E i \in chosen : i <= n - 1 /\ s[k] = spans[i]
  BY DEF Sorts
<1>9. \A k \in 1..m + 1 : /\ k < p => k \in 1..m
                          /\ k > p => k - 1 \in 1..m
  BY <1>3, <1>4
<1>10. ASSUME NEW k \in 1..m + 1 PROVE \E i \in chosen : i <= n /\ r[k] = spans[i]
  <2>1. CASE k = p
    BY <1>1, <1>7, <2>1
  <2>2. CASE k # p
    <3>1. PICK j \in 1..m : r[k] = s[j]
      <4>1. CASE k < p
        BY <1>7, <1>9, <4>1
      <4>2. CASE ~(k < p)
        <5>1. k > p
          BY <1>3, <1>4, <2>2, <4>2
        <5>2. r[k] = s[k - 1] /\ k - 1 \in 1..m
          BY <1>7, <1>9, <2>2, <4>2, <5>1
        <5>3. QED
          BY <5>2
      <4>3. QED
        BY <4>1, <4>2
    <3>2. PICK i \in chosen : i <= n - 1 /\ s[j] = spans[i]
      BY <1>8
    <3>3. i <= n
      BY <1>1, <3>2
    <3>4. QED
      BY <3>1, <3>2, <3>3
  <2>3. QED
    BY <2>1, <2>2
<1>11. ASSUME NEW i \in chosen, i <= n PROVE \E k \in 1..m + 1 : r[k] = spans[i]
  <2>1. CASE i = n
    BY <1>4, <1>7, <2>1
  <2>2. CASE i # n
    <3>1. i <= n - 1
      BY <1>1, <1>11, <2>2
    <3>2. PICK k \in 1..m : s[k] = spans[i]
      BY <3>1 DEF Sorts
    <3>3. CASE k < p
      <4>1. k \in 1..m + 1 /\ r[k] = s[k]
        BY <1>3, <1>7, <3>3
      <4>2. QED
        BY <3>2, <4>1
    <3>4. CASE ~(k < p)
      <4>1. k + 1 \in 1..m + 1 /\ r[k + 1] = s[k]
        BY <1>3, <1>4, <1>7, <3>4
      <4>2. QED
        BY <3>2, <4>1
    <3>5. QED
      BY <3>3, <3>4
  <2>3. QED
    BY <2>1, <2>2
<1>12. ASSUME Distinct(spans), NEW k \in 1..m + 1, NEW l \in 1..m + 1, k < l
       PROVE  r[k].id # r[l].id
  <2>1. \A j \in 1..m : s[j].id # node.id
    <3> SUFFICES ASSUME NEW j \in 1..m PROVE s[j].id # node.id
      OBVIOUS
    <3>1. PICK i \in chosen : i <= n - 1 /\ s[j] = spans[i]
      BY <1>8
    <3>2. i # n /\ i \in 1..Len(spans)
      BY <1>1, <3>1
    <3>3. QED
      BY <1>1, <1>12, <3>1, <3>2, DistinctIds
  <2>2. \A i, j \in 1..m : i # j => s[i].id # s[j].id
    BY <1>12 DEF Sorts
  <2>3. CASE k = p
    <3>1. l - 1 \in 1..m /\ r[l] = s[l - 1] /\ r[k] = node
      BY <1>3, <1>4, <1>7, <1>12, <2>3
    <3>2. QED
      BY <2>1, <3>1
  <2>4. CASE l = p
    <3>1. k \in 1..m /\ r[k] = s[k] /\ r[l] = node
      BY <1>3, <1>4, <1>7, <1>12, <2>4
    <3>2. QED
      BY <2>1, <3>1
  <2>5. CASE k # p /\ l # p
    <3> DEFINE i == IF k < p THEN k ELSE k - 1
               j == IF l < p THEN l ELSE l - 1
    <3>1. i \in 1..m /\ j \in 1..m /\ i # j
      BY <1>3, <1>4, <1>12, <2>5
    <3>2. r[k] = s[i] /\ r[l] = s[j]
      BY <1>3, <1>4, <1>7, <2>5
    <3> HIDE DEF i, j
    <3>3. QED
      BY <2>2, <3>1, <3>2
  <2>6. QED
    BY <2>3, <2>4, <2>5
<1>13. ASSUME Distinct(spans), NEW k \in 1..m + 1, NEW l \in 1..m + 1, k # l
       PROVE  r[k].id # r[l].id
  <2>1. k < l \/ l < k
    BY <1>3, <1>13
  <2>2. QED
    BY <1>12, <1>13, <2>1
<1>14. Sorts(spans, chosen, n, r)
  BY <1>5, <1>6, <1>10, <1>11, <1>13 DEF Sorts
<1>15. QED
  BY <1>5, <1>14

\* The function Nodes defines by recursion.
SortsBy(spans, chosen, g) ==
  g = [n \in 0..Len(spans) |->
         IF n = 0 THEN <<>>
         ELSE IF n \in chosen THEN Insert(Node(spans, spans[n].id), g[n - 1])
         ELSE g[n - 1]]

\* Roots and children are all there, sorted by start, none twice unless its span was
\* sent twice.
LEMMA NodesSorted ==
  ASSUME NEW spans, IsTrace(spans), NEW chosen \in SUBSET (1..Len(spans))
  PROVE  Sorts(spans, chosen, Len(spans), Nodes(spans, chosen))
<1> DEFINE N == Len(spans)
           T == Seq(Range(spans))
           step == [n \in 0 + 1..N |-> [t \in T |->
                      IF n \in chosen THEN Insert(Node(spans, spans[n].id), t) ELSE t]]
           g == CHOOSE sorted : SortsBy(spans, chosen, sorted)
<1>1. /\ N \in Nat /\ 0 <= N /\ <<>> \in T
      /\ \A i \in 1..N : spans[i] \in Range(spans) /\ Node(spans, spans[i].id) = spans[i]
  BY TraceIndexed, NodeOfSpan, EmptySeq
<1>2. \E f : SortsBy(spans, chosen, f)
  <2>1. \A n \in 0 + 1..N : \A t \in T :
          (IF n \in chosen THEN Insert(Node(spans, spans[n].id), t) ELSE t) \in T
    <3> SUFFICES ASSUME NEW n \in 1..N, NEW t \in T
                 PROVE  Insert(Node(spans, spans[n].id), t) \in T
      OBVIOUS
    <3>1. Place(spans[n], t) \in 1..Len(t) + 1
      BY <1>1, PlaceInside
    <3>2. Insert(spans[n], t) = InsertAt(t, Place(spans[n], t), spans[n])
      BY DEF Insert, Place
    <3>3. QED
      BY <1>1, <3>1, <3>2, InsertAtExtends
  <2>2. step \in [0 + 1..N -> [T -> T]]
    BY <2>1
  <2>3. \A n \in 0 + 1..N : \A t \in T :
          step[n][t] = IF n \in chosen THEN Insert(Node(spans, spans[n].id), t) ELSE t
    OBVIOUS
  <2> HIDE DEF step, T, N
  <2>4. PICK f \in [0..N -> T] : Follows(f, 0, N, <<>>, step)
    BY <1>1, <2>2, Recursion
  <2>5. ASSUME NEW n \in 0..N
        PROVE  f[n] = IF n = 0 THEN <<>>
                      ELSE IF n \in chosen THEN Insert(Node(spans, spans[n].id), f[n - 1])
                      ELSE f[n - 1]
    <3>1. CASE n = 0
      BY <1>1, <2>4, <3>1 DEF Follows
    <3>2. CASE n # 0
      <4>1. n \in 0 + 1..N /\ n - 1 \in 0..N
        BY <1>1, <3>2
      <4>2. f[n - 1] \in T /\ f[n] = step[n][f[n - 1]]
        BY <2>4, <3>2, <4>1 DEF Follows
      <4>3. QED
        BY <2>3, <3>2, <4>1, <4>2
    <3>3. QED
      BY <3>1, <3>2
  <2>6. f = [n \in 0..N |-> f[n]]
    BY <2>4
  <2>7. f = [n \in 0..N |->
               IF n = 0 THEN <<>>
               ELSE IF n \in chosen THEN Insert(Node(spans, spans[n].id), f[n - 1])
               ELSE f[n - 1]]
    BY <2>5, <2>6
  <2>8. QED
    BY <2>7 DEF SortsBy, N
<1>3. SortsBy(spans, chosen, g)
  BY <1>2
<1>4. Nodes(spans, chosen) = g[N]
  BY DEF Nodes, SortsBy
<1> HIDE DEF g
<1>5. /\ g[0] = <<>>
      /\ \A n \in 0 + 1..N :
           g[n] = IF n \in chosen THEN Insert(Node(spans, spans[n].id), g[n - 1]) ELSE g[n - 1]
  BY <1>1, <1>3 DEF SortsBy
<1> DEFINE Good == {n \in 0..N : Sorts(spans, chosen, n, g[n])}
<1>6. 0 \in Good
  <2>1. ~\E i \in chosen : i <= 0
    OBVIOUS
  <2>2. <<>> \in Seq(Range(spans)) /\ Len(<<>>) = 0 /\ 1..0 = {}
    BY EmptySeq
  <2>3. Sorts(spans, chosen, 0, <<>>)
    BY <2>1, <2>2 DEF Sorts, ByStart
  <2>4. QED
    BY <1>1, <1>5, <2>3
<1>7. ASSUME NEW n \in 0 + 1..N, n - 1 \in Good PROVE n \in Good
  <2>1. Sorts(spans, chosen, n - 1, g[n - 1]) /\ n \in 0..N
    BY <1>1, <1>7
  <2>2. CASE n \in chosen
    BY <1>5, <2>1, <2>2, OneMoreNode
  <2>3. CASE n \notin chosen
    <3>1. \A i \in chosen : i <= n <=> i <= n - 1
      BY <2>3
    <3>2. g[n] = g[n - 1]
      BY <1>5, <2>3
    <3>3. Sorts(spans, chosen, n, g[n - 1])
      BY <2>1, <3>1 DEF Sorts
    <3>4. QED
      BY <2>1, <3>2, <3>3
  <2>4. QED
    BY <2>2, <2>3
<1>8. \A n \in 0..N : n \in Good
  <2> HIDE DEF Good, N
  <2>1. QED
    BY <1>1, <1>6, <1>7, UpTo
<1>9. N \in Good
  BY <1>1, <1>8
<1>10. QED
  BY <1>4, <1>9

-----------------------------------------------------------------------------
(* Sequences put together *)

\* The first n sequences make up flat, sequence b from off[b] on.
Blocks(seqs, n, flat, off) ==
  /\ off \in [1..n + 1 -> Nat] /\ off[1] = 0 /\ Len(flat) = off[n + 1]
  /\ \A b \in 1..n :
       /\ off[b + 1] = off[b] + Len(seqs[b])
       /\ \A q \in 1..Len(seqs[b]) : flat[off[b] + q] = seqs[b][q]
  /\ \A b, c \in 1..n + 1 : b <= c => off[b] <= off[c]
  /\ \A k \in 1..Len(flat) : \E b \in 1..n : \E q \in 1..Len(seqs[b]) : k = off[b] + q

LEMMA NoBlocks ==
  ASSUME NEW seqs
  PROVE  Blocks(seqs, 0, <<>>, [b \in 1..1 |-> 0])
<1>1. Len(<<>>) = 0 /\ 1..0 = {} /\ 0 + 1 = 1
  BY EmptySeq
<1>2. QED
  BY <1>1 DEF Blocks

LEMMA OneMoreBlock ==
  ASSUME NEW S, NEW seqs \in Seq(Seq(S)), NEW n \in 1..Len(seqs),
         NEW flat \in Seq(S), NEW off, Blocks(seqs, n - 1, flat, off)
  PROVE  \E new : Blocks(seqs, n, flat \o seqs[n], new)
<1> DEFINE len == Len(seqs[n])
           old == Len(flat)
           r == flat \o seqs[n]
           new == [b \in 1..n + 1 |-> IF b = n + 1 THEN old + len ELSE off[b]]
<1>1. n \in Nat \ {0} /\ n - 1 \in Nat /\ n - 1 + 1 = n
  BY LenProperties
<1>2. seqs[n] \in Seq(S) /\ len \in Nat /\ old \in Nat
  BY ElementOfSeq, LenProperties
<1>3. /\ Len(r) = old + len
      /\ \A i \in 1..old + len : r[i] = IF i <= old THEN flat[i] ELSE seqs[n][i - old]
  BY <1>2, ConcatProperties
<1> HIDE DEF r
<1>4. /\ off \in [1..n -> Nat] /\ off[1] = 0 /\ old = off[n]
      /\ \A b \in 1..n - 1 :
           /\ off[b + 1] = off[b] + Len(seqs[b])
           /\ \A q \in 1..Len(seqs[b]) : flat[off[b] + q] = seqs[b][q]
      /\ \A b, c \in 1..n : b <= c => off[b] <= off[c]
      /\ \A k \in 1..old : \E b \in 1..n - 1 : \E q \in 1..Len(seqs[b]) : k = off[b] + q
  BY <1>1 DEF Blocks
<1> HIDE DEF len, old
<1>5. /\ new \in [1..n + 1 -> Nat] /\ new[n + 1] = old + len
      /\ \A b \in 1..n : b \in 1..n + 1 /\ b # n + 1 /\ new[b] = off[b]
  BY <1>1, <1>2, <1>4
<1> HIDE DEF new
<1>6. new[1] = 0 /\ Len(r) = new[n + 1]
  BY <1>1, <1>3, <1>4, <1>5
<1>7. ASSUME NEW b \in 1..n
      PROVE  /\ new[b + 1] = new[b] + Len(seqs[b])
             /\ \A q \in 1..Len(seqs[b]) : r[new[b] + q] = seqs[b][q]
  <2>1. CASE b = n
    <3>1. new[n + 1] = new[n] + len
      BY <1>1, <1>4, <1>5
    <3>2. ASSUME NEW q \in 1..len PROVE r[old + q] = seqs[n][q]
      <4>1. old + q \in 1..old + len /\ ~(old + q <= old) /\ (old + q) - old = q
        BY <1>2
      <4>2. QED
        BY <1>3, <4>1
    <3>3. new[n] = old
      BY <1>1, <1>4, <1>5
    <3>4. QED
      BY <2>1, <3>1, <3>2, <3>3 DEF len
  <2>2. CASE b # n
    <3>1. b \in 1..n - 1 /\ b + 1 \in 1..n
      BY <1>1, <2>2
    <3>2. new[b] = off[b] /\ new[b + 1] = off[b + 1] /\ off[b + 1] = off[b] + Len(seqs[b])
      BY <1>4, <1>5, <3>1
    <3>3. off[b] \in Nat /\ off[b + 1] \in Nat /\ off[b + 1] <= old
      BY <1>1, <1>4, <3>1
    <3>4. Len(seqs[b]) \in Nat
      <4>1. b \in 1..Len(seqs) /\ seqs[b] \in Seq(S)
        BY <1>1, ElementOfSeq, LenProperties
      <4>2. QED
        BY <4>1, LenProperties
    <3>5. ASSUME NEW q \in 1..Len(seqs[b]) PROVE r[off[b] + q] = seqs[b][q]
      <4> DEFINE o == off[b]
                 w == Len(seqs[b])
                 k == o + q
      <4>1. o \in Nat /\ w \in Nat /\ o + w <= old /\ q \in 1..w
        BY <3>2, <3>3, <3>4
      <4>2. flat[k] = seqs[b][q]
        BY <1>4, <3>1
      <4> HIDE DEF o, w
      <4>3. k \in 1..old + len /\ k <= old
        BY <1>2, <4>1
      <4> HIDE DEF k
      <4>4. r[k] = flat[k]
        BY <1>3, <4>3
      <4>5. QED
        BY <4>2, <4>4 DEF k, o
    <3>6. QED
      BY <3>2, <3>5
  <2>3. QED
    BY <2>1, <2>2
<1>8. ASSUME NEW b \in 1..n + 1, NEW c \in 1..n + 1, b <= c PROVE new[b] <= new[c]
  <2>1. CASE c = n + 1
    <3>1. CASE b = n + 1
      BY <1>2, <1>5, <2>1, <3>1
    <3>2. CASE b # n + 1
      <4>1. b \in 1..n /\ b <= n /\ n \in 1..n
        BY <1>1, <3>2
      <4>2. off[b] <= off[n] /\ off[b] \in Nat
        BY <1>4, <4>1
      <4>3. QED
        BY <1>2, <1>4, <1>5, <2>1, <4>1, <4>2
    <3>3. QED
      BY <3>1, <3>2
  <2>2. CASE c # n + 1
    <3>1. b \in 1..n /\ c \in 1..n
      BY <1>1, <1>8, <2>2
    <3>2. QED
      BY <1>4, <1>5, <1>8, <3>1
  <2>3. QED
    BY <2>1, <2>2
<1>9. ASSUME NEW k \in 1..Len(r)
      PROVE  \E b \in 1..n : \E q \in 1..Len(seqs[b]) : k = new[b] + q
  <2>1. CASE k <= old
    <3>1. k \in 1..old
      BY <1>2, <1>3, <2>1
    <3>2. PICK b \in 1..n - 1 : \E q \in 1..Len(seqs[b]) : k = off[b] + q
      BY <1>4, <3>1
    <3>3. b \in 1..n /\ new[b] = off[b]
      BY <1>1, <1>5
    <3>4. QED
      BY <3>2, <3>3
  <2>2. CASE ~(k <= old)
    <3>1. k - old \in 1..len /\ k = old + (k - old)
      BY <1>2, <1>3, <2>2
    <3>2. n \in 1..n /\ new[n] = old
      BY <1>1, <1>4, <1>5
    <3>3. QED
      BY <3>1, <3>2 DEF len
  <2>3. QED
    BY <2>1, <2>2
<1>10. Blocks(seqs, n, r, new)
  BY <1>5, <1>6, <1>7, <1>8, <1>9 DEF Blocks
<1>11. QED
  BY <1>10 DEF r

\* The function FlattenSeq defines by recursion.
FlattensBy(seqs, g) ==
  g = [i \in 1..Len(seqs) |-> IF i = 1 THEN seqs[i] ELSE g[i - 1] \o seqs[i]]

\* What is flattened are the sequences, one behind the other.
LEMMA Flattening ==
  ASSUME NEW S, NEW seqs \in Seq(Seq(S))
  PROVE  /\ FlattenSeq(seqs) \in Seq(S)
         /\ \E off : Blocks(seqs, Len(seqs), FlattenSeq(seqs), off)
<1> DEFINE N == Len(seqs)
           T == Seq(S)
           g == CHOOSE flatten : FlattensBy(seqs, flatten)
<1>1. N \in Nat /\ \A i \in 1..N : seqs[i] \in T
  BY LenProperties, ElementOfSeq
<1>2. CASE N = 0
  <2>1. FlattenSeq(seqs) = seqs /\ seqs = <<>>
    BY <1>2, EmptySeq DEF FlattenSeq
  <2>2. \E off : Blocks(seqs, 0, <<>>, off)
    BY NoBlocks
  <2>3. <<>> \in Seq(S)
    BY EmptySeq
  <2>4. QED
    BY <1>2, <2>1, <2>2, <2>3
<1>3. CASE N # 0
  <2>1. \E f : FlattensBy(seqs, f)
    <3> DEFINE step == [i \in 1 + 1..N |-> [t \in T |-> t \o seqs[i]]]
    <3>1. \A i \in 1 + 1..N : \A t \in T : t \o seqs[i] \in T
      BY <1>1, ConcatProperties
    <3>2. step \in [1 + 1..N -> [T -> T]]
      BY <3>1
    <3>3. \A i \in 1 + 1..N : \A t \in T : step[i][t] = t \o seqs[i]
      OBVIOUS
    <3>4. seqs[1] \in T /\ 1 <= N
      BY <1>1, <1>3
    <3> HIDE DEF step, T, N
    <3>5. PICK f \in [1..N -> T] : Follows(f, 1, N, seqs[1], step)
      BY <1>1, <3>2, <3>4, Recursion
    <3>6. ASSUME NEW i \in 1..N
          PROVE  f[i] = IF i = 1 THEN seqs[i] ELSE f[i - 1] \o seqs[i]
      <4>1. CASE i = 1
        BY <3>5, <4>1 DEF Follows
      <4>2. CASE i # 1
        <5>1. i \in 1 + 1..N /\ i - 1 \in 1..N
          BY <1>1, <4>2
        <5>2. f[i - 1] \in T /\ f[i] = step[i][f[i - 1]]
          BY <3>5, <4>2, <5>1 DEF Follows
        <5>3. QED
          BY <3>3, <4>2, <5>1, <5>2
      <4>3. QED
        BY <4>1, <4>2
    <3>7. f = [i \in 1..N |-> f[i]]
      BY <3>5
    <3>8. f = [i \in 1..N |-> IF i = 1 THEN seqs[i] ELSE f[i - 1] \o seqs[i]]
      BY <3>6, <3>7
    <3>9. QED
      BY <3>8 DEF FlattensBy, N
  <2>2. FlattensBy(seqs, g)
    BY <2>1
  <2>3. FlattenSeq(seqs) = g[N]
    BY <1>3 DEF FlattenSeq, FlattensBy
  <2> HIDE DEF g
  <2>4. /\ g[1] = seqs[1]
        /\ \A i \in 1 + 1..N : g[i] = g[i - 1] \o seqs[i]
    <3>1. \A i \in 1..N : g[i] = IF i = 1 THEN seqs[i] ELSE g[i - 1] \o seqs[i]
      BY <2>2 DEF FlattensBy
    <3>2. 1 \in 1..N /\ \A i \in 1 + 1..N : i \in 1..N /\ i # 1
      BY <1>1, <1>3
    <3> HIDE DEF N
    <3>3. QED
      BY <3>1, <3>2
  <2> DEFINE Good == {i \in 1..N : g[i] \in T /\ \E off : Blocks(seqs, i, g[i], off)}
  <2>5. 1 \in Good
    <3>1. 1 \in 1..N /\ <<>> \in Seq(S) /\ 1 - 1 = 0
      BY <1>1, <1>3, EmptySeq
    <3>2. PICK off : Blocks(seqs, 1 - 1, <<>>, off)
      BY <3>1, NoBlocks
    <3>3. \E new : Blocks(seqs, 1, <<>> \o seqs[1], new)
      BY <3>1, <3>2, OneMoreBlock
    <3>4. <<>> \o seqs[1] = seqs[1] /\ seqs[1] \in T
      BY <1>1, <3>1, ConcatEmptySeq
    <3>5. QED
      BY <2>4, <3>1, <3>3, <3>4
  <2>6. ASSUME NEW i \in 1 + 1..N, i - 1 \in Good PROVE i \in Good
    <3>1. g[i - 1] \in Seq(S) /\ i \in 1..N /\ seqs[i] \in Seq(S)
      BY <1>1, <2>6
    <3>2. PICK off : Blocks(seqs, i - 1, g[i - 1], off)
      BY <2>6
    <3>3. \E new : Blocks(seqs, i, g[i - 1] \o seqs[i], new)
      BY <3>1, <3>2, OneMoreBlock
    <3>4. g[i - 1] \o seqs[i] \in Seq(S)
      BY <3>1, ConcatProperties
    <3>5. QED
      BY <2>4, <3>1, <3>3, <3>4
  <2>7. \A i \in 1..N : i \in Good
    <3> HIDE DEF Good, N
    <3>1. QED
      BY <1>1, <2>5, <2>6, UpTo
  <2>8. N \in Good
    BY <1>1, <1>3, <2>7
  <2>9. QED
    BY <2>3, <2>8
<1>4. QED
  BY <1>2, <1>3

-----------------------------------------------------------------------------
(* Rows that form trees *)

Row(spans) == [span : Range(spans), depth : Nat]

\* Row i shows the parent of row j: only deeper rows are between them.
Above(t, i, j) ==
  /\ t[i].span.id = t[j].span.parent /\ t[j].span.parent # None
  /\ t[i].depth = t[j].depth - 1
  /\ \A k \in i + 1..j - 1 : t[k].depth > t[i].depth

\* One span may stand before the other.
Ordered(spans, s, u) == s.start <= u.start /\ (Distinct(spans) => s.id # u.id)

\* Rows without a row above them have this depth, all others are deeper.
Hanging(t, d) ==
  \A j \in 1..Len(t) : /\ t[j].depth >= d
                       /\ t[j].depth = d \/ \E i \in 1..j - 1 : Above(t, i, j)

\* What is below a row is shown, down to the last level.
Unfolded(spans, t) ==
  \A j \in 1..Len(t) : t[j].depth < Len(spans) - 1 =>
    \A s \in Range(spans) :
      s.parent # None /\ s.parent = t[j].span.id => \E k \in 1..Len(t) : t[k].span = s

\* The rows j + 1 to l are below row j, and rows k and l are its children.
Below(t, j, k, l) ==
  /\ j < k /\ k < l /\ \A m \in j + 1..l : t[m].depth > t[j].depth
  /\ t[k].depth = t[j].depth + 1 /\ t[l].depth = t[j].depth + 1

Siblings(spans, t) ==
  \A j, k, l \in 1..Len(t) : Below(t, j, k, l) => Ordered(spans, t[k].span, t[l].span)

Heads(spans, t, d) ==
  \A k, l \in 1..Len(t) :
    k < l /\ t[k].depth = d /\ t[l].depth = d => Ordered(spans, t[k].span, t[l].span)

Forest(spans, t, d) ==
  /\ t \in Seq(Row(spans))
  /\ Hanging(t, d) /\ Unfolded(spans, t) /\ Siblings(spans, t) /\ Heads(spans, t, d)

Tree(spans, t, d, s) ==
  /\ Forest(spans, t, d) /\ Len(t) # 0
  /\ t[1] = [span |-> s, depth |-> d]
  /\ \A j \in 2..Len(t) : t[j].depth > d

\* What is so in t is so where t is put.
LEMMA ShiftedAbove ==
  ASSUME NEW t, NEW flat, NEW o \in Nat, NEW n \in Nat,
         \A x \in 1..n : flat[o + x] = t[x],
         NEW q \in 1..n, NEW i \in 1..q - 1, Above(t, i, q)
  PROVE  o + i \in 1..o + q - 1 /\ Above(flat, o + i, o + q)
<1>1. i \in 1..n /\ flat[o + i] = t[i] /\ flat[o + q] = t[q]
  OBVIOUS
<1>2. ASSUME NEW k \in o + i + 1..o + q - 1 PROVE flat[k].depth > flat[o + i].depth
  <2> DEFINE x == k - o
  <2>1. x \in i + 1..q - 1 /\ x \in 1..n /\ k = o + x
    OBVIOUS
  <2>2. flat[k] = t[x]
    BY <2>1
  <2>3. QED
    BY <1>1, <2>1, <2>2 DEF Above
<1>3. QED
  BY <1>1, <1>2 DEF Above

LEMMA ShiftedBelow ==
  ASSUME NEW t, NEW flat, NEW o \in Nat, NEW n \in Nat,
         \A x \in 1..n : flat[o + x] = t[x],
         NEW j \in 1..n, NEW k \in 1..n, NEW l \in 1..n, Below(flat, o + j, o + k, o + l)
  PROVE  Below(t, j, k, l)
<1>1. flat[o + j] = t[j] /\ flat[o + k] = t[k] /\ flat[o + l] = t[l] /\ j < k /\ k < l
  BY DEF Below
<1>2. ASSUME NEW m \in j + 1..l PROVE t[m].depth > t[j].depth
  <2>1. o + m \in o + j + 1..o + l /\ m \in 1..n
    OBVIOUS
  <2>2. flat[o + m] = t[m] /\ flat[o + m].depth > flat[o + j].depth
    BY <2>1 DEF Below
  <2>3. QED
    BY <1>1, <2>2
<1>3. QED
  BY <1>1, <1>2 DEF Below

\* The nodes are the spans of the rows at this depth.
Planted(flat, nodes, d) ==
  /\ \A k \in 1..Len(flat) : flat[k].depth = d => \E b \in 1..Len(nodes) : flat[k].span = nodes[b]
  /\ \A b \in 1..Len(nodes) :
       \E k \in 1..Len(flat) : flat[k].span = nodes[b] /\ flat[k].depth = d

\* Trees one behind the other, with ordered heads, are a forest.
LEMMA ForestOfTrees ==
  ASSUME NEW spans, IsTrace(spans), NEW d \in Nat,
         NEW nodes \in Seq(Range(spans)), NEW trees \in Seq(Seq(Row(spans))),
         Len(trees) = Len(nodes),
         \A b \in 1..Len(nodes) : Tree(spans, trees[b], d, nodes[b]),
         \A b, c \in 1..Len(nodes) : b < c => Ordered(spans, nodes[b], nodes[c])
  PROVE  Forest(spans, FlattenSeq(trees), d) /\ Planted(FlattenSeq(trees), nodes, d)
<1> DEFINE n == Len(nodes)
           flat == FlattenSeq(trees)
<1>1. n \in Nat /\ Len(trees) = n
  BY LenProperties
<1>2. flat \in Seq(Row(spans)) /\ \E off : Blocks(trees, n, flat, off)
  BY <1>1, Flattening
<1>3. Len(flat) \in Nat /\ \A k \in 1..Len(flat) : flat[k] \in Row(spans)
  BY <1>2, LenProperties, ElementOfSeq
<1> HIDE DEF n, flat
<1>4. PICK off : Blocks(trees, n, flat, off)
  BY <1>2
<1>5. /\ \A b \in 1..n + 1 : off[b] \in Nat
      /\ \A b, c \in 1..n + 1 : b <= c => off[b] <= off[c]
      /\ Len(flat) = off[n + 1]
      /\ \A b \in 1..n : off[b + 1] = off[b] + Len(trees[b])
  BY <1>4 DEF Blocks
<1>6. ASSUME NEW b \in 1..n
      PROVE  /\ off[b] \in Nat /\ Len(trees[b]) \in Nat \ {0}
             /\ \A q \in 1..Len(trees[b]) : /\ off[b] + q \in 1..Len(flat)
                                            /\ flat[off[b] + q] = trees[b][q]
             /\ Tree(spans, trees[b], d, nodes[b])
  <2> DEFINE w == Len(trees[b])
             o == off[b]
  <2>1. trees[b] \in Seq(Row(spans)) /\ Tree(spans, trees[b], d, nodes[b])
    BY <1>1, ElementOfSeq DEF n
  <2>2. w \in Nat \ {0}
    BY <2>1, LenProperties DEF Tree
  <2>3. b \in 1..n + 1 /\ b + 1 \in 1..n + 1 /\ n + 1 \in 1..n + 1 /\ b + 1 <= n + 1
    BY <1>1
  <2>4. o \in Nat /\ o + w <= Len(flat)
    BY <1>5, <2>3
  <2>5. \A q \in 1..w : flat[o + q] = trees[b][q]
    BY <1>4 DEF Blocks
  <2> HIDE DEF w, o
  <2>6. \A q \in 1..w : o + q \in 1..Len(flat)
    BY <1>3, <2>2, <2>4
  <2>7. QED
    BY <2>1, <2>2, <2>4, <2>5, <2>6 DEF w, o
<1>7. ASSUME NEW k \in 1..Len(flat)
      PROVE  \E b \in 1..n : \E q \in 1..Len(trees[b]) :
               k = off[b] + q /\ flat[k] = trees[b][q]
  <2>1. PICK b \in 1..n : \E q \in 1..Len(trees[b]) : k = off[b] + q
    BY <1>4 DEF Blocks
  <2>2. PICK q \in 1..Len(trees[b]) : k = off[b] + q
    BY <2>1
  <2>3. QED
    BY <1>6, <2>2
<1>8. ASSUME NEW b \in 1..n
      PROVE  off[b] + 1 \in 1..Len(flat) /\ flat[off[b] + 1] = [span |-> nodes[b], depth |-> d]
  <2>1. 1 \in 1..Len(trees[b])
    BY <1>6
  <2>2. QED
    BY <1>6, <2>1 DEF Tree
<1>9. ASSUME NEW b \in 1..n, NEW q \in 1..Len(trees[b])
      PROVE  /\ trees[b][q] \in Row(spans)
             /\ trees[b][q].depth >= d /\ (trees[b][q].depth = d => q = 1)
  <2>1. trees[b] \in Seq(Row(spans)) /\ Hanging(trees[b], d)
    BY <1>6 DEF Tree, Forest
  <2>2. q # 1 => q \in 2..Len(trees[b])
    BY <1>6
  <2>3. trees[b][q] \in Row(spans) /\ trees[b][q].depth >= d
    BY <2>1, ElementOfSeq DEF Hanging
  <2>4. q # 1 => trees[b][q].depth > d
    BY <1>6, <2>2 DEF Tree
  <2>5. trees[b][q].depth \in Nat
    BY <2>3 DEF Row
  <2>6. QED
    BY <2>3, <2>4, <2>5
<1>10. Hanging(flat, d)
  <2> SUFFICES ASSUME NEW j \in 1..Len(flat)
               PROVE  /\ flat[j].depth >= d
                      /\ flat[j].depth = d \/ \E i \in 1..j - 1 : Above(flat, i, j)
    BY DEF Hanging
  <2>1. PICK b \in 1..n : \E q \in 1..Len(trees[b]) :
          j = off[b] + q /\ flat[j] = trees[b][q]
    BY <1>7
  <2>2. PICK q \in 1..Len(trees[b]) : j = off[b] + q /\ flat[j] = trees[b][q]
    BY <2>1
  <2>3. flat[j].depth >= d
    BY <1>9, <2>2
  <2>4. ASSUME flat[j].depth # d PROVE \E i \in 1..j - 1 : Above(flat, i, j)
    <3>1. PICK i \in 1..q - 1 : Above(trees[b], i, q)
      BY <1>6, <2>2, <2>4 DEF Tree, Forest, Hanging
    <3> DEFINE o == off[b]
               t == trees[b]
               w == Len(t)
    <3>2. o \in Nat /\ w \in Nat /\ q \in 1..w /\ \A x \in 1..w : flat[o + x] = t[x]
      BY <1>6
    <3>3. j = o + q /\ Above(t, i, q)
      BY <2>2, <3>1
    <3> HIDE DEF o, t, w
    <3>4. o + i \in 1..o + q - 1 /\ Above(flat, o + i, o + q)
      BY <3>1, <3>2, <3>3, ShiftedAbove
    <3> DEFINE p == o + i
    <3>5. p \in 1..j - 1
      BY <3>2, <3>3, <3>4
    <3>6. Above(flat, p, j)
      BY <3>3, <3>4
    <3> HIDE DEF p
    <3>7. QED
      BY <3>5, <3>6
  <2>5. QED
    BY <2>3, <2>4
<1>11. Unfolded(spans, flat)
  <2> SUFFICES ASSUME NEW j \in 1..Len(flat), flat[j].depth < Len(spans) - 1,
                      NEW s \in Range(spans), s.parent # None, s.parent = flat[j].span.id
               PROVE  \E k \in 1..Len(flat) : flat[k].span = s
    BY DEF Unfolded
  <2>1. PICK b \in 1..n : \E q \in 1..Len(trees[b]) :
          j = off[b] + q /\ flat[j] = trees[b][q]
    BY <1>7
  <2>2. PICK q \in 1..Len(trees[b]) : j = off[b] + q /\ flat[j] = trees[b][q]
    BY <2>1
  <2>3. trees[b][q].depth < Len(spans) - 1 /\ s.parent = trees[b][q].span.id
    BY <2>2
  <2>4. Unfolded(spans, trees[b])
    BY <1>6 DEF Tree, Forest
  <2>5. PICK r \in 1..Len(trees[b]) : trees[b][r].span = s
    BY <2>3, <2>4 DEF Unfolded
  <2>6. QED
    BY <1>6, <2>5
<1>12. ASSUME NEW j \in 1..Len(flat), NEW l \in 1..Len(flat),
              \A m \in j + 1..l : flat[m].depth > flat[j].depth,
              NEW b \in 1..n, NEW q \in 1..Len(trees[b]), j = off[b] + q,
              NEW c \in 1..n, NEW r \in 1..Len(trees[c]), l = off[c] + r, j < l
       PROVE  b = c
  <2>1. SUFFICES ASSUME b # c PROVE FALSE
    OBVIOUS
  <2>2. /\ off[b] \in Nat /\ off[c] \in Nat /\ Len(trees[c]) \in Nat /\ Len(trees[b]) \in Nat
        /\ off[b + 1] = off[b] + Len(trees[b]) /\ off[c + 1] = off[c] + Len(trees[c])
    BY <1>5, <1>6
  <2>3. CASE c < b
    <3>1. c + 1 \in 1..n + 1 /\ b \in 1..n + 1 /\ c + 1 <= b
      BY <1>1, <2>3
    <3>2. off[c + 1] <= off[b]
      BY <1>5, <3>1
    <3>3. l <= off[c + 1] /\ off[b] < j
      <4> DEFINE v == off[c]
                 w == Len(trees[c])
                 u == off[b]
      <4>1. v \in Nat /\ w \in Nat /\ off[c + 1] = v + w /\ l = v + r /\ r \in 1..w
        BY <1>12, <2>2
      <4>2. u \in Nat /\ j = u + q /\ q \in Nat \ {0}
        BY <1>12, <2>2
      <4> HIDE DEF v, w, u
      <4>3. l <= off[c + 1] /\ u < j
        BY <4>1, <4>2
      <4>4. QED
        BY <4>3 DEF u
    <3>4. off[c + 1] \in Nat /\ off[b] \in Nat
      BY <1>5, <3>1
    <3>5. QED
      BY <1>12, <3>2, <3>3, <3>4
  <2>4. CASE b < c
    <3>1. b + 1 \in 1..n /\ b + 1 \in 1..n + 1 /\ c \in 1..n + 1 /\ b + 1 <= c
      BY <1>1, <2>4
    <3>2. off[b + 1] <= off[c] /\ off[b + 1] \in Nat
      BY <1>5, <3>1
    <3>3. off[b + 1] + 1 \in j + 1..l
      <4> DEFINE v == off[c]
                 w == Len(trees[b])
                 u == off[b]
                 x == off[b + 1]
      <4>1. v \in Nat /\ l = v + r /\ r \in Nat \ {0} /\ x <= v /\ x \in Nat
        BY <1>12, <2>2, <3>2
      <4>2. u \in Nat /\ w \in Nat /\ x = u + w /\ j = u + q /\ q \in 1..w
        BY <1>12, <2>2
      <4> HIDE DEF v, w, u, x
      <4>3. x + 1 \in j + 1..l
        BY <4>1, <4>2
      <4>4. QED
        BY <4>3 DEF x
    <3>4. flat[off[b + 1] + 1].depth = d
      <4>1. flat[off[b + 1] + 1] = [span |-> nodes[b + 1], depth |-> d]
        BY <1>8, <3>1
      <4>2. [span |-> nodes[b + 1], depth |-> d].depth = d
        OBVIOUS
      <4>3. QED
        BY <4>1, <4>2
    <3>5. d > flat[j].depth
      BY <1>12, <3>3, <3>4
    <3>6. flat[j].depth >= d /\ flat[j].depth \in Nat
      BY <1>3, <1>10 DEF Hanging, Row
    <3>7. QED
      BY <3>5, <3>6
  <2>5. QED
    BY <2>1, <2>3, <2>4
<1>13. Siblings(spans, flat)
  <2> SUFFICES ASSUME NEW j \in 1..Len(flat), NEW k \in 1..Len(flat), NEW l \in 1..Len(flat),
                      Below(flat, j, k, l)
               PROVE  Ordered(spans, flat[k].span, flat[l].span)
    BY DEF Siblings
  <2>1. j < k /\ k < l /\ j < l /\ \A m \in j + 1..l : flat[m].depth > flat[j].depth
    BY DEF Below
  <2>2. \A m \in j + 1..k : flat[m].depth > flat[j].depth
    BY <2>1
  <2>3. PICK b \in 1..n : \E q \in 1..Len(trees[b]) :
          j = off[b] + q /\ flat[j] = trees[b][q]
    BY <1>7
  <2>4. PICK q \in 1..Len(trees[b]) : j = off[b] + q /\ flat[j] = trees[b][q]
    BY <2>3
  <2>5. PICK x \in 1..Len(trees[b]) : k = off[b] + x /\ flat[k] = trees[b][x]
    <3>1. PICK c \in 1..n : \E y \in 1..Len(trees[c]) :
            k = off[c] + y /\ flat[k] = trees[c][y]
      BY <1>7
    <3>2. PICK y \in 1..Len(trees[c]) : k = off[c] + y /\ flat[k] = trees[c][y]
      BY <3>1
    <3>3. b = c
      BY <1>12, <2>1, <2>2, <2>4, <3>2
    <3>4. QED
      BY <3>2, <3>3
  <2>6. PICK y \in 1..Len(trees[b]) : l = off[b] + y /\ flat[l] = trees[b][y]
    <3>1. PICK c \in 1..n : \E z \in 1..Len(trees[c]) :
            l = off[c] + z /\ flat[l] = trees[c][z]
      BY <1>7
    <3>2. PICK z \in 1..Len(trees[c]) : l = off[c] + z /\ flat[l] = trees[c][z]
      BY <3>1
    <3>3. b = c
      BY <1>12, <2>1, <2>4, <3>2
    <3>4. QED
      BY <3>2, <3>3
  <2>7. Below(trees[b], q, x, y)
    BY <1>6, <2>4, <2>5, <2>6, ShiftedBelow
  <2>8. QED
    BY <1>6, <2>5, <2>6, <2>7 DEF Tree, Forest, Siblings
<1>14. ASSUME NEW k \in 1..Len(flat), flat[k].depth = d
       PROVE  \E b \in 1..n : k = off[b] + 1 /\ flat[k].span = nodes[b]
  <2>1. PICK b \in 1..n : \E q \in 1..Len(trees[b]) :
          k = off[b] + q /\ flat[k] = trees[b][q]
    BY <1>7
  <2>2. PICK q \in 1..Len(trees[b]) : k = off[b] + q /\ flat[k] = trees[b][q]
    BY <2>1
  <2>3. q = 1
    BY <1>9, <1>14, <2>2
  <2>4. flat[k] = [span |-> nodes[b], depth |-> d]
    BY <1>8, <2>2, <2>3
  <2>5. [span |-> nodes[b], depth |-> d].span = nodes[b]
    OBVIOUS
  <2>6. QED
    BY <2>2, <2>3, <2>4, <2>5
<1>15. Heads(spans, flat, d)
  <2> SUFFICES ASSUME NEW k \in 1..Len(flat), NEW l \in 1..Len(flat), k < l,
                      flat[k].depth = d, flat[l].depth = d
               PROVE  Ordered(spans, flat[k].span, flat[l].span)
    BY DEF Heads
  <2>1. PICK b \in 1..n : k = off[b] + 1 /\ flat[k].span = nodes[b]
    BY <1>14
  <2>2. PICK c \in 1..n : l = off[c] + 1 /\ flat[l].span = nodes[c]
    BY <1>14
  <2>3. b \in 1..n + 1 /\ c \in 1..n + 1 /\ off[b] \in Nat /\ off[c] \in Nat
    BY <1>1, <1>6
  <2>4. b < c
    <3>1. SUFFICES ASSUME c <= b PROVE FALSE
      BY <1>1
    <3>2. off[c] <= off[b]
      BY <1>5, <2>3, <3>1
    <3>3. QED
      BY <2>1, <2>2, <2>3, <3>2
  <2>5. QED
    BY <2>1, <2>2, <2>4 DEF n
<1>16. Forest(spans, flat, d)
  BY <1>2, <1>10, <1>11, <1>13, <1>15 DEF Forest
<1>17. \A b \in 1..n : \E k \in 1..Len(flat) : flat[k].span = nodes[b] /\ flat[k].depth = d
  <2> SUFFICES ASSUME NEW b \in 1..n
               PROVE  \E k \in 1..Len(flat) : flat[k].span = nodes[b] /\ flat[k].depth = d
    OBVIOUS
  <2> DEFINE k == off[b] + 1
             row == [span |-> nodes[b], depth |-> d]
  <2>1. k \in 1..Len(flat) /\ flat[k] = row
    BY <1>8
  <2>2. row.span = nodes[b] /\ row.depth = d
    OBVIOUS
  <2> HIDE DEF k, row
  <2>3. QED
    BY <2>1, <2>2
<1>18. Planted(flat, nodes, d)
  BY <1>14, <1>17 DEF Planted, n
<1>19. QED
  BY <1>16, <1>18 DEF flat

\* Nothing, put together, is nothing.
LEMMA FlatOfNothing ==
  ASSUME NEW S, NEW seqs \in Seq(Seq(S)), \A b \in 1..Len(seqs) : seqs[b] = <<>>
  PROVE  FlattenSeq(seqs) = <<>>
<1> DEFINE flat == FlattenSeq(seqs)
<1>1. flat \in Seq(S) /\ \E off : Blocks(seqs, Len(seqs), flat, off)
  BY Flattening
<1> HIDE DEF flat
<1>2. PICK off : Blocks(seqs, Len(seqs), flat, off)
  BY <1>1
<1>3. ASSUME NEW k \in 1..Len(flat) PROVE FALSE
  <2>1. PICK b \in 1..Len(seqs) : \E q \in 1..Len(seqs[b]) : k = off[b] + q
    BY <1>2 DEF Blocks
  <2>2. seqs[b] = <<>> /\ Len(<<>>) = 0 /\ 1..0 = {}
    BY EmptySeq
  <2>3. QED
    BY <2>1, <2>2
<1>4. Len(flat) \in Nat
  BY <1>1, LenProperties
<1>5. Len(flat) = 0
  BY <1>3, <1>4
<1>6. QED
  BY <1>1, <1>5, EmptySeq DEF flat

\* A row and, one level deeper, the forest of its children are a tree.
LEMMA TreeOfForest ==
  ASSUME NEW spans, IsTrace(spans), NEW s \in Range(spans), NEW d \in Nat,
         NEW flat, Forest(spans, flat, d + 1),
         \A k \in 1..Len(flat) : flat[k].depth = d + 1 =>
           flat[k].span.parent = s.id /\ flat[k].span.parent # None,
         d < Len(spans) - 1 => \A u \in Range(spans) : u.parent # None /\ u.parent = s.id =>
                                 \E k \in 1..Len(flat) : flat[k].span = u
  PROVE  Tree(spans, <<[span |-> s, depth |-> d]>> \o flat, d, s)
<1> DEFINE row == [span |-> s, depth |-> d]
           n == Len(flat)
           t == <<row>> \o flat
<1>1. flat \in Seq(Row(spans)) /\ n \in Nat /\ \A k \in 1..n : flat[k] \in Row(spans)
  BY LenProperties, ElementOfSeq DEF Forest
<1>2. row \in Row(spans) /\ row.span = s /\ row.depth = d
  BY DEF Row
<1> HIDE DEF row
<1>3. <<row>> \in Seq(Row(spans)) /\ Len(<<row>>) = 1 /\ <<row>>[1] = row
  BY <1>2
<1>4. /\ t \in Seq(Row(spans)) /\ Len(t) = Len(<<row>>) + Len(flat)
      /\ \A i \in 1..Len(<<row>>) + Len(flat) :
           t[i] = IF i <= Len(<<row>>) THEN <<row>>[i] ELSE flat[i - Len(<<row>>)]
  BY <1>1, <1>3, ConcatProperties
<1>5. /\ Len(t) = 1 + n
      /\ \A i \in 1..1 + n : t[i] = IF i <= 1 THEN <<row>>[i] ELSE flat[i - 1]
  BY <1>3, <1>4
<1> HIDE DEF n, t
<1>6. t[1] = row /\ 1 \in 1..1 + n
  BY <1>1, <1>3, <1>5
<1>7. \A x \in 1..n : 1 + x \in 1..1 + n /\ t[1 + x] = flat[x]
  <2> SUFFICES ASSUME NEW x \in 1..n PROVE 1 + x \in 1..1 + n /\ t[1 + x] = flat[x]
    OBVIOUS
  <2>1. 1 + x \in 1..1 + n /\ ~(1 + x <= 1) /\ (1 + x) - 1 = x
    BY <1>1
  <2>2. QED
    BY <1>5, <2>1
<1>8. \A j \in 1..1 + n : j # 1 => \E x \in 1..n : j = 1 + x
  <2> SUFFICES ASSUME NEW j \in 1..1 + n, j # 1 PROVE \E x \in 1..n : j = 1 + x
    OBVIOUS
  <2>1. j - 1 \in 1..n /\ j = 1 + (j - 1)
    BY <1>1
  <2>2. QED
    BY <2>1
<1>9. \A x \in 1..n : flat[x].depth >= d + 1 /\ flat[x].depth \in Nat
  BY <1>1 DEF Forest, Hanging, Row, n
<1>10. \A j \in 2..1 + n : t[j].depth > d
  <2> SUFFICES ASSUME NEW j \in 2..1 + n PROVE t[j].depth > d
    OBVIOUS
  <2>1. j \in 1..1 + n /\ j # 1
    BY <1>1
  <2>2. PICK x \in 1..n : j = 1 + x
    BY <1>8, <2>1
  <2>3. t[j] = flat[x]
    BY <1>7, <2>2
  <2>4. QED
    BY <1>9, <2>3
<1>11. Hanging(t, d)
  <2> SUFFICES ASSUME NEW j \in 1..1 + n, j # 1
               PROVE  t[j].depth >= d /\ \E i \in 1..j - 1 : Above(t, i, j)
    BY <1>2, <1>5, <1>6 DEF Hanging
  <2>1. PICK x \in 1..n : j = 1 + x
    BY <1>8
  <2>2. t[j] = flat[x]
    BY <1>7, <2>1
  <2>3. t[j].depth >= d
    BY <1>9, <2>2
  <2>4. CASE flat[x].depth = d + 1
    <3>1. flat[x].span.parent = s.id /\ flat[x].span.parent # None
      BY <2>4 DEF n
    <3>2. /\ t[1].span.id = t[j].span.parent /\ t[j].span.parent # None
          /\ t[1].depth = t[j].depth - 1
      BY <1>2, <1>6, <2>2, <2>4, <3>1
    <3>3. \A k \in 1 + 1..j - 1 : t[k].depth > t[1].depth
      <4> SUFFICES ASSUME NEW k \in 1 + 1..j - 1 PROVE t[k].depth > t[1].depth
        OBVIOUS
      <4>1. k \in 2..1 + n
        BY <1>1
      <4>2. QED
        BY <1>2, <1>6, <1>10, <4>1
    <3>4. Above(t, 1, j)
      BY <3>2, <3>3 DEF Above
    <3>5. 1 \in 1..j - 1
      BY <1>1, <2>1
    <3>6. QED
      BY <2>3, <3>4, <3>5
  <2>5. CASE flat[x].depth # d + 1
    <3>1. PICK i \in 1..x - 1 : Above(flat, i, x)
      BY <2>5 DEF Forest, Hanging, n
    <3>2. 1 \in Nat /\ \A y \in 1..n : t[1 + y] = flat[y]
      BY <1>7
    <3>3. 1 + i \in 1..1 + x - 1 /\ Above(t, 1 + i, 1 + x)
      BY <1>1, <3>1, <3>2, ShiftedAbove
    <3> DEFINE p == 1 + i
    <3>4. p \in 1..j - 1
      BY <1>1, <2>1, <3>3
    <3>5. Above(t, p, j)
      BY <2>1, <3>3
    <3> HIDE DEF p
    <3>6. QED
      BY <2>3, <3>4, <3>5
  <2>6. QED
    BY <2>4, <2>5
<1>12. Unfolded(spans, t)
  <2> SUFFICES ASSUME NEW j \in 1..1 + n, t[j].depth < Len(spans) - 1,
                      NEW u \in Range(spans), u.parent # None, u.parent = t[j].span.id
               PROVE  \E k \in 1..1 + n : t[k].span = u
    BY <1>5 DEF Unfolded
  <2>1. PICK x \in 1..n : flat[x].span = u
    <3>1. CASE j = 1
      BY <1>2, <1>6, <3>1 DEF n
    <3>2. CASE j # 1
      <4>1. PICK y \in 1..n : j = 1 + y
        BY <1>8, <3>2
      <4>2. flat[y].depth < Len(spans) - 1 /\ u.parent = flat[y].span.id
        BY <1>7, <4>1
      <4>3. QED
        BY <4>2 DEF Forest, Unfolded, n
    <3>3. QED
      BY <3>1, <3>2
  <2>2. QED
    BY <1>7, <2>1
<1>13. Siblings(spans, t)
  <2> SUFFICES ASSUME NEW j \in 1..1 + n, NEW k \in 1..1 + n, NEW l \in 1..1 + n,
                      Below(t, j, k, l)
               PROVE  Ordered(spans, t[k].span, t[l].span)
    BY <1>5 DEF Siblings
  <2>1. j < k /\ k < l
    BY DEF Below
  <2>2. k # 1 /\ l # 1
    BY <2>1
  <2>3. PICK x \in 1..n : k = 1 + x
    BY <1>8, <2>2
  <2>4. PICK y \in 1..n : l = 1 + y
    BY <1>8, <2>2
  <2>5. t[k] = flat[x] /\ t[l] = flat[y] /\ x < y
    BY <1>7, <2>1, <2>3, <2>4
  <2>6. CASE j = 1
    <3>1. flat[x].depth = d + 1 /\ flat[y].depth = d + 1
      BY <1>2, <1>6, <2>5, <2>6 DEF Below
    <3>2. Heads(spans, flat, d + 1)
      BY DEF Forest
    <3>3. Ordered(spans, flat[x].span, flat[y].span)
      BY <2>5, <3>1, <3>2 DEF Heads, n
    <3>4. QED
      BY <2>5, <3>3
  <2>7. CASE j # 1
    <3>1. PICK z \in 1..n : j = 1 + z
      BY <1>8, <2>7
    <3>2. Below(t, 1 + z, 1 + x, 1 + y)
      BY <2>3, <2>4, <3>1
    <3>3. 1 \in Nat /\ \A w \in 1..n : t[1 + w] = flat[w]
      BY <1>7
    <3>4. Below(flat, z, x, y)
      BY <1>1, <3>2, <3>3, ShiftedBelow
    <3>5. Ordered(spans, flat[x].span, flat[y].span)
      BY <3>4 DEF Forest, Siblings, n
    <3>6. QED
      BY <2>5, <3>5
  <2>8. QED
    BY <2>6, <2>7
<1>14. Heads(spans, t, d)
  <2> SUFFICES ASSUME NEW k \in 1..1 + n, NEW l \in 1..1 + n, k < l, t[l].depth = d
               PROVE  FALSE
    BY <1>5 DEF Heads
  <2>1. l \in 2..1 + n
    BY <1>1
  <2>2. QED
    BY <1>10, <2>1
<1>15. Len(t) # 0
  BY <1>1, <1>5
<1>16. Forest(spans, t, d)
  BY <1>4, <1>11, <1>12, <1>13, <1>14 DEF Forest
<1>17. \A j \in 2..Len(t) : t[j].depth > d
  BY <1>5, <1>10
<1>18. QED
  BY <1>6, <1>15, <1>16, <1>17 DEF Tree, row, t

-----------------------------------------------------------------------------
(* The rows of the waterfall are such trees *)

\* Chosen nodes are all there, in order.
AllInOrder(spans, chosen, nodes) ==
  /\ nodes \in Seq(Range(spans))
  /\ \A k \in 1..Len(nodes) : \E i \in chosen : nodes[k] = spans[i]
  /\ \A i \in chosen : \E k \in 1..Len(nodes) : nodes[k] = spans[i]
  /\ \A b, c \in 1..Len(nodes) : b < c => Ordered(spans, nodes[b], nodes[c])

LEMMA NodesOrdered ==
  ASSUME NEW spans, IsTrace(spans), NEW chosen \in SUBSET (1..Len(spans))
  PROVE  AllInOrder(spans, chosen, Nodes(spans, chosen))
<1> DEFINE nodes == Nodes(spans, chosen)
<1>1. Sorts(spans, chosen, Len(spans), nodes)
  BY NodesSorted
<1> HIDE DEF nodes
<1>2. nodes \in Seq(Range(spans)) /\ Len(nodes) \in Nat /\ ByStart(nodes)
  BY <1>1, LenProperties DEF Sorts
<1>3. \A k \in 1..Len(nodes) : \E i \in chosen : nodes[k] = spans[i]
  BY <1>1 DEF Sorts
<1>4. \A i \in chosen : i <= Len(spans)
  BY TraceIndexed
<1>5. \A i \in chosen : \E k \in 1..Len(nodes) : nodes[k] = spans[i]
  BY <1>1, <1>4 DEF Sorts
<1>6. ASSUME NEW b \in 1..Len(nodes), NEW c \in 1..Len(nodes), b < c
      PROVE  Ordered(spans, nodes[b], nodes[c])
  <2>1. nodes[b].start <= nodes[c].start
    BY <1>2, <1>6 DEF ByStart
  <2>2. b # c
    BY <1>6
  <2>3. Distinct(spans) => nodes[b].id # nodes[c].id
    BY <1>1, <2>2 DEF Sorts
  <2>4. QED
    BY <2>1, <2>3 DEF Ordered
<1>7. AllInOrder(spans, chosen, nodes)
  BY <1>2, <1>3, <1>5, <1>6 DEF AllInOrder
<1>8. QED
  BY <1>7 DEF nodes

LEMMA ChildrenOrdered ==
  ASSUME NEW spans, IsTrace(spans), NEW id
  PROVE  LET children == Children(spans, id) IN
         /\ children \in Seq(Range(spans)) /\ DOMAIN children = 1..Len(children)
         /\ \A k \in 1..Len(children) : /\ children[k] \in Range(spans)
                                        /\ children[k].parent = id /\ id # None
         /\ HasNode(spans, id) => \A s \in Range(spans) :
              s.parent = id => \E k \in 1..Len(children) : children[k] = s
         /\ \A b, c \in 1..Len(children) :
              b < c => Ordered(spans, children[b], children[c])
<1> DEFINE chosen == {i \in DOMAIN spans : HasNode(spans, id) /\ spans[i].parent = id}
           children == Children(spans, id)
<1>1. /\ DOMAIN spans = 1..Len(spans)
      /\ \A s \in Range(spans) : \E i \in 1..Len(spans) : spans[i] = s
  BY TraceIndexed
<1>2. chosen \in SUBSET (1..Len(spans)) /\ children = Nodes(spans, chosen)
  BY <1>1 DEF Children
<1>3. ASSUME HasNode(spans, id)
      PROVE  \A s \in Range(spans) : s.parent = id => \E i \in chosen : spans[i] = s
  BY <1>1, <1>3
<1>4. \A i \in chosen : spans[i].parent = id /\ id # None
  BY DEF HasNode
<1> HIDE DEF chosen, children
<1>5. AllInOrder(spans, chosen, children)
  BY <1>2, NodesOrdered
<1>6. /\ children \in Seq(Range(spans))
      /\ \A k \in 1..Len(children) : \E i \in chosen : children[k] = spans[i]
      /\ \A i \in chosen : \E k \in 1..Len(children) : children[k] = spans[i]
      /\ \A b, c \in 1..Len(children) : b < c => Ordered(spans, children[b], children[c])
  BY <1>5 DEF AllInOrder
<1>7. DOMAIN children = 1..Len(children) /\ \A k \in 1..Len(children) : children[k] \in Range(spans)
  BY <1>6, LenProperties, ElementOfSeq
<1>8. \A k \in 1..Len(children) : children[k].parent = id /\ id # None
  BY <1>4, <1>6
<1>9. ASSUME HasNode(spans, id)
      PROVE  \A s \in Range(spans) : s.parent = id => \E k \in 1..Len(children) : children[k] = s
  BY <1>3, <1>6, <1>9
<1>10. QED
  BY <1>6, <1>7, <1>8, <1>9 DEF children

\* The rows of a node, from the rows of the nodes below it.
Subtree(spans, levels, below, id) ==
  LET children == Children(spans, id) IN
  <<[span |-> Node(spans, id), depth |-> Len(spans) - levels]>> \o
  FlattenSeq([i \in DOMAIN children |-> below[children[i].id]])

LEMMA SubtreeType ==
  ASSUME NEW spans, IsTrace(spans), NEW levels \in 1..Len(spans), NEW id \in Ids(spans),
         NEW below \in [Ids(spans) -> Seq(Row(spans))]
  PROVE  /\ [i \in DOMAIN Children(spans, id) |-> below[Children(spans, id)[i].id]]
              \in Seq(Seq(Row(spans)))
         /\ Len([i \in DOMAIN Children(spans, id) |-> below[Children(spans, id)[i].id]]) =
              Len(Children(spans, id))
         /\ Subtree(spans, levels, below, id) \in Seq(Row(spans))
<1> DEFINE children == Children(spans, id)
           w == Len(children)
           S == Seq(Row(spans))
           trees == [i \in DOMAIN children |-> below[children[i].id]]
           row == [span |-> Node(spans, id), depth |-> Len(spans) - levels]
<1>1. /\ children \in Seq(Range(spans)) /\ DOMAIN children = 1..w
      /\ \A k \in 1..w : children[k] \in Range(spans)
  BY ChildrenOrdered
<1>2. w \in Nat
  BY <1>1, LenProperties
<1>3. \A k \in 1..w : below[children[k].id] \in S
  BY <1>1, NodeOfSpan
<1> HIDE DEF children, w, S
<1>4. trees = [i \in 1..w |-> below[children[i].id]]
  BY <1>1
<1>5. trees \in [1..w -> S]
  BY <1>3, <1>4
<1>6. trees \in Seq(S) /\ Len(trees) = w
  BY <1>2, <1>5, SeqDef, LenProperties
<1> HIDE DEF trees
<1>7. FlattenSeq(trees) \in Seq(Row(spans))
  BY <1>6, Flattening DEF S
<1>8. row \in Row(spans)
  BY NodeIsSpan, TraceIndexed DEF Row
<1> HIDE DEF row
<1>9. <<row>> \in Seq(Row(spans))
  BY <1>8
<1>10. <<row>> \o FlattenSeq(trees) \in Seq(Row(spans))
  BY <1>7, <1>9, ConcatProperties
<1>11. Subtree(spans, levels, below, id) = <<row>> \o FlattenSeq(trees)
  BY DEF Subtree, row, trees, children
<1>12. QED
  BY <1>6, <1>10, <1>11 DEF trees, w, children, S

\* On the last level nothing is below a node, elsewhere trees are.
LEMMA SubtreeIsTree ==
  ASSUME NEW spans, IsTrace(spans), NEW levels \in 1..Len(spans), NEW id \in Ids(spans),
         NEW below \in [Ids(spans) -> Seq(Row(spans))],
         levels = 1 => \A u \in Ids(spans) : below[u] = <<>>,
         levels # 1 => \A u \in Ids(spans) :
                         Tree(spans, below[u], Len(spans) - levels + 1, Node(spans, u))
  PROVE  Tree(spans, Subtree(spans, levels, below, id), Len(spans) - levels, Node(spans, id))
<1> DEFINE children == Children(spans, id)
           w == Len(children)
           trees == [i \in DOMAIN children |-> below[children[i].id]]
           flat == FlattenSeq(trees)
           d == Len(spans) - levels
           s == Node(spans, id)
<1>1. /\ children \in Seq(Range(spans)) /\ DOMAIN children = 1..w
      /\ \A k \in 1..w : children[k] \in Range(spans) /\ children[k].parent = id /\ id # None
      /\ HasNode(spans, id) =>
           \A u \in Range(spans) : u.parent = id => \E k \in 1..w : children[k] = u
      /\ \A b, c \in 1..w : b < c => Ordered(spans, children[b], children[c])
  BY ChildrenOrdered
<1>2. trees \in Seq(Seq(Row(spans))) /\ Len(trees) = w
  BY SubtreeType
<1>3. \A k \in 1..w : /\ trees[k] = below[children[k].id] /\ children[k].id \in Ids(spans)
                      /\ Node(spans, children[k].id) = children[k]
  BY <1>1, NodeOfSpan
<1>4. Subtree(spans, levels, below, id) = <<[span |-> s, depth |-> d]>> \o flat
  BY DEF Subtree
<1>5. /\ Len(spans) \in Nat /\ d \in Nat /\ Len(spans) - levels + 1 = d + 1
      /\ (d < Len(spans) - 1 <=> levels # 1)
  BY TraceIndexed
<1>6. s \in Range(spans) /\ s.id = id
  BY NodeIsSpan
<1> HIDE DEF trees, flat, d, s, children, w
<1>7. CASE levels = 1
  <2>1. \A b \in 1..Len(trees) : trees[b] = <<>>
    BY <1>2, <1>3, <1>7
  <2>2. flat = <<>>
    BY <1>2, <2>1, FlatOfNothing DEF flat
  <2>3. <<>> \in Seq(Row(spans)) /\ Len(<<>>) = 0 /\ 1..0 = {}
    BY EmptySeq
  <2>4. Forest(spans, <<>>, d + 1)
    BY <2>3 DEF Forest, Hanging, Unfolded, Siblings, Heads
  <2>5. Tree(spans, <<[span |-> s, depth |-> d]>> \o <<>>, d, s)
    BY <1>5, <1>6, <1>7, <2>3, <2>4, TreeOfForest
  <2>6. QED
    BY <1>4, <2>2, <2>5 DEF d, s
<1>8. CASE levels # 1
  <2>1. \A b \in 1..w : Tree(spans, trees[b], d + 1, children[b])
    BY <1>3, <1>5, <1>8
  <2>2. d + 1 \in Nat
    BY <1>5
  <2>3. Forest(spans, flat, d + 1) /\ Planted(flat, children, d + 1)
    <3>1. \A b, c \in 1..Len(children) : b < c => Ordered(spans, children[b], children[c])
      BY <1>1 DEF w
    <3>2. \A b \in 1..Len(children) : Tree(spans, trees[b], d + 1, children[b])
      BY <2>1 DEF w
    <3>3. children \in Seq(Range(spans)) /\ Len(trees) = Len(children)
      BY <1>1, <1>2 DEF w
    <3> DEFINE e == d + 1
    <3>4. \A b \in 1..Len(children) : Tree(spans, trees[b], e, children[b])
      BY <3>2
    <3>5. e \in Nat
      BY <2>2
    <3> HIDE DEF e
    <3>6. Forest(spans, FlattenSeq(trees), e) /\ Planted(FlattenSeq(trees), children, e)
      BY <1>2, <3>1, <3>3, <3>4, <3>5, ForestOfTrees
    <3>7. QED
      BY <3>6 DEF flat, e
  <2>4. \A k \in 1..Len(flat) : flat[k].depth = d + 1 =>
          flat[k].span.parent = s.id /\ flat[k].span.parent # None
    <3> SUFFICES ASSUME NEW k \in 1..Len(flat), flat[k].depth = d + 1
                 PROVE  flat[k].span.parent = s.id /\ flat[k].span.parent # None
      OBVIOUS
    <3>1. PICK b \in 1..w : flat[k].span = children[b]
      BY <2>3 DEF Planted, w
    <3>2. QED
      BY <1>1, <1>6, <3>1
  <2>5. \A u \in Range(spans) : u.parent # None /\ u.parent = s.id =>
          \E k \in 1..Len(flat) : flat[k].span = u
    <3> SUFFICES ASSUME NEW u \in Range(spans), u.parent # None, u.parent = s.id
                 PROVE  \E k \in 1..Len(flat) : flat[k].span = u
      OBVIOUS
    <3>1. HasNode(spans, id)
      BY <1>6 DEF HasNode
    <3>2. PICK b \in 1..w : children[b] = u
      BY <1>1, <1>6, <3>1
    <3>3. QED
      BY <2>3, <3>2 DEF Planted, w
  <2>6. Tree(spans, <<[span |-> s, depth |-> d]>> \o flat, d, s)
    BY <1>5, <1>6, <2>3, <2>4, <2>5, TreeOfForest
  <2>7. QED
    BY <1>4, <2>6 DEF d, s
<1>9. QED
  BY <1>7, <1>8

\* The function Traverse defines by recursion.
TraversesBy(spans, rows) ==
  rows = [levels \in 0..Len(spans) |->
            [id \in Ids(spans) |->
               IF levels = 0 THEN <<>> ELSE Subtree(spans, levels, rows[levels - 1], id)]]

\* What is traversed from a node is a tree of rows.
LEMMA TraverseTrees ==
  ASSUME NEW spans, IsTrace(spans)
  PROVE  /\ Traverse(spans) \in [Ids(spans) -> Seq(Row(spans))]
         /\ \A id \in Ids(spans) : Tree(spans, Traverse(spans)[id], 0, Node(spans, id))
<1> DEFINE N == Len(spans)
           I == Ids(spans)
           T == [I -> Seq(Row(spans))]
           base == [id \in I |-> <<>>]
           step == [levels \in 0 + 1..N |->
                      [t \in T |-> [id \in I |-> Subtree(spans, levels, t, id)]]]
           rows == CHOOSE r : TraversesBy(spans, r)
<1>1. N \in Nat \ {0} /\ N \in Nat /\ 0 \in Nat /\ 0 <= N
  BY TraceIndexed
<1>2. base \in T
  <2>1. <<>> \in Seq(Row(spans))
    BY EmptySeq
  <2>2. QED
    BY <2>1
<1>3. \A levels \in 0 + 1..N : \A t \in T :
        /\ [id \in I |-> Subtree(spans, levels, t, id)] \in T
        /\ step[levels][t] = [id \in I |-> Subtree(spans, levels, t, id)]
  <2> SUFFICES ASSUME NEW levels \in 1..N, NEW t \in T
               PROVE  [id \in I |-> Subtree(spans, levels, t, id)] \in T
    OBVIOUS
  <2>1. \A id \in I : Subtree(spans, levels, t, id) \in Seq(Row(spans))
    BY SubtreeType
  <2>2. QED
    BY <2>1
<1>4. step \in [0 + 1..N -> [T -> T]]
  BY <1>3
<1> HIDE DEF step, T, I, N, base
<1>5. \E f \in [0..N -> T] : TraversesBy(spans, f)
  <2>1. PICK f \in [0..N -> T] : Follows(f, 0, N, base, step)
    BY <1>1, <1>2, <1>4, Recursion
  <2>2. ASSUME NEW n \in 0..N
        PROVE  f[n] = [id \in I |->
                         IF n = 0 THEN <<>> ELSE Subtree(spans, n, f[n - 1], id)]
    <3>1. CASE n = 0
      <4>1. f[n] = base
        BY <1>1, <2>1, <3>1 DEF Follows
      <4>2. QED
        BY <3>1, <4>1 DEF base
    <3>2. CASE n # 0
      <4>1. n \in 0 + 1..N /\ n - 1 \in 0..N
        BY <1>1, <3>2
      <4>2. f[n - 1] \in T /\ f[n] = step[n][f[n - 1]]
        BY <2>1, <3>2, <4>1 DEF Follows
      <4>3. f[n] = [id \in I |-> Subtree(spans, n, f[n - 1], id)]
        BY <1>3, <4>1, <4>2
      <4>4. QED
        BY <3>2, <4>3
    <3>3. QED
      BY <3>1, <3>2
  <2>3. f = [n \in 0..N |-> f[n]]
    BY <2>1
  <2>4. f = [n \in 0..N |-> [id \in I |->
               IF n = 0 THEN <<>> ELSE Subtree(spans, n, f[n - 1], id)]]
    BY <2>2, <2>3
  <2>5. QED
    BY <2>1, <2>4 DEF TraversesBy, N, I
<1>6. TraversesBy(spans, rows)
  BY <1>5
<1>7. Traverse(spans) = rows[N]
  BY DEF Traverse, TraversesBy, Subtree, N
<1> HIDE DEF rows
<1>8. \A levels \in 0..N : rows[levels] =
        [id \in I |-> IF levels = 0 THEN <<>> ELSE Subtree(spans, levels, rows[levels - 1], id)]
  BY <1>6 DEF TraversesBy, N, I
<1> DEFINE Good == {levels \in 0..N : rows[levels] \in T}
           Fine == {levels \in 1..N : \A id \in I :
                      Tree(spans, rows[levels][id], N - levels, Node(spans, id))}
<1>9. \A levels \in 0..N : rows[levels] \in T
  <2>1. rows[0] = base
    <3>1. 0 \in 0..N
      BY <1>1
    <3>2. rows[0] = [id \in I |-> IF 0 = 0 THEN <<>> ELSE Subtree(spans, 0, rows[0 - 1], id)]
      BY <1>8, <3>1
    <3>3. QED
      BY <3>2 DEF base
  <2>2. 0 \in Good
    BY <1>1, <1>2, <2>1
  <2>3. ASSUME NEW levels \in 0 + 1..N, levels - 1 \in Good PROVE levels \in Good
    <3>1. levels \in 0..N /\ levels # 0 /\ rows[levels - 1] \in T
      BY <1>1, <2>3
    <3>2. rows[levels] = [id \in I |-> Subtree(spans, levels, rows[levels - 1], id)]
      BY <1>8, <3>1
    <3>3. QED
      BY <1>3, <3>1, <3>2
  <2>4. \A levels \in 0..N : levels \in Good
    <3> HIDE DEF Good
    <3>1. QED
      BY <1>1, <2>2, <2>3, UpTo
  <2>5. QED
    BY <2>4
<1>10. ASSUME NEW levels \in 1..N,
              levels # 1 => \A id \in I :
                Tree(spans, rows[levels - 1][id], N - levels + 1, Node(spans, id)),
              NEW id \in I
       PROVE  Tree(spans, rows[levels][id], N - levels, Node(spans, id))
  <2> DEFINE below == rows[levels - 1]
  <2>1. levels \in 0..N /\ levels - 1 \in 0..N /\ levels # 0
    BY <1>1
  <2>2. below \in [Ids(spans) -> Seq(Row(spans))]
    BY <1>9, <2>1 DEF T, I
  <2>3. levels = 1 => \A u \in Ids(spans) : below[u] = <<>>
    <3>1. rows[0] = [u \in I |-> <<>>]
      BY <1>1, <1>8
    <3>2. levels = 1 => levels - 1 = 0
      OBVIOUS
    <3>3. QED
      BY <3>1, <3>2 DEF I
  <2>4. levels # 1 => \A u \in Ids(spans) :
          Tree(spans, below[u], Len(spans) - levels + 1, Node(spans, u))
    BY <1>10 DEF I, N
  <2>5. rows[levels][id] = Subtree(spans, levels, below, id)
    BY <1>8, <2>1
  <2> HIDE DEF below
  <2>6. Tree(spans, Subtree(spans, levels, below, id), Len(spans) - levels, Node(spans, id))
    BY <2>2, <2>3, <2>4, SubtreeIsTree DEF I, N
  <2>7. QED
    BY <2>5, <2>6 DEF N
<1>11. \A levels \in 1..N : levels \in Fine
  <2>1. 1 \in Fine
    BY <1>1, <1>10
  <2>2. ASSUME NEW levels \in 1 + 1..N, levels - 1 \in Fine PROVE levels \in Fine
    <3>1. levels \in 1..N /\ N - (levels - 1) = N - levels + 1
      BY <1>1
    <3>2. \A id \in I : Tree(spans, rows[levels - 1][id], N - levels + 1, Node(spans, id))
      BY <2>2, <3>1
    <3>3. \A id \in I : Tree(spans, rows[levels][id], N - levels, Node(spans, id))
      BY <1>10, <3>1, <3>2
    <3>4. QED
      BY <3>1, <3>3
  <2>3. QED
    <3> HIDE DEF Fine
    <3>1. QED
      BY <1>1, <2>1, <2>2, UpTo
<1>12. N \in 0..N /\ N \in 1..N /\ N - N = 0
  BY <1>1
<1>13. \A id \in I : Tree(spans, rows[N][id], 0, Node(spans, id))
  BY <1>11, <1>12
<1>14. QED
  BY <1>7, <1>9, <1>12, <1>13 DEF T, I

\* The rows are the trees of the roots.
Waterfall(spans, rows) ==
  /\ Forest(spans, rows, 0)
  /\ \A k \in 1..Len(rows) : rows[k].depth = 0 => ~HasNode(spans, rows[k].span.parent)
  /\ \A s \in Range(spans) : ~HasNode(spans, s.parent) => \E k \in 1..Len(rows) : rows[k].span = s

LEMMA FlattenedWaterfall ==
  ASSUME NEW spans, IsTrace(spans)
  PROVE  Waterfall(spans, Flattened(spans))
<1> DEFINE chosen == {i \in DOMAIN spans : ~HasNode(spans, spans[i].parent)}
           roots == Roots(spans)
           w == Len(roots)
           rows == Traverse(spans)
           trees == [i \in DOMAIN roots |-> rows[roots[i].id]]
           flat == FlattenSeq(trees)
           S == Seq(Row(spans))
<1>1. /\ DOMAIN spans = 1..Len(spans)
      /\ \A i \in 1..Len(spans) : spans[i] \in Range(spans)
      /\ \A s \in Range(spans) : \E i \in 1..Len(spans) : spans[i] = s
  BY TraceIndexed
<1>2. chosen \in SUBSET (1..Len(spans)) /\ roots = Nodes(spans, chosen)
  BY <1>1 DEF Roots
<1>3. \A s \in Range(spans) : ~HasNode(spans, s.parent) => \E i \in chosen : spans[i] = s
  BY <1>1
<1>4. \A i \in chosen : ~HasNode(spans, spans[i].parent)
  OBVIOUS
<1>5. Flattened(spans) = flat
  BY DEF Flattened
<1> HIDE DEF chosen, roots
<1>6. AllInOrder(spans, chosen, roots)
  BY <1>2, NodesOrdered
<1>7. roots \in Seq(Range(spans)) /\ w \in Nat /\ DOMAIN roots = 1..w
  BY <1>6, LenProperties DEF AllInOrder
<1>8. \A k \in 1..w : /\ roots[k] \in Range(spans)
                      /\ roots[k].id \in Ids(spans) /\ Node(spans, roots[k].id) = roots[k]
  BY <1>7, NodeOfSpan, ElementOfSeq
<1>9. /\ rows \in [Ids(spans) -> S]
      /\ \A id \in Ids(spans) : Tree(spans, rows[id], 0, Node(spans, id))
  BY TraverseTrees
<1> HIDE DEF rows, w, S
<1>10. trees = [i \in 1..w |-> rows[roots[i].id]]
  BY <1>7
<1>11. trees \in [1..w -> S]
  BY <1>8, <1>9, <1>10
<1>12. trees \in Seq(S) /\ Len(trees) = w
  BY <1>7, <1>11, SeqDef, LenProperties
<1>13. \A b \in 1..w : Tree(spans, trees[b], 0, roots[b])
  BY <1>8, <1>9, <1>10
<1> HIDE DEF trees
<1>14. Forest(spans, flat, 0) /\ Planted(flat, roots, 0)
  <2>1. \A b, c \in 1..Len(roots) : b < c => Ordered(spans, roots[b], roots[c])
    BY <1>6 DEF AllInOrder
  <2>2. trees \in Seq(Seq(Row(spans))) /\ Len(trees) = Len(roots)
    BY <1>12 DEF S, w
  <2>3. \A b \in 1..Len(roots) : Tree(spans, trees[b], 0, roots[b])
    BY <1>13 DEF w
  <2>4. 0 \in Nat
    OBVIOUS
  <2>5. QED
    BY <1>7, <2>1, <2>2, <2>3, <2>4, ForestOfTrees
<1> HIDE DEF flat
<1>15. ASSUME NEW k \in 1..Len(flat), flat[k].depth = 0
       PROVE  ~HasNode(spans, flat[k].span.parent)
  <2>1. PICK b \in 1..w : flat[k].span = roots[b]
    BY <1>14, <1>15 DEF Planted, w
  <2>2. PICK i \in chosen : roots[b] = spans[i]
    BY <1>6 DEF AllInOrder, w
  <2>3. QED
    BY <1>4, <2>1, <2>2
<1>16. ASSUME NEW s \in Range(spans), ~HasNode(spans, s.parent)
       PROVE  \E k \in 1..Len(flat) : flat[k].span = s
  <2>1. PICK i \in chosen : spans[i] = s
    BY <1>3, <1>16
  <2>2. PICK b \in 1..w : roots[b] = s
    BY <1>6, <2>1 DEF AllInOrder, w
  <2>3. QED
    BY <1>14, <2>2 DEF Planted, w
<1>17. Waterfall(spans, flat)
  BY <1>14, <1>15, <1>16 DEF Waterfall
<1>18. QED
  BY <1>5, <1>17

\* A row without a parent in the trace has depth 0, any other one stands below the row
\* of its parent.
LEMMA RowsHang ==
  ASSUME NEW spans, IsTrace(spans), NEW rows, Waterfall(spans, rows)
  PROVE  /\ Len(rows) \in Nat /\ DOMAIN rows = 1..Len(rows)
         /\ \A j \in 1..Len(rows) :
              /\ rows[j] \in Row(spans) /\ rows[j].span \in Range(spans)
              /\ rows[j].depth \in Nat /\ rows[j].span.id \in Ids(spans)
              /\ Node(spans, rows[j].span.id) = rows[j].span
         /\ \A j \in 1..Len(rows) :
              IF HasNode(spans, rows[j].span.parent) THEN \E i \in 1..j - 1 : Above(rows, i, j)
              ELSE rows[j].depth = 0
<1> DEFINE n == Len(rows)
<1>1. rows \in Seq(Row(spans)) /\ n \in Nat /\ DOMAIN rows = 1..n
  BY LenProperties DEF Waterfall, Forest
<1>2. \A j \in 1..n : /\ rows[j] \in Row(spans) /\ rows[j].span \in Range(spans)
                      /\ rows[j].depth \in Nat
  <2>1. \A j \in 1..n : rows[j] \in Row(spans)
    BY <1>1, ElementOfSeq
  <2>2. QED
    BY <2>1 DEF Row
<1>3. \A j \in 1..n : /\ rows[j].span.id \in Ids(spans)
                      /\ Node(spans, rows[j].span.id) = rows[j].span
  BY <1>2, NodeOfSpan
<1>4. ASSUME NEW j \in 1..n, HasNode(spans, rows[j].span.parent)
      PROVE  \E i \in 1..j - 1 : Above(rows, i, j)
  <2>1. rows[j].depth # 0
    BY <1>4 DEF Waterfall
  <2>2. QED
    BY <2>1 DEF Waterfall, Forest, Hanging
<1>5. ASSUME NEW j \in 1..n, ~HasNode(spans, rows[j].span.parent)
      PROVE  rows[j].depth = 0
  <2>1. rows[j].depth = 0 \/ \E i \in 1..j - 1 : Above(rows, i, j)
    BY DEF Waterfall, Forest, Hanging
  <2>2. SUFFICES ASSUME NEW i \in 1..j - 1, Above(rows, i, j) PROVE FALSE
    BY <2>1
  <2>3. i \in 1..n
    BY <1>1
  <2>4. rows[i].span.id = rows[j].span.parent /\ rows[j].span.parent # None
    BY <2>2 DEF Above
  <2>5. rows[i].span.id \in Ids(spans)
    BY <1>3, <2>3
  <2>6. QED
    BY <1>5, <2>4, <2>5 DEF HasNode
<1>6. QED
  BY <1>1, <1>2, <1>3, <1>4, <1>5

\* Rows of the same span have the same depth.
LEMMA SameDepth ==
  ASSUME NEW spans, IsTrace(spans), NEW rows, Waterfall(spans, rows),
         NEW j \in 1..Len(rows), NEW l \in 1..Len(rows), rows[j].span.id = rows[l].span.id
  PROVE  rows[j].depth = rows[l].depth
<1> DEFINE n == Len(rows)
           Bad == {e \in Nat : \E a, b \in 1..n : /\ rows[a].span.id = rows[b].span.id
                                                  /\ rows[a].depth = e /\ rows[b].depth # e}
<1>1. /\ n \in Nat
      /\ \A a \in 1..n : /\ rows[a].span \in Range(spans) /\ rows[a].depth \in Nat
                         /\ Node(spans, rows[a].span.id) = rows[a].span
      /\ \A a \in 1..n :
           IF HasNode(spans, rows[a].span.parent) THEN \E i \in 1..a - 1 : Above(rows, i, a)
           ELSE rows[a].depth = 0
  BY RowsHang
<1>2. SUFFICES ASSUME Bad # {} PROVE FALSE
  BY <1>1
<1>3. PICK e \in Bad : \A f \in Bad : e <= f
  <2>1. Bad \in SUBSET Nat
    OBVIOUS
  <2>2. QED
    BY <1>2, <2>1, LeastNat
<1>4. PICK a \in 1..n, b \in 1..n : /\ rows[a].span.id = rows[b].span.id
                                    /\ rows[a].depth = e /\ rows[b].depth # e
  OBVIOUS
<1>5. rows[a].span = rows[b].span
  BY <1>1, <1>4
<1>6. HasNode(spans, rows[a].span.parent)
  BY <1>1, <1>4, <1>5
<1>7. PICK i \in 1..a - 1 : Above(rows, i, a)
  BY <1>1, <1>6
<1>8. PICK k \in 1..b - 1 : Above(rows, k, b)
  BY <1>1, <1>5, <1>6
<1>9. i \in 1..n /\ k \in 1..n
  BY <1>1
<1>10. rows[i].span.id = rows[k].span.id
  BY <1>5, <1>7, <1>8 DEF Above
<1>11. rows[i].depth = rows[a].depth - 1 /\ rows[k].depth = rows[b].depth - 1
  BY <1>7, <1>8 DEF Above
<1>12. /\ rows[i].depth = e - 1 /\ e - 1 \in Nat /\ rows[k].depth # e - 1
  <2> DEFINE x == rows[i].depth
             y == rows[k].depth
             z == rows[b].depth
  <2>1. x \in Nat /\ y \in Nat /\ z \in Nat /\ e \in Nat
    BY <1>1, <1>9
  <2>2. x = e - 1 /\ y = z - 1 /\ z # e
    BY <1>4, <1>11
  <2> HIDE DEF x, y, z
  <2>3. x = e - 1 /\ e - 1 \in Nat /\ y # e - 1
    BY <2>1, <2>2
  <2>4. QED
    BY <2>3 DEF x, y
<1>13. e - 1 \in Bad
  <2> DEFINE d == e - 1
  <2>1. d \in Nat /\ rows[i].depth = d /\ rows[k].depth # d
    BY <1>12
  <2> HIDE DEF d
  <2>2. d \in Bad
    BY <1>9, <1>10, <2>1
  <2>3. QED
    BY <2>2 DEF d
<1>14. QED
  BY <1>3, <1>13

\* If spans were sent once, no two rows are of the same.
LEMMA RowsDistinct ==
  ASSUME NEW spans, IsTrace(spans), Distinct(spans), NEW rows, Waterfall(spans, rows),
         NEW j \in 1..Len(rows), NEW l \in 1..Len(rows), rows[j].span.id = rows[l].span.id
  PROVE  j = l
<1> DEFINE n == Len(rows)
           Bad == {e \in Nat : \E a, b \in 1..n :
                     a < b /\ rows[a].span.id = rows[b].span.id /\ rows[a].depth = e}
<1>1. /\ n \in Nat
      /\ \A a \in 1..n : /\ rows[a].span \in Range(spans) /\ rows[a].depth \in Nat
                         /\ Node(spans, rows[a].span.id) = rows[a].span
      /\ \A a \in 1..n :
           IF HasNode(spans, rows[a].span.parent) THEN \E i \in 1..a - 1 : Above(rows, i, a)
           ELSE rows[a].depth = 0
  BY RowsHang
<1>2. SUFFICES ASSUME Bad # {} PROVE FALSE
  <2>1. j < l => rows[j].depth \in Bad
    BY <1>1
  <2>2. l < j => rows[l].depth \in Bad
    BY <1>1
  <2>3. QED
    BY <1>1, <2>1, <2>2
<1>3. PICK e \in Bad : \A f \in Bad : e <= f
  <2>1. Bad \in SUBSET Nat
    OBVIOUS
  <2>2. QED
    BY <1>2, <2>1, LeastNat
<1>4. PICK a \in 1..n, b \in 1..n :
        a < b /\ rows[a].span.id = rows[b].span.id /\ rows[a].depth = e
  OBVIOUS
<1>5. rows[a].span = rows[b].span
  BY <1>1, <1>4
<1>6. rows[b].depth = e
  BY <1>4, SameDepth
<1>7. ~Ordered(spans, rows[a].span, rows[b].span)
  BY <1>4 DEF Ordered
<1>8. e # 0
  <2>1. Heads(spans, rows, 0)
    BY DEF Waterfall, Forest
  <2>2. QED
    BY <1>4, <1>6, <1>7, <2>1 DEF Heads
<1>9. HasNode(spans, rows[a].span.parent)
  BY <1>1, <1>4, <1>8
<1>10. PICK i \in 1..a - 1 : Above(rows, i, a)
  BY <1>1, <1>9
<1>11. PICK k \in 1..b - 1 : Above(rows, k, b)
  BY <1>1, <1>5, <1>9
<1>12. i \in 1..n /\ k \in 1..n
  BY <1>1
<1>13. /\ rows[i].depth = e - 1 /\ rows[k].depth = e - 1 /\ e - 1 \in Nat
       /\ rows[i].span.id = rows[k].span.id
  BY <1>1, <1>4, <1>5, <1>6, <1>8, <1>10, <1>11 DEF Above
<1>14. i = k
  <2>1. SUFFICES ASSUME i # k PROVE FALSE
    OBVIOUS
  <2>2. e - 1 \in Bad
    <3>1. i < k \/ k < i
      BY <2>1
    <3>2. QED
      BY <1>12, <1>13, <3>1
  <2>3. QED
    BY <1>3, <2>2
<1>15. Below(rows, i, a, b)
  <2>1. \A m \in i + 1..b - 1 : rows[m].depth > rows[i].depth
    BY <1>11, <1>14 DEF Above
  <2>2. rows[b].depth > rows[i].depth
    BY <1>6, <1>13
  <2>3. \A m \in i + 1..b : m \in i + 1..b - 1 \/ m = b
    OBVIOUS
  <2>4. \A m \in i + 1..b : rows[m].depth > rows[i].depth
    BY <2>1, <2>2, <2>3
  <2>5. QED
    BY <1>4, <1>6, <1>13, <2>4 DEF Below
<1>16. Siblings(spans, rows)
  BY DEF Waterfall, Forest
<1>17. QED
  BY <1>7, <1>12, <1>15, <1>16 DEF Siblings

\* Everything that does not hang below a circle is shown, and nothing else.
LEMMA ShownIds ==
  ASSUME NEW spans, IsTrace(spans), NEW rows, Waterfall(spans, rows)
  PROVE  {rows[i].span.id : i \in 1..Len(rows)} = Ids(spans) \ Circular(spans)
<1> DEFINE n == Len(rows)
           N == Len(spans)
           shown == {rows[i].span.id : i \in 1..n}
           Parent(id) == Node(spans, id).parent
<1>1. /\ n \in Nat
      /\ \A a \in 1..n : /\ rows[a].span \in Range(spans) /\ rows[a].depth \in Nat
                         /\ rows[a].span.id \in Ids(spans)
                         /\ Node(spans, rows[a].span.id) = rows[a].span
      /\ \A a \in 1..n :
           IF HasNode(spans, rows[a].span.parent) THEN \E i \in 1..a - 1 : Above(rows, i, a)
           ELSE rows[a].depth = 0
  BY RowsHang
<1>2. shown \subseteq Ids(spans)
  BY <1>1
<1>3. ASSUME NEW C \in SUBSET Ids(spans), \A id \in C : Parent(id) \in C \ {None}
      PROVE  \A id \in C : id \notin shown
  <2> DEFINE Bad == {a \in 1..n : rows[a].span.id \in C}
  <2>1. SUFFICES ASSUME Bad # {} PROVE FALSE
    OBVIOUS
  <2>2. PICK a \in Bad : \A b \in Bad : a <= b
    <3>1. Bad \in SUBSET Nat
      OBVIOUS
    <3>2. QED
      BY <2>1, <3>1, LeastNat
  <2>3. rows[a].span.parent \in C \ {None}
    BY <1>1, <1>3
  <2>4. PICK i \in 1..a - 1 : Above(rows, i, a)
    BY <1>1, <2>3 DEF HasNode
  <2>5. i \in 1..n /\ i < a
    BY <1>1
  <2>6. rows[i].span.id \in C
    BY <2>3, <2>4 DEF Above
  <2>7. QED
    BY <2>2, <2>5, <2>6
<1>4. \A id \in Circular(spans) : id \notin shown
  BY <1>3 DEF Circular
<1>5. ASSUME NEW a \in 1..n PROVE \A e \in 0..rows[a].depth : \E b \in 1..n : rows[b].depth = e
  <2> DEFINE deep == rows[a].depth
             Has == {m \in 0..deep : \E b \in 1..n : rows[b].depth = deep - m}
  <2>1. deep \in Nat
    BY <1>1
  <2>2. 0 \in Has
    <3>1. 0 \in 0..deep /\ rows[a].depth = deep - 0
      BY <2>1
    <3>2. QED
      BY <3>1
  <2>3. ASSUME NEW m \in 0 + 1..deep, m - 1 \in Has PROVE m \in Has
    <3>1. PICK b \in 1..n : rows[b].depth = deep - (m - 1)
      BY <2>3
    <3> HIDE DEF deep
    <3>2. rows[b].depth # 0
      BY <2>1, <3>1
    <3>3. PICK i \in 1..b - 1 : Above(rows, i, b)
      BY <1>1, <3>2
    <3>4. i \in 1..n
      BY <1>1
    <3>5. rows[i].depth = (deep - (m - 1)) - 1
      BY <3>1, <3>3 DEF Above
    <3>6. rows[i].depth = deep - m /\ m \in 0..deep
      BY <2>1, <3>5
    <3>7. QED
      BY <3>4, <3>6
  <2>4. \A m \in 0..deep : m \in Has
    <3> HIDE DEF Has, deep
    <3>1. QED
      BY <2>1, <2>2, <2>3, UpTo
  <2> HIDE DEF deep
  <2>5. ASSUME NEW e \in 0..deep PROVE \E b \in 1..n : rows[b].depth = e
    <3>1. deep - e \in 0..deep /\ deep - (deep - e) = e
      BY <2>1
    <3>2. PICK b \in 1..n : rows[b].depth = deep - (deep - e)
      BY <2>4, <3>1
    <3>3. QED
      BY <3>1, <3>2
  <2>6. QED
    BY <2>5 DEF deep
<1>6. /\ N \in Nat \ {0} /\ IsFiniteSet(Ids(spans)) /\ Cardinality(Ids(spans)) \in Nat
      /\ Cardinality(Ids(spans)) <= N
  <2> DEFINE f == [i \in 1..N |-> spans[i].id]
  <2>1. /\ N \in Nat \ {0}
        /\ \A i \in 1..N : spans[i] \in Range(spans)
        /\ \A s \in Range(spans) : \E i \in 1..N : spans[i] = s
    BY TraceIndexed
  <2>2. f \in Surjection(1..N, Ids(spans))
    BY <2>1 DEF Ids, Surjection
  <2>3. IsFiniteSet(1..N) /\ Cardinality(1..N) = N
    BY <2>1, FS_Interval
  <2> HIDE DEF f, N
  <2>4. QED
    BY <2>1, <2>2, <2>3, FS_Surjection, FS_CardinalityType
\* As deep as there are spans, all of them are shown.
<1>7. ASSUME NEW a \in 1..n, rows[a].depth >= N - 1 PROVE Ids(spans) \subseteq shown
  <2> DEFINE At(e) == CHOOSE b \in 1..n : rows[b].depth = e
             c == [e \in 0..N - 1 |-> rows[At(e)].span.id]
  <2>1. \A e \in 0..N - 1 : At(e) \in 1..n /\ rows[At(e)].depth = e
    <3> SUFFICES ASSUME NEW e \in 0..N - 1 PROVE \E b \in 1..n : rows[b].depth = e
      OBVIOUS
    <3>1. e \in 0..rows[a].depth
      BY <1>1, <1>6, <1>7
    <3>2. QED
      BY <1>5, <3>1
  <2>2. \A e \in 0..N - 1 : c[e] = rows[At(e)].span.id /\ c[e] \in shown
    BY <2>1
  <2>3. c \in [0..N - 1 -> shown]
    BY <2>2
  <2>4. ASSUME NEW e \in 0..N - 1, NEW f \in 0..N - 1, c[e] = c[f] PROVE e = f
    <3>1. At(e) \in 1..n /\ At(f) \in 1..n /\ rows[At(e)].span.id = rows[At(f)].span.id
      BY <2>1, <2>2, <2>4
    <3>2. rows[At(e)].depth = rows[At(f)].depth
      BY <3>1, SameDepth
    <3>3. QED
      BY <2>1, <3>2
  <2> HIDE DEF c, At, shown, N
  <2>5. c \in Injection(0..N - 1, shown)
    BY <2>3, <2>4 DEF Injection, IsInjective
  <2>6. IsFiniteSet(shown) /\ Cardinality(shown) <= Cardinality(Ids(spans))
        /\ (Cardinality(Ids(spans)) = Cardinality(shown) => Ids(spans) = shown)
    BY <1>2, <1>6, FS_Subset
  <2>7. Cardinality(0..N - 1) <= Cardinality(shown) /\ Cardinality(shown) \in Nat
    BY <2>5, <2>6, FS_Injection, FS_CardinalityType
  <2>8. Cardinality(0..N - 1) = N
    BY <1>6, FS_Interval
  <2>9. Cardinality(Ids(spans)) = Cardinality(shown)
    BY <1>6, <2>6, <2>7, <2>8
  <2>10. QED
    BY <2>6, <2>9
<1>8. ASSUME NEW id \in Ids(spans), id \notin shown
      PROVE  Parent(id) \in (Ids(spans) \ shown) \ {None}
  <2> DEFINE s == Node(spans, id)
  <2>1. s \in Range(spans) /\ s.id = id /\ s.parent = Parent(id)
    BY NodeIsSpan
  <2>2. ~\E k \in 1..n : rows[k].span = s
    BY <1>8, <2>1
  <2> HIDE DEF s
  <2>3. s.parent \in Ids(spans) /\ s.parent # None
    BY <2>1, <2>2 DEF Waterfall, HasNode
  <2>4. ASSUME NEW k \in 1..n, rows[k].span.id = s.parent PROVE FALSE
    <3>1. ~(Ids(spans) \subseteq shown)
      BY <1>8
    <3>2. rows[k].depth < N - 1
      BY <1>1, <1>6, <1>7, <3>1
    <3>3. \E j \in 1..n : rows[j].span = s
      BY <2>1, <2>3, <2>4, <3>2 DEF Waterfall, Forest, Unfolded
    <3>4. QED
      BY <2>2, <3>3
  <2>5. s.parent \notin shown
    BY <2>4
  <2>6. QED
    BY <2>1, <2>3, <2>5
<1>9. Ids(spans) \ shown \subseteq Circular(spans)
  <2>1. \A id \in Ids(spans) \ shown : Node(spans, id).parent \in (Ids(spans) \ shown) \ {None}
    BY <1>8
  <2> DEFINE C == Ids(spans) \ shown
  <2>2. C \in SUBSET Ids(spans) /\ \A id \in C : Node(spans, id).parent \in C \ {None}
    BY <2>1
  <2> HIDE DEF C
  <2>3. C \in {D \in SUBSET Ids(spans) : \A id \in D : Node(spans, id).parent \in D \ {None}}
    BY <2>2
  <2>4. C \subseteq Circular(spans)
    BY <2>3 DEF Circular
  <2>5. QED
    BY <2>4 DEF C
<1>10. QED
  BY <1>2, <1>4, <1>9

\* The waterfall of any trace is complete and in order.
THEOREM EveryWaterfallComplete ==
  ASSUME NEW spans, IsTrace(spans)
  PROVE  CompleteRows(spans)
<1> DEFINE rows == Flattened(spans)
           n == Len(rows)
           ids == Ids(spans) \ Circular(spans)
           Parent(i) == rows[i].span.parent
<1>1. Waterfall(spans, rows)
  BY FlattenedWaterfall
<1> HIDE DEF rows
<1>2. /\ n \in Nat /\ DOMAIN rows = 1..n
      /\ \A a \in 1..n : rows[a].depth \in Nat
      /\ \A a \in 1..n :
           IF HasNode(spans, rows[a].span.parent) THEN \E i \in 1..a - 1 : Above(rows, i, a)
           ELSE rows[a].depth = 0
  BY <1>1, RowsHang
<1>3. {rows[i].span.id : i \in 1..n} = ids
  BY <1>1, ShownIds
<1>4. ASSUME NEW j \in 1..n
      PROVE  IF HasNode(spans, Parent(j))
               THEN \E i \in 1..j - 1 :
                      /\ rows[i].span.id = Parent(j) /\ rows[i].depth = rows[j].depth - 1
                      /\ \A k \in i + 1..j - 1 : rows[k].depth > rows[i].depth
               ELSE rows[j].depth = 0
  BY <1>2 DEF Above
<1>5. ASSUME Distinct(spans)
      PROVE  /\ n = Cardinality(ids)
             /\ \A i, j \in 1..n :
                  i < j /\ Parent(i) = Parent(j) => rows[i].span.start <= rows[j].span.start
  <2>1. \A i, j \in 1..n : rows[i].span.id = rows[j].span.id => i = j
    BY <1>1, <1>5, RowsDistinct
  <2>2. n = Cardinality(ids)
    <3> DEFINE f == [i \in 1..n |-> rows[i].span.id]
    <3>1. f \in Bijection(1..n, ids)
      BY <1>3, <2>1 DEF Bijection, Injection, Surjection, IsInjective
    <3>2. IsFiniteSet(1..n) /\ Cardinality(1..n) = n
      BY <1>2, FS_Interval
    <3>3. ExistsBijection(1..n, ids)
      BY <3>1 DEF ExistsBijection
    <3> HIDE DEF n, ids
    <3>4. Cardinality(ids) = Cardinality(1..n)
      BY <3>2, <3>3, FS_Bijection
    <3>5. QED
      BY <3>2, <3>4
  <2>3. ASSUME NEW i \in 1..n, NEW j \in 1..n, i < j, Parent(i) = Parent(j)
        PROVE  rows[i].span.start <= rows[j].span.start
    <3>1. CASE HasNode(spans, Parent(i))
      <4>1. PICK a \in 1..i - 1 : Above(rows, a, i)
        BY <1>2, <3>1
      <4>2. PICK b \in 1..j - 1 : Above(rows, b, j)
        BY <1>2, <2>3, <3>1
      <4>3. a \in 1..n /\ b \in 1..n
        BY <1>2
      <4>4. rows[a].span.id = rows[b].span.id
        BY <2>3, <4>1, <4>2 DEF Above
      <4>5. a = b
        BY <2>1, <4>3, <4>4
      <4>6. /\ rows[i].depth = rows[a].depth + 1 /\ rows[j].depth = rows[a].depth + 1
            /\ rows[a].depth \in Nat
        <5> DEFINE x == rows[i].depth
                   y == rows[j].depth
                   z == rows[a].depth
        <5>1. x \in Nat /\ y \in Nat /\ z \in Nat
          BY <1>2, <4>3
        <5>2. z = x - 1 /\ z = y - 1
          BY <4>1, <4>2, <4>5 DEF Above
        <5> HIDE DEF x, y, z
        <5>3. x = z + 1 /\ y = z + 1
          BY <5>1, <5>2
        <5>4. QED
          BY <5>1, <5>3 DEF x, y, z
      <4>7. \A m \in a + 1..j : rows[m].depth > rows[a].depth
        <5> SUFFICES ASSUME NEW m \in a + 1..j PROVE rows[m].depth > rows[a].depth
          OBVIOUS
        <5>1. m \in a + 1..j - 1 \/ m = j
          OBVIOUS
        <5>2. m \in a + 1..j - 1 => rows[m].depth > rows[a].depth
          BY <4>2, <4>5 DEF Above
        <5>3. QED
          BY <4>6, <5>1, <5>2
      <4>8. Below(rows, a, i, j)
        BY <2>3, <4>6, <4>7 DEF Below
      <4>9. Ordered(spans, rows[i].span, rows[j].span)
        BY <1>1, <4>3, <4>8 DEF Waterfall, Forest, Siblings
      <4>10. QED
        BY <4>9 DEF Ordered
    <3>2. CASE ~HasNode(spans, Parent(i))
      <4>1. rows[i].depth = 0 /\ rows[j].depth = 0
        BY <1>2, <2>3, <3>2
      <4>2. Ordered(spans, rows[i].span, rows[j].span)
        BY <1>1, <2>3, <4>1 DEF Waterfall, Forest, Heads
      <4>3. QED
        BY <4>2 DEF Ordered
    <3>3. QED
      BY <3>1, <3>2
  <2>4. QED
    BY <2>2, <2>3
<1>6. QED
  BY <1>2, <1>3, <1>4, <1>5 DEF CompleteRows, rows

-----------------------------------------------------------------------------
(* The page *)

\* The page of a trace has nothing pushed to it; keyed pages ask for keys and
\* have answers about keys; and the selection is one of the spans on the page.
Unpushed == kind # "dashboard" => casts = <<>> /\ inbox = <<>>

AsksForKeys ==
  kind \in Keyed => /\ \A i \in 1..Len(flights) : flights[i].key \in Key
                    /\ data = None \/ data.key \in Key

Selects ==
  kind = "trace" =>
    IF data = None THEN selected = None ELSE selected \in Range(Content[data.key])

DInv == IInv /\ Unpushed /\ AsksForKeys /\ Selects

\* A step of the page with its content is a step of the page, or none of it.
LEMMA DetailSteps == [DetailNext]_<<vars, detail>> => [Next]_vars
<1> SUFFICES ASSUME [DetailNext]_<<vars, detail>> PROVE [Next]_vars
  OBVIOUS
<1>1. CASE UNCHANGED <<vars, detail>>
  BY <1>1
<1>2. CASE Other /\ UNCHANGED detail
  BY <1>2 DEF Next
<1>3. ASSUME NEW i \in 1..Len(flights), Show(i) PROVE Next
  BY <1>3 DEF Next, Show
<1>4. CASE SelectSpan
  BY <1>4 DEF SelectSpan
<1>5. ASSUME NEW mode \in {"error", "slow"}, Filter(mode) PROVE UNCHANGED vars
  BY <1>5 DEF Filter
<1>6. QED
  BY <1>1, <1>2, <1>3, <1>4, <1>5 DEF DetailNext

\* TraceDetail with its waterfall, its filter and its selection is one of the pages.
THEOREM DetailImplementsPages == DetailSpec => Spec
<1>1. DetailInit => Init
  BY DEF DetailInit
<1>2. QED
  BY <1>1, DetailSteps, PTL DEF DetailSpec, Spec

\* The spans on the page.
LEMMA SpansOfPage ==
  ASSUME data # None, data.key \in Key
  PROVE  Spans = Content[data.key] /\ IsTrace(Spans)
  BY TraceDetailAssumption DEF Spans

\* What is first selected, and what can be clicked on, is a span of the trace.
LEMMA ChosenSpan ==
  ASSUME NEW spans, IsTrace(spans)
  PROVE  /\ Chosen(spans) \in Range(spans)
         /\ \A s \in Top3(spans) : s \in Range(spans)
         /\ DOMAIN Flattened(spans) = 1..Len(Flattened(spans))
         /\ \A i \in DOMAIN Flattened(spans) : Flattened(spans)[i].span \in Range(spans)
<1>1. /\ Len(spans) \in Nat \ {0} /\ DOMAIN spans = 1..Len(spans)
      /\ \A i \in 1..Len(spans) : spans[i] \in Range(spans)
  BY TraceIndexed
<1>2. Chosen(spans) \in Range(spans)
  <2>1. spans[1] \in Range(spans)
    BY <1>1
  <2>2. QED
    BY <2>1, PrimaryRootIsSpan DEF Chosen
<1>3. \A s \in Top3(spans) : s \in Range(spans)
  BY <1>1 DEF Top3
<1>4. QED
  BY <1>2, <1>3, FlattenedWaterfall, RowsHang

LEMMA InitDInv == DetailInit => DInv
<1> SUFFICES ASSUME DetailInit PROVE DInv
  OBVIOUS
<1>1. Init /\ selected = None /\ data = None /\ casts = <<>> /\ inbox = <<>>
  BY DEF DetailInit, Init
<1>2. IInv
  BY <1>1, InitIInv
<1>3. AsksForKeys
  <2> SUFFICES ASSUME kind \in Keyed, NEW i \in 1..Len(flights) PROVE flights[i].key \in Key
    BY <1>1 DEF AsksForKeys
  <2> DEFINE f == [key |-> want, background |-> FALSE, late |-> FALSE, answer |-> Pending]
  <2>1. want \in Key /\ flights = <<f>>
    BY <1>1 DEF Init
  <2>2. f.key = want
    OBVIOUS
  <2> HIDE DEF f
  <2>3. flights[i] = f
    BY <2>1
  <2>4. QED
    BY <2>1, <2>2, <2>3
<1>4. QED
  BY <1>1, <1>2, <1>3 DEF DInv, Unpushed, Selects

\* Nothing is pushed to a page that is not the Dashboard.
LEMMA NextUnpushed ==
  ASSUME Unpushed, Next
  PROVE  Unpushed' /\ kind' = kind
<1>1. kind' = kind
  BY DEF Next, Other, Navigate, Retry, Poll, Answer, Reconnect, Disconnect, NewStatus, Ingest,
         ReadStats, Broadcast, Receive, TogglePause, Fail, Restart, Settle, Land
<1>2. ASSUME kind # "dashboard" PROVE UNCHANGED <<casts, inbox>>
  <2>1. casts = <<>> /\ inbox = <<>> /\ Len(casts) = 0
    BY <1>2, EmptySeq DEF Unpushed
  <2>2. ~Reconnect /\ ~Disconnect /\ ~Receive
    BY <1>2, <2>1 DEF Reconnect, Disconnect, NewStatus, Receive
  <2>3. ~\E i \in 1..Len(casts) : ReadStats(i) \/ Broadcast(i)
    BY <2>1
  <2>4. QED
    BY <1>2, <2>1, <2>2, <2>3 DEF Next, Other, Navigate, Retry, Poll, Answer, Ingest,
           TogglePause, Fail, Restart, Settle, Land, socket
<1>3. QED
  BY <1>1, <1>2 DEF Unpushed

\* Requests of pages with a parameter ask for a key, and so their answers have one.
LEMMA NextAsksForKeys ==
  ASSUME IInv, Unpushed, AsksForKeys, Next
  PROVE  AsksForKeys'
<1> SUFFICES ASSUME kind \in Keyed PROVE AsksForKeys'
  BY NextUnpushed DEF AsksForKeys
<1>1. TypeOK /\ want \in Key /\ kind # "dashboard" /\ casts = <<>> /\ inbox = <<>>
  BY DEF IInv, TypeOK, Keyed, Unpushed
<1>2. /\ \A i \in 1..Len(flights) : flights[i].key \in Key
      /\ data = None \/ data.key \in Key
  BY DEF AsksForKeys
<1>3. ASSUME NEW key \in Key, NEW background \in BOOLEAN, Fetch(key, background)
      PROVE  AsksForKeys'
  <2>1. /\ Len(flights') = Len(flights) + 1 /\ data' = data
        /\ flights'[Len(flights) + 1].key = key
        /\ \A i \in 1..Len(flights) : flights'[i] = flights[i]
    BY <1>1, <1>3, FetchAppends
  <2>2. Len(flights) \in Nat
    BY <1>1, FlightsIndexed
  <2>3. \A i \in 1..Len(flights) + 1 : i \in 1..Len(flights) \/ i = Len(flights) + 1
    BY <2>2
  <2>4. QED
    BY <1>2, <2>1, <2>3 DEF AsksForKeys
<1>4. ASSUME NEW i \in 1..Len(flights), Answer(i) PROVE AsksForKeys'
  <2> DEFINE a == IF NoAnswer THEN Failed ELSE version
  <2>1. a \in Nat \union {Pending, Failed}
    BY <1>1 DEF TypeOK
  <2>2. flights' = [flights EXCEPT ![i].answer = a] /\ data' = data
    BY <1>4 DEF Answer
  <2> HIDE DEF a
  <2>3. Len(flights') = Len(flights) /\ \A j \in 1..Len(flights) : flights'[j].key = flights[j].key
    BY <1>1, <2>1, <2>2, AnsweredFlights
  <2>4. QED
    BY <1>2, <2>2, <2>3 DEF AsksForKeys
<1>5. ASSUME NEW i \in 1..Len(flights), Land(i) PROVE AsksForKeys'
  <2> DEFINE n == Len(flights) - 1
  <2>1. flights' = Landed(i)
    BY <1>5 DEF Land
  <2>2. /\ Len(Landed(i)) = n
        /\ \A j \in 1..n : Landed(i)[j].key = IF j < i THEN flights[j].key ELSE flights[j + 1].key
    BY <1>1, LandedFlights
  <2>3. \A j \in 1..n : j \in 1..Len(flights) /\ j + 1 \in 1..Len(flights)
    BY <1>1, FlightsIndexed
  <2>4. \A j \in 1..Len(flights') : flights'[j].key \in Key
    BY <1>2, <2>1, <2>2, <2>3
  <2>5. data' = None \/ data'.key \in Key
    <3>1. flights[i].key \in Key
      BY <1>2
    <3>2. data' = data \/ data' = [key |-> flights[i].key, version |-> flights[i].answer]
      BY <1>5 DEF Land
    <3>3. QED
      BY <1>2, <3>1, <3>2
  <2>6. QED
    BY <2>4, <2>5 DEF AsksForKeys
<1>6. CASE UNCHANGED <<flights, data>>
  BY <1>2, <1>6 DEF AsksForKeys
<1>7. ~Reconnect /\ ~Disconnect /\ ~Receive /\ ~TogglePause /\ ~Poll
  BY <1>1 DEF Reconnect, Disconnect, NewStatus, Receive, TogglePause, Poll
<1>8. ~\E i \in 1..Len(casts) : ReadStats(i) \/ Broadcast(i)
  BY <1>1, EmptySeq
<1>9. ASSUME NEW k \in Key, Navigate(k) PROVE AsksForKeys'
  BY <1>3, <1>9 DEF Navigate
<1>10. CASE Retry
  BY <1>1, <1>3, <1>10 DEF Retry
<1>11. CASE Ingest \/ Fail \/ Restart \/ Settle
  BY <1>6, <1>11 DEF Ingest, Fail, Restart, Settle, page
<1>12. QED
  BY <1>4, <1>5, <1>7, <1>8, <1>9, <1>10, <1>11 DEF Next, Other

\* Only answers bring other spans, and with them another selection.
LEMMA NextSelects ==
  ASSUME DInv, DetailNext
  PROVE  Selects'
<1> SUFFICES ASSUME kind = "trace", kind' = "trace" PROVE Selects'
  <2>1. kind' = kind
    BY NextUnpushed DEF DInv, DetailNext, Next, Show, SelectSpan, Filter, vars
  <2>2. QED
    BY <2>1 DEF Selects
<1>1. /\ IF data = None THEN selected = None ELSE selected \in Range(Content[data.key])
      /\ TypeOK /\ casts = <<>> /\ inbox = <<>>
      /\ \A i \in 1..Len(flights) : flights[i].key \in Key
      /\ data = None \/ data.key \in Key
  BY DEF DInv, Selects, IInv, Unpushed, AsksForKeys, Keyed
<1>2. CASE UNCHANGED <<data, selected>>
  BY <1>1, <1>2 DEF Selects
<1>3. CASE Other /\ UNCHANGED detail
  <2>1. ~Reconnect /\ ~Disconnect /\ ~Receive /\ ~TogglePause /\ ~Poll
    BY <1>1 DEF Reconnect, Disconnect, NewStatus, Receive, TogglePause, Poll
  <2>2. ~\E i \in 1..Len(casts) : ReadStats(i) \/ Broadcast(i)
    BY <1>1, EmptySeq
  <2>3. data' = data
    BY <1>3, <2>1, <2>2 DEF Other, Navigate, Retry, Fetch, Answer, Ingest, Fail, Restart, Settle,
           page
  <2>4. QED
    BY <1>2, <1>3, <2>3 DEF detail
<1>4. ASSUME NEW i \in 1..Len(flights), Show(i) PROVE Selects'
  <2> DEFINE f == flights[i]
  <2>1. f.key \in Key /\ f \in Flight /\ Land(i)
    BY <1>1, <1>4, FlightsIndexed DEF Show
  <2>2. CASE f.answer = Failed
    <3>1. data' = data /\ selected' = selected
      BY <1>4, <2>1, <2>2 DEF Show, Land
    <3>2. QED
      BY <1>2, <3>1
  <2>3. CASE f.answer # Failed
    <3>1. data' = [key |-> f.key, version |-> f.answer] /\ selected' = Chosen(Content[f.key])
      BY <1>4, <2>1, <2>3 DEF Show, Land
    <3>2. f.answer \in Nat
      BY <2>1, <2>3 DEF Flight, Land
    <3> HIDE DEF f
    <3>3. data' # None /\ data'.key = f.key
      BY <2>1, <3>1, <3>2, PagesAssumption
    <3>4. IsTrace(Content[f.key])
      BY <2>1, TraceDetailAssumption
    <3>5. selected' \in Range(Content[f.key])
      BY <3>1, <3>4, ChosenSpan
    <3>6. QED
      BY <3>3, <3>5 DEF Selects
  <2>4. QED
    BY <2>2, <2>3
<1>5. CASE SelectSpan
  <2>1. data' = data /\ kind' = kind
    BY <1>5 DEF SelectSpan, vars, page
  <2>2. data # None
    BY <1>5 DEF SelectSpan, View, Shown, Screen, TraceScreen, NothingIn
  <2>3. Spans = Content[data.key] /\ IsTrace(Spans)
    BY <1>1, <2>2, SpansOfPage
  <2>4. \A i \in DOMAIN Rows : Rows[i].span \in Range(Spans)
    BY <2>3, ChosenSpan DEF Rows, Display
  <2>5. selected' \in Range(Spans)
    BY <1>5, <2>3, <2>4, ChosenSpan DEF SelectSpan
  <2>6. QED
    BY <2>1, <2>2, <2>3, <2>5 DEF Selects
<1>6. ASSUME NEW mode \in {"error", "slow"}, Filter(mode) PROVE Selects'
  BY <1>2, <1>6 DEF Filter, vars, page
<1>7. QED
  BY <1>3, <1>4, <1>5, <1>6 DEF DetailNext

LEMMA NextDInv == DInv /\ [DetailNext]_<<vars, detail>> => DInv'
<1> SUFFICES ASSUME DInv, [DetailNext]_<<vars, detail>> PROVE DInv'
  OBVIOUS
<1>1. [Next]_vars
  BY DetailSteps
<1>2. IInv'
  BY <1>1, NextIInv DEF DInv
<1>3. Unpushed' /\ AsksForKeys'
  <2>1. CASE Next
    BY <2>1, NextUnpushed, NextAsksForKeys DEF DInv
  <2>2. CASE UNCHANGED vars
    BY <2>2 DEF DInv, Unpushed, AsksForKeys, vars, page, socket
  <2>3. QED
    BY <1>1, <2>1, <2>2
<1>4. Selects'
  <2>1. CASE DetailNext
    BY <2>1, NextSelects
  <2>2. CASE UNCHANGED <<vars, detail>>
    BY <2>2 DEF DInv, Selects, vars, page, detail
  <2>3. QED
    BY <2>1, <2>2
<1>5. QED
  BY <1>2, <1>3, <1>4 DEF DInv

LEMMA AlwaysDInv == DetailSpec => []DInv
  BY InitDInv, NextDInv, PTL DEF DetailSpec

\* The metadata is that of a span of the trace shown, whatever answers came late or
\* failed; it is the one that is highlighted, and its times lie on the timeline.
THEOREM DetailSelectionBelongs == DetailSpec => []SelectionBelongs
<1>1. DInv => SelectionBelongs
  <2> SUFFICES ASSUME DInv, kind = "trace", data # None
               PROVE  /\ \E i \in DOMAIN Spans : Spans[i] = selected
                      /\ \A i \in DOMAIN Rows : Rows[i].isSelected => Rows[i].span = selected
                      /\ Sidebar.end <= TimelineDuration(Spans)
    BY DEF SelectionBelongs, DInv, Selects
  <2>1. Spans = Content[data.key] /\ IsTrace(Spans) /\ selected \in Range(Spans)
    BY SpansOfPage DEF DInv, AsksForKeys, Selects, Keyed
  <2>2. PICK i \in 1..Len(Spans) : Spans[i] = selected
    BY <2>1, TraceIndexed
  <2>3. DOMAIN Spans = 1..Len(Spans)
    BY <2>1, TraceIndexed
  <2>4. ASSUME NEW r \in DOMAIN Rows, Rows[r].isSelected PROVE Rows[r].span = selected
    <3>1. /\ r \in DOMAIN Flattened(Spans)
          /\ Rows[r].span = Flattened(Spans)[r].span
          /\ selected.id = Flattened(Spans)[r].span.id
      BY <2>4 DEF Rows, Display
    <3>2. Rows[r].span \in Range(Spans)
      BY <2>1, <3>1, ChosenSpan
    <3>3. QED
      BY <2>1, <3>1, <3>2 DEF IsTrace
  <2>5. Sidebar.end <= TimelineDuration(Spans)
    <3>1. /\ Bar(Spans, selected) = [start |-> selected.start - TimelineStart(Spans),
                                     visible |-> Duration(selected)]
          /\ selected.start - TimelineStart(Spans) + Duration(selected) <= TimelineDuration(Spans)
      BY <2>1, <2>2, BarOfSpan
    <3>2. Sidebar.end = Bar(Spans, selected).start + Duration(selected)
      BY DEF Sidebar
    <3>3. QED
      BY <3>1, <3>2
  <2>6. QED
    BY <2>2, <2>3, <2>4, <2>5
<1>2. QED
  BY <1>1, AlwaysDInv, PTL

\* Whatever the page does, every trace it could show has exact bars ...
THEOREM DetailBarsExact == DetailSpec => []BarsExact
<1>1. BarsExact
  BY EveryBarExact, TraceDetailAssumption DEF BarsExact, AllBarsExact
<1>2. QED
  BY <1>1, PTL

\* ... and a complete waterfall.
THEOREM DetailRowsComplete == DetailSpec => []RowsComplete
<1>1. RowsComplete
  BY EveryWaterfallComplete, TraceDetailAssumption DEF RowsComplete, AllRowsComplete
<1>2. QED
  BY <1>1, PTL
=============================================================================
