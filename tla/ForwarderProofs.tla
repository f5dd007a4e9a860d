--------------------------- MODULE ForwarderProofs ---------------------------
(***************************************************************************)
(* Proofs about Forwarder, for any signals, endpoints, subscriptions,      *)
(* queue capacity, poisoned batches and number of faults, and about        *)
(* CircuitBreaker, for any callers and any threshold.                      *)
(*                                                                         *)
(* A breaker's own count is the number of failures in a row, and its state *)
(* follows from it, whoever calls its methods: any callers that answer at  *)
(* any time, or the worker and the retry worker of an endpoint.            *)
(*                                                                         *)
(* At-least-once needs two facts about what is going on right now: while   *)
(* the worker writes, the file it created is there or accounted for, and   *)
(* what the retry worker is about to delete has arrived.  Duplicates need  *)
(* to know who may still send a batch to an endpoint: the worker, or the   *)
(* retry worker from a file, and never both; and that a batch which has    *)
(* arrived is sent again only after an answer that was lost, or from a     *)
(* file that could not be removed.                                         *)
(***************************************************************************)
EXTENDS Forwarder, CircuitBreaker, WellFoundedInduction, TLAPS

File == [batch : Batch, whole : BOOLEAN]

WorkerType == [pc : {"idle", "try", "sending", "create", "write", "done"},
               batch : Batch, ep : Endpoint]

RetryType == [pc : {"idle", "list", "next", "sending", "delete", "done"},
              sig : Signal, list : SUBSET Batch, whole : BOOLEAN]

GivenUpType == [batch : Batch,
                why : {"removed", "no dlq", "save failed", "unread", "crash"}]

\* The types, and that a file is sent or deleted only from a list that has it.
TypeOK ==
  /\ chan \in [Signal -> Seq(Batch)]
  /\ worker \in WorkerType
  /\ retry \in [Endpoint -> RetryType]
  /\ \A e \in Endpoint : retry[e].pc \in {"sending", "delete"} => retry[e].list # {}
  /\ breaker \in [Endpoint -> BreakerType]
  /\ files \in [Endpoint -> SUBSET File]
  /\ cancelled \in BOOLEAN
  /\ up \in [Endpoint -> BOOLEAN]
  /\ forwarded \in Nat /\ taken \in SUBSET Batch /\ faults \in Nat
  /\ received \in [Endpoint -> SUBSET Batch]
  /\ twice \in [Endpoint -> SUBSET Batch]
  /\ unsure \in [Endpoint -> SUBSET Batch]
  /\ undeleted \in [Endpoint -> SUBSET Batch]
  /\ gone \in [Endpoint -> SUBSET GivenUpType]

-----------------------------------------------------------------------------
(* The operators.                                                          *)

\* A non-empty set of naturals has a least element.
LEMMA LeastNat ==
  ASSUME NEW S \in SUBSET Nat, S # {}
  PROVE  \E x \in S : \A y \in S : x <= y
<1> DEFINE R == {ss \in Nat \X Nat : ss[1] < ss[2]}
<1>1. IsWellFoundedOn(R, Nat)
  BY NatLessThanWellFounded DEF OpToRel
<1> HIDE DEF R
<1>2. PICK x \in S : \A y \in S : ~(<<y, x>> \in R)
  BY <1>1, WFMin, Zenon
<1>3. \A y \in S : ~(y < x)
  BY <1>2 DEF R
<1>4. QED
  BY <1>3

\* The first name of a list is a name of the list.
LEMMA OldestListed ==
  ASSUME NEW list \in SUBSET Batch, list # {}
  PROVE  Oldest(list) \in list
<1> DEFINE ids == {b.id : b \in list}
<1>1. ids \in SUBSET Nat /\ ids # {}
  BY DEF Batch
<1>2. PICK x \in ids : \A y \in ids : x <= y
  BY <1>1, LeastNat, Zenon
<1>3. \E b \in list : \A c \in list : b.id <= c.id
  BY <1>2
<1>4. QED
  BY <1>3, Zenon DEF Oldest

\* A broadcast ends where no endpoint is left that takes the signal, and goes on
\* with the first one otherwise.
LEMMA GoToNext ==
  ASSUME NEW b \in Batch, NEW n \in Nat \ {0}, GoTo(b, n)
  PROVE  \/ TargetsFrom(b.sig, n) = {} /\ worker' = IdleWorker
         \/ \E x \in TargetsFrom(b.sig, n) :
              /\ \A y \in TargetsFrom(b.sig, n) : x <= y
              /\ worker' = [pc |-> "try", batch |-> b, ep |-> x]
<1> DEFINE ts == TargetsFrom(b.sig, n)
<1>1. CASE ts = {}
  BY <1>1 DEF GoTo
<1>2. CASE ts # {}
  <2>1. ts \in SUBSET Nat
    BY ForwarderAssumption DEF TargetsFrom
  <2>2. \E x \in ts : \A y \in ts : x <= y
    BY <1>2, <2>1, LeastNat, Zenon
  <2> DEFINE x == CHOOSE x \in ts : \A y \in ts : x <= y
  <2>3. x \in ts /\ \A y \in ts : x <= y
    BY <2>2, Zenon
  <2>4. worker' = [pc |-> "try", batch |-> b, ep |-> x]
    BY <1>2 DEF GoTo
  <2>5. QED
    BY <2>3, <2>4
<1>3. QED
  BY <1>1, <1>2

LEMMA TargetsAreEndpoints ==
  ASSUME NEW s \in Signal, NEW n \in Nat \ {0}
  PROVE  TargetsFrom(s, n) = {e \in Endpoint : n <= e /\ s \in SignalTypes[e]}
BY ForwarderAssumption DEF TargetsFrom, Endpoint

\* What goes to endpoint e from endpoint n on is in the worker's hands.
LEMMA GoToInHand ==
  ASSUME NEW b \in Batch, NEW n \in Nat \ {0}, GoTo(b, n), NEW e \in Endpoint
  PROVE  /\ (InHand(e))' = IF e \in TargetsFrom(b.sig, n) THEN {b} ELSE {}
         /\ worker'.pc \in {"idle", "try"}
         /\ worker'.pc = "try" => worker'.batch = b /\ b.sig \in SignalTypes[worker'.ep]
         /\ worker' \in WorkerType
<1>1. b.sig \in Signal
  BY DEF Batch
<1>2. CASE TargetsFrom(b.sig, n) = {} /\ worker' = IdleWorker
  BY <1>2, ForwarderAssumption
  DEF InHand, IdleWorker, NoBatch, WorkerType, Batch, Signal, Endpoint
<1>3. CASE \E x \in TargetsFrom(b.sig, n) :
              /\ \A y \in TargetsFrom(b.sig, n) : x <= y
              /\ worker' = [pc |-> "try", batch |-> b, ep |-> x]
  <2>1. PICK x \in TargetsFrom(b.sig, n) :
              /\ \A y \in TargetsFrom(b.sig, n) : x <= y
              /\ worker' = [pc |-> "try", batch |-> b, ep |-> x]
    BY <1>3
  <2>2. x \in Endpoint /\ n <= x /\ b.sig \in SignalTypes[x]
    BY <1>1, <2>1, TargetsAreEndpoints
  <2>3. worker'.pc = "try" /\ worker'.batch = b /\ worker'.ep = x
    BY <2>1
  <2>4. (InHand(e))' = IF e \in TargetsFrom(b.sig, x) THEN {b} ELSE {}
    BY <2>3 DEF InHand
  <2>5. e \in TargetsFrom(b.sig, x) <=> e \in TargetsFrom(b.sig, n)
    BY <1>1, <2>1, <2>2, TargetsAreEndpoints DEF Endpoint
  <2>6. worker' \in WorkerType
    BY <2>1, <2>2 DEF WorkerType
  <2>7. QED
    BY <2>2, <2>3, <2>4, <2>5, <2>6
<1>4. QED
  BY <1>2, <1>3, GoToNext

\* The methods of the breaker keep its type.
LEMMA BreakerMethods ==
  ASSUME NEW b \in BreakerType
  PROVE  /\ Allow(b) \in BreakerType /\ Success(b) \in BreakerType
         /\ Failure(b) \in BreakerType /\ Elapse(b) \in BreakerType
<1> USE BreakerAssumption DEF BreakerType, State
<1>1. Count(b) \in 0..MaxFailures
  BY DEF Count
<1>2. Failure(b) \in BreakerType
  BY <1>1 DEF Failure
<1>3. Allow(b) \in BreakerType
  BY DEF Allow
<1>4. Elapse(b) \in BreakerType
  BY DEF Elapse
<1>5. Success(b) \in BreakerType
  BY DEF Success
<1>6. QED
  BY <1>2, <1>3, <1>4, <1>5

-----------------------------------------------------------------------------
(* Types.                                                                  *)

LEMMA IdleTypes == IdleWorker \in WorkerType /\ IdleRetry \in RetryType
BY ForwarderAssumption
DEF IdleWorker, NoBatch, IdleRetry, WorkerType, RetryType, Batch, Signal, Endpoint

LEMMA InitType == Init => TypeOK
<1> SUFFICES ASSUME Init PROVE TypeOK
  OBVIOUS
<1>1. NewBreaker \in BreakerType
  BY BreakerAssumption DEF NewBreaker, BreakerType, State
<1>2. \A e \in Endpoint : retry[e].pc = "idle"
  BY DEF Init, IdleRetry
<1>3. chan \in [Signal -> Seq(Batch)]
  BY DEF Init
<1>4. QED
  BY <1>1, <1>2, <1>3, IdleTypes DEF Init, TypeOK

\* What a request's end changes keeps its type.
LEMMA AnswerType ==
  ASSUME TypeOK, NEW e \in Endpoint, NEW b \in Batch, NEW o, Answer(e, b, o)
  PROVE  /\ received' \in [Endpoint -> SUBSET Batch]
         /\ twice' \in [Endpoint -> SUBSET Batch]
         /\ unsure' \in [Endpoint -> SUBSET Batch]
         /\ breaker' \in [Endpoint -> BreakerType]
<1>1. breaker' \in [Endpoint -> BreakerType]
  BY BreakerMethods DEF TypeOK, Answer
<1>2. QED
  BY <1>1 DEF TypeOK, Answer, Accept

LEMMA GiveUpType ==
  ASSUME TypeOK, NEW e \in Endpoint, NEW b \in Batch,
         NEW why \in {"removed", "no dlq", "save failed", "unread", "crash"},
         GiveUp(e, b, why)
  PROVE  gone' \in [Endpoint -> SUBSET GivenUpType]
<1>1. [batch |-> b, why |-> why] \in GivenUpType
  BY DEF GivenUpType
<1>2. QED
  BY <1>1 DEF TypeOK, GiveUp

\* A retry worker's new record keeps the types of all of them.
LEMMA SetRetryType ==
  ASSUME TypeOK, NEW e \in Endpoint, NEW r \in RetryType, SetRetry(e, r),
         r.pc \in {"sending", "delete"} => r.list # {}
  PROVE  /\ retry' \in [Endpoint -> RetryType]
         /\ \A x \in Endpoint : retry'[x].pc \in {"sending", "delete"} => retry'[x].list # {}
BY DEF TypeOK, SetRetry

\* An endpoint the worker has reached, and the one after it.
LEMMA WorkerAt ==
  ASSUME TypeOK
  PROVE  /\ worker.batch \in Batch /\ worker.batch.sig \in Signal
         /\ worker.ep \in Endpoint /\ worker.ep + 1 \in Nat \ {0}
         /\ worker.pc \in {"idle", "try", "sending", "create", "write", "done"}
BY DEF TypeOK, WorkerType, Batch, Endpoint

LEMMA FaultType == TypeOK /\ Fault => faults' \in Nat
BY DEF TypeOK, Fault

LEMMA SaveOrGiveUpType ==
  ASSUME TypeOK, SaveOrGiveUp
  PROVE  worker' \in WorkerType /\ gone' \in [Endpoint -> SUBSET GivenUpType]
<1>1. CASE DLQEnabled[worker.ep]
  BY <1>1 DEF SaveOrGiveUp, TypeOK, WorkerType
<1>2. CASE ~DLQEnabled[worker.ep]
  <2>1. GiveUp(worker.ep, worker.batch, "no dlq") /\ GoTo(worker.batch, worker.ep + 1)
    BY <1>2 DEF SaveOrGiveUp
  <2>2. QED
    BY <2>1, WorkerAt, GiveUpType, GoToInHand
<1>3. QED
  BY <1>1, <1>2

\* What the head of a channel and its rest are.
LEMMA HeadAndTail ==
  ASSUME TypeOK, NEW s \in Signal, chan[s] # <<>>
  PROVE  Head(chan[s]) \in Batch /\ Tail(chan[s]) \in Seq(Batch)
BY DEF TypeOK

LEMMA WorkerKeepsTypes ==
  ASSUME TypeOK, Worker
  PROVE  TypeOK'
<1> USE WorkerAt
<1>1. ASSUME NEW s \in Signal, Take(s) PROVE TypeOK'
  <2>1. Head(chan[s]) \in Batch /\ Tail(chan[s]) \in Seq(Batch)
    BY <1>1, HeadAndTail DEF Take
  <2>2. worker' \in WorkerType
    <3>1. 1 \in Endpoint /\ GoTo(Head(chan[s]), 1)
      BY <1>1, ForwarderAssumption DEF Take, Endpoint
    <3>2. QED
      BY <2>1, <3>1, GoToInHand
  <2>3. QED
    BY <1>1, <2>1, <2>2 DEF Take, TypeOK
<1>2. CASE Try
  <2>1. breaker' \in [Endpoint -> BreakerType]
    <3>1. Allow(breaker[worker.ep]) \in BreakerType
      BY BreakerMethods DEF TypeOK
    <3>2. QED
      BY <1>2, <3>1 DEF Try, TypeOK
  <2>2. worker' \in WorkerType /\ gone' \in [Endpoint -> SUBSET GivenUpType]
    BY <1>2, SaveOrGiveUpType DEF Try, TypeOK, WorkerType
  <2>3. QED
    BY <1>2, <2>1, <2>2 DEF Try, TypeOK
<1>3. CASE Sent
  <2>1. PICK o \in Outcomes(worker.ep, worker.batch, TRUE) :
          /\ Answer(worker.ep, worker.batch, o)
          /\ IF o.ok THEN GoTo(worker.batch, worker.ep + 1) /\ UNCHANGED gone
                     ELSE SaveOrGiveUp
    BY <1>3 DEF Sent
  <2>2. worker' \in WorkerType /\ gone' \in [Endpoint -> SUBSET GivenUpType]
    BY <2>1, SaveOrGiveUpType, GoToInHand DEF TypeOK
  <2>3. QED
    BY <1>3, <2>1, <2>2, AnswerType DEF Sent, TypeOK
<1>4. CASE Create
  <2>1. [batch |-> worker.batch, whole |-> FALSE] \in File
    BY DEF File
  <2>2. files' \in [Endpoint -> SUBSET File]
    BY <1>4, <2>1 DEF Create, TypeOK
  <2>3. worker' \in WorkerType
    BY <1>4 DEF Create, TypeOK, WorkerType
  <2>4. QED
    BY <1>4, <2>2, <2>3 DEF Create, TypeOK, history
<1>5. CASE Write
  <2>1. worker' \in WorkerType
    BY <1>5, GoToInHand DEF Write
  <2>2. \A f \in File : [f EXCEPT !.whole = @ \/ f.batch = worker.batch] \in File
    BY DEF File
  <2>3. files' \in [Endpoint -> SUBSET File]
    <3> DEFINE Written(fs) == {[f EXCEPT !.whole = @ \/ f.batch = worker.batch] : f \in fs}
    <3>1. files \in [Endpoint -> SUBSET File]
      BY DEF TypeOK
    <3>2. \A fs \in SUBSET File : Written(fs) \in SUBSET File
      BY <2>2
    <3>3. files' = [files EXCEPT ![worker.ep] = Written(@)]
      BY <1>5 DEF Write
    <3> HIDE DEF Written
    <3>4. QED
      BY <3>1, <3>2, <3>3
  <2>4. UNCHANGED <<chan, retry, breaker, cancelled, up, history>>
    BY <1>5 DEF Write
  <2>5. QED
    BY <2>1, <2>3, <2>4 DEF TypeOK, history
<1>6. CASE SaveFails
  <2>1. worker' \in WorkerType /\ gone' \in [Endpoint -> SUBSET GivenUpType]
    BY <1>6, GoToInHand, GiveUpType DEF SaveFails
  <2>2. QED
    BY <1>6, <2>1, FaultType DEF SaveFails, TypeOK
<1>7. CASE WorkerExit
  BY <1>7 DEF WorkerExit, TypeOK, WorkerType, history
<1>8. QED
  BY <1>1, <1>2, <1>3, <1>4, <1>5, <1>6, <1>7 DEF Worker

LEMMA RetryKeepsTypes ==
  ASSUME TypeOK, NEW e \in Endpoint, Retry(e)
  PROVE  TypeOK'
<1>1. /\ retry[e] \in RetryType /\ retry[e].sig \in Signal
      /\ retry[e].list \in SUBSET Batch /\ IdleRetry \in RetryType
      /\ retry[e].pc \in {"sending", "delete"} => retry[e].list # {}
  BY IdleTypes DEF TypeOK, RetryType
<1>2. retry[e].list # {} => Oldest(retry[e].list) \in Batch
  BY <1>1, OldestListed
<1>3. CASE Tick(e)
  <2>1. [IdleRetry EXCEPT !.pc = "list"] \in RetryType
    BY <1>1 DEF RetryType
  <2>2. [IdleRetry EXCEPT !.pc = "list"].pc = "list"
    BY <1>1 DEF RetryType
  <2>3. QED
    BY <1>3, <2>1, <2>2, SetRetryType DEF Tick, TypeOK, history
<1>4. CASE List(e)
  <2> DEFINE r == [retry[e] EXCEPT
                     !.pc = "next",
                     !.list = {b \in {f.batch : f \in files[e]} :
                                 b.sig = retry[e].sig /\ b.sig \in SignalTypes[e]}]
  <2>1. {f.batch : f \in files[e]} \in SUBSET Batch
    BY DEF TypeOK, File
  <2>2. r \in RetryType /\ r.pc = "next"
    BY <1>1, <2>1 DEF RetryType
  <2>3. QED
    BY <1>4, <2>2, SetRetryType DEF List, TypeOK, history
<1>5. CASE NextSignal(e)
  <2> DEFINE r == IF retry[e].sig < NumSignals
                  THEN [IdleRetry EXCEPT !.pc = "list", !.sig = retry[e].sig + 1]
                  ELSE IdleRetry
  <2>1. r \in RetryType
    <3>1. CASE retry[e].sig < NumSignals
      <4>1. retry[e].sig + 1 \in Signal
        BY <1>1, <3>1, ForwarderAssumption DEF Signal
      <4>2. QED
        BY <1>1, <3>1, <4>1 DEF RetryType
    <3>2. QED
      BY <1>1, <3>1
  <2>2. r.pc \in {"list", "idle"}
    BY DEF IdleRetry
  <2>3. SetRetry(e, r)
    BY <1>5 DEF NextSignal
  <2> HIDE DEF r
  <2>4. QED
    BY <1>5, <2>1, <2>2, <2>3, SetRetryType DEF NextSignal, TypeOK, history
<1>6. CASE Read(e)
  <2> DEFINE b == Oldest(retry[e].list)
             r == IF ~Granted(breaker[e]) THEN IdleRetry
                  ELSE IF FilesOf(e, b) = {} THEN [retry[e] EXCEPT !.list = @ \ {b}]
                  ELSE [retry[e] EXCEPT !.pc = "sending",
                                        !.whole = \A f \in FilesOf(e, b) : f.whole]
  <2>1. r \in RetryType
    BY <1>1 DEF RetryType
  <2>2. r.pc \in {"sending", "delete"} => r.list # {}
    BY <1>1, <1>6 DEF RetryType, Read, IdleRetry
  <2>3. breaker' \in [Endpoint -> BreakerType]
    BY <1>6, BreakerMethods DEF Read, TypeOK
  <2>4. SetRetry(e, r)
    BY <1>6 DEF Read
  <2> HIDE DEF r
  <2>5. QED
    BY <1>6, <2>1, <2>2, <2>3, <2>4, SetRetryType DEF Read, TypeOK, history
<1>7. CASE Resent(e)
  <2>1. PICK o \in Outcomes(e, Oldest(retry[e].list), retry[e].whole) :
          /\ Answer(e, Oldest(retry[e].list), o)
          /\ SetRetry(e, IF o.ok THEN [retry[e] EXCEPT !.pc = "delete"] ELSE IdleRetry)
    BY <1>7 DEF Resent
  <2> DEFINE r == IF o.ok THEN [retry[e] EXCEPT !.pc = "delete"] ELSE IdleRetry
  <2>2. r \in RetryType
    BY <1>1 DEF RetryType
  <2>3. r.pc \in {"sending", "delete"} => r.list # {}
    BY <1>1, <1>7 DEF RetryType, Resent, IdleRetry
  <2>4. Oldest(retry[e].list) \in Batch
    BY <1>1, <1>2, <1>7 DEF Resent
  <2>5. QED
    BY <1>7, <2>1, <2>2, <2>3, <2>4, SetRetryType, AnswerType DEF Resent, TypeOK
<1>8. CASE Delete(e)
  <2> DEFINE b == Oldest(retry[e].list)
             r == [retry[e] EXCEPT !.pc = "next", !.list = @ \ {b}, !.whole = FALSE]
  <2>1. r \in RetryType /\ r.pc = "next"
    BY <1>1 DEF RetryType
  <2>2. b \in Batch
    BY <1>1, <1>2, <1>8 DEF Delete
  <2>3. gone' \in [Endpoint -> SUBSET GivenUpType]
    BY <1>8, <2>2, GiveUpType DEF Delete, TypeOK
  <2>4. files' \in [Endpoint -> SUBSET File]
    BY <1>8 DEF Delete, TypeOK
  <2>5. SetRetry(e, r)
    BY <1>8 DEF Delete, PassOver
  <2>6. QED
    BY <1>8, <2>1, <2>3, <2>4, <2>5, SetRetryType DEF Delete, TypeOK
<1>9. CASE DeleteFails(e)
  <2> DEFINE b == Oldest(retry[e].list)
             r == [retry[e] EXCEPT !.pc = "next", !.list = @ \ {b}, !.whole = FALSE]
  <2>1. r \in RetryType /\ r.pc = "next"
    BY <1>1 DEF RetryType
  <2>2. b \in Batch
    BY <1>1, <1>2, <1>9 DEF DeleteFails
  <2>3. undeleted' \in [Endpoint -> SUBSET Batch]
    BY <1>9, <2>2 DEF DeleteFails, TypeOK
  <2>4. SetRetry(e, r)
    BY <1>9 DEF DeleteFails, PassOver
  <2>5. QED
    BY <1>9, <2>1, <2>3, <2>4, SetRetryType, FaultType DEF DeleteFails, TypeOK
<1>10. CASE RetryExit(e)
  <2>1. [IdleRetry EXCEPT !.pc = "done"] \in RetryType
    BY <1>1 DEF RetryType
  <2>2. [IdleRetry EXCEPT !.pc = "done"].pc = "done"
    BY <1>1 DEF RetryType
  <2>3. QED
    BY <1>10, <2>1, <2>2, SetRetryType DEF RetryExit, TypeOK, history
<1>11. QED
  BY <1>3, <1>4, <1>5, <1>6, <1>7, <1>8, <1>9, <1>10 DEF Retry

LEMMA OthersKeepTypes ==
  ASSUME TypeOK,
         \/ \E s \in Signal : Forward(s)
         \/ \E e \in Endpoint : Flip(e) \/ Wait(e) \/ RemoveByHand(e)
         \/ Stop
         \/ Crash
  PROVE  TypeOK'
<1>1. ASSUME NEW s \in Signal, Forward(s) PROVE TypeOK'
  <2>1. [id |-> forwarded + 1, sig |-> s] \in Batch
    BY DEF TypeOK, Batch
  <2>2. chan' \in [Signal -> Seq(Batch)]
    BY <1>1, <2>1 DEF Forward, TypeOK
  <2>3. forwarded' \in Nat
    BY <1>1 DEF Forward, TypeOK
  <2>4. QED
    BY <1>1, <2>2, <2>3 DEF Forward, TypeOK
<1>2. ASSUME NEW e \in Endpoint, Flip(e) PROVE TypeOK'
  BY <1>2 DEF Flip, TypeOK, history
<1>3. ASSUME NEW e \in Endpoint, Wait(e) PROVE TypeOK'
  BY <1>3, BreakerMethods DEF Wait, TypeOK, history
<1>4. ASSUME NEW e \in Endpoint, RemoveByHand(e) PROVE TypeOK'
  <2>1. PICK f \in files[e] : /\ GiveUp(e, f.batch, "removed")
                              /\ files' = [files EXCEPT ![e] = @ \ {f}]
    BY <1>4 DEF RemoveByHand
  <2>2. f.batch \in Batch
    BY DEF TypeOK, File
  <2>3. QED
    BY <1>4, <2>1, <2>2, GiveUpType, FaultType DEF RemoveByHand, TypeOK
<1>5. CASE Stop
  BY <1>5 DEF Stop, TypeOK, history
<1>6. CASE Crash
  <2>1. PICK acc \in [Endpoint -> SUBSET {b \in taken : b.id \notin Poison}] :
          /\ received' = [e \in Endpoint |-> received[e] \cup acc[e]]
          /\ twice' = [e \in Endpoint |-> twice[e] \cup (acc[e] \cap received[e])]
          /\ unsure' = [e \in Endpoint |-> unsure[e] \cup acc[e] \cup
                          (IF retry[e].pc = "delete" /\ retry[e].whole
                             THEN {Oldest(retry[e].list)} ELSE {})]
    BY <1>6 DEF Crash
  <2>2. \A e \in Endpoint : acc[e] \in SUBSET Batch
    BY DEF TypeOK
  <2>3. \A e \in Endpoint : retry[e].pc = "delete" => Oldest(retry[e].list) \in Batch
    BY OldestListed DEF TypeOK, RetryType
  <2>4. \A e \in Endpoint : InHand(e) \in SUBSET Batch
    BY WorkerAt DEF InHand
  <2>5. gone' \in [Endpoint -> SUBSET GivenUpType]
    <3>1. \A b \in Batch : [batch |-> b, why |-> "crash"] \in GivenUpType
      BY DEF GivenUpType
    <3>2. \A e \in Endpoint :
            {[batch |-> b, why |-> "crash"] : b \in InHand(e)} \in SUBSET GivenUpType
      BY <2>4, <3>1
    <3>3. QED
      BY <1>6, <3>2 DEF Crash, TypeOK
  <2>6. /\ received' \in [Endpoint -> SUBSET Batch]
        /\ twice' \in [Endpoint -> SUBSET Batch]
        /\ unsure' \in [Endpoint -> SUBSET Batch]
    BY <2>1, <2>2, <2>3 DEF TypeOK
  <2>7. NewBreaker \in BreakerType
    BY BreakerAssumption DEF NewBreaker, BreakerType, State
  <2>8. \A e \in Endpoint : retry'[e] = IdleRetry /\ IdleRetry.pc = "idle"
    BY <1>6 DEF Crash, IdleRetry
  <2>9. /\ chan' \in [Signal -> Seq(Batch)] /\ cancelled' \in BOOLEAN
        /\ breaker' \in [Endpoint -> BreakerType]
        /\ worker' \in WorkerType /\ retry' \in [Endpoint -> RetryType]
        /\ faults' \in Nat
    <3>1. faults' \in Nat
      BY <1>6, FaultType DEF Crash
    <3>2. <<>> \in Seq(Batch)
      OBVIOUS
    <3>3. chan' \in [Signal -> Seq(Batch)] /\ cancelled' \in BOOLEAN
      BY <1>6, <3>2 DEF Crash
    <3>4. QED
      BY <1>6, <2>7, <3>1, <3>3, IdleTypes DEF Crash
  <2>10. UNCHANGED <<files, up, forwarded, taken, undeleted>>
    BY <1>6 DEF Crash
  <2>11. QED
    BY <2>5, <2>6, <2>8, <2>9, <2>10 DEF TypeOK
<1>7. QED
  BY <1>1, <1>2, <1>3, <1>4, <1>5, <1>6

LEMMA NextType == TypeOK /\ [Next]_vars => TypeOK'
<1> SUFFICES ASSUME TypeOK, [Next]_vars PROVE TypeOK'
  OBVIOUS
<1>1. CASE UNCHANGED vars
  BY <1>1 DEF vars, history, TypeOK
<1>2. QED
  BY <1>1, WorkerKeepsTypes, RetryKeepsTypes, OthersKeepTypes DEF Next

\* The forwarder's state keeps its types, and no retry worker sends or deletes
\* without a list to take the file from.
THEOREM ForwarderTypeCorrect == Spec => []TypeOK
BY InitType, NextType, PTL DEF Spec

-----------------------------------------------------------------------------
(* At least once.                                                          *)

FileBatches(e) == {f.batch : f \in files[e]}

\* AtLeastOnce for one endpoint.
Covered(e) == Subscribed(e) \subseteq received[e] \cup Saved(e) \cup InHand(e) \cup GivenUp(e)

\* The file the worker writes is in the directory, or its batch has arrived, or
\* it was removed and given up.
WriteHasPlace ==
  worker.pc = "write" =>
    worker.batch \in FileBatches(worker.ep) \cup received[worker.ep] \cup GivenUp(worker.ep)

\* A file that was read as a whole is deleted only when its batch has arrived.
DeletesDelivered ==
  \A e \in Endpoint :
    retry[e].pc = "delete" /\ retry[e].whole => Oldest(retry[e].list) \in received[e]

SafeInv == AtLeastOnce /\ WriteHasPlace /\ DeletesDelivered

\* Nothing given up before is taken back.
LEMMA GiveUpGrows ==
  ASSUME TypeOK, NEW e \in Endpoint, NEW b, NEW why, GiveUp(e, b, why)
  PROVE  /\ b \in (GivenUp(e))'
         /\ \A x \in Endpoint : GivenUp(x) \subseteq (GivenUp(x))'
<1>1. /\ gone'[e] = gone[e] \cup {[batch |-> b, why |-> why]}
      /\ \A x \in Endpoint : gone[x] \subseteq gone'[x]
  BY DEF GiveUp, TypeOK
<1>2. [batch |-> b, why |-> why] \in gone'[e] /\ [batch |-> b, why |-> why].batch = b
  BY <1>1
<1>3. QED
  BY <1>1, <1>2 DEF GivenUp

LEMMA AnswerGrows ==
  ASSUME TypeOK, NEW e \in Endpoint, NEW b, NEW o, Answer(e, b, o)
  PROVE  /\ o.accepted => b \in received'[e]
         /\ \A x \in Endpoint : received[x] \subseteq received'[x]
BY DEF Answer, Accept, TypeOK

\* What the steps outside the worker must do to keep what is covered.
LEMMA OutsideTheWorker ==
  ASSUME TypeOK, AtLeastOnce, WriteHasPlace,
         UNCHANGED <<worker, taken>>,
         \A x \in Endpoint :
           /\ received[x] \subseteq received'[x]
           /\ GivenUp(x) \subseteq (GivenUp(x))'
           /\ \A f \in files[x] :
                f \in files'[x] \/ f.batch \in received'[x] \cup (GivenUp(x))'
  PROVE  AtLeastOnce' /\ WriteHasPlace'
<1>1. ASSUME NEW x \in Endpoint PROVE (Covered(x))'
  <2>1. ASSUME NEW b \in (Subscribed(x))'
        PROVE  b \in received'[x] \cup (Saved(x))' \cup (InHand(x))' \cup (GivenUp(x))'
    <3>1. b \in taken /\ b \in Subscribed(x)
      BY <2>1 DEF Subscribed
    <3>2. CASE b \in received[x] \cup GivenUp(x)
      BY <3>2
    <3>3. CASE b \in InHand(x)
      BY <3>3 DEF InHand
    <3>4. CASE b \in Saved(x)
      <4>1. PICK f \in files[x] : f.batch = b /\ f.whole
        BY <3>4 DEF Saved, FilesOf
      <4>2. f \in files'[x] => b \in (Saved(x))'
        BY <3>1, <4>1 DEF Saved, FilesOf
      <4>3. QED
        BY <4>1, <4>2
    <3>5. QED
      BY <3>1, <3>2, <3>3, <3>4 DEF AtLeastOnce
  <2>2. QED
    BY <2>1 DEF Covered
<1>2. WriteHasPlace'
  <2>1. SUFFICES ASSUME worker.pc = "write"
                 PROVE  worker.batch \in (FileBatches(worker.ep))' \cup received'[worker.ep]
                                           \cup (GivenUp(worker.ep))'
    BY DEF WriteHasPlace, FileBatches, GivenUp
  <2>2. worker.ep \in Endpoint
    BY WorkerAt
  <2>3. CASE worker.batch \in received[worker.ep] \cup GivenUp(worker.ep)
    BY <2>2, <2>3
  <2>4. CASE worker.batch \in FileBatches(worker.ep)
    <3>1. PICK f \in files[worker.ep] : f.batch = worker.batch
      BY <2>4 DEF FileBatches
    <3>2. f \in files'[worker.ep] => worker.batch \in (FileBatches(worker.ep))'
      BY <3>1 DEF FileBatches
    <3>3. QED
      BY <2>2, <3>1, <3>2
  <2>5. QED
    BY <2>1, <2>3, <2>4 DEF WriteHasPlace
<1>3. QED
  BY <1>1, <1>2 DEF AtLeastOnce, Covered

\* Only an answer moves a retry worker on to the deletion.
LEMMA OnlyAnswersDelete ==
  ASSUME TypeOK, NEW e \in Endpoint,
         \/ Tick(e) \/ List(e) \/ NextSignal(e) \/ Read(e)
         \/ Delete(e) \/ DeleteFails(e) \/ RetryExit(e)
  PROVE  retry'[e].pc # "delete"
<1>1. retry \in [Endpoint -> RetryType] /\ retry[e] \in RetryType
  BY DEF TypeOK
<1>2. ASSUME NEW r, SetRetry(e, r), r.pc # "delete" PROVE retry'[e].pc # "delete"
  BY <1>1, <1>2 DEF SetRetry
<1>3. CASE Tick(e)
  <2>1. [IdleRetry EXCEPT !.pc = "list"].pc = "list"
    BY DEF IdleRetry
  <2>2. QED
    BY <1>2, <1>3, <2>1 DEF Tick
<1>4. CASE List(e)
  BY <1>1, <1>4 DEF List, SetRetry, RetryType
<1>5. CASE NextSignal(e)
  <2> DEFINE r == IF retry[e].sig < NumSignals
                  THEN [IdleRetry EXCEPT !.pc = "list", !.sig = retry[e].sig + 1]
                  ELSE IdleRetry
  <2>1. r.pc \in {"list", "idle"}
    BY DEF IdleRetry
  <2>2. SetRetry(e, r)
    BY <1>5 DEF NextSignal
  <2> HIDE DEF r
  <2>3. QED
    BY <1>2, <2>1, <2>2
<1>6. CASE Read(e)
  <2> DEFINE b == Oldest(retry[e].list)
             r == IF ~Granted(breaker[e]) THEN IdleRetry
                  ELSE IF FilesOf(e, b) = {} THEN [retry[e] EXCEPT !.list = @ \ {b}]
                  ELSE [retry[e] EXCEPT !.pc = "sending",
                                        !.whole = \A f \in FilesOf(e, b) : f.whole]
  <2>1. r.pc \in {"idle", "next", "sending"}
    BY <1>1, <1>6 DEF Read, RetryType, IdleRetry
  <2>2. SetRetry(e, r)
    BY <1>6 DEF Read
  <2> HIDE DEF r
  <2>3. QED
    BY <1>2, <2>1, <2>2
<1>7. CASE Delete(e) \/ DeleteFails(e)
  <2>1. PassOver(e)
    BY <1>7 DEF Delete, DeleteFails
  <2>2. QED
    BY <1>1, <2>1 DEF PassOver, SetRetry, RetryType
<1>8. CASE RetryExit(e)
  <2>1. [IdleRetry EXCEPT !.pc = "done"].pc = "done"
    BY DEF IdleRetry
  <2>2. QED
    BY <1>2, <1>8, <2>1 DEF RetryExit
<1>9. QED
  BY <1>3, <1>4, <1>5, <1>6, <1>7, <1>8

\* The retry workers.
LEMMA RetryKeepsSafe ==
  ASSUME TypeOK, SafeInv, NEW e \in Endpoint, Retry(e)
  PROVE  SafeInv'
<1> DEFINE Grow == \A x \in Endpoint : /\ received[x] \subseteq received'[x]
                                       /\ GivenUp(x) \subseteq (GivenUp(x))'
           Files == \A x \in Endpoint : \A f \in files[x] :
                      f \in files'[x] \/ f.batch \in received'[x] \cup (GivenUp(x))'
           r == retry'[e]
           Deletes == r.pc = "delete" /\ r.whole => Oldest(r.list) \in received'[e]
<1> HIDE DEF Grow, Files, Deletes
<1>1. retry \in [Endpoint -> RetryType] /\ retry[e] \in RetryType /\ IdleRetry.pc = "idle"
  BY DEF TypeOK, IdleRetry
<1>2. \A x \in Endpoint : x # e => retry'[x] = retry[x]
  BY <1>1 DEF Retry, Tick, List, NextSignal, Read, Resent, Delete, DeleteFails,
                   PassOver, RetryExit, SetRetry
<1>3. UNCHANGED <<worker, taken>>
  BY DEF Retry, Tick, List, NextSignal, Read, Resent, Delete, DeleteFails,
            RetryExit, history
<1> SUFFICES Grow /\ Files /\ Deletes
  <2> SUFFICES ASSUME Grow /\ Files /\ Deletes PROVE SafeInv'
    OBVIOUS
  <2>1. AtLeastOnce' /\ WriteHasPlace'
    BY <1>3, OutsideTheWorker DEF SafeInv, Grow, Files
  <2>2. DeletesDelivered'
    BY <1>2 DEF SafeInv, DeletesDelivered, Deletes, Grow
  <2>3. QED
    BY <2>1, <2>2 DEF SafeInv
<1>4. ASSUME UNCHANGED <<files, received, gone>>, r.pc # "delete"
      PROVE  Grow /\ Files /\ Deletes
  BY <1>4 DEF GivenUp, Grow, Files, Deletes
<1>5. CASE \/ Tick(e) \/ List(e) \/ NextSignal(e) \/ Read(e)
           \/ DeleteFails(e) \/ RetryExit(e)
  <2>1. r.pc # "delete"
    BY <1>5, OnlyAnswersDelete
  <2>2. UNCHANGED <<files, received, gone>>
    BY <1>5 DEF Tick, List, NextSignal, Read, DeleteFails, RetryExit, history
  <2>3. QED
    BY <1>4, <2>1, <2>2
<1>6. CASE Resent(e)
  <2>1. PICK o \in Outcomes(e, Oldest(retry[e].list), retry[e].whole) :
          /\ Answer(e, Oldest(retry[e].list), o)
          /\ SetRetry(e, IF o.ok THEN [retry[e] EXCEPT !.pc = "delete"] ELSE IdleRetry)
    BY <1>6 DEF Resent
  <2>2. UNCHANGED <<files, gone>>
    BY <1>6 DEF Resent
  <2>3. Grow /\ Files
    BY <2>1, <2>2, AnswerGrows DEF GivenUp, Grow, Files
  <2>4. o.ok /\ retry[e].whole => o.accepted
    BY DEF Outcomes
  <2>5. CASE o.ok
    <3>1. r.list = retry[e].list /\ r.whole = retry[e].whole
      BY <1>1, <2>1, <2>5 DEF SetRetry, RetryType
    <3>2. o.accepted => Oldest(retry[e].list) \in received'[e]
      BY <2>1, AnswerGrows, Zenon
    <3>3. Deletes
      BY <2>4, <2>5, <3>1, <3>2 DEF Deletes
    <3>4. QED
      BY <2>3, <3>3
  <2>6. CASE ~o.ok
    <3>1. r.pc # "delete"
      BY <1>1, <2>1, <2>6 DEF SetRetry
    <3>2. Deletes
      BY <3>1 DEF Deletes
    <3>3. QED
      BY <2>3, <3>2
  <2>7. QED
    BY <2>5, <2>6
<1>7. CASE Delete(e)
  <2> DEFINE b == Oldest(retry[e].list)
  <2>1. r.pc # "delete"
    BY <1>7, OnlyAnswersDelete
  <2>2. UNCHANGED received
    BY <1>7 DEF Delete
  <2>3. \A x \in Endpoint : GivenUp(x) \subseteq (GivenUp(x))'
    <3>1. CASE retry[e].whole
      BY <1>7, <3>1 DEF Delete, GivenUp
    <3>2. CASE ~retry[e].whole
      BY <1>7, <3>2, GiveUpGrows DEF Delete
    <3>3. QED
      BY <3>1, <3>2
  <2>4. b \in received'[e] \cup (GivenUp(e))'
    <3>1. CASE retry[e].whole
      BY <1>7, <2>2, <3>1 DEF Delete, SafeInv, DeletesDelivered
    <3>2. CASE ~retry[e].whole
      BY <1>7, <3>2, GiveUpGrows DEF Delete
    <3>3. QED
      BY <3>1, <3>2
  <2>5. files' = [files EXCEPT ![e] = @ \ FilesOf(e, b)]
    BY <1>7 DEF Delete
  <2>6. ASSUME NEW x \in Endpoint, NEW f \in files[x], f \notin files'[x]
        PROVE  x = e /\ f.batch = b
    BY <2>5, <2>6 DEF TypeOK, FilesOf
  <2> HIDE DEF b
  <2>7. Grow
    BY <2>2, <2>3 DEF Grow
  <2>8. Files
    BY <2>4, <2>6 DEF Files
  <2>9. Deletes
    BY <2>1 DEF Deletes
  <2>10. QED
    BY <2>7, <2>8, <2>9
<1>8. QED
  BY <1>5, <1>6, <1>7 DEF Retry

\* The outside, the OnFlush callback and Stop.
LEMMA OutsideKeepsSafe ==
  ASSUME TypeOK, SafeInv,
         \/ \E s \in Signal : Forward(s)
         \/ \E e \in Endpoint : Flip(e) \/ Wait(e) \/ RemoveByHand(e)
         \/ Stop
  PROVE  SafeInv'
<1>1. ASSUME NEW e \in Endpoint, RemoveByHand(e) PROVE SafeInv'
  <2>1. UNCHANGED <<worker, taken, retry, received>>
    BY <1>1 DEF RemoveByHand
  <2>2. PICK f \in files[e] : /\ GiveUp(e, f.batch, "removed")
                              /\ files' = [files EXCEPT ![e] = @ \ {f}]
    BY <1>1 DEF RemoveByHand
  <2>3. /\ f.batch \in (GivenUp(e))'
        /\ \A x \in Endpoint : GivenUp(x) \subseteq (GivenUp(x))'
    BY <2>2, GiveUpGrows, Zenon
  <2>4. \A x \in Endpoint : \A g \in files[x] : g \in files'[x] \/ (x = e /\ g = f)
    BY <2>2 DEF TypeOK
  <2>5. AtLeastOnce' /\ WriteHasPlace'
    BY <2>1, <2>3, <2>4, OutsideTheWorker DEF SafeInv
  <2>6. DeletesDelivered'
    BY <2>1 DEF SafeInv, DeletesDelivered
  <2>7. QED
    BY <2>5, <2>6 DEF SafeInv
<1>2. ASSUME UNCHANGED <<worker, taken, retry, received, files, gone>> PROVE SafeInv'
  <2>1. AtLeastOnce' /\ WriteHasPlace'
    BY <1>2, OutsideTheWorker DEF SafeInv, GivenUp
  <2>2. DeletesDelivered'
    BY <1>2 DEF SafeInv, DeletesDelivered
  <2>3. QED
    BY <2>1, <2>2 DEF SafeInv
<1>3. ASSUME NEW s \in Signal, Forward(s) PROVE SafeInv'
  BY <1>2, <1>3 DEF Forward
<1>4. ASSUME NEW e \in Endpoint, Flip(e) \/ Wait(e) PROVE SafeInv'
  BY <1>2, <1>4 DEF Flip, Wait, history
<1>5. CASE Stop
  BY <1>2, <1>5 DEF Stop, history
<1>6. QED
  BY <1>1, <1>3, <1>4, <1>5

\* A crash gives up what only the worker had.
LEMMA CrashKeepsSafe ==
  ASSUME TypeOK, SafeInv, Crash
  PROVE  SafeInv'
<1>1. /\ \A e \in Endpoint : received[e] \subseteq received'[e]
      /\ UNCHANGED <<files, taken>>
      /\ worker' = IdleWorker /\ retry' = [e \in Endpoint |-> IdleRetry]
  BY DEF Crash
<1>2. \A e \in Endpoint : GivenUp(e) \cup InHand(e) \subseteq (GivenUp(e))'
  <2>1. SUFFICES ASSUME NEW e \in Endpoint
                 PROVE  GivenUp(e) \cup InHand(e) \subseteq (GivenUp(e))'
    OBVIOUS
  <2>2. gone'[e] = gone[e] \cup {[batch |-> b, why |-> "crash"] : b \in InHand(e)}
    BY DEF Crash
  <2>3. \A b \in InHand(e) :
          /\ [batch |-> b, why |-> "crash"] \in gone'[e]
          /\ [batch |-> b, why |-> "crash"].batch = b
    BY <2>2
  <2>4. QED
    BY <2>2, <2>3 DEF GivenUp
<1>3. ASSUME NEW e \in Endpoint PROVE (Covered(e))'
  <2>1. Saved(e) = (Saved(e))' /\ Subscribed(e) = (Subscribed(e))'
    BY <1>1 DEF Saved, FilesOf, Subscribed
  <2>2. QED
    BY <1>1, <1>2, <2>1 DEF SafeInv, AtLeastOnce, Covered
<1>4. WriteHasPlace' /\ DeletesDelivered'
  BY <1>1 DEF WriteHasPlace, DeletesDelivered, IdleWorker, IdleRetry
<1>5. QED
  BY <1>3, <1>4 DEF SafeInv, AtLeastOnce, Covered

-----------------------------------------------------------------------------
(* The worker.                                                             *)

\* Going on, the worker keeps in hand what the endpoints behind still get.
LEMMA MovesOn ==
  ASSUME TypeOK, GoTo(worker.batch, worker.ep + 1), NEW e \in Endpoint, e # worker.ep
  PROVE  InHand(e) \subseteq (InHand(e))'
<1>1. (InHand(e))' = IF e \in TargetsFrom(worker.batch.sig, worker.ep + 1)
                     THEN {worker.batch} ELSE {}
  BY WorkerAt, GoToInHand
<1>2. e \in TargetsFrom(worker.batch.sig, worker.ep)
        => e \in TargetsFrom(worker.batch.sig, worker.ep + 1)
  BY WorkerAt DEF TargetsFrom, Endpoint
<1>3. QED
  BY <1>1, <1>2 DEF InHand

\* A batch that could not be sent stays in hand, or is given up.
LEMMA SaveOrGiveUpKeeps ==
  ASSUME TypeOK, SaveOrGiveUp, worker.pc \in {"try", "sending"}, NEW e \in Endpoint
  PROVE  /\ GivenUp(e) \subseteq (GivenUp(e))'
         /\ InHand(e) \subseteq (InHand(e))' \cup (GivenUp(e))'
         /\ worker'.pc # "write"
<1>1. CASE DLQEnabled[worker.ep]
  <2>1. worker' = [worker EXCEPT !.pc = "create"] /\ UNCHANGED gone
    BY <1>1 DEF SaveOrGiveUp
  <2>2. worker'.pc = "create" /\ worker'.batch = worker.batch /\ worker'.ep = worker.ep
    BY <2>1 DEF TypeOK, WorkerType
  <2>3. QED
    BY <2>1, <2>2 DEF InHand, GivenUp
<1>2. CASE ~DLQEnabled[worker.ep]
  <2>1. GiveUp(worker.ep, worker.batch, "no dlq") /\ GoTo(worker.batch, worker.ep + 1)
    BY <1>2 DEF SaveOrGiveUp
  <2>2. /\ GivenUp(e) \subseteq (GivenUp(e))'
        /\ e = worker.ep => worker.batch \in (GivenUp(e))'
    BY <2>1, WorkerAt, GiveUpGrows
  <2>3. InHand(e) \subseteq {worker.batch}
    BY DEF InHand
  <2>4. worker'.pc # "write"
    BY <2>1, WorkerAt, GoToInHand
  <2>5. e # worker.ep => InHand(e) \subseteq (InHand(e))'
    BY <2>1, MovesOn
  <2>6. InHand(e) \subseteq (InHand(e))' \cup (GivenUp(e))'
    BY <2>2, <2>3, <2>5
  <2>7. QED
    BY <2>2, <2>4, <2>6
<1>3. QED
  BY <1>1, <1>2

\* What the worker's steps must do to keep what is covered.
LEMMA InsideTheWorker ==
  ASSUME TypeOK, SafeInv, UNCHANGED <<taken, retry>>,
         \A x \in Endpoint :
           /\ received[x] \subseteq received'[x]
           /\ GivenUp(x) \subseteq (GivenUp(x))'
           /\ Saved(x) \subseteq (Saved(x))'
           /\ InHand(x) \subseteq received'[x] \cup (Saved(x))' \cup (InHand(x))'
                                    \cup (GivenUp(x))'
  PROVE  AtLeastOnce' /\ DeletesDelivered'
<1>1. ASSUME NEW x \in Endpoint PROVE (Covered(x))'
  <2>1. Subscribed(x) = (Subscribed(x))'
    BY DEF Subscribed
  <2>2. QED
    BY <2>1 DEF SafeInv, AtLeastOnce, Covered
<1>2. QED
  BY <1>1 DEF SafeInv, AtLeastOnce, Covered, DeletesDelivered

LEMMA TakeKeepsSafe ==
  ASSUME TypeOK, SafeInv, NEW s \in Signal, Take(s)
  PROVE  SafeInv'
<1> DEFINE b == Head(chan[s])
<1>1. b \in Batch /\ b.sig \in Signal
  BY HeadAndTail DEF Take, Batch
<1>2. /\ UNCHANGED <<retry, files, received, gone>>
      /\ taken' = taken \cup {b} /\ GoTo(b, 1) /\ worker.pc = "idle"
  BY DEF Take
<1> HIDE DEF b
<1>3. ASSUME NEW x \in Endpoint PROVE (Covered(x))'
  <2>1. InHand(x) = {}
    BY <1>2 DEF InHand
  <2>2. (InHand(x))' = IF x \in TargetsFrom(b.sig, 1) THEN {b} ELSE {}
    BY <1>1, <1>2, GoToInHand
  <2>3. b.sig \in SignalTypes[x] => x \in TargetsFrom(b.sig, 1)
    BY DEF TargetsFrom, Endpoint
  <2>4. (Subscribed(x))' \subseteq Subscribed(x) \cup (InHand(x))'
    BY <1>2, <2>2, <2>3 DEF Subscribed
  <2>5. Saved(x) \subseteq (Saved(x))' /\ GivenUp(x) = (GivenUp(x))'
    BY <1>2 DEF Saved, FilesOf, GivenUp
  <2>6. QED
    BY <1>2, <2>1, <2>4, <2>5 DEF SafeInv, AtLeastOnce, Covered
<1>4. worker'.pc # "write"
  BY <1>1, <1>2, GoToInHand, ForwarderAssumption DEF Endpoint
<1>5. QED
  BY <1>2, <1>3, <1>4 DEF SafeInv, AtLeastOnce, Covered, WriteHasPlace, DeletesDelivered

LEMMA WorkerKeepsSafe ==
  ASSUME TypeOK, SafeInv, Worker
  PROVE  SafeInv'
<1> USE WorkerAt
<1>1. ASSUME NEW s \in Signal, Take(s) PROVE SafeInv'
  BY <1>1, TakeKeepsSafe
<1>2. CASE Try
  <2>1. UNCHANGED <<taken, retry, files, received>> /\ worker.pc = "try"
    BY <1>2 DEF Try
  <2>2. CASE Granted(breaker[worker.ep])
    <3>1. worker' = [worker EXCEPT !.pc = "sending"] /\ UNCHANGED gone
      BY <1>2, <2>2 DEF Try
    <3>2. worker'.pc = "sending" /\ worker'.batch = worker.batch /\ worker'.ep = worker.ep
      BY <3>1 DEF TypeOK, WorkerType
    <3>3. \A x \in Endpoint : InHand(x) \subseteq (InHand(x))'
      BY <3>2 DEF InHand
    <3>4. \A x \in Endpoint : Saved(x) = (Saved(x))' /\ GivenUp(x) = (GivenUp(x))'
      BY <2>1, <3>1 DEF Saved, FilesOf, GivenUp
    <3>5. AtLeastOnce' /\ DeletesDelivered'
      BY <2>1, <3>3, <3>4, InsideTheWorker
    <3>6. QED
      BY <3>2, <3>5 DEF SafeInv, WriteHasPlace
  <2>3. CASE ~Granted(breaker[worker.ep])
    <3>1. SaveOrGiveUp
      BY <1>2, <2>3 DEF Try
    <3>2. \A x \in Endpoint : Saved(x) = (Saved(x))'
      BY <2>1 DEF Saved, FilesOf
    <3>3. \A x \in Endpoint : /\ GivenUp(x) \subseteq (GivenUp(x))'
                              /\ InHand(x) \subseteq (InHand(x))' \cup (GivenUp(x))'
                              /\ worker'.pc # "write"
      BY <2>1, <3>1, SaveOrGiveUpKeeps
    <3>4. AtLeastOnce' /\ DeletesDelivered'
      BY <2>1, <3>2, <3>3, InsideTheWorker
    <3>5. QED
      BY <3>3, <3>4 DEF SafeInv, WriteHasPlace
  <2>4. QED
    BY <2>2, <2>3
<1>3. CASE Sent
  <2>1. PICK o \in Outcomes(worker.ep, worker.batch, TRUE) :
          /\ Answer(worker.ep, worker.batch, o)
          /\ IF o.ok THEN GoTo(worker.batch, worker.ep + 1) /\ UNCHANGED gone
                     ELSE SaveOrGiveUp
    BY <1>3 DEF Sent
  <2>2. UNCHANGED <<taken, retry, files>> /\ worker.pc = "sending"
    BY <1>3 DEF Sent
  <2>3. \A x \in Endpoint : Saved(x) = (Saved(x))' /\ received[x] \subseteq received'[x]
    BY <2>1, <2>2, AnswerGrows DEF Saved, FilesOf
  <2>4. CASE o.ok
    <3>1. o.accepted
      BY <2>4 DEF Outcomes
    <3>2. worker.batch \in received'[worker.ep]
      BY <2>1, <3>1, AnswerGrows, Zenon
    <3>3. \A x \in Endpoint : InHand(x) \subseteq {worker.batch}
      BY DEF InHand
    <3>4. \A x \in Endpoint \ {worker.ep} : InHand(x) \subseteq (InHand(x))'
      BY <2>1, <2>4, MovesOn
    <3>5. \A x \in Endpoint : InHand(x) \subseteq received'[x] \cup (InHand(x))'
      BY <3>2, <3>3, <3>4
    <3>6. worker'.pc # "write"
      BY <2>1, <2>4, GoToInHand
    <3>7. \A x \in Endpoint : GivenUp(x) = (GivenUp(x))'
      BY <2>1, <2>4 DEF GivenUp
    <3>8. AtLeastOnce' /\ DeletesDelivered'
      BY <2>2, <2>3, <3>5, <3>7, InsideTheWorker
    <3>9. QED
      BY <3>6, <3>8 DEF SafeInv, WriteHasPlace
  <2>5. CASE ~o.ok
    <3>1. \A x \in Endpoint : /\ GivenUp(x) \subseteq (GivenUp(x))'
                              /\ InHand(x) \subseteq (InHand(x))' \cup (GivenUp(x))'
                              /\ worker'.pc # "write"
      BY <2>1, <2>2, <2>5, SaveOrGiveUpKeeps
    <3>2. AtLeastOnce' /\ DeletesDelivered'
      BY <2>2, <2>3, <3>1, InsideTheWorker
    <3>3. QED
      BY <3>1, <3>2 DEF SafeInv, WriteHasPlace
  <2>6. QED
    BY <2>4, <2>5
<1>4. CASE Create
  <2>1. /\ UNCHANGED <<taken, retry, received, gone>> /\ worker.pc = "create"
        /\ files' = [files EXCEPT ![worker.ep] =
                       @ \cup {[batch |-> worker.batch, whole |-> FALSE]}]
        /\ worker' = [worker EXCEPT !.pc = "write"]
    BY <1>4 DEF Create, history
  <2>2. worker'.pc = "write" /\ worker'.batch = worker.batch /\ worker'.ep = worker.ep
    BY <2>1 DEF TypeOK, WorkerType
  <2>3. \A x \in Endpoint : files[x] \subseteq files'[x]
    BY <2>1 DEF TypeOK
  <2>4. \A x \in Endpoint : Saved(x) \subseteq (Saved(x))' /\ GivenUp(x) = (GivenUp(x))'
    BY <2>1, <2>3 DEF Saved, FilesOf, GivenUp
  <2>5. \A x \in Endpoint : InHand(x) \subseteq (InHand(x))'
    BY <2>1, <2>2 DEF InHand
  <2>6. AtLeastOnce' /\ DeletesDelivered'
    BY <2>1, <2>4, <2>5, InsideTheWorker
  <2>7. [batch |-> worker.batch, whole |-> FALSE] \in files'[worker.ep]
    BY <2>1 DEF TypeOK
  <2>8. worker'.batch \in {f.batch : f \in files'[worker'.ep]}
    BY <2>2, <2>7
  <2>9. QED
    BY <2>6, <2>8 DEF SafeInv, WriteHasPlace, FileBatches
<1>5. CASE Write
  <2>1. /\ UNCHANGED <<taken, retry, received, gone>> /\ worker.pc = "write"
        /\ files' = [files EXCEPT ![worker.ep] =
                       {[f EXCEPT !.whole = @ \/ f.batch = worker.batch] : f \in @}]
        /\ GoTo(worker.batch, worker.ep + 1)
    BY <1>5 DEF Write, history
  <2>2. \A f \in File :
          LET g == [f EXCEPT !.whole = @ \/ f.batch = worker.batch]
          IN /\ g.batch = f.batch
             /\ g.whole <=> f.whole \/ f.batch = worker.batch
    BY DEF File
  <2>3. ASSUME NEW x \in Endpoint, NEW f \in files[x],
               f.whole \/ (x = worker.ep /\ f.batch = worker.batch)
        PROVE  \E g \in files'[x] : g.batch = f.batch /\ g.whole
    <3>1. f \in File
      BY DEF TypeOK
    <3>2. CASE x = worker.ep
      <4>1. [f EXCEPT !.whole = @ \/ f.batch = worker.batch] \in files'[x]
        BY <2>1, <3>2 DEF TypeOK
      <4>2. QED
        BY <2>2, <2>3, <3>1, <4>1
    <3>3. CASE x # worker.ep
      BY <2>1, <2>3, <3>3 DEF TypeOK
    <3>4. QED
      BY <3>2, <3>3
  <2>4. \A x \in Endpoint : Saved(x) \subseteq (Saved(x))' /\ GivenUp(x) = (GivenUp(x))'
    <3>1. \A x \in Endpoint : Saved(x) \subseteq (Saved(x))'
      BY <2>1, <2>3 DEF Saved, FilesOf
    <3>2. QED
      BY <2>1, <3>1 DEF GivenUp
  <2>5. ASSUME NEW x \in Endpoint, NEW b \in Subscribed(x) \cap InHand(x)
        PROVE  b \in received'[x] \cup (Saved(x))' \cup (InHand(x))' \cup (GivenUp(x))'
    <3>1. CASE x # worker.ep
      BY <2>1, <3>1, MovesOn
    <3>2. CASE x = worker.ep
      <4>1. b = worker.batch /\ b \in taken
        BY DEF InHand, Subscribed
      <4>2. CASE b \in FileBatches(x)
        <5>1. PICK f \in files[x] : f.batch = b
          BY <4>2 DEF FileBatches
        <5>2. \E g \in files'[x] : g.batch = b /\ g.whole
          BY <2>3, <3>2, <4>1, <5>1
        <5>3. QED
          BY <2>1, <4>1, <5>2 DEF Saved, FilesOf
      <4>3. QED
        BY <2>1, <2>4, <3>2, <4>1, <4>2 DEF SafeInv, WriteHasPlace
    <3>3. QED
      BY <3>1, <3>2
  <2>6. ASSUME NEW x \in Endpoint PROVE (Covered(x))'
    <3>1. Subscribed(x) = (Subscribed(x))'
      BY <2>1 DEF Subscribed
    <3>2. QED
      BY <2>1, <2>4, <2>5, <3>1 DEF SafeInv, AtLeastOnce, Covered
  <2>7. worker'.pc # "write"
    BY <2>1, GoToInHand
  <2>8. QED
    BY <2>1, <2>6, <2>7
    DEF SafeInv, AtLeastOnce, Covered, WriteHasPlace, DeletesDelivered
<1>6. CASE SaveFails
  <2>1. /\ UNCHANGED <<taken, retry, received, files>>
        /\ GiveUp(worker.ep, worker.batch, "save failed")
        /\ GoTo(worker.batch, worker.ep + 1)
    BY <1>6 DEF SaveFails
  <2>2. \A x \in Endpoint : /\ GivenUp(x) \subseteq (GivenUp(x))'
                            /\ x = worker.ep => worker.batch \in (GivenUp(x))'
    BY <2>1, GiveUpGrows
  <2>3. \A x \in Endpoint : Saved(x) = (Saved(x))'
    BY <2>1 DEF Saved, FilesOf
  <2>4. \A x \in Endpoint : InHand(x) \subseteq (InHand(x))' \cup (GivenUp(x))'
    <3>1. \A x \in Endpoint : InHand(x) \subseteq {worker.batch}
      BY DEF InHand
    <3>2. \A x \in Endpoint \ {worker.ep} : InHand(x) \subseteq (InHand(x))'
      BY <2>1, MovesOn
    <3>3. QED
      BY <2>2, <3>1, <3>2
  <2>5. AtLeastOnce' /\ DeletesDelivered'
    BY <2>1, <2>2, <2>3, <2>4, InsideTheWorker
  <2>6. worker'.pc # "write"
    BY <2>1, GoToInHand
  <2>7. QED
    BY <2>5, <2>6 DEF SafeInv, WriteHasPlace
<1>7. CASE WorkerExit
  <2>1. UNCHANGED <<taken, retry, received, files, gone>> /\ worker.pc = "idle"
        /\ worker'.pc = "done"
    BY <1>7 DEF WorkerExit, history, TypeOK, WorkerType
  <2>2. \A x \in Endpoint : /\ Saved(x) = (Saved(x))' /\ GivenUp(x) = (GivenUp(x))'
                            /\ InHand(x) = {}
    BY <2>1 DEF Saved, FilesOf, GivenUp, InHand
  <2>3. AtLeastOnce' /\ DeletesDelivered'
    BY <2>1, <2>2, InsideTheWorker
  <2>4. QED
    BY <2>1, <2>3 DEF SafeInv, WriteHasPlace
<1>8. QED
  BY <1>1, <1>2, <1>3, <1>4, <1>5, <1>6, <1>7 DEF Worker

LEMMA InitSafe == Init => SafeInv
BY DEF Init, SafeInv, AtLeastOnce, WriteHasPlace, DeletesDelivered, Subscribed,
       IdleWorker, IdleRetry

LEMMA NextSafe == TypeOK /\ SafeInv /\ [Next]_vars => SafeInv'
<1> SUFFICES ASSUME TypeOK, SafeInv, [Next]_vars PROVE SafeInv'
  OBVIOUS
<1>1. CASE UNCHANGED vars
  BY <1>1 DEF vars, history, SafeInv, AtLeastOnce, WriteHasPlace, DeletesDelivered,
              Subscribed, Saved, FilesOf, InHand, GivenUp, FileBatches
<1>2. QED
  BY <1>1, WorkerKeepsSafe, RetryKeepsSafe, OutsideKeepsSafe, CrashKeepsSafe DEF Next

\* At-least-once: whatever endpoints, breakers, retry workers, crashes and the
\* operator do, a batch taken from its channel is accepted, saved, in hand or given up.
THEOREM ForwarderAtLeastOnce == Spec => []AtLeastOnce
<1>1. SafeInv => AtLeastOnce
  BY DEF SafeInv
<1>2. QED
  BY <1>1, InitType, NextType, InitSafe, NextSafe, PTL DEF Spec

-----------------------------------------------------------------------------
(* Duplicates: every batch is taken once ...                               *)

Busy == worker.pc \in {"try", "sending", "create", "write"}

\* The batches for e in files, or in the list the retry worker goes through.
Kept(e) == FileBatches(e) \cup retry[e].list

\* The batches in the channels are new: each has a number of its own, which no
\* batch taken before has.
Fresh ==
  /\ \A s \in Signal : \A i \in 1..Len(chan[s]) :
       /\ chan[s][i].sig = s
       /\ chan[s][i].id <= forwarded
       /\ chan[s][i] \notin taken
  /\ \A s \in Signal : \A i, j \in 1..Len(chan[s]) :
       i # j => chan[s][i].id # chan[s][j].id
  /\ \A b \in taken : b.id <= forwarded

\* Only what was taken is in the worker's hands, at an endpoint that takes it, in
\* files, or accepted.
OnlyTaken ==
  /\ Busy => worker.batch \in taken /\ worker.batch.sig \in SignalTypes[worker.ep]
  /\ \A e \in Endpoint : received[e] \cup Kept(e) \subseteq taken

LEMMA ForwardKeepsFresh ==
  ASSUME TypeOK, Fresh, NEW s \in Signal, Forward(s)
  PROVE  Fresh'
<1> DEFINE b == [id |-> forwarded + 1, sig |-> s]
<1>1. /\ forwarded \in Nat /\ chan[s] \in Seq(Batch) /\ Len(chan[s]) \in Nat
      /\ forwarded' = forwarded + 1 /\ UNCHANGED taken
  BY DEF TypeOK, Forward
<1>2. b \in Batch /\ b.id = forwarded + 1 /\ b.sig = s
  BY <1>1 DEF Batch
<1>3. \A x \in Signal : \A i \in 1..Len(chan[x]) : chan[x][i] \in Batch /\ chan[x][i].id \in Nat
  <2>1. \A x \in Signal : \A i \in 1..Len(chan[x]) : chan[x][i] \in Batch
    BY DEF TypeOK
  <2>2. \A c \in Batch : c.id \in Nat
    BY DEF Batch
  <2>3. QED
    BY <2>1, <2>2
<1>4. \A c \in taken : c.id \in Nat
  BY DEF TypeOK, Batch
<1>6. \/ chan' = chan
      \/ chan'[s] = Append(chan[s], b) /\ \A x \in Signal : x # s => chan'[x] = chan[x]
  BY DEF Forward, TypeOK
<1> HIDE DEF b
<1>7. CASE chan' = chan
  BY <1>1, <1>3, <1>4, <1>7 DEF Fresh
<1>8. CASE chan'[s] = Append(chan[s], b) /\ \A x \in Signal : x # s => chan'[x] = chan[x]
  <2>1. /\ Len(chan'[s]) = Len(chan[s]) + 1
        /\ \A i \in 1..Len(chan[s]) : chan'[s][i] = chan[s][i]
        /\ chan'[s][Len(chan[s]) + 1] = b
    BY <1>1, <1>2, <1>8
  <2>2. b \notin taken
    BY <1>1, <1>2, <1>4 DEF Fresh
  <2>3. \A i \in 1..Len(chan'[s]) :
          /\ chan'[s][i].sig = s
          /\ chan'[s][i].id <= forwarded'
          /\ chan'[s][i] \notin taken'
    <3>1. SUFFICES ASSUME NEW i \in 1..Len(chan'[s])
                   PROVE  /\ chan'[s][i].sig = s
                          /\ chan'[s][i].id <= forwarded'
                          /\ chan'[s][i] \notin taken'
      OBVIOUS
    <3>2. CASE i = Len(chan[s]) + 1
      BY <1>1, <1>2, <2>1, <2>2, <3>2
    <3>3. CASE i \in 1..Len(chan[s])
      BY <1>1, <1>3, <2>1, <3>3 DEF Fresh
    <3>4. QED
      BY <1>1, <2>1, <3>2, <3>3
  <2>4. \A i, j \in 1..Len(chan'[s]) : i # j => chan'[s][i].id # chan'[s][j].id
    <3>1. \A i \in 1..Len(chan[s]) : chan'[s][i].id < forwarded + 1
      BY <1>1, <1>3, <2>1 DEF Fresh
    <3>2. \A i, j \in 1..Len(chan[s]) : i # j => chan'[s][i].id # chan'[s][j].id
      <4> TAKE i, j \in 1..Len(chan[s])
      <4>1. i # j => chan[s][i].id # chan[s][j].id
        BY DEF Fresh
      <4>2. chan'[s][i] = chan[s][i] /\ chan'[s][j] = chan[s][j]
        BY <2>1
      <4>3. QED
        BY <4>1, <4>2
    <3>3. chan'[s][Len(chan[s]) + 1].id = forwarded + 1
      BY <1>2, <2>1
    <3>4. \A i \in 1..Len(chan[s]) : chan'[s][i].id \in Nat
      BY <1>3, <2>1
    <3>5. SUFFICES ASSUME NEW i \in 1..Len(chan'[s]), NEW j \in 1..Len(chan'[s]), i # j
                   PROVE  chan'[s][i].id # chan'[s][j].id
      OBVIOUS
    <3>6. CASE i \in 1..Len(chan[s]) /\ j \in 1..Len(chan[s])
      BY <3>2, <3>5, <3>6
    <3>7. CASE i = Len(chan[s]) + 1 /\ j \in 1..Len(chan[s])
      BY <1>1, <3>1, <3>3, <3>4, <3>7
    <3>8. CASE j = Len(chan[s]) + 1 /\ i \in 1..Len(chan[s])
      BY <1>1, <3>1, <3>3, <3>4, <3>8
    <3>9. QED
      BY <1>1, <2>1, <3>5, <3>6, <3>7, <3>8
  <2>5. \A x \in Signal : x # s =>
          /\ \A i \in 1..Len(chan'[x]) :
               /\ chan'[x][i].sig = x
               /\ chan'[x][i].id <= forwarded'
               /\ chan'[x][i] \notin taken'
          /\ \A i, j \in 1..Len(chan'[x]) : i # j => chan'[x][i].id # chan'[x][j].id
    <3>1. SUFFICES ASSUME NEW x \in Signal, x # s
                   PROVE  /\ \A i \in 1..Len(chan'[x]) :
                               /\ chan'[x][i].sig = x
                               /\ chan'[x][i].id <= forwarded'
                               /\ chan'[x][i] \notin taken'
                          /\ \A i, j \in 1..Len(chan'[x]) :
                               i # j => chan'[x][i].id # chan'[x][j].id
      OBVIOUS
    <3>2. chan'[x] = chan[x]
      BY <1>8, <3>1
    <3>3. \A i \in 1..Len(chan[x]) : chan[x][i].id \in Nat /\ chan[x][i].id <= forwarded
      BY <1>3 DEF Fresh
    <3>4. \A i \in 1..Len(chan[x]) : chan[x][i].id <= forwarded'
      BY <1>1, <3>3
    <3>5. QED
      BY <1>1, <3>2, <3>4 DEF Fresh
  <2>6. \A c \in taken' : c.id <= forwarded'
    BY <1>1, <1>4 DEF Fresh
  <2>7. ASSUME NEW x \in Signal
        PROVE  /\ \A i \in 1..Len(chan'[x]) :
                    /\ chan'[x][i].sig = x
                    /\ chan'[x][i].id <= forwarded'
                    /\ chan'[x][i] \notin taken'
               /\ \A i, j \in 1..Len(chan'[x]) :
                    i # j => chan'[x][i].id # chan'[x][j].id
    <3>1. CASE x = s
      BY <2>3, <2>4, <3>1
    <3>2. CASE x # s
      BY <2>5, <3>2
    <3>3. QED
      BY <3>1, <3>2
  <2>8. QED
    BY <2>6, <2>7 DEF Fresh
<1>9. QED
  BY <1>6, <1>7, <1>8

LEMMA TakeKeepsFresh ==
  ASSUME TypeOK, Fresh, NEW s \in Signal, Take(s)
  PROVE  Fresh'
<1> DEFINE b == Head(chan[s])
<1>1. /\ chan[s] \in Seq(Batch) /\ chan[s] # <<>>
      /\ taken' = taken \cup {b} /\ UNCHANGED forwarded
      /\ chan'[s] = Tail(chan[s])
      /\ \A x \in Signal : x # s => chan'[x] = chan[x]
  BY DEF TypeOK, Take
<1>2. /\ Len(chan[s]) \in Nat \ {0} /\ Len(chan'[s]) = Len(chan[s]) - 1
      /\ b = chan[s][1]
      /\ \A i \in 1..Len(chan'[s]) : chan'[s][i] = chan[s][i + 1]
  BY <1>1
<1> HIDE DEF b
<1>3. b.sig = s /\ b.id <= forwarded
  BY <1>2 DEF Fresh
<1>4. \A i \in 1..Len(chan'[s]) : i + 1 \in 1..Len(chan[s]) /\ i + 1 # 1
  BY <1>2
<1>5. \A i \in 1..Len(chan'[s]) : chan'[s][i] \notin taken' /\ chan'[s][i].sig = s
                                  /\ chan'[s][i].id <= forwarded'
  <2>1. SUFFICES ASSUME NEW i \in 1..Len(chan'[s])
                 PROVE  /\ chan[s][i + 1] \notin taken' /\ chan[s][i + 1].sig = s
                        /\ chan[s][i + 1].id <= forwarded'
    BY <1>2
  <2>2. chan[s][i + 1].id # b.id
    BY <1>2, <1>4 DEF Fresh
  <2>3. QED
    BY <1>1, <1>4, <2>2 DEF Fresh
<1>6. \A i, j \in 1..Len(chan'[s]) : i # j => chan'[s][i].id # chan'[s][j].id
  <2> TAKE i, j \in 1..Len(chan'[s])
  <2>1. i + 1 \in 1..Len(chan[s]) /\ j + 1 \in 1..Len(chan[s]) /\ (i # j => i + 1 # j + 1)
    BY <1>2, <1>4
  <2>2. i # j => chan[s][i + 1].id # chan[s][j + 1].id
    BY <2>1 DEF Fresh
  <2>3. chan'[s][i] = chan[s][i + 1] /\ chan'[s][j] = chan[s][j + 1]
    BY <1>2
  <2>4. QED
    BY <2>2, <2>3
<1>7. \A x \in Signal : x # s =>
        /\ \A i \in 1..Len(chan'[x]) :
             /\ chan'[x][i].sig = x
             /\ chan'[x][i].id <= forwarded'
             /\ chan'[x][i] \notin taken'
        /\ \A i, j \in 1..Len(chan'[x]) : i # j => chan'[x][i].id # chan'[x][j].id
  BY <1>1, <1>3 DEF Fresh
<1>8. \A c \in taken' : c.id <= forwarded'
  BY <1>1, <1>3 DEF Fresh
<1>9. QED
  BY <1>5, <1>6, <1>7, <1>8 DEF Fresh

LEMMA NextFresh == TypeOK /\ Fresh /\ [Next]_vars => Fresh'
<1> SUFFICES ASSUME TypeOK, Fresh, [Next]_vars PROVE Fresh'
  OBVIOUS
<1>1. ASSUME NEW s \in Signal, Forward(s) PROVE Fresh'
  BY <1>1, ForwardKeepsFresh
<1>2. ASSUME NEW s \in Signal, Take(s) PROVE Fresh'
  BY <1>2, TakeKeepsFresh
<1>3. CASE Crash
  <2>1. \A s \in Signal : chan'[s] = <<>> /\ 1..Len(chan'[s]) = {}
    BY <1>3 DEF Crash
  <2>2. UNCHANGED <<forwarded, taken>>
    BY <1>3 DEF Crash
  <2>3. QED
    BY <2>1, <2>2 DEF Fresh
<1>4. CASE UNCHANGED <<chan, forwarded, taken>>
  BY <1>4 DEF Fresh
<1>5. ASSUME NEW e \in Endpoint, Retry(e) \/ Flip(e) \/ Wait(e) \/ RemoveByHand(e)
      PROVE  UNCHANGED <<chan, forwarded, taken>>
  BY <1>5 DEF Retry, Tick, List, NextSignal, Read, Resent, Delete, DeleteFails,
              RetryExit, Flip, Wait, RemoveByHand, history
<1>6. ASSUME Try \/ Sent \/ Create \/ Write \/ SaveFails \/ WorkerExit \/ Stop
      PROVE  UNCHANGED <<chan, forwarded, taken>>
  BY <1>6 DEF Try, Sent, Create, Write, SaveFails, WorkerExit, Stop, history
<1>7. CASE UNCHANGED vars
  BY <1>4, <1>7 DEF vars, history
<1>8. QED
  BY <1>1, <1>2, <1>3, <1>4, <1>5, <1>6, <1>7 DEF Next, Worker

LEMMA InitFresh == Init => Fresh /\ OnlyTaken
<1> SUFFICES ASSUME Init PROVE Fresh /\ OnlyTaken
  OBVIOUS
<1>1. \A s \in Signal : chan[s] = <<>> /\ 1..Len(chan[s]) = {}
  BY DEF Init
<1>2. QED
  BY <1>1 DEF Init, Fresh, OnlyTaken, Busy, Kept, FileBatches, IdleWorker, IdleRetry

\* Only the worker moves what it has in hand.
LEMMA RetryLeavesWorker ==
  ASSUME TypeOK, NEW e \in Endpoint, Retry(e)
  PROVE  /\ UNCHANGED <<worker, taken, chan, forwarded>>
         /\ \A x \in Endpoint : x # e =>
              /\ retry'[x] = retry[x] /\ files'[x] = files[x]
              /\ received'[x] = received[x] /\ twice'[x] = twice[x]
              /\ unsure'[x] = unsure[x] /\ undeleted'[x] = undeleted[x]
<1> USE DEF TypeOK, SetRetry, PassOver, history
<1>1. CASE Tick(e)
  BY <1>1 DEF Tick
<1>2. CASE List(e)
  BY <1>2 DEF List
<1>3. CASE NextSignal(e)
  BY <1>3 DEF NextSignal
<1>4. CASE Read(e)
  BY <1>4 DEF Read
<1>5. CASE Resent(e)
  BY <1>5 DEF Resent, Answer, Accept
<1>6. CASE Delete(e)
  BY <1>6 DEF Delete
<1>7. CASE DeleteFails(e)
  BY <1>7 DEF DeleteFails
<1>8. CASE RetryExit(e)
  BY <1>8 DEF RetryExit
<1>9. QED
  BY <1>1, <1>2, <1>3, <1>4, <1>5, <1>6, <1>7, <1>8 DEF Retry

\* A list has only names of files that were there.
LEMMA KeptShrinks ==
  ASSUME TypeOK, NEW e \in Endpoint, Retry(e)
  PROVE  (Kept(e))' \subseteq Kept(e)
<1>1. retry \in [Endpoint -> RetryType] /\ retry[e] \in RetryType /\ IdleRetry.list = {}
  BY DEF TypeOK, IdleRetry
<1>2. ASSUME NEW r, SetRetry(e, r), r.list \subseteq Kept(e), files'[e] \subseteq files[e]
      PROVE  (Kept(e))' \subseteq Kept(e)
  BY <1>1, <1>2 DEF SetRetry, Kept, FileBatches
<1>3. retry[e].list \subseteq Kept(e)
  BY DEF Kept
<1>4. CASE Tick(e)
  <2>1. [IdleRetry EXCEPT !.pc = "list"].list = {}
    BY DEF IdleRetry
  <2>2. SetRetry(e, [IdleRetry EXCEPT !.pc = "list"]) /\ files' = files
    BY <1>4 DEF Tick
  <2>3. QED
    BY <1>2, <2>1, <2>2
<1>5. CASE List(e)
  <2> DEFINE l == {b \in {f.batch : f \in files[e]} :
                     b.sig = retry[e].sig /\ b.sig \in SignalTypes[e]}
             r == [retry[e] EXCEPT !.pc = "next", !.list = l]
  <2>1. l \subseteq Kept(e)
    BY DEF Kept, FileBatches
  <2>2. SetRetry(e, r) /\ files' = files
    BY <1>5 DEF List
  <2> HIDE DEF l
  <2>3. r.list = l
    BY <1>1 DEF RetryType
  <2> HIDE DEF r
  <2>4. QED
    BY <1>2, <2>1, <2>2, <2>3
<1>6. CASE NextSignal(e)
  <2> DEFINE r == IF retry[e].sig < NumSignals
                  THEN [IdleRetry EXCEPT !.pc = "list", !.sig = retry[e].sig + 1]
                  ELSE IdleRetry
  <2>1. r.list = {}
    BY DEF IdleRetry
  <2>2. SetRetry(e, r) /\ files' = files
    BY <1>6 DEF NextSignal
  <2> HIDE DEF r
  <2>3. QED
    BY <1>2, <2>1, <2>2
<1>7. CASE Read(e)
  <2> DEFINE b == Oldest(retry[e].list)
             r == IF ~Granted(breaker[e]) THEN IdleRetry
                  ELSE IF FilesOf(e, b) = {} THEN [retry[e] EXCEPT !.list = @ \ {b}]
                  ELSE [retry[e] EXCEPT !.pc = "sending",
                                        !.whole = \A f \in FilesOf(e, b) : f.whole]
  <2>1. r.list \subseteq retry[e].list
    BY <1>1 DEF RetryType
  <2>2. SetRetry(e, r) /\ files' = files
    BY <1>7 DEF Read
  <2> HIDE DEF r
  <2>3. QED
    BY <1>2, <1>3, <2>1, <2>2
<1>8. CASE Resent(e)
  <2>1. PICK o \in Outcomes(e, Oldest(retry[e].list), retry[e].whole) :
          SetRetry(e, IF o.ok THEN [retry[e] EXCEPT !.pc = "delete"] ELSE IdleRetry)
    BY <1>8 DEF Resent
  <2> DEFINE r == IF o.ok THEN [retry[e] EXCEPT !.pc = "delete"] ELSE IdleRetry
  <2>2. r.list \subseteq retry[e].list
    BY <1>1 DEF RetryType
  <2>3. SetRetry(e, r) /\ files' = files
    BY <1>8, <2>1 DEF Resent
  <2> HIDE DEF r
  <2>4. QED
    BY <1>2, <1>3, <2>2, <2>3
<1>9. CASE Delete(e) \/ DeleteFails(e)
  <2> DEFINE b == Oldest(retry[e].list)
             r == [retry[e] EXCEPT !.pc = "next", !.list = @ \ {b}, !.whole = FALSE]
  <2>1. r.list \subseteq retry[e].list
    BY <1>1 DEF RetryType
  <2>2. SetRetry(e, r)
    BY <1>9 DEF Delete, DeleteFails, PassOver
  <2>3. files'[e] \subseteq files[e]
    BY <1>9 DEF Delete, DeleteFails, TypeOK
  <2> HIDE DEF r
  <2>4. QED
    BY <1>2, <1>3, <2>1, <2>2, <2>3
<1>10. CASE RetryExit(e)
  <2>1. [IdleRetry EXCEPT !.pc = "done"].list = {}
    BY DEF IdleRetry
  <2>2. SetRetry(e, [IdleRetry EXCEPT !.pc = "done"]) /\ files' = files
    BY <1>10 DEF RetryExit
  <2>3. QED
    BY <1>2, <2>1, <2>2
<1>11. QED
  BY <1>4, <1>5, <1>6, <1>7, <1>8, <1>9, <1>10 DEF Retry

-----------------------------------------------------------------------------
(* ... and held by one of the two who may send it to an endpoint.          *)

\* What the worker has for e and has not yet put into a file.
Unsent(e) == IF worker.pc = "write" /\ e = worker.ep THEN {} ELSE InHand(e)

\* The batch e's retry worker has sent and whose file it is about to delete.
Deleting(e) ==
  IF retry[e].pc = "delete" /\ retry[e].whole THEN {Oldest(retry[e].list)} ELSE {}

\* What e may accept again: accepted unnoticed, or left behind by a failed deletion.
Excused(e) == unsure[e] \cup undeleted[e]

\* A batch is in the worker's hands or in a file, not in both; what is there and
\* has been accepted is excused, or its file is about to go; and what was accepted
\* twice is excused.
Clean(e) ==
  /\ Unsent(e) \cap Kept(e) = {}
  /\ (Unsent(e) \cup Kept(e)) \cap received[e] \subseteq Excused(e) \cup Deleting(e)
  /\ twice[e] \subseteq Excused(e)

OnceInv == Fresh /\ OnlyTaken /\ \A e \in Endpoint : Clean(e)

LEMMA DeletingIsKept ==
  ASSUME TypeOK, NEW e \in Endpoint
  PROVE  Deleting(e) \subseteq Kept(e)
BY OldestListed DEF TypeOK, RetryType, Deleting, Kept

\* A step that sends nothing to e.
LEMMA QuietStep ==
  ASSUME NEW e \in Endpoint, Clean(e),
         received'[e] = received[e], twice'[e] = twice[e], Excused(e) \subseteq (Excused(e))',
         (Unsent(e))' \subseteq Unsent(e), (Kept(e))' \subseteq Kept(e),
         Deleting(e) \cap (Kept(e))' \subseteq (Deleting(e))' \cup (Excused(e))',
         Deleting(e) \subseteq Kept(e)
  PROVE  (Clean(e))'
BY DEF Clean

\* The retry worker of e, and nobody else.
LEMMA RetryKeepsOnce ==
  ASSUME TypeOK, OnceInv, NEW e \in Endpoint, Retry(e)
  PROVE  OnlyTaken' /\ \A x \in Endpoint : (Clean(x))'
<1>1. /\ UNCHANGED <<worker, taken, chan, forwarded>>
      /\ \A x \in Endpoint : x # e =>
           /\ retry'[x] = retry[x] /\ files'[x] = files[x]
           /\ received'[x] = received[x] /\ twice'[x] = twice[x]
           /\ (Excused(x))' = Excused(x)
  BY RetryLeavesWorker DEF Excused
<1>2. \A x \in Endpoint : (Unsent(x))' = Unsent(x)
  BY <1>1 DEF Unsent, InHand
<1>3. (Kept(e))' \subseteq Kept(e)
  BY KeptShrinks
<1>4. \A x \in Endpoint : x # e => (Kept(x))' = Kept(x) /\ (Deleting(x))' = Deleting(x)
  BY <1>1 DEF Kept, FileBatches, Deleting
<1>5. Deleting(e) \subseteq Kept(e) /\ Clean(e)
  BY DeletingIsKept DEF OnceInv
<1>6. \A x \in Endpoint : x # e => (Clean(x))'
  BY <1>1, <1>2, <1>4 DEF OnceInv, Clean
<1>7. CASE Tick(e) \/ List(e) \/ NextSignal(e) \/ Read(e) \/ RetryExit(e)
  <2>1. retry[e].pc # "delete"
    BY <1>7 DEF Tick, List, NextSignal, Read, RetryExit
  <2>2. UNCHANGED <<received, twice, unsure, undeleted>>
    BY <1>7 DEF Tick, List, NextSignal, Read, RetryExit, history
  <2>3. Deleting(e) = {}
    BY <2>1 DEF Deleting
  <2>4. (Clean(e))'
    BY <1>2, <1>3, <1>5, <2>2, <2>3, QuietStep DEF Excused
  <2>5. OnlyTaken'
    BY <1>1, <1>3, <1>4, <2>2 DEF OnceInv, OnlyTaken, Busy
  <2>6. QED
    BY <1>6, <2>4, <2>5
<1>8. CASE Resent(e)
  <2> DEFINE b == Oldest(retry[e].list)
  <2>1. PICK o \in Outcomes(e, b, retry[e].whole) :
          /\ Answer(e, b, o)
          /\ SetRetry(e, IF o.ok THEN [retry[e] EXCEPT !.pc = "delete"] ELSE IdleRetry)
    BY <1>8 DEF Resent
  <2>2. b \in Kept(e) /\ Deleting(e) = {}
    BY <1>8, OldestListed DEF Resent, TypeOK, RetryType, Kept, Deleting
  <2>3. o.ok /\ retry[e].whole => (Deleting(e))' = {b}
    <3>1. o.ok => retry'[e] = [retry[e] EXCEPT !.pc = "delete"]
      BY <2>1 DEF SetRetry, TypeOK
    <3>2. o.ok => /\ retry'[e].pc = "delete" /\ retry'[e].list = retry[e].list
                  /\ retry'[e].whole = retry[e].whole
      BY <3>1 DEF TypeOK, RetryType
    <3>3. QED
      BY <3>2 DEF Deleting
  <2> HIDE DEF b
  <2>4. /\ received'[e] = received[e] \cup (IF o.accepted THEN {b} ELSE {})
        /\ twice'[e] = twice[e] \cup ((IF o.accepted THEN {b} ELSE {}) \cap received[e])
        /\ Excused(e) \subseteq (Excused(e))'
        /\ o.accepted /\ ~o.ok => b \in (Excused(e))'
        /\ o.accepted => retry[e].whole
    BY <1>8, <2>1 DEF Resent, Outcomes, Answer, Accept, Excused, TypeOK
  <2>5. b \in received[e] => b \in Excused(e)
    BY <2>2, <1>5 DEF Clean
  <2>6. (Clean(e))'
    BY <1>2, <1>3, <1>5, <2>2, <2>3, <2>4, <2>5 DEF Clean
  <2>7. OnlyTaken'
    BY <1>1, <1>3, <1>4, <2>2, <2>4 DEF OnceInv, OnlyTaken, Busy
  <2>8. QED
    BY <1>6, <2>6, <2>7
<1>9. CASE Delete(e)
  <2> DEFINE b == Oldest(retry[e].list)
  <2>1. UNCHANGED <<received, twice, unsure, undeleted>> /\ Deleting(e) \subseteq {b}
    BY <1>9 DEF Delete, Deleting
  <2>2. files'[e] = files[e] \ FilesOf(e, b) /\ retry'[e].list = retry[e].list \ {b}
    BY <1>9 DEF Delete, PassOver, SetRetry, TypeOK, RetryType
  <2> HIDE DEF b
  <2>3. b \notin (Kept(e))'
    BY <2>2 DEF Kept, FileBatches, FilesOf
  <2>4. (Clean(e))'
    BY <1>2, <1>3, <1>5, <2>1, <2>3, QuietStep DEF Excused
  <2>5. OnlyTaken'
    BY <1>1, <1>3, <1>4, <2>1 DEF OnceInv, OnlyTaken, Busy
  <2>6. QED
    BY <1>6, <2>4, <2>5
<1>10. CASE DeleteFails(e)
  <2>1. UNCHANGED <<received, twice, unsure>>
    BY <1>10 DEF DeleteFails
  <2>2. Deleting(e) \subseteq (Excused(e))' /\ Excused(e) \subseteq (Excused(e))'
    BY <1>10, <2>1 DEF DeleteFails, Deleting, Excused, TypeOK
  <2>3. (Clean(e))'
    BY <1>2, <1>3, <1>5, <2>1, <2>2, QuietStep
  <2>4. OnlyTaken'
    BY <1>1, <1>3, <1>4, <2>1 DEF OnceInv, OnlyTaken, Busy
  <2>5. QED
    BY <1>6, <2>3, <2>4
<1>11. QED
  BY <1>7, <1>8, <1>9, <1>10 DEF Retry

LEMMA OutsideKeepsOnce ==
  ASSUME TypeOK, OnceInv,
         \/ \E s \in Signal : Forward(s)
         \/ \E e \in Endpoint : Flip(e) \/ Wait(e) \/ RemoveByHand(e)
         \/ Stop
  PROVE  OnlyTaken' /\ \A x \in Endpoint : (Clean(x))'
<1>1. ASSUME UNCHANGED <<worker, taken, retry, received, twice, unsure, undeleted>>,
             \A x \in Endpoint : files'[x] \subseteq files[x]
      PROVE  OnlyTaken' /\ \A x \in Endpoint : (Clean(x))'
  <2>1. \A x \in Endpoint : /\ (Unsent(x))' = Unsent(x) /\ (Deleting(x))' = Deleting(x)
                            /\ (Kept(x))' \subseteq Kept(x)
    BY <1>1 DEF Unsent, InHand, Deleting, Kept, FileBatches
  <2>2. \A x \in Endpoint : (Clean(x))'
    BY <1>1, <2>1 DEF OnceInv, Clean, Excused
  <2>3. OnlyTaken'
    BY <1>1, <2>1 DEF OnceInv, OnlyTaken, Busy
  <2>4. QED
    BY <2>2, <2>3
<1>2. ASSUME NEW s \in Signal, Forward(s)
      PROVE  UNCHANGED <<worker, taken, retry, received, twice, unsure, undeleted, files>>
  BY <1>2 DEF Forward
<1>3. ASSUME NEW e \in Endpoint, Flip(e) \/ Wait(e)
      PROVE  UNCHANGED <<worker, taken, retry, received, twice, unsure, undeleted, files>>
  BY <1>3 DEF Flip, Wait, history
<1>4. ASSUME NEW e \in Endpoint, RemoveByHand(e)
      PROVE  /\ UNCHANGED <<worker, taken, retry, received, twice, unsure, undeleted>>
             /\ \A x \in Endpoint : files'[x] \subseteq files[x]
  BY <1>4 DEF RemoveByHand, TypeOK
<1>5. Stop => UNCHANGED <<worker, taken, retry, received, twice, unsure, undeleted, files>>
  BY DEF Stop, history
<1>6. QED
  BY <1>1, <1>2, <1>3, <1>4, <1>5

\* A crash leaves files; what was on the wire may have been accepted unnoticed.
LEMMA CrashKeepsOnce ==
  ASSUME TypeOK, OnceInv, Crash
  PROVE  OnlyTaken' /\ \A x \in Endpoint : (Clean(x))'
<1>1. PICK acc \in [Endpoint -> SUBSET {b \in taken : b.id \notin Poison}] :
        /\ received' = [e \in Endpoint |-> received[e] \cup acc[e]]
        /\ twice' = [e \in Endpoint |-> twice[e] \cup (acc[e] \cap received[e])]
        /\ unsure' = [e \in Endpoint |-> unsure[e] \cup acc[e] \cup
                        (IF retry[e].pc = "delete" /\ retry[e].whole
                             THEN {Oldest(retry[e].list)} ELSE {})]
  BY DEF Crash
<1>2. /\ worker' = IdleWorker /\ retry' = [e \in Endpoint |-> IdleRetry]
      /\ UNCHANGED <<files, taken, undeleted>>
  BY DEF Crash
<1>3. \A x \in Endpoint : /\ (Unsent(x))' = {} /\ (Deleting(x))' = {}
                          /\ (Kept(x))' \subseteq Kept(x)
  BY <1>2 DEF Unsent, InHand, Deleting, Kept, FileBatches, IdleWorker, IdleRetry
<1>4. \A x \in Endpoint : /\ received'[x] = received[x] \cup acc[x]
                          /\ twice'[x] = twice[x] \cup (acc[x] \cap received[x])
                          /\ (Excused(x))' = Excused(x) \cup acc[x] \cup Deleting(x)
                          /\ acc[x] \subseteq taken
  BY <1>1, <1>2 DEF Deleting, Excused
<1>5. \A x \in Endpoint : (Clean(x))'
  BY <1>3, <1>4 DEF OnceInv, Clean
<1>6. OnlyTaken'
  BY <1>2, <1>3, <1>4 DEF OnceInv, OnlyTaken, Busy, IdleWorker
<1>7. QED
  BY <1>5, <1>6

\* Past an endpoint, the worker has nothing more for it, and no more for the others.
LEMMA UnsentMovesOn ==
  ASSUME TypeOK, Busy, GoTo(worker.batch, worker.ep + 1), NEW e \in Endpoint
  PROVE  /\ (Unsent(e))' \subseteq Unsent(e)
         /\ e = worker.ep => (Unsent(e))' = {}
         /\ Busy' => /\ worker'.batch = worker.batch
                     /\ worker.batch.sig \in SignalTypes[worker'.ep]
<1>1. /\ (InHand(e))' = IF e \in TargetsFrom(worker.batch.sig, worker.ep + 1)
                        THEN {worker.batch} ELSE {}
      /\ worker'.pc \in {"idle", "try"}
      /\ worker'.pc = "try" => /\ worker'.batch = worker.batch
                               /\ worker.batch.sig \in SignalTypes[worker'.ep]
  BY WorkerAt, GoToInHand
<1>2. e \in TargetsFrom(worker.batch.sig, worker.ep + 1)
        => e \in TargetsFrom(worker.batch.sig, worker.ep) /\ e # worker.ep
  BY WorkerAt DEF TargetsFrom, Endpoint
<1>3. (Unsent(e))' = (InHand(e))'
  BY <1>1 DEF Unsent
<1>4. QED
  BY <1>1, <1>2, <1>3 DEF Unsent, InHand, Busy

\* The worker's steps that only move the worker.
LEMMA WorkerMoves ==
  ASSUME TypeOK, OnceInv, UNCHANGED <<retry, received, twice, unsure, undeleted, taken>>,
         \A x \in Endpoint : (Unsent(x))' \subseteq Unsent(x) /\ (Kept(x))' \subseteq Kept(x),
         Busy' => worker'.batch \in taken /\ worker'.batch.sig \in SignalTypes[worker'.ep]
  PROVE  OnlyTaken' /\ \A x \in Endpoint : (Clean(x))'
<1>1. \A x \in Endpoint : (Deleting(x))' = Deleting(x)
  BY DEF Deleting
<1>2. \A x \in Endpoint : (Clean(x))'
  BY <1>1 DEF OnceInv, Clean, Excused
<1>3. OnlyTaken'
  BY DEF OnceInv, OnlyTaken
<1>4. QED
  BY <1>2, <1>3

\* Saving or giving up sends nothing.
LEMMA SaveOrGiveUpMoves ==
  ASSUME TypeOK, OnlyTaken, SaveOrGiveUp, worker.pc \in {"try", "sending"}, NEW e \in Endpoint
  PROVE  /\ (Unsent(e))' \subseteq Unsent(e)
         /\ Busy' => /\ worker'.batch = worker.batch
                     /\ worker.batch.sig \in SignalTypes[worker'.ep]
<1>1. CASE DLQEnabled[worker.ep]
  <2>1. worker' = [worker EXCEPT !.pc = "create"]
    BY <1>1 DEF SaveOrGiveUp
  <2>2. worker'.pc = "create" /\ worker'.batch = worker.batch /\ worker'.ep = worker.ep
    BY <2>1 DEF TypeOK, WorkerType
  <2>3. QED
    BY <2>2 DEF Unsent, InHand, OnlyTaken, Busy
<1>2. CASE ~DLQEnabled[worker.ep]
  <2>1. GoTo(worker.batch, worker.ep + 1)
    BY <1>2 DEF SaveOrGiveUp
  <2>2. QED
    BY <2>1, UnsentMovesOn DEF Busy
<1>3. QED
  BY <1>1, <1>2

LEMMA TakeKeepsOnce ==
  ASSUME TypeOK, OnceInv, NEW s \in Signal, Take(s)
  PROVE  OnlyTaken' /\ \A x \in Endpoint : (Clean(x))'
<1> DEFINE b == Head(chan[s])
<1>1. b \in Batch /\ b = chan[s][1] /\ 1 \in 1..Len(chan[s])
  BY HeadAndTail DEF Take, TypeOK
<1>2. b \notin taken
  BY <1>1 DEF OnceInv, Fresh
<1>3. /\ UNCHANGED <<retry, files, received, twice, unsure, undeleted>>
      /\ taken' = taken \cup {b} /\ GoTo(b, 1)
  BY DEF Take
<1> HIDE DEF b
<1>4. \A x \in Endpoint : (InHand(x))' \subseteq {b}
  BY <1>1, <1>3, GoToInHand
<1>5. Busy' => worker'.batch = b /\ b.sig \in SignalTypes[worker'.ep]
  <2>1. 1 \in Endpoint /\ 1 \in Nat \ {0}
    BY ForwarderAssumption DEF Endpoint
  <2>2. /\ worker'.pc \in {"idle", "try"}
        /\ worker'.pc = "try" => worker'.batch = b /\ b.sig \in SignalTypes[worker'.ep]
    BY <1>1, <1>3, <2>1, GoToInHand
  <2>3. QED
    BY <2>2 DEF Busy
<1>6. \A x \in Endpoint : /\ (Unsent(x))' \subseteq {b}
                          /\ (Kept(x))' = Kept(x) /\ (Deleting(x))' = Deleting(x)
                          /\ b \notin Kept(x) \cup received[x]
  BY <1>2, <1>3, <1>4 DEF Unsent, Kept, FileBatches, Deleting, OnceInv, OnlyTaken
<1>7. \A x \in Endpoint : (Clean(x))'
  BY <1>3, <1>6 DEF OnceInv, Clean, Excused
<1>8. OnlyTaken'
  BY <1>3, <1>5, <1>6 DEF OnceInv, OnlyTaken
<1>9. QED
  BY <1>7, <1>8

LEMMA SentKeepsOnce ==
  ASSUME TypeOK, OnceInv, Sent
  PROVE  OnlyTaken' /\ \A x \in Endpoint : (Clean(x))'
<1> USE WorkerAt
<1>1. PICK o \in Outcomes(worker.ep, worker.batch, TRUE) :
        /\ Answer(worker.ep, worker.batch, o)
        /\ IF o.ok THEN GoTo(worker.batch, worker.ep + 1) /\ UNCHANGED gone
                   ELSE SaveOrGiveUp
  BY DEF Sent
<1>2. UNCHANGED <<taken, retry, files, undeleted>> /\ worker.pc = "sending" /\ Busy
  BY DEF Sent, Busy
<1>3. \A x \in Endpoint : (Kept(x))' = Kept(x) /\ (Deleting(x))' = Deleting(x)
  BY <1>2 DEF Kept, FileBatches, Deleting
<1>4. /\ \A x \in Endpoint : (Unsent(x))' \subseteq Unsent(x)
      /\ \A x \in Endpoint : o.ok /\ x = worker.ep => (Unsent(x))' = {}
      /\ Busy' => /\ worker'.batch = worker.batch
                  /\ worker.batch.sig \in SignalTypes[worker'.ep]
  <2>1. CASE o.ok
    BY <1>1, <1>2, <2>1, UnsentMovesOn
  <2>2. CASE ~o.ok
    BY <1>1, <1>2, <2>2, SaveOrGiveUpMoves DEF OnceInv
  <2>3. QED
    BY <2>1, <2>2
<1>5. \A x \in Endpoint : x # worker.ep =>
        received'[x] = received[x] /\ twice'[x] = twice[x] /\ (Excused(x))' = Excused(x)
  BY <1>1, <1>2 DEF Answer, Accept, Excused, TypeOK
<1>6. \A x \in Endpoint : x # worker.ep => (Clean(x))'
  BY <1>3, <1>4, <1>5 DEF OnceInv, Clean
<1>7. PICK e \in Endpoint : e = worker.ep
  OBVIOUS
<1>8. /\ received'[e] = received[e] \cup (IF o.accepted THEN {worker.batch} ELSE {})
      /\ twice'[e] = twice[e] \cup ((IF o.accepted THEN {worker.batch} ELSE {}) \cap received[e])
      /\ Excused(e) \subseteq (Excused(e))'
      /\ o.accepted /\ ~o.ok => worker.batch \in (Excused(e))'
  BY <1>1, <1>2, <1>7 DEF Answer, Accept, Excused, TypeOK
<1>9. (Clean(e))'
  <2>1. CASE o.accepted
    <3>1. e \in TargetsFrom(worker.batch.sig, worker.ep)
      BY <1>2, <1>7 DEF OnceInv, OnlyTaken, TargetsFrom, Endpoint
    <3>2. worker.batch \in Unsent(e)
      BY <1>2, <3>1 DEF Unsent, InHand
    <3>3. worker.batch \notin Kept(e) /\ Deleting(e) \subseteq Kept(e)
      BY <3>2, DeletingIsKept DEF OnceInv, Clean
    <3>4. worker.batch \in received[e] => worker.batch \in Excused(e)
      BY <3>2, <3>3 DEF OnceInv, Clean
    <3>5. twice'[e] \subseteq (Excused(e))'
      BY <1>8, <3>4 DEF OnceInv, Clean
    <3>6. ((Unsent(e))' \cup (Kept(e))') \cap received'[e]
            \subseteq (Excused(e))' \cup (Deleting(e))'
      BY <1>3, <1>4, <1>7, <1>8, <3>3 DEF OnceInv, Clean
    <3>7. QED
      BY <1>3, <1>4, <3>5, <3>6 DEF OnceInv, Clean
  <2>2. CASE ~o.accepted
    BY <1>3, <1>4, <1>8, <2>2 DEF OnceInv, Clean
  <2>3. QED
    BY <2>1, <2>2
<1>10. OnlyTaken'
  BY <1>2, <1>3, <1>4, <1>5, <1>7, <1>8 DEF OnceInv, OnlyTaken
<1>11. QED
  BY <1>6, <1>7, <1>9, <1>10

LEMMA WorkerKeepsOnce ==
  ASSUME TypeOK, OnceInv, Worker
  PROVE  OnlyTaken' /\ \A x \in Endpoint : (Clean(x))'
<1> USE WorkerAt
<1>1. ASSUME NEW s \in Signal, Take(s) PROVE OnlyTaken' /\ \A x \in Endpoint : (Clean(x))'
  BY <1>1, TakeKeepsOnce
<1>2. CASE Try
  <2>1. UNCHANGED <<retry, files, received, twice, unsure, undeleted, taken>> /\ worker.pc = "try"
    BY <1>2 DEF Try
  <2>2. \A x \in Endpoint : (Kept(x))' = Kept(x)
    BY <2>1 DEF Kept, FileBatches
  <2>3. CASE Granted(breaker[worker.ep])
    <3>1. worker' = [worker EXCEPT !.pc = "sending"]
      BY <1>2, <2>3 DEF Try
    <3>2. worker'.pc = "sending" /\ worker'.batch = worker.batch /\ worker'.ep = worker.ep
      BY <3>1 DEF TypeOK, WorkerType
    <3>3. \A x \in Endpoint : (Unsent(x))' \subseteq Unsent(x)
      BY <2>1, <3>2 DEF Unsent, InHand
    <3>4. worker'.batch \in taken /\ worker'.batch.sig \in SignalTypes[worker'.ep]
      BY <2>1, <3>2 DEF OnceInv, OnlyTaken, Busy
    <3>5. QED
      BY <2>1, <2>2, <3>3, <3>4, WorkerMoves
  <2>4. CASE ~Granted(breaker[worker.ep])
    <3>1. SaveOrGiveUp
      BY <1>2, <2>4 DEF Try
    <3>2. /\ \A x \in Endpoint : (Unsent(x))' \subseteq Unsent(x)
          /\ Busy' => /\ worker'.batch = worker.batch
                      /\ worker.batch.sig \in SignalTypes[worker'.ep]
      BY <2>1, <3>1, SaveOrGiveUpMoves DEF OnceInv
    <3>3. Busy' => worker'.batch \in taken /\ worker'.batch.sig \in SignalTypes[worker'.ep]
      BY <2>1, <3>2 DEF OnceInv, OnlyTaken, Busy
    <3>4. QED
      BY <2>1, <2>2, <3>2, <3>3, WorkerMoves
  <2>5. QED
    BY <2>3, <2>4
<1>3. CASE Sent
  BY <1>3, SentKeepsOnce
<1>4. CASE Create
  <2>1. /\ UNCHANGED <<retry, received, twice, unsure, undeleted, taken>> /\ worker.pc = "create"
        /\ files' = [files EXCEPT ![worker.ep] =
                       @ \cup {[batch |-> worker.batch, whole |-> FALSE]}]
        /\ worker' = [worker EXCEPT !.pc = "write"]
    BY <1>4 DEF Create, history
  <2>2. worker'.pc = "write" /\ worker'.batch = worker.batch /\ worker'.ep = worker.ep
    BY <2>1 DEF TypeOK, WorkerType
  <2>3. PICK e \in Endpoint : e = worker.ep
    OBVIOUS
  <2>4. files'[e] = files[e] \cup {[batch |-> worker.batch, whole |-> FALSE]}
    BY <2>1, <2>3 DEF TypeOK
  <2>5. (Kept(e))' = Kept(e) \cup {worker.batch}
    <3> DEFINE new == [batch |-> worker.batch, whole |-> FALSE]
    <3>1. new.batch = worker.batch
      OBVIOUS
    <3>2. files'[e] = files[e] \cup {new}
      BY <2>4
    <3> HIDE DEF new
    <3>3. (FileBatches(e))' = FileBatches(e) \cup {worker.batch}
      BY <3>1, <3>2 DEF FileBatches
    <3>4. QED
      BY <2>1, <3>3 DEF Kept
  <2>6. \A x \in Endpoint : x # e => (Kept(x))' = Kept(x)
    BY <2>1, <2>3 DEF Kept, FileBatches, TypeOK
  <2>7. (Unsent(e))' = {}
    BY <2>2, <2>3 DEF Unsent
  <2>8. \A x \in Endpoint : (Unsent(x))' \subseteq Unsent(x)
    BY <2>1, <2>2 DEF Unsent, InHand
  <2>9. \A x \in Endpoint : (Deleting(x))' = Deleting(x)
    BY <2>1 DEF Deleting
  <2>10. \A x \in Endpoint : x # e => (Clean(x))'
    BY <2>1, <2>6, <2>8, <2>9 DEF OnceInv, Clean, Excused
  <2>11. worker.batch \in Unsent(e)
    <3>1. e \in TargetsFrom(worker.batch.sig, worker.ep)
      BY <2>1, <2>3 DEF OnceInv, OnlyTaken, Busy, TargetsFrom, Endpoint
    <3>2. QED
      BY <2>1, <3>1 DEF Unsent, InHand
  <2>12. (Clean(e))'
    BY <2>1, <2>5, <2>7, <2>9, <2>11 DEF OnceInv, Clean, Excused
  <2>13. OnlyTaken'
    BY <2>1, <2>2, <2>5, <2>6 DEF OnceInv, OnlyTaken, Busy
  <2>14. QED
    BY <2>10, <2>12, <2>13
<1>5. CASE Write
  <2>1. /\ UNCHANGED <<retry, received, twice, unsure, undeleted, taken>> /\ worker.pc = "write"
        /\ files' = [files EXCEPT ![worker.ep] =
                       {[f EXCEPT !.whole = @ \/ f.batch = worker.batch] : f \in @}]
        /\ GoTo(worker.batch, worker.ep + 1)
    BY <1>5 DEF Write, history
  <2>2. ASSUME NEW x \in Endpoint PROVE (FileBatches(x))' \subseteq FileBatches(x)
    <3>1. CASE x = worker.ep
      <4>1. files'[x] = {[f EXCEPT !.whole = @ \/ f.batch = worker.batch] : f \in files[x]}
        BY <2>1, <3>1 DEF TypeOK
      <4>2. \A f \in files[x] : [f EXCEPT !.whole = @ \/ f.batch = worker.batch].batch = f.batch
        BY DEF TypeOK, File
      <4>3. ASSUME NEW f \in files'[x] PROVE f.batch \in FileBatches(x)
        <5>1. \E g \in files[x] : f = [g EXCEPT !.whole = @ \/ g.batch = worker.batch]
          BY <4>1, <4>3
        <5>2. \E g \in files[x] : f.batch = g.batch
          BY <4>2, <5>1
        <5>3. QED
          BY <5>2 DEF FileBatches
      <4>4. QED
        BY <4>3 DEF FileBatches
    <3>2. CASE x # worker.ep
      BY <2>1, <3>2 DEF FileBatches, TypeOK
    <3>3. QED
      BY <3>1, <3>2
  <2>3. \A x \in Endpoint : (Kept(x))' \subseteq Kept(x)
    BY <2>1, <2>2 DEF Kept
  <2>4. /\ \A x \in Endpoint : (Unsent(x))' \subseteq Unsent(x)
        /\ Busy' => /\ worker'.batch = worker.batch
                    /\ worker.batch.sig \in SignalTypes[worker'.ep]
    BY <2>1, UnsentMovesOn DEF Busy
  <2>5. Busy' => worker'.batch \in taken /\ worker'.batch.sig \in SignalTypes[worker'.ep]
    BY <2>1, <2>4 DEF OnceInv, OnlyTaken, Busy
  <2>6. QED
    BY <2>1, <2>3, <2>4, <2>5, WorkerMoves
<1>6. CASE SaveFails
  <2>1. /\ UNCHANGED <<retry, files, received, twice, unsure, undeleted, taken>>
        /\ worker.pc \in {"create", "write"} /\ GoTo(worker.batch, worker.ep + 1)
    BY <1>6 DEF SaveFails
  <2>2. \A x \in Endpoint : (Kept(x))' = Kept(x)
    BY <2>1 DEF Kept, FileBatches
  <2>3. /\ \A x \in Endpoint : (Unsent(x))' \subseteq Unsent(x)
        /\ Busy' => /\ worker'.batch = worker.batch
                    /\ worker.batch.sig \in SignalTypes[worker'.ep]
    BY <2>1, UnsentMovesOn DEF Busy
  <2>4. Busy' => worker'.batch \in taken /\ worker'.batch.sig \in SignalTypes[worker'.ep]
    BY <2>1, <2>3 DEF OnceInv, OnlyTaken, Busy
  <2>5. QED
    BY <2>1, <2>2, <2>3, <2>4, WorkerMoves
<1>7. CASE WorkerExit
  <2>1. UNCHANGED <<retry, files, received, twice, unsure, undeleted, taken>> /\ worker'.pc = "done"
    BY <1>7 DEF WorkerExit, history, TypeOK, WorkerType
  <2>2. ~Busy' /\ \A x \in Endpoint : (Kept(x))' = Kept(x) /\ (Unsent(x))' = {}
    BY <2>1 DEF Kept, FileBatches, Unsent, InHand, Busy
  <2>3. QED
    BY <2>1, <2>2, WorkerMoves
<1>8. QED
  BY <1>1, <1>2, <1>3, <1>4, <1>5, <1>6, <1>7 DEF Worker

LEMMA InitOnce == Init => OnceInv
<1> SUFFICES ASSUME Init PROVE OnceInv
  OBVIOUS
<1>1. \A e \in Endpoint : Unsent(e) = {} /\ Kept(e) = {} /\ twice[e] = {}
  BY DEF Init, Unsent, InHand, Kept, FileBatches, IdleWorker, IdleRetry
<1>2. QED
  BY <1>1, InitFresh DEF OnceInv, Clean

LEMMA NextOnce == TypeOK /\ OnceInv /\ [Next]_vars => OnceInv'
<1> SUFFICES ASSUME TypeOK, OnceInv, [Next]_vars PROVE OnceInv'
  OBVIOUS
<1>1. Fresh'
  BY NextFresh DEF OnceInv
<1>2. OnlyTaken' /\ \A x \in Endpoint : (Clean(x))'
  <2>1. CASE UNCHANGED vars
    <3>1. UNCHANGED <<worker, retry, files, received, twice, unsure, undeleted, taken>>
      BY <2>1 DEF vars, history
    <3>2. \A x \in Endpoint : /\ (Unsent(x))' = Unsent(x) /\ (Kept(x))' = Kept(x)
      BY <3>1 DEF Unsent, InHand, Kept, FileBatches
    <3>3. Busy' => worker'.batch \in taken /\ worker'.batch.sig \in SignalTypes[worker'.ep]
      BY <3>1 DEF OnceInv, OnlyTaken, Busy
    <3>4. QED
      BY <3>1, <3>2, <3>3, WorkerMoves
  <2>2. QED
    BY <2>1, WorkerKeepsOnce, RetryKeepsOnce, OutsideKeepsOnce, CrashKeepsOnce DEF Next
<1>3. QED
  BY <1>1, <1>2 DEF OnceInv

\* An endpoint accepts a batch again only when nobody has learnt that it accepted it,
\* or when the deletion of its file failed: but for these the worker and the retry
\* workers never send what is known to have arrived, however their steps, crashes and
\* deletions interleave.
THEOREM ForwarderDuplicates == Spec => []DuplicatesExplained
<1>1. OnceInv => DuplicatesExplained
  BY DEF OnceInv, Clean, Excused, DuplicatesExplained
<1>2. QED
  BY <1>1, InitType, NextType, InitOnce, NextOnce, PTL DEF Spec

\* No batch is at the same time still to be sent to an endpoint by the worker and in
\* that endpoint's files or in the list its retry worker goes through.
OneSender == \A e \in Endpoint : Unsent(e) \cap Kept(e) = {}

\* The worker and a retry worker never compete for a batch, although they share the
\* directory and the retry worker takes no lock.
THEOREM ForwarderOneSender == Spec => []OneSender
<1>1. OnceInv => OneSender
  BY DEF OnceInv, Clean, OneSender
<1>2. QED
  BY <1>1, InitType, NextType, InitOnce, NextOnce, PTL DEF Spec

-----------------------------------------------------------------------------
(* The circuit breaker.                                                    *)

\* Each method of the breaker keeps the state in agreement with the count.
LEMMA MethodsKeepThreshold ==
  ASSUME NEW b \in BreakerType,
         b.state = "closed" <=> b.failCount < MaxFailures,
         b.state = "half-open" => b.waited
  PROVE  /\ Granted(b) => /\ Allow(b) \in BreakerType
                          /\ Allow(b).failCount = b.failCount
                          /\ Allow(b).state = "closed" <=> b.failCount < MaxFailures
                          /\ Allow(b).state = "half-open" => Allow(b).waited
         /\ /\ Success(b) \in BreakerType
            /\ Success(b).failCount = 0 /\ Success(b).state = "closed"
         /\ /\ Failure(b) \in BreakerType
            /\ Failure(b).failCount = Count(b)
            /\ Failure(b).state = "closed" <=> Count(b) < MaxFailures
            /\ Failure(b).state # "half-open"
         /\ /\ Elapse(b) \in BreakerType
            /\ Elapse(b).failCount = b.failCount /\ Elapse(b).state = b.state
            /\ Elapse(b).waited
<1> USE BreakerAssumption
<1>0. /\ b.state \in State /\ b.failCount \in 0..MaxFailures /\ b.waited \in BOOLEAN
      /\ b = [state |-> b.state, failCount |-> b.failCount, waited |-> b.waited]
  BY DEF BreakerType
<1>1. ASSUME Granted(b)
      PROVE  /\ Allow(b) \in BreakerType
             /\ Allow(b).failCount = b.failCount
             /\ Allow(b).state = "closed" <=> b.failCount < MaxFailures
             /\ Allow(b).state = "half-open" => Allow(b).waited
  <2>1. CASE b.state = "open"
    <3>1. Allow(b) = [b EXCEPT !.state = "half-open"] /\ b.waited
      BY <1>1, <2>1 DEF Granted, Allow
    <3>2. QED
      BY <1>0, <2>1, <3>1 DEF BreakerType, State
  <2>2. CASE b.state # "open"
    BY <2>2 DEF Allow
  <2>3. QED
    BY <2>1, <2>2
<1>2. /\ Success(b) \in BreakerType
      /\ Success(b).failCount = 0 /\ Success(b).state = "closed"
  BY <1>0 DEF Success, BreakerType, State
<1>3. /\ Failure(b) \in BreakerType
      /\ Failure(b).failCount = Count(b)
      /\ Failure(b).state = "closed" <=> Count(b) < MaxFailures
      /\ Failure(b).state # "half-open"
  <2>1. Count(b) \in 0..MaxFailures
    BY <1>0 DEF Count
  <2>2. b.state = "half-open" => ~(Count(b) < MaxFailures)
    BY <1>0 DEF Count
  <2>3. b.state = "open" => ~(Count(b) < MaxFailures)
    BY <1>0 DEF Count
  <2>4. QED
    BY <1>0, <2>1, <2>2, <2>3 DEF Failure, BreakerType, State
<1>4. /\ Elapse(b) \in BreakerType
      /\ Elapse(b).failCount = b.failCount /\ Elapse(b).state = b.state
      /\ Elapse(b).waited
  BY <1>0 DEF Elapse, BreakerType
<1>5. QED
  BY <1>1, <1>2, <1>3, <1>4

\* The threshold invariant, strengthened by the meaning of failCount.
GateInv ==
  /\ GateTypeOK
  /\ gate.failCount = failures
  /\ ClosedIffBelowThreshold
  /\ TrialOnlyAfterWait

\* The breaker starts closed with no failure counted.
LEMMA InitGate == GateInit => GateInv
BY BreakerAssumption
DEF GateInit, GateInv, GateTypeOK, ClosedIffBelowThreshold, TrialOnlyAfterWait,
    NewBreaker, BreakerType, State

\* Every step of a caller, of the clock and of the endpoint keeps the invariant.
LEMMA NextGate == GateInv /\ [GateNext]_gateVars => GateInv'
<1> SUFFICES ASSUME GateInv, [GateNext]_gateVars
             PROVE  GateInv'
  OBVIOUS
<1> USE BreakerAssumption
    DEF GateInv, GateTypeOK, ClosedIffBelowThreshold, TrialOnlyAfterWait
<1>0. /\ gate \in BreakerType
      /\ request \in [Caller -> State \cup {"idle"}]
      /\ answering \in BOOLEAN
      /\ failures \in 0..MaxFailures
      /\ gate.failCount = failures
      /\ gate.state = "closed" <=> gate.failCount < MaxFailures
      /\ gate.state = "half-open" => gate.waited
  OBVIOUS
<1>1. ASSUME NEW c \in Caller, Ask(c)
      PROVE  GateInv'
  <2>1. gate' = Allow(gate) /\ Granted(gate) /\ UNCHANGED <<answering, failures>>
    BY <1>1 DEF Ask
  <2>2. gate' \in BreakerType
    BY <1>0, <2>1, MethodsKeepThreshold
  <2>3. request' \in [Caller -> State \cup {"idle"}]
    BY <2>2, <1>0, <1>1 DEF Ask, BreakerType
  <2>4. QED
    BY <2>1, <2>2, <2>3, <1>0, MethodsKeepThreshold
<1>2. ASSUME NEW c \in Caller, Succeed(c)
      PROVE  GateInv'
  <2>1. gate' = Success(gate) /\ failures' = 0 /\ UNCHANGED answering
    BY <1>2 DEF Succeed
  <2>2. request' \in [Caller -> State \cup {"idle"}]
    BY <1>0, <1>2 DEF Succeed
  <2>3. QED
    BY <2>1, <2>2, <1>0, MethodsKeepThreshold
<1>3. ASSUME NEW c \in Caller, Fail(c)
      PROVE  GateInv'
  <2>1. gate' = Failure(gate) /\ failures' = Count(gate) /\ UNCHANGED answering
    BY <1>0, <1>3 DEF Fail, Count
  <2>2. request' \in [Caller -> State \cup {"idle"}]
    BY <1>0, <1>3 DEF Fail
  <2>3. failures' \in 0..MaxFailures
    BY <1>0, <1>3 DEF Fail
  <2>4. QED
    BY <2>1, <2>2, <2>3, <1>0, MethodsKeepThreshold
<1>4. CASE GateWait
  BY <1>0, <1>4, MethodsKeepThreshold DEF GateWait
<1>5. CASE GateFlip
  BY <1>0, <1>5 DEF GateFlip
<1>6. ASSUME NEW c \in Caller, Vanish(c)
      PROVE  GateInv'
  <2>1. request' \in [Caller -> State \cup {"idle"}]
    BY <1>0, <1>6 DEF Vanish
  <2>2. QED
    BY <2>1, <1>0, <1>6 DEF Vanish
<1>7. CASE UNCHANGED gateVars
  BY <1>0, <1>7 DEF gateVars
<1>8. QED
  BY <1>1, <1>2, <1>3, <1>4, <1>5, <1>6, <1>7 DEF GateNext

\* The invariant holds in every reachable state.
LEMMA AlwaysGate == GateSpec => []GateInv
BY InitGate, NextGate, PTL DEF GateSpec

\* Type correctness.
THEOREM BreakerTypeCorrect == GateSpec => []GateTypeOK
BY AlwaysGate, PTL DEF GateInv

\* Whatever order the answers of any number of callers come in, the breaker is
\* closed exactly below the threshold.
THEOREM ThresholdHolds == GateSpec => []ClosedIffBelowThreshold
BY AlwaysGate, PTL DEF GateInv

\* A trial is only ever sent when openDuration has passed since the last failure.
THEOREM TrialsWait == GateSpec => []TrialOnlyAfterWait
BY AlwaysGate, PTL DEF GateInv

\* What the two say of one breaker, for the breakers of the forwarder.
Sound(b) == /\ b.state = "closed" <=> b.failCount < MaxFailures
            /\ b.state = "half-open" => b.waited

BreakersSound == \A e \in Endpoint : Sound(breaker[e])

\* A step leaves a breaker alone, calls one of its methods or makes a new one.
LEMMA StepsCallMethods ==
  ASSUME TypeOK, [Next]_vars, NEW e \in Endpoint
  PROVE  \/ breaker'[e] \in {breaker[e], Success(breaker[e]), Failure(breaker[e]),
                            Elapse(breaker[e]), NewBreaker}
         \/ Granted(breaker[e]) /\ breaker'[e] = Allow(breaker[e])
<1> USE DEF TypeOK
<1>1. ASSUME NEW x \in Endpoint, NEW b, NEW o, Answer(x, b, o)
      PROVE  breaker'[e] \in {breaker[e], Success(breaker[e]), Failure(breaker[e])}
  BY <1>1 DEF Answer
<1>2. CASE Worker
  <2>1. worker.ep \in Endpoint
    BY DEF WorkerType
  <2>2. CASE Try
    BY <2>1, <2>2 DEF Try
  <2>3. CASE Sent
    BY <1>1, <2>1, <2>3 DEF Sent
  <2>4. CASE \/ \E s \in Signal : Take(s)
             \/ Create \/ Write \/ SaveFails \/ WorkerExit
    BY <2>4 DEF Take, Create, Write, SaveFails, WorkerExit
  <2>5. QED
    BY <1>2, <2>2, <2>3, <2>4 DEF Worker
<1>3. ASSUME NEW x \in Endpoint, Read(x)
      PROVE  breaker'[e] = breaker[e] \/ (Granted(breaker[e]) /\ breaker'[e] = Allow(breaker[e]))
  BY <1>3 DEF Read, Granted, Allow
<1>4. ASSUME NEW x \in Endpoint, Resent(x)
      PROVE  breaker'[e] \in {breaker[e], Success(breaker[e]), Failure(breaker[e])}
  BY <1>1, <1>4 DEF Resent
<1>5. ASSUME NEW x \in Endpoint,
             \/ Tick(x) \/ List(x) \/ NextSignal(x)
             \/ Delete(x) \/ DeleteFails(x) \/ RetryExit(x)
      PROVE  breaker' = breaker
  BY <1>5 DEF Tick, List, NextSignal, Delete, DeleteFails, RetryExit
<1>6. ASSUME NEW x \in Endpoint, Wait(x)
      PROVE  breaker'[e] \in {breaker[e], Elapse(breaker[e])}
  BY <1>6 DEF Wait
<1>7. ASSUME NEW x \in Endpoint, Flip(x) \/ RemoveByHand(x)
      PROVE  breaker' = breaker
  BY <1>7 DEF Flip, RemoveByHand
<1>8. CASE Stop \/ \E s \in Signal : Forward(s)
  BY <1>8 DEF Stop, Forward
<1>9. CASE Crash
  BY <1>9 DEF Crash
<1>10. CASE UNCHANGED vars
  BY <1>10 DEF vars
<1>11. QED
  BY <1>2, <1>3, <1>4, <1>5, <1>6, <1>7, <1>8, <1>9, <1>10 DEF Next, Retry

\* The two goroutines of an endpoint, whose answers may come in any order, and a
\* crash at any point leave every breaker closed exactly below the threshold.
THEOREM ForwarderBreakersSound == Spec => []BreakersSound
<1>1. Init => BreakersSound
  BY BreakerAssumption DEF Init, BreakersSound, Sound, NewBreaker
<1>2. TypeOK /\ BreakersSound /\ [Next]_vars => BreakersSound'
  <2> SUFFICES ASSUME TypeOK, BreakersSound, [Next]_vars, NEW e \in Endpoint
               PROVE  Sound(breaker'[e])
    BY DEF BreakersSound, Sound
  <2>1. breaker[e] \in BreakerType /\ Sound(breaker[e])
    BY DEF TypeOK, BreakersSound
  <2>2. Sound(NewBreaker)
    BY BreakerAssumption DEF Sound, NewBreaker
  <2>3. Sound(Success(breaker[e]))
    BY BreakerAssumption DEF Sound, Success
  <2>4. /\ Sound(Failure(breaker[e])) /\ Sound(Elapse(breaker[e]))
        /\ Granted(breaker[e]) => Sound(Allow(breaker[e]))
    BY <2>1, MethodsKeepThreshold DEF Sound
  <2>5. QED
    BY <2>1, <2>2, <2>3, <2>4, StepsCallMethods
<1>3. QED
  BY <1>1, <1>2, InitType, NextType, PTL DEF Spec

=============================================================================
