--------------------------- MODULE ProcessorProofs ---------------------------
(***************************************************************************)
(* Proofs about Processor, for any number of signals and callers, any      *)
(* queue and batch size, with and without DropOnFull.                      *)
(***************************************************************************)
EXTENDS Processor, SequenceTheorems, TLAPS

-----------------------------------------------------------------------------
(* Sequences: the three ways a record moves along handed \o batch \o queue. *)

\* A record sent to the channel is appended to the whole.
LEMMA AppendAtEnd ==
  ASSUME NEW h \in Seq(Record), NEW b \in Seq(Record), NEW q \in Seq(Record), NEW x \in Record
  PROVE  Append(h \o b \o q, x) = h \o b \o Append(q, x)
<1>1. h \o b \in Seq(Record) /\ h \o b \o q \in Seq(Record) /\ <<x>> \in Seq(Record)
  BY ConcatProperties
<1>2. Append(h \o b \o q, x) = (h \o b \o q) \o <<x>> /\ Append(q, x) = q \o <<x>>
  BY <1>1, AppendIsConcat
<1>3. QED
  BY <1>1, <1>2, ConcatAssociative

\* A record received from the channel moves to the end of the batch.
LEMMA MoveAcross ==
  ASSUME NEW h \in Seq(Record), NEW b \in Seq(Record), NEW q \in Seq(Record), q # <<>>
  PROVE  /\ Head(q) \in Record /\ Tail(q) \in Seq(Record)
         /\ Append(b, Head(q)) \in Seq(Record)
         /\ h \o b \o q = h \o Append(b, Head(q)) \o Tail(q)
<1>1. Head(q) \in Record /\ Tail(q) \in Seq(Record) /\ <<Head(q)>> \in Seq(Record)
  BY HeadTailProperties
<1>2. q = <<Head(q)>> \o Tail(q)
  <2>1. <<Head(q)>> \o Tail(q) \in Seq(Record) /\ Len(<<Head(q)>> \o Tail(q)) = Len(q)
    BY <1>1, HeadTailProperties, ConcatProperties, EmptySeq
  <2>2. \A i \in 1..Len(q) : q[i] = (<<Head(q)>> \o Tail(q))[i]
    BY <1>1, HeadTailProperties, ConcatProperties, EmptySeq
  <2>3. QED
    BY <2>1, <2>2, SeqEqual
<1>3. Append(b, Head(q)) = b \o <<Head(q)>> /\ Append(b, Head(q)) \in Seq(Record)
  BY <1>1, AppendIsConcat, AppendProperties
<1>4. h \o b \in Seq(Record)
  BY ConcatProperties
<1>5. h \o b \o q = h \o b \o (<<Head(q)>> \o Tail(q))
  BY <1>2
<1>6. h \o b \o (<<Head(q)>> \o Tail(q)) = (h \o b \o <<Head(q)>>) \o Tail(q)
  <2>1. \A s, t, u \in Seq(Record) : (s \o t) \o u = s \o (t \o u)
    BY ConcatAssociative
  <2>2. QED
    BY ONLY <1>1, <1>4, <2>1, Zenon
<1>7. h \o b \o <<Head(q)>> = h \o (b \o <<Head(q)>>)
  BY <1>1, ConcatAssociative
<1>8. QED
  BY <1>1, <1>3, <1>5, <1>6, <1>7

\* A batch given to Insert moves to the end of what was handed over.
LEMMA HandOver ==
  ASSUME NEW h \in Seq(Record), NEW b \in Seq(Record), NEW q \in Seq(Record)
  PROVE  /\ h \o b \in Seq(Record)
         /\ h \o b \o q = (h \o b) \o <<>> \o q
         /\ Len(h \o b) = Len(h) + Len(b)
  BY ConcatProperties, ConcatEmptySeq

-----------------------------------------------------------------------------
(* Type correctness.                                                       *)

LEMMA InitType == Init => TypeOK
<1> SUFFICES ASSUME Init
             PROVE  TypeOK
  OBVIOUS
<1>1. <<>> \in Seq(Record)
  BY EmptySeq
<1>2. /\ queue \in [Signal -> Seq(Record)] /\ batch \in [Signal -> Seq(Record)]
      /\ accepted \in [Signal -> Seq(Record)] /\ handed \in [Signal -> Seq(Record)]
  BY <1>1 DEF Init
<1>3. IdleCall \in [sig : Signal, all : SUBSET Record, rest : Seq(Record)]
  BY <1>1, ProcessorAssumption DEF IdleCall, Signal
<1>4. call \in [Caller -> [sig : Signal, all : SUBSET Record, rest : Seq(Record)]]
  BY <1>3 DEF Init
<1>5. offered \in Nat /\ atQuit \in [Signal -> Nat] /\ stage \in 1..(NumSignals + 1)
  BY ProcessorAssumption DEF Init
<1>6. QED
  BY <1>2, <1>4, <1>5 DEF Init, TypeOK

\* What the Push methods do to the call they are in.
LEMMA CallType ==
  ASSUME TypeOK, NEW c \in Caller
  PROVE  /\ IdleCall \in [sig : Signal, all : SUBSET Record, rest : Seq(Record)]
         /\ call[c].rest # <<>> /\ Advance(c)
              => call' \in [Caller -> [sig : Signal, all : SUBSET Record, rest : Seq(Record)]]
<1>1. IdleCall \in [sig : Signal, all : SUBSET Record, rest : Seq(Record)]
  BY ProcessorAssumption DEF IdleCall, Signal
<1>2. ASSUME call[c].rest # <<>>, Advance(c)
      PROVE  call' \in [Caller -> [sig : Signal, all : SUBSET Record, rest : Seq(Record)]]
  <2>1. call[c] \in [sig : Signal, all : SUBSET Record, rest : Seq(Record)]
    BY DEF TypeOK
  <2>2. Tail(call[c].rest) \in Seq(Record)
    BY <1>2, <2>1, HeadTailProperties
  <2>3. QED
    BY <1>1, <1>2, <2>1, <2>2 DEF Advance, TypeOK
<1>3. QED
  BY <1>1, <1>2

\* A Push call takes up a sequence of new records.
LEMMA PushType ==
  ASSUME NEW n \in Nat, NEW k \in Nat
  PROVE  [i \in 1..k |-> n + i] \in Seq(Nat)
<1>1. [i \in 1..k |-> n + i] \in [1..k -> Nat]
  OBVIOUS
<1>2. QED
  BY <1>1

\* Every action keeps the types.
LEMMA NextType == TypeOK /\ [Next]_vars => TypeOK'
<1> SUFFICES ASSUME TypeOK, [Next]_vars
             PROVE  TypeOK'
  OBVIOUS
<1> USE DEF pipe, worker, inputs, control, fanout
<1>0. ASSUME NEW last \in BOOLEAN, BeginFlush(last)
      PROVE  /\ phase' \in {"select", "drain", "flush", "done"}
             /\ stage' \in 1..(NumSignals + 1)
             /\ final' \in BOOLEAN /\ event' \subseteq Record
  BY <1>0, ProcessorAssumption DEF BeginFlush, TypeOK
<1>1. ASSUME NEW c \in Caller, NEW s \in Signal, NEW k \in 1..MaxPush, Push(c, s, k)
      PROVE  TypeOK'
  <2>1. offered + k \in Nat /\ k \in Nat
    BY <1>1, ProcessorAssumption DEF TypeOK
  <2>2. /\ [i \in 1..k |-> offered + i] \in Seq(Record)
        /\ (offered + 1)..(offered + k) \in SUBSET Record
    BY <2>1, PushType DEF TypeOK, Record
  <2>3. call' \in [Caller -> [sig : Signal, all : SUBSET Record, rest : Seq(Record)]]
    BY <1>1, <2>2 DEF Push, TypeOK
  <2>4. QED
    BY <1>1, <2>1, <2>3 DEF Push, TypeOK
<1>2. ASSUME NEW c \in Caller, Enqueue(c)
      PROVE  TypeOK'
  <2>1. call[c].sig \in Signal /\ Head(call[c].rest) \in Record
    BY <1>2, HeadTailProperties DEF Enqueue, TypeOK
  <2>2. /\ queue' \in [Signal -> Seq(Record)]
        /\ accepted' \in [Signal -> Seq(Record)]
    BY <1>2, <2>1, AppendProperties DEF Enqueue, TypeOK
  <2>3. call' \in [Caller -> [sig : Signal, all : SUBSET Record, rest : Seq(Record)]]
    BY <1>2, CallType DEF Enqueue
  <2>4. QED
    BY <1>2, <2>2, <2>3 DEF Enqueue, TypeOK
<1>3. ASSUME NEW c \in Caller, DropRecord(c)
      PROVE  TypeOK'
  <2>1. Head(call[c].rest) \in Record
    BY <1>3, HeadTailProperties DEF DropRecord, TypeOK
  <2>2. call' \in [Caller -> [sig : Signal, all : SUBSET Record, rest : Seq(Record)]]
    BY <1>3, CallType DEF DropRecord
  <2>3. QED
    BY <1>3, <2>1, <2>2 DEF DropRecord, TypeOK
<1>4. ASSUME NEW c \in Caller, GiveUp(c)
      PROVE  TypeOK'
  <2>1. call' \in [Caller -> [sig : Signal, all : SUBSET Record, rest : Seq(Record)]]
    BY <1>4, CallType DEF GiveUp, TypeOK
  <2>2. call[c].all \subseteq Record
    BY <1>4 DEF TypeOK
  <2>3. QED
    BY <1>4, <2>1, <2>2 DEF GiveUp, TypeOK
<1>5. ASSUME NEW s \in Signal, Receive(s)
      PROVE  TypeOK'
  <2>1. /\ queue' \in [Signal -> Seq(Record)]
        /\ batch' \in [Signal -> Seq(Record)]
    BY <1>5, MoveAcross DEF Receive, TypeOK
  <2>2. BeginFlush(FALSE) \/ UNCHANGED worker
    BY <1>5 DEF Receive
  <2>3. QED
    BY <1>0, <1>5, <2>1, <2>2 DEF Receive, TypeOK
<1>6. CASE Tick
  BY <1>0, <1>6 DEF Tick, TypeOK
<1>7. CASE SeeStop
  BY <1>7, ProcessorAssumption DEF SeeStop, TypeOK
<1>8. CASE Drain
  <2>1. /\ queue' \in [Signal -> Seq(Record)]
        /\ batch' \in [Signal -> Seq(Record)]
    BY <1>8, MoveAcross DEF Drain, TypeOK
  <2>2. QED
    BY <1>8, <2>1 DEF Drain, TypeOK
<1>9. CASE DrainNext
  <2>1. CASE BeginFlush(TRUE)
    BY <1>0, <1>9, <2>1 DEF DrainNext, TypeOK
  <2>2. CASE stage < NumSignals /\ stage' = stage + 1 /\ UNCHANGED <<phase, final, event>>
    <3>1. stage' \in 1..(NumSignals + 1)
      BY <2>2, ProcessorAssumption DEF TypeOK
    <3>2. QED
      BY <1>9, <2>2, <3>1 DEF DrainNext, TypeOK
  <2>3. QED
    BY <1>9, <2>1, <2>2 DEF DrainNext
<1>10. CASE Insert
  <2>1. Elements(batch[stage]) \subseteq Record
    BY <1>10, LenProperties, ElementOfSeq DEF Insert, TypeOK, Elements
  <2>2. lost' \subseteq Record /\ event' \subseteq Record
    BY <1>10, <2>1 DEF Insert, InsertLoss, TypeOK
  <2>3. /\ handed' \in [Signal -> Seq(Record)]
        /\ batch' \in [Signal -> Seq(Record)]
    BY <1>10, HandOver, EmptySeq DEF Insert, TypeOK
  <2>4. stage' \in 1..(NumSignals + 1)
    BY <1>10, ProcessorAssumption DEF Insert, TypeOK, Signal
  <2>5. QED
    BY <1>10, <2>2, <2>3, <2>4 DEF Insert, TypeOK
<1>11. CASE EndFlush
  BY <1>11, ProcessorAssumption DEF EndFlush, TypeOK
<1>12. CASE SetOnFlush
  BY <1>12 DEF SetOnFlush, TypeOK
<1>13. CASE Stop \/ Cancel
  <2>1. \A s \in Signal : Len(accepted[s]) \in Nat
    BY LenProperties DEF TypeOK
  <2>2. QED
    BY <1>13, <2>1 DEF Stop, Cancel, MarkQuit, TypeOK
<1>14. ASSUME NEW e \in pending, OnFlush(e)
       PROVE  TypeOK'
  BY <1>14 DEF OnFlush, TypeOK
<1>15. CASE UNCHANGED vars
  BY <1>15 DEF vars, TypeOK
<1>16. QED
  BY <1>1, <1>2, <1>3, <1>4, <1>5, <1>6, <1>7, <1>8, <1>9, <1>10, <1>11, <1>12,
     <1>13, <1>14, <1>15
  DEF Next, Producers, Worker

\* Type correctness.
THEOREM ProcessorTypeCorrect == Spec => []TypeOK
  BY InitType, NextType, PTL DEF Spec

-----------------------------------------------------------------------------
(* FIFO: nothing is lost, duplicated or reordered before the store.        *)

\* A step that changes only what is not in the pipeline keeps FIFO.
LEMMA SamePipe == FIFO /\ UNCHANGED pipe => FIFO'
  BY DEF FIFO, pipe

\* Moving one record from the channel of s to its batch keeps FIFO.
LEMMA MoveKeepsFIFO ==
  ASSUME TypeOK, FIFO, NEW s \in Signal, queue[s] # <<>>,
         queue' = [queue EXCEPT ![s] = Tail(@)],
         batch' = [batch EXCEPT ![s] = Append(@, Head(queue[s]))],
         UNCHANGED <<accepted, handed>>
  PROVE  FIFO'
<1> SUFFICES ASSUME NEW t \in Signal
             PROVE  accepted'[t] = handed'[t] \o batch'[t] \o queue'[t]
  BY DEF FIFO
<1>1. CASE t = s
  <2>0. handed[s] \in Seq(Record) /\ batch[s] \in Seq(Record) /\ queue[s] \in Seq(Record)
    BY DEF TypeOK
  <2>1. handed[s] \o batch[s] \o queue[s]
          = handed[s] \o Append(batch[s], Head(queue[s])) \o Tail(queue[s])
    <3>1. \A h, b, q \in Seq(Record) :
            q # <<>> => h \o b \o q = h \o Append(b, Head(q)) \o Tail(q)
      BY MoveAcross
    <3>2. QED
      BY <2>0, <3>1, Zenon
  <2>2. batch'[s] = Append(batch[s], Head(queue[s])) /\ queue'[s] = Tail(queue[s])
    BY DEF TypeOK
  <2>3. QED
    BY <1>1, <2>1, <2>2 DEF FIFO
<1>2. CASE t # s
  BY <1>2 DEF FIFO, TypeOK
<1>3. QED
  BY <1>1, <1>2

LEMMA NextFIFO == TypeOK /\ FIFO /\ [Next]_vars => FIFO'
<1> SUFFICES ASSUME TypeOK, FIFO, [Next]_vars
             PROVE  FIFO'
  OBVIOUS
<1>1. ASSUME NEW c \in Caller, Enqueue(c)
      PROVE  FIFO'
  <2> DEFINE s == call[c].sig
             r == Head(call[c].rest)
  <2>1. s \in Signal /\ r \in Record
    BY <1>1, HeadTailProperties DEF Enqueue, TypeOK
  <2>0. handed[s] \in Seq(Record) /\ batch[s] \in Seq(Record) /\ queue[s] \in Seq(Record)
    BY <2>1 DEF TypeOK
  <2> HIDE DEF s, r
  <2>2. Append(handed[s] \o batch[s] \o queue[s], r)
          = handed[s] \o batch[s] \o Append(queue[s], r)
    BY <2>0, <2>1, AppendAtEnd
  <2>3. /\ accepted'[s] = Append(accepted[s], r)
        /\ queue'[s] = Append(queue[s], r)
        /\ UNCHANGED <<handed, batch>>
        /\ \A t \in Signal : t # s => accepted'[t] = accepted[t] /\ queue'[t] = queue[t]
    BY <1>1, <2>1 DEF Enqueue, TypeOK, s, r
  <2>4. accepted'[s] = handed'[s] \o batch'[s] \o queue'[s]
    BY <2>1, <2>2, <2>3 DEF FIFO
  <2>5. \A t \in Signal : t # s => accepted'[t] = handed'[t] \o batch'[t] \o queue'[t]
    BY <2>3 DEF FIFO
  <2>6. QED
    BY <2>4, <2>5 DEF FIFO
<1>2. ASSUME NEW s \in Signal, Receive(s)
      PROVE  FIFO'
  BY <1>2, MoveKeepsFIFO DEF Receive
<1>3. CASE Drain
  BY <1>3, MoveKeepsFIFO DEF Drain
<1>4. CASE Insert
  <2> SUFFICES ASSUME NEW t \in Signal
               PROVE  accepted'[t] = handed'[t] \o batch'[t] \o queue'[t]
    BY DEF FIFO
  <2>1. CASE t = stage
    <3>1. handed[t] \o batch[t] \o queue[t] = (handed[t] \o batch[t]) \o <<>> \o queue[t]
      BY HandOver DEF TypeOK
    <3>2. handed'[t] = handed[t] \o batch[t] /\ batch'[t] = <<>>
      BY <1>4, <2>1 DEF Insert, TypeOK
    <3>3. QED
      BY <1>4, <3>1, <3>2 DEF Insert, FIFO
  <2>2. CASE t # stage
    BY <1>4, <2>2 DEF Insert, FIFO, TypeOK
  <2>3. QED
    BY <2>1, <2>2
<1>5. ASSUME NEW c \in Caller,
             \/ \E s \in Signal, k \in 1..MaxPush : Push(c, s, k)
             \/ DropRecord(c)
             \/ GiveUp(c)
      PROVE  FIFO'
  BY <1>5, SamePipe DEF Push, DropRecord, GiveUp
<1>6. CASE Tick \/ SeeStop \/ DrainNext \/ EndFlush \/ SetOnFlush \/ Stop \/ Cancel
  BY <1>6, SamePipe DEF Tick, SeeStop, DrainNext, EndFlush, SetOnFlush, Stop, Cancel
<1>7. ASSUME NEW e \in pending, OnFlush(e)
      PROVE  FIFO'
  BY <1>7, SamePipe DEF OnFlush
<1>8. CASE UNCHANGED vars
  BY <1>8, SamePipe DEF vars
<1>9. QED
  BY <1>1, <1>2, <1>3, <1>4, <1>5, <1>6, <1>7, <1>8 DEF Next, Producers, Worker

LEMMA InitFIFO == Init => FIFO
<1>1. <<>> \o <<>> \o <<>> = <<>>
  BY EmptySeq, ConcatEmptySeq
<1>2. QED
  BY <1>1 DEF Init, FIFO

\* For every signal, whatever flushes and however Insert answers, the records
\* accepted are those handed to the store, then the batch, then the channel.
THEOREM ProcessorFIFO == Spec => []FIFO
<1>1. TypeOK /\ FIFO /\ [Next]_vars => (TypeOK /\ FIFO)'
  BY NextType, NextFIFO
<1>2. QED
  BY InitType, InitFIFO, <1>1, PTL DEF Spec

-----------------------------------------------------------------------------
(* Bounds, and what the drain at shutdown has collected.                   *)

Quitting == stopped \/ ctxDone

\* The phases after the channels have been drained.
Drained == (phase = "flush" /\ final) \/ phase = "done"

\* Where the worker is, and how long its channels and batches are there.
WorkerInv ==
  /\ Bounded
  /\ phase = "flush" => \A s \in Signal : s < stage => Len(batch[s]) = 0
  /\ phase = "done" => \A s \in Signal : Len(batch[s]) = 0
  /\ phase = "drain" => stage \in Signal
  /\ phase = "drain" \/ Drained => Quitting

\* Signals drained so far hold, in the store and the batch, what was accepted
\* before the worker was told to exit.
DrainInv ==
  /\ Quitting => \A s \in Signal : atQuit[s] <= Len(accepted[s])
  /\ \A s \in Signal :
       Drained \/ (phase = "drain" /\ s < stage)
         => atQuit[s] <= Len(handed[s]) + Len(batch[s])

IInv == TypeOK /\ FIFO /\ WorkerInv /\ DrainInv

\* Lengths are numbers, and FIFO adds them up.
LEMMA Lengths ==
  TypeOK => \A s \in Signal : /\ Len(queue[s]) \in Nat /\ Len(batch[s]) \in Nat
                              /\ Len(handed[s]) \in Nat /\ Len(accepted[s]) \in Nat
  BY LenProperties DEF TypeOK

LEMMA FIFOLength ==
  TypeOK /\ FIFO
    => \A s \in Signal :
         Len(accepted[s]) = Len(handed[s]) + Len(batch[s]) + Len(queue[s])
<1> SUFFICES ASSUME TypeOK, FIFO, NEW s \in Signal
             PROVE  Len(accepted[s]) = Len(handed[s]) + Len(batch[s]) + Len(queue[s])
  OBVIOUS
<1>1. /\ handed[s] \in Seq(Record) /\ batch[s] \in Seq(Record)
      /\ queue[s] \in Seq(Record)
  BY DEF TypeOK
<1>2. handed[s] \o batch[s] \in Seq(Record)
  BY <1>1, ConcatProperties
<1>3. Len(handed[s] \o batch[s]) = Len(handed[s]) + Len(batch[s])
  BY <1>1, ConcatProperties
<1>4. Len(handed[s] \o batch[s] \o queue[s])
        = Len(handed[s] \o batch[s]) + Len(queue[s])
  BY <1>1, <1>2, ConcatProperties
<1>5. QED
  BY <1>3, <1>4 DEF FIFO

\* What a step does to the lengths when it moves a record from the channel of s
\* to its batch.
LEMMA MoveLengths ==
  ASSUME TypeOK, NEW s \in Signal, queue[s] # <<>>,
         queue' = [queue EXCEPT ![s] = Tail(@)],
         batch' = [batch EXCEPT ![s] = Append(@, Head(queue[s]))]
  PROVE  /\ Len(queue'[s]) = Len(queue[s]) - 1
         /\ Len(batch'[s]) = Len(batch[s]) + 1
         /\ \A t \in Signal : t # s => queue'[t] = queue[t] /\ batch'[t] = batch[t]
<1>1. queue[s] \in Seq(Record) /\ batch[s] \in Seq(Record)
  BY DEF TypeOK
<1>2. /\ Len(Tail(queue[s])) = Len(queue[s]) - 1
      /\ Head(queue[s]) \in Record
  BY <1>1, HeadTailProperties
<1>3. Len(Append(batch[s], Head(queue[s]))) = Len(batch[s]) + 1
  BY <1>1, <1>2, AppendProperties
<1>4. queue'[s] = Tail(queue[s]) /\ batch'[s] = Append(batch[s], Head(queue[s]))
  BY DEF TypeOK
<1>5. QED
  BY <1>2, <1>3, <1>4 DEF TypeOK

LEMMA InitIInv == Init => IInv
<1> SUFFICES ASSUME Init
             PROVE  IInv
  OBVIOUS
<1>1. Len(<<>>) = 0
  BY EmptySeq
<1>2. WorkerInv
  BY <1>1, ProcessorAssumption
  DEF Init, WorkerInv, Bounded, Drained, Quitting
<1>3. DrainInv
  BY DEF Init, DrainInv, Drained, Quitting
<1>4. QED
  BY <1>2, <1>3, InitType, InitFIFO DEF IInv

\* A step outside the worker that only touches the callers or the callbacks.
LEMMA SameStage ==
  WorkerInv /\ DrainInv /\ UNCHANGED <<pipe, worker, stopped, ctxDone, atQuit>>
    => (WorkerInv /\ DrainInv)'
<1> SUFFICES ASSUME WorkerInv, DrainInv,
                    UNCHANGED <<pipe, worker, stopped, ctxDone, atQuit>>
             PROVE  (WorkerInv /\ DrainInv)'
  OBVIOUS
<1>1. UNCHANGED <<queue, batch, accepted, handed, phase, stage, final,
                  stopped, ctxDone, atQuit>>
  BY DEF pipe, worker
<1>2. WorkerInv'
  BY <1>1 DEF WorkerInv, Bounded, Drained, Quitting
<1>3. Quitting' = Quitting /\ Drained' = Drained
  BY <1>1 DEF Drained, Quitting
<1>4. Quitting => \A s \in Signal : atQuit'[s] <= Len(accepted'[s])
  BY <1>1 DEF DrainInv
<1>5. ASSUME NEW s \in Signal, Drained \/ (phase' = "drain" /\ s < stage')
      PROVE  atQuit'[s] <= Len(handed'[s]) + Len(batch'[s])
  BY <1>1, <1>5 DEF DrainInv
<1>6. QED
  BY <1>2, <1>3, <1>4, <1>5 DEF DrainInv

LEMMA NextIInv == IInv /\ [Next]_vars => IInv'
<1> SUFFICES ASSUME IInv, [Next]_vars
             PROVE  (WorkerInv /\ DrainInv)'
  BY NextType, NextFIFO DEF IInv
<1>0. /\ TypeOK /\ FIFO /\ WorkerInv /\ DrainInv
      /\ \A s \in Signal : /\ Len(queue[s]) \in Nat /\ Len(batch[s]) \in Nat
                           /\ Len(handed[s]) \in Nat /\ Len(accepted[s]) \in Nat
                           /\ atQuit[s] \in Nat
  BY Lengths DEF IInv, TypeOK
<1>1. ASSUME NEW c \in Caller, Enqueue(c)
      PROVE  (WorkerInv /\ DrainInv)'
  <2> DEFINE s == call[c].sig
             r == Head(call[c].rest)
  <2>1. s \in Signal /\ r \in Record
    BY <1>0, <1>1, HeadTailProperties DEF Enqueue, TypeOK
  <2>2. /\ Len(queue[s]) < QueueSize
        /\ queue' = [queue EXCEPT ![s] = Append(@, r)]
        /\ accepted' = [accepted EXCEPT ![s] = Append(@, r)]
        /\ UNCHANGED <<batch, handed, phase, stage, final, stopped, ctxDone, atQuit>>
    BY <1>1 DEF Enqueue, HasRoom, worker, control
  <2> HIDE DEF s, r
  <2>3. queue[s] \in Seq(Record) /\ accepted[s] \in Seq(Record)
    BY <1>0, <2>1 DEF TypeOK
  <2>4. /\ Len(Append(queue[s], r)) = Len(queue[s]) + 1
        /\ Len(Append(accepted[s], r)) = Len(accepted[s]) + 1
    BY <2>1, <2>3, AppendProperties
  <2>5. /\ Len(queue'[s]) = Len(queue[s]) + 1
        /\ Len(accepted'[s]) = Len(accepted[s]) + 1
        /\ \A t \in Signal : t # s => queue'[t] = queue[t] /\ accepted'[t] = accepted[t]
    BY <1>0, <2>1, <2>2, <2>4 DEF TypeOK
  <2>6. \A t \in Signal : Len(queue'[t]) <= QueueSize
    BY <1>0, <2>1, <2>2, <2>5, ProcessorAssumption DEF WorkerInv, Bounded
  <2>7. WorkerInv'
    BY <1>0, <2>2, <2>6 DEF WorkerInv, Bounded, Drained, Quitting
  <2>8. Quitting' => \A t \in Signal : atQuit'[t] <= Len(accepted'[t])
    BY <1>0, <2>1, <2>2, <2>5 DEF DrainInv, Quitting
  <2>9. DrainInv'
    BY <1>0, <2>2, <2>8 DEF DrainInv, Drained, Quitting
  <2>10. QED
    BY <2>7, <2>9
<1>2. ASSUME NEW s \in Signal, Receive(s)
      PROVE  (WorkerInv /\ DrainInv)'
  <2>1. /\ phase = "select" /\ queue[s] # <<>>
        /\ UNCHANGED <<accepted, handed, stopped, ctxDone, atQuit>>
    BY <1>2 DEF Receive, control
  <2>2. /\ Len(queue'[s]) = Len(queue[s]) - 1
        /\ Len(batch'[s]) = Len(batch[s]) + 1
        /\ \A t \in Signal : t # s => queue'[t] = queue[t] /\ batch'[t] = batch[t]
    BY <1>0, <1>2, MoveLengths DEF Receive
  <2>3. \A t \in Signal : Len(queue'[t]) <= QueueSize
    BY <1>0, <2>2, ProcessorAssumption DEF WorkerInv, Bounded
  <2>4. CASE Len(batch[s]) + 1 >= BatchSize
    <3>1. phase' = "flush" /\ stage' = 1 /\ final' = FALSE
      BY <1>2, <2>4 DEF Receive, BatchFull, BeginFlush
    <3>2. \A t \in Signal : ~(t < stage')
      BY <3>1 DEF Signal
    <3>3. QED
      BY <1>0, <2>1, <2>3, <3>1, <3>2 DEF WorkerInv, DrainInv, Bounded, Drained, Quitting
  <2>5. CASE ~(Len(batch[s]) + 1 >= BatchSize)
    <3>1. phase' = "select"
      BY <1>2, <2>1, <2>5 DEF Receive, BatchFull, worker
    <3>2. \A t \in Signal : Len(batch'[t]) < BatchSize
      BY <1>0, <2>1, <2>2, <2>5, ProcessorAssumption DEF WorkerInv, Bounded
    <3>3. QED
      BY <1>0, <2>1, <2>3, <3>1, <3>2 DEF WorkerInv, DrainInv, Bounded, Drained, Quitting
  <2>6. QED
    BY <2>4, <2>5
<1>3. CASE Tick
  <2>1. /\ phase = "select" /\ phase' = "flush" /\ stage' = 1 /\ final' = FALSE
        /\ UNCHANGED <<queue, batch, handed, accepted, stopped, ctxDone, atQuit>>
    BY <1>3 DEF Tick, BeginFlush, pipe, control
  <2>2. \A t \in Signal : ~(t < stage')
    BY <2>1 DEF Signal
  <2>3. QED
    BY <1>0, <2>1, <2>2 DEF WorkerInv, DrainInv, Bounded, Drained, Quitting
<1>4. CASE SeeStop
  <2>1. /\ phase = "select" /\ phase' = "drain" /\ stage' = 1 /\ Quitting
        /\ UNCHANGED <<queue, batch, handed, accepted, stopped, ctxDone, atQuit>>
    BY <1>4 DEF SeeStop, Quitting, pipe, control
  <2>2. (\A t \in Signal : ~(t < stage')) /\ stage' \in Signal
    BY <2>1, ProcessorAssumption DEF Signal
  <2>3. QED
    BY <1>0, <2>1, <2>2 DEF WorkerInv, DrainInv, Bounded, Drained, Quitting
<1>5. CASE Drain
  <2>1. /\ phase = "drain" /\ phase' = "drain" /\ stage \in Signal /\ queue[stage] # <<>>
        /\ UNCHANGED <<accepted, handed, stage, final, stopped, ctxDone, atQuit>>
    BY <1>5 DEF Drain, worker, control
  <2>2. /\ Len(queue'[stage]) = Len(queue[stage]) - 1
        /\ Len(batch'[stage]) = Len(batch[stage]) + 1
        /\ \A t \in Signal : t # stage => queue'[t] = queue[t] /\ batch'[t] = batch[t]
    BY <1>0, <1>5, <2>1, MoveLengths DEF Drain
  <2>3. \A t \in Signal : Len(queue'[t]) <= QueueSize
    BY <1>0, <2>1, <2>2, ProcessorAssumption DEF WorkerInv, Bounded
  <2>4. WorkerInv'
    BY <1>0, <2>1, <2>3 DEF WorkerInv, Bounded, Drained, Quitting
  <2>5. \A t \in Signal : t < stage => batch'[t] = batch[t]
    BY <2>1, <2>2 DEF Signal
  <2>6. DrainInv'
    BY <1>0, <2>1, <2>5 DEF DrainInv, Drained, Quitting
  <2>7. QED
    BY <2>4, <2>6
<1>6. CASE DrainNext
  <2>1. /\ phase = "drain" /\ stage \in Signal /\ queue[stage] = <<>> /\ Quitting
        /\ UNCHANGED <<queue, batch, handed, accepted, stopped, ctxDone, atQuit>>
    BY <1>0, <1>6 DEF DrainNext, WorkerInv, pipe, control
  <2>2. atQuit[stage] <= Len(handed[stage]) + Len(batch[stage])
    <3>1. Len(queue[stage]) = 0
      BY <2>1, EmptySeq
    <3>2. Len(accepted[stage]) = Len(handed[stage]) + Len(batch[stage]) + Len(queue[stage])
      BY <1>0, <2>1, FIFOLength
    <3>3. atQuit[stage] <= Len(accepted[stage])
      BY <1>0, <2>1 DEF DrainInv
    <3>4. /\ Len(handed[stage]) \in Nat /\ Len(batch[stage]) \in Nat
          /\ Len(accepted[stage]) \in Nat /\ atQuit[stage] \in Nat
      BY <1>0, <2>1
    <3>5. Len(accepted[stage]) = Len(handed[stage]) + Len(batch[stage]) + 0
      BY ONLY <3>1, <3>2
    <3>6. \A n, a, h, b \in Nat : n <= a /\ a = h + b + 0 => n <= h + b
      OBVIOUS
    <3>7. QED
      BY ONLY <3>3, <3>4, <3>5, <3>6, Zenon
  <2>3. \A t \in Signal : t <= stage => atQuit[t] <= Len(handed[t]) + Len(batch[t])
    <3>1. \A t \in Signal : t <= stage => t < stage \/ t = stage
      BY <2>1 DEF Signal
    <3>2. \A t \in Signal : t < stage => atQuit[t] <= Len(handed[t]) + Len(batch[t])
      BY <1>0, <2>1 DEF DrainInv
    <3>3. QED
      BY <2>2, <3>1, <3>2
  <2>4. CASE stage < NumSignals
    <3>1. phase' = "drain" /\ stage' = stage + 1 /\ stage' \in Signal /\ final' = final
      BY <1>6, <2>1, <2>4, ProcessorAssumption DEF DrainNext, Signal
    <3>2. \A t \in Signal : t < stage' => t <= stage
      BY <2>1, <3>1 DEF Signal
    <3>3. WorkerInv'
      BY <1>0, <2>1, <3>1 DEF WorkerInv, Bounded, Drained, Quitting
    <3>4. DrainInv'
      BY <1>0, <2>1, <2>3, <3>1, <3>2 DEF DrainInv, Drained, Quitting
    <3>5. QED
      BY <3>3, <3>4
  <2>5. CASE ~(stage < NumSignals)
    <3>1. phase' = "flush" /\ stage' = 1
      BY <1>6, <2>5 DEF DrainNext, BeginFlush
    <3>2. \A t \in Signal : t <= stage /\ ~(t < stage')
      BY <2>1, <2>5, <3>1, ProcessorAssumption DEF Signal
    <3>3. WorkerInv'
      BY <1>0, <2>1, <3>1, <3>2 DEF WorkerInv, Bounded, Drained, Quitting
    <3>4. DrainInv'
      BY <1>0, <2>1, <2>3, <3>1, <3>2 DEF DrainInv, Drained, Quitting
    <3>5. QED
      BY <3>3, <3>4
  <2>6. QED
    BY <2>4, <2>5
<1>7. CASE Insert
  <2>1. /\ phase = "flush" /\ phase' = "flush" /\ stage \in Signal /\ stage' = stage + 1
        /\ UNCHANGED <<queue, accepted, final, stopped, ctxDone, atQuit>>
    BY <1>7 DEF Insert, control
  <2>2. /\ handed' = [handed EXCEPT ![stage] = @ \o batch[stage]]
        /\ batch' = [batch EXCEPT ![stage] = <<>>]
    BY <1>7 DEF Insert
  <2>3. handed[stage] \in Seq(Record) /\ batch[stage] \in Seq(Record)
    BY <1>0, <2>1 DEF TypeOK
  <2>4. Len(handed[stage] \o batch[stage]) = Len(handed[stage]) + Len(batch[stage])
    BY <2>3, ConcatProperties
  <2>5. /\ Len(handed'[stage]) = Len(handed[stage]) + Len(batch[stage])
        /\ Len(batch'[stage]) = 0
        /\ \A t \in Signal : t # stage => handed'[t] = handed[t] /\ batch'[t] = batch[t]
    BY <1>0, <2>1, <2>2, <2>4, EmptySeq DEF TypeOK
  <2>6. \A t \in Signal : t < stage' => t = stage \/ t < stage
    BY <2>1 DEF Signal
  <2>7. \A t \in Signal : t < stage' => Len(batch'[t]) = 0
    BY <1>0, <2>1, <2>5, <2>6 DEF WorkerInv
  <2>8. WorkerInv'
    BY <1>0, <2>1, <2>7 DEF WorkerInv, Bounded, Drained, Quitting
  <2>9. \A t \in Signal :
          Len(handed'[t]) + Len(batch'[t]) = Len(handed[t]) + Len(batch[t])
    <3>1. Len(handed[stage]) \in Nat /\ Len(batch[stage]) \in Nat
      BY <1>0, <2>1
    <3>2. Len(handed'[stage]) + Len(batch'[stage]) = Len(handed[stage]) + Len(batch[stage])
      BY <2>5, <3>1
    <3>3. QED
      BY <2>5, <3>2
  <2>10. DrainInv'
    BY <1>0, <2>1, <2>9 DEF DrainInv, Drained, Quitting
  <2>11. QED
    BY <2>8, <2>10
<1>8. CASE EndFlush
  <2>1. /\ phase = "flush" /\ stage = NumSignals + 1
        /\ phase' = (IF final THEN "done" ELSE "select") /\ stage' = 1
        /\ UNCHANGED <<queue, batch, handed, accepted, final, stopped, ctxDone, atQuit>>
    BY <1>8 DEF EndFlush, pipe, control
  <2>2. \A t \in Signal : t < stage
    BY <2>1, ProcessorAssumption DEF Signal
  <2>3. \A t \in Signal : Len(batch[t]) = 0 /\ Len(batch[t]) < BatchSize
    BY <1>0, <2>1, <2>2, ProcessorAssumption DEF WorkerInv
  <2>4. WorkerInv'
    BY <1>0, <2>1, <2>3 DEF WorkerInv, Bounded, Drained, Quitting
  <2>5. DrainInv'
    BY <1>0, <2>1 DEF DrainInv, Drained, Quitting
  <2>6. QED
    BY <2>4, <2>5
<1>9. CASE Stop \/ Cancel
  <2>1. /\ UNCHANGED <<queue, batch, handed, accepted, phase, stage, final>>
        /\ Quitting' /\ MarkQuit
    BY <1>9 DEF Stop, Cancel, Quitting, pipe, worker
  <2>2. WorkerInv'
    BY <1>0, <2>1 DEF WorkerInv, Bounded, Drained
  <2>3. CASE Quitting
    <3>1. atQuit' = atQuit
      BY <2>1, <2>3 DEF MarkQuit, Quitting
    <3>2. QED
      BY <1>0, <2>1, <2>2, <2>3, <3>1 DEF DrainInv, Drained
  <2>4. CASE ~Quitting
    <3>1. \A t \in Signal : atQuit'[t] = Len(accepted[t])
      BY <2>1, <2>4 DEF MarkQuit, Quitting
    <3>2. ~Drained /\ phase # "drain"
      BY <1>0, <2>4 DEF WorkerInv
    <3>3. \A t \in Signal : atQuit'[t] <= Len(accepted'[t])
      BY <1>0, <2>1, <3>1
    <3>4. DrainInv'
      BY <2>1, <3>2, <3>3 DEF DrainInv, Drained
    <3>5. QED
      BY <2>2, <3>4
  <2>5. QED
    BY <2>3, <2>4
<1>10. ASSUME NEW c \in Caller,
              \/ \E s \in Signal, k \in 1..MaxPush : Push(c, s, k)
              \/ DropRecord(c)
              \/ GiveUp(c)
       PROVE  (WorkerInv /\ DrainInv)'
  BY <1>0, <1>10, SameStage DEF Push, DropRecord, GiveUp, control
<1>11. CASE SetOnFlush
  BY <1>0, <1>11, SameStage DEF SetOnFlush
<1>12. ASSUME NEW e \in pending, OnFlush(e)
       PROVE  (WorkerInv /\ DrainInv)'
  BY <1>0, <1>12, SameStage DEF OnFlush, control
<1>13. CASE UNCHANGED vars
  BY <1>0, <1>13, SameStage DEF vars, control
<1>14. QED
  BY <1>1, <1>2, <1>3, <1>4, <1>5, <1>6, <1>7, <1>8, <1>9, <1>10, <1>11, <1>12, <1>13
  DEF Next, Producers, Worker

\* The invariant holds in every reachable state.
LEMMA AlwaysIInv == Spec => []IInv
  BY InitIInv, NextIInv, PTL DEF Spec

\* Channels never exceed QueueSize and waiting batches stay below BatchSize.
THEOREM ProcessorBounded == Spec => []Bounded
<1>1. IInv => Bounded
  BY DEF IInv, WorkerInv
<1>2. QED
  BY AlwaysIInv, <1>1, PTL

\* Whatever the interleaving of callers, flushes, Stop and Cancel, the worker does
\* not exit before it has handed over all that was accepted before it was told to.
THEOREM ProcessorDrainedAtQuit == Spec => []DrainedAtQuit
<1>1. IInv => DrainedAtQuit
  BY Lengths DEF IInv, WorkerInv, DrainInv, Drained, DrainedAtQuit, TypeOK
<1>2. QED
  BY AlwaysIInv, <1>1, PTL

-----------------------------------------------------------------------------
(* What becomes of every record: it is accepted, dropped, rejected or still *)
(* to be sent, and it is fanned out once.  First the elements of sequences. *)

\* Append adds one element.
LEMMA ElementsOfAppend ==
  ASSUME NEW q \in Seq(Record), NEW x \in Record
  PROVE  Elements(Append(q, x)) = Elements(q) \cup {x}
<1>1. /\ Len(Append(q, x)) = Len(q) + 1 /\ Len(q) \in Nat
      /\ Append(q, x)[Len(q) + 1] = x
      /\ \A i \in 1..Len(q) : Append(q, x)[i] = q[i]
  BY AppendProperties, LenProperties
<1>2. 1..(Len(q) + 1) = 1..Len(q) \cup {Len(q) + 1}
  BY <1>1
<1>3. QED
  BY <1>1, <1>2 DEF Elements

\* Concatenation joins the elements.
LEMMA ElementsOfConcat ==
  ASSUME NEW p \in Seq(Record), NEW q \in Seq(Record)
  PROVE  Elements(p \o q) = Elements(p) \cup Elements(q)
<1>1. /\ Len(p \o q) = Len(p) + Len(q) /\ Len(p) \in Nat /\ Len(q) \in Nat
      /\ \A i \in 1..Len(p) + Len(q) :
           (p \o q)[i] = IF i <= Len(p) THEN p[i] ELSE q[i - Len(p)]
  BY ConcatProperties, LenProperties
<1>2. \A i \in 1..Len(p) : i \in 1..Len(p) + Len(q) /\ (p \o q)[i] = p[i]
  BY <1>1
<1>3. \A i \in 1..Len(q) : i + Len(p) \in 1..Len(p) + Len(q) /\ (p \o q)[i + Len(p)] = q[i]
  BY <1>1
<1>4. \A i \in 1..Len(p) + Len(q) :
        \/ i \in 1..Len(p) /\ (p \o q)[i] = p[i]
        \/ i - Len(p) \in 1..Len(q) /\ (p \o q)[i] = q[i - Len(p)]
  BY <1>1
<1>5. ASSUME NEW x \in Elements(p \o q) PROVE x \in Elements(p) \cup Elements(q)
  <2>1. PICK i \in 1..Len(p) + Len(q) : x = (p \o q)[i]
    BY <1>1, <1>5 DEF Elements
  <2>2. CASE i \in 1..Len(p) /\ x = p[i]
    BY <2>2 DEF Elements
  <2>3. CASE i - Len(p) \in 1..Len(q) /\ x = q[i - Len(p)]
    BY <2>3 DEF Elements
  <2>4. QED
    BY <1>4, <2>1, <2>2, <2>3
<1>6. ASSUME NEW x \in Elements(p) PROVE x \in Elements(p \o q)
  BY <1>1, <1>2, <1>6 DEF Elements
<1>7. ASSUME NEW x \in Elements(q) PROVE x \in Elements(p \o q)
  BY <1>1, <1>3, <1>7 DEF Elements
<1>8. QED
  BY <1>5, <1>6, <1>7

\* Nothing occurs twice.
Distinct(q) == \A i, j \in 1..Len(q) : i # j => q[i] # q[j]

\* The head and the tail share nothing when no element repeats.
LEMMA ElementsOfTail ==
  ASSUME NEW q \in Seq(Record), q # <<>>
  PROVE  /\ Elements(q) = {Head(q)} \cup Elements(Tail(q))
         /\ Distinct(q) => Head(q) \notin Elements(Tail(q)) /\ Distinct(Tail(q))
<1>1. /\ Len(q) \in Nat \ {0} /\ Len(Tail(q)) = Len(q) - 1 /\ Head(q) = q[1]
      /\ \A i \in 1..Len(q) - 1 : Tail(q)[i] = q[i + 1]
  BY HeadTailProperties, LenProperties, EmptySeq
<1>2. \A i \in 1..Len(q) : i = 1 \/ (i - 1 \in 1..Len(q) - 1 /\ Tail(q)[i - 1] = q[i])
  BY <1>1
<1>3. \A i \in 1..Len(q) - 1 : i + 1 \in 1..Len(q) /\ i + 1 # 1
  BY <1>1
<1>4. 1 \in 1..Len(q)
  BY <1>1
<1>5. Elements(q) = {Head(q)} \cup Elements(Tail(q))
  <2>1. ASSUME NEW x \in Elements(q), x # Head(q) PROVE x \in Elements(Tail(q))
    <3>1. PICK i \in 1..Len(q) : x = q[i]
      BY <2>1 DEF Elements
    <3>2. i - 1 \in 1..Len(q) - 1 /\ Tail(q)[i - 1] = x
      BY <1>1, <1>2, <2>1, <3>1
    <3>3. QED
      BY <1>1, <3>2 DEF Elements
  <2>2. ASSUME NEW x \in Elements(Tail(q)) PROVE x \in Elements(q)
    BY <1>1, <1>3, <2>2 DEF Elements
  <2>3. Head(q) \in Elements(q)
    BY <1>1, <1>4 DEF Elements
  <2>4. QED
    BY <2>1, <2>2, <2>3
<1>6. ASSUME Distinct(q) PROVE Head(q) \notin Elements(Tail(q))
  BY <1>1, <1>3, <1>4, <1>6 DEF Elements, Distinct
<1>7. ASSUME Distinct(q) PROVE Distinct(Tail(q))
  <2>1. \A i, j \in 1..Len(q) - 1 : i # j => i + 1 # j + 1
    OBVIOUS
  <2>2. QED
    BY <1>1, <1>3, <1>7, <2>1 DEF Distinct
<1>8. QED
  BY <1>5, <1>6, <1>7

\* Two parts of a sequence without repetition have nothing in common.
LEMMA DistinctParts ==
  ASSUME NEW p \in Seq(Record), NEW q \in Seq(Record), Distinct(p \o q)
  PROVE  Distinct(p) /\ Elements(p) \cap Elements(q) = {}
<1>1. /\ Len(p \o q) = Len(p) + Len(q) /\ Len(p) \in Nat /\ Len(q) \in Nat
      /\ \A i \in 1..Len(p) + Len(q) :
           (p \o q)[i] = IF i <= Len(p) THEN p[i] ELSE q[i - Len(p)]
  BY ConcatProperties, LenProperties
<1>2. \A i \in 1..Len(p) : i \in 1..Len(p \o q) /\ (p \o q)[i] = p[i]
  BY <1>1
<1>3. \A i \in 1..Len(q) : i + Len(p) \in 1..Len(p \o q) /\ (p \o q)[i + Len(p)] = q[i]
  BY <1>1
<1>4. \A i \in 1..Len(p), j \in 1..Len(q) : i # j + Len(p)
  BY <1>1
<1>5. Distinct(p)
  BY <1>2 DEF Distinct
<1>6. \A i \in 1..Len(p), j \in 1..Len(q) : p[i] # q[j]
  BY <1>2, <1>3, <1>4 DEF Distinct
<1>7. QED
  BY <1>5, <1>6 DEF Elements

\* The empty sequence has no elements and repeats none.
LEMMA NothingInEmpty == Elements(<<>>) = {} /\ Distinct(<<>>)
  BY EmptySeq DEF Elements, Distinct

-----------------------------------------------------------------------------
(* The accounts *)

Rest(c) == Elements(call[c].rest)

\* What a call still has to send is its own and nowhere else.
OwnRecords ==
  /\ \A c \in Caller : Rest(c) \subseteq call[c].all /\ call[c].all \subseteq 1..offered
  /\ \A c \in Caller : Distinct(call[c].rest)
  /\ \A c, d \in Caller : c # d => Rest(c) \cap Rest(d) = {}
  /\ \A c \in Caller : Rest(c) \cap (Accepted \cup dropped) = {}
  /\ Accepted \cup dropped \subseteq 1..offered

\* The channels share no record, and none has one twice.
AcceptedOnce ==
  /\ \A s \in Signal : Distinct(accepted[s])
  /\ \A s, t \in Signal : s # t => Elements(accepted[s]) \cap Elements(accepted[t]) = {}

Accounts == OwnRecords /\ Accounted /\ AcceptedOnce

\* The accounts hold at the start, when nothing was offered.
LEMMA InitAccounts == Init => Accounts
<1> SUFFICES ASSUME Init PROVE Accounts
  OBVIOUS
<1>1. \A c \in Caller : call[c].rest = <<>> /\ call[c].all = {}
  BY DEF Init, IdleCall
<1>2. \A c \in Caller : Rest(c) = {} /\ Distinct(call[c].rest)
  BY <1>1, NothingInEmpty DEF Rest
<1>3. \A s \in Signal : accepted[s] = <<>>
  BY DEF Init
<1>4. Accepted = {} /\ AcceptedOnce
  BY <1>3, NothingInEmpty DEF Accepted, AcceptedOnce
<1>5. 1..offered = {} /\ dropped = {} /\ rejected = {}
  BY DEF Init
<1>6. OwnRecords
  BY <1>1, <1>2, <1>4, <1>5 DEF OwnRecords
<1>7. Accounted
  BY <1>4, <1>5 DEF Accounted
<1>8. QED
  BY <1>4, <1>6, <1>7 DEF Accounts

\* A call that goes on gives up its first record and keeps the others.
LEMMA AdvanceRest ==
  ASSUME TypeOK, OwnRecords, NEW c \in Caller, call[c].rest # <<>>, Advance(c)
  PROVE  /\ Head(call[c].rest) \in Record
         /\ Head(call[c].rest) \in Rest(c) \ (Accepted \cup dropped)
         /\ Head(call[c].rest) \in 1..offered
         /\ \A d \in Caller : Rest(d)' = Rest(d) \ {Head(call[c].rest)}
         /\ \A d \in Caller : Distinct(call'[d].rest)
         /\ \A d \in Caller : Rest(d)' \subseteq call'[d].all /\ call'[d].all \subseteq 1..offered
<1> DEFINE x == Head(call[c].rest)
<1>1. call[c].rest \in Seq(Record)
  BY DEF TypeOK
<1>2. /\ Rest(c) = {x} \cup Elements(Tail(call[c].rest))
      /\ x \notin Elements(Tail(call[c].rest)) /\ Distinct(Tail(call[c].rest))
  BY <1>1, ElementsOfTail DEF Rest, OwnRecords
<1>3. /\ call'[c].rest = Tail(call[c].rest)
      /\ call'[c].all = IF Tail(call[c].rest) = <<>> THEN {} ELSE call[c].all
  BY DEF Advance, IdleCall, TypeOK
<1>4. \A d \in Caller : d # c => call'[d] = call[d]
  BY DEF Advance, TypeOK
<1>5. x \in Record
  BY <1>1, HeadTailProperties
<1>6. x \in Rest(c) \ (Accepted \cup dropped) /\ x \in 1..offered
  BY <1>2 DEF OwnRecords
<1>7. Rest(c)' = Elements(Tail(call[c].rest))
  BY <1>3 DEF Rest
<1>8. ASSUME NEW d \in Caller PROVE Rest(d)' = Rest(d) \ {x}
  <2>1. CASE d = c
    BY <1>2, <1>7, <2>1
  <2>2. CASE d # c
    <3>1. x \notin Rest(d)
      BY <1>6, <2>2 DEF OwnRecords
    <3>2. Rest(d)' = Rest(d)
      BY <1>4, <2>2 DEF Rest
    <3>3. QED
      BY <3>1, <3>2
  <2>3. QED
    BY <2>1, <2>2
<1>9. ASSUME NEW d \in Caller PROVE Distinct(call'[d].rest)
  BY <1>2, <1>3, <1>4 DEF OwnRecords
<1>10. ASSUME NEW d \in Caller
       PROVE  Rest(d)' \subseteq call'[d].all /\ call'[d].all \subseteq 1..offered
  <2>1. CASE d = c /\ Tail(call[c].rest) = <<>>
    BY <1>3, <1>7, <2>1, NothingInEmpty
  <2>2. CASE d = c /\ Tail(call[c].rest) # <<>>
    BY <1>3, <1>8, <2>2 DEF OwnRecords
  <2>3. CASE d # c
    BY <1>4, <1>8, <2>3 DEF OwnRecords
  <2>4. QED
    BY <2>1, <2>2, <2>3
<1>11. QED
  BY <1>5, <1>6, <1>8, <1>9, <1>10

\* The record that left the call was accepted or dropped.
LEMMA MovedAccounts ==
  ASSUME TypeOK, OwnRecords, Accounted, NEW c \in Caller, call[c].rest # <<>>, Advance(c),
         \/ Accepted' = Accepted \cup {Head(call[c].rest)} /\ dropped' = dropped
         \/ Accepted' = Accepted /\ dropped' = dropped \cup {Head(call[c].rest)} /\ DropOnFull,
         UNCHANGED <<offered, rejected>>
  PROVE  OwnRecords' /\ Accounted'
<1> DEFINE x == Head(call[c].rest)
<1>1. (Accepted \cup dropped)' = Accepted \cup dropped \cup {x}
  OBVIOUS
<1>2. /\ x \in Rest(c) \ (Accepted \cup dropped) /\ x \in 1..offered
      /\ \A d \in Caller : Rest(d)' = Rest(d) \ {x}
      /\ \A d \in Caller : Distinct(call'[d].rest)
      /\ \A d \in Caller : Rest(d)' \subseteq call'[d].all /\ call'[d].all \subseteq 1..offered
  BY AdvanceRest
<1>3. OwnRecords'
  <2>1. \A d, e \in Caller : d # e => Rest(d)' \cap Rest(e)' = {}
    BY <1>2 DEF OwnRecords
  <2>2. \A d \in Caller : Rest(d)' \cap (Accepted \cup dropped)' = {}
    BY <1>1, <1>2 DEF OwnRecords
  <2>3. (Accepted \cup dropped)' \subseteq 1..offered
    BY <1>1, <1>2 DEF OwnRecords
  <2>4. QED
    BY <1>2, <2>1, <2>2, <2>3 DEF OwnRecords
<1>4. ASSUME NEW r \in 1..offered
      PROVE  \/ r \in (Accepted \cup dropped \cup rejected)'
             \/ \E d \in Caller : r \in Rest(d)'
  BY <1>1, <1>2 DEF Accounted, Rest
<1>5. (Accepted \cap dropped)' = {}
  BY <1>2 DEF Accounted
<1>6. (DropOnFull => rejected' = {}) /\ (~DropOnFull => dropped' = {})
  BY DEF Accounted
<1>7. Accounted'
  BY <1>4, <1>5, <1>6 DEF Accounted, Rest
<1>8. QED
  BY <1>3, <1>7

\* An accepted record is new to every channel.
LEMMA EnqueueAccepts ==
  ASSUME TypeOK, OwnRecords, AcceptedOnce, NEW c \in Caller, Enqueue(c)
  PROVE  Accepted' = Accepted \cup {Head(call[c].rest)} /\ AcceptedOnce'
<1> DEFINE x == Head(call[c].rest)
<1> DEFINE sig == call[c].sig
<1>1. sig \in Signal /\ x \in Record /\ x \notin Accepted
  BY AdvanceRest DEF Enqueue, TypeOK
<1>2. /\ accepted'[sig] = Append(accepted[sig], x)
      /\ \A s \in Signal : s # sig => accepted'[s] = accepted[s]
      /\ \A s \in Signal : accepted[s] \in Seq(Record)
  BY <1>1 DEF Enqueue, TypeOK
<1>3. Elements(accepted'[sig]) = Elements(accepted[sig]) \cup {x}
  BY <1>1, <1>2, ElementsOfAppend
<1>4. \A s \in Signal : x \notin Elements(accepted[s])
  BY <1>1 DEF Accepted
<1>5. Accepted' = Accepted \cup {x}
  <2>1. \A s \in Signal : Elements(accepted'[s]) =
          IF s = sig THEN Elements(accepted[s]) \cup {x} ELSE Elements(accepted[s])
    BY <1>2, <1>3
  <2>2. QED
    BY <1>1, <2>1 DEF Accepted
<1>6. Distinct(accepted'[sig])
  <2>1. /\ Len(accepted'[sig]) = Len(accepted[sig]) + 1 /\ Len(accepted[sig]) \in Nat
        /\ accepted'[sig][Len(accepted[sig]) + 1] = x
        /\ \A i \in 1..Len(accepted[sig]) : accepted'[sig][i] = accepted[sig][i]
    BY <1>1, <1>2, AppendProperties, LenProperties
  <2>2. \A i \in 1..Len(accepted[sig]) : accepted[sig][i] # x
    BY <1>1, <1>4 DEF Elements
  <2>3. \A i \in 1..Len(accepted'[sig]) :
          i \in 1..Len(accepted[sig]) \/ i = Len(accepted[sig]) + 1
    BY <2>1
  <2>4. Distinct(accepted[sig])
    BY <1>1 DEF AcceptedOnce
  <2>5. QED
    BY <2>1, <2>2, <2>3, <2>4 DEF Distinct
<1>7. AcceptedOnce'
  <2>1. \A s \in Signal : Distinct(accepted'[s])
    BY <1>2, <1>6 DEF AcceptedOnce
  <2>2. ASSUME NEW s \in Signal, NEW t \in Signal, s # t
        PROVE  Elements(accepted'[s]) \cap Elements(accepted'[t]) = {}
    <3>1. Elements(accepted[s]) \cap Elements(accepted[t]) = {}
      BY <2>2 DEF AcceptedOnce
    <3>2. QED
      BY <1>2, <1>3, <1>4, <2>2, <3>1
  <2>3. QED
    BY <2>1, <2>2 DEF AcceptedOnce
<1>8. QED
  BY <1>5, <1>7

\* A step that leaves the callers and the channels' input alone keeps the accounts.
LEMMA SameAccounts ==
  Accounts /\ UNCHANGED <<accepted, inputs>> => Accounts'
<1> SUFFICES ASSUME Accounts, UNCHANGED <<accepted, inputs>> PROVE Accounts'
  OBVIOUS
<1>1. UNCHANGED <<accepted, call, offered, dropped, rejected>>
  BY DEF inputs
<1>2. Accepted' = Accepted /\ \A c \in Caller : Rest(c)' = Rest(c)
  BY <1>1 DEF Accepted, Rest
<1>3. OwnRecords'
  BY <1>1, <1>2 DEF Accounts, OwnRecords
<1>4. Accounted'
  BY <1>1, <1>2 DEF Accounts, Accounted
<1>5. AcceptedOnce'
  BY <1>1 DEF Accounts, AcceptedOnce
<1>6. QED
  BY <1>3, <1>4, <1>5 DEF Accounts

\* Every action keeps the accounts.
LEMMA NextAccounts == TypeOK /\ Accounts /\ [Next]_vars => Accounts'
<1> SUFFICES ASSUME TypeOK, Accounts, [Next]_vars PROVE Accounts'
  OBVIOUS
<1>0. OwnRecords /\ Accounted /\ AcceptedOnce
  BY DEF Accounts
<1> USE DEF pipe
<1>1. ASSUME NEW c \in Caller, NEW s \in Signal, NEW k \in 1..MaxPush, Push(c, s, k)
      PROVE  Accounts'
  <2>1. offered \in Nat /\ k \in Nat /\ offered' = offered + k
    BY <1>1, ProcessorAssumption DEF Push, TypeOK
  <2>2. /\ call'[c].rest = [i \in 1..k |-> offered + i]
        /\ call'[c].all = (offered + 1)..(offered + k)
        /\ \A d \in Caller : d # c => call'[d] = call[d]
        /\ call[c].rest = <<>>
    BY <1>1 DEF Push, TypeOK
  <2>3. call'[c].rest \in Seq(Record) /\ Len(call'[c].rest) = k
    BY <2>1, <2>2, PushType, LenProperties DEF Record
  <2>4. Distinct(call'[c].rest)
    BY <2>1, <2>2, <2>3 DEF Distinct
  <2>5. Rest(c)' \subseteq (offered + 1)..(offered + k)
    BY <2>1, <2>2, <2>3 DEF Rest, Elements
  <2>6. (offered + 1)..(offered + k) \subseteq Rest(c)'
    <3>1. \A r \in (offered + 1)..(offered + k) :
            r - offered \in 1..k /\ offered + (r - offered) = r
      BY <2>1
    <3>2. QED
      BY <2>1, <2>2, <2>3, <3>1 DEF Rest, Elements
  <2>7. 1..offered' = 1..offered \cup (offered + 1)..(offered + k)
        /\ 1..offered \cap (offered + 1)..(offered + k) = {}
    BY <2>1
  <2>8. Accepted' = Accepted /\ UNCHANGED <<dropped, rejected, accepted>>
    BY <1>1 DEF Push, Accepted
  <2>9. \A d \in Caller : d # c => Rest(d)' = Rest(d) /\ Rest(d) \subseteq 1..offered
    BY <1>0, <2>2 DEF Rest, OwnRecords
  <2>10. Rest(c) = {}
    BY <2>2, NothingInEmpty DEF Rest
  <2>11. OwnRecords'
    <3>1. \A d \in Caller : Rest(d)' \subseteq call'[d].all /\ call'[d].all \subseteq 1..offered'
      BY <1>0, <2>2, <2>5, <2>7, <2>9 DEF OwnRecords
    <3>2. \A d \in Caller : Distinct(call'[d].rest)
      BY <1>0, <2>2, <2>4 DEF OwnRecords
    <3>3. \A d, e \in Caller : d # e => Rest(d)' \cap Rest(e)' = {}
      BY <1>0, <2>5, <2>7, <2>9 DEF OwnRecords
    <3>4. \A d \in Caller : Rest(d)' \cap (Accepted \cup dropped)' = {}
      BY <1>0, <2>5, <2>7, <2>8, <2>9 DEF OwnRecords
    <3>5. (Accepted \cup dropped)' \subseteq 1..offered'
      BY <1>0, <2>7, <2>8 DEF OwnRecords
    <3>6. QED
      BY <3>1, <3>2, <3>3, <3>4, <3>5 DEF OwnRecords
  <2>12. ASSUME NEW r \in 1..offered'
         PROVE  \/ r \in (Accepted \cup dropped \cup rejected)'
                \/ \E d \in Caller : r \in Rest(d)'
    <3>1. CASE r \in 1..offered
      BY <1>0, <2>8, <2>9, <2>10, <3>1 DEF Accounted, Rest
    <3>2. CASE r \in (offered + 1)..(offered + k)
      BY <2>6, <3>2
    <3>3. QED
      BY <2>7, <3>1, <3>2
  <2>13. Accounted'
    BY <1>0, <2>8, <2>12 DEF Accounted, Rest
  <2>14. AcceptedOnce'
    BY <1>0, <2>8 DEF AcceptedOnce
  <2>15. QED
    BY <2>11, <2>13, <2>14 DEF Accounts
<1>2. ASSUME NEW c \in Caller, Enqueue(c) PROVE Accounts'
  <2>1. call[c].rest # <<>> /\ Advance(c) /\ UNCHANGED <<offered, rejected, dropped>>
    BY <1>2 DEF Enqueue
  <2>2. Accepted' = Accepted \cup {Head(call[c].rest)} /\ AcceptedOnce'
    BY <1>0, <1>2, EnqueueAccepts
  <2>3. OwnRecords' /\ Accounted'
    BY <1>0, <2>1, <2>2, MovedAccounts
  <2>4. QED
    BY <2>2, <2>3 DEF Accounts
<1>3. ASSUME NEW c \in Caller, DropRecord(c) PROVE Accounts'
  <2>1. /\ call[c].rest # <<>> /\ Advance(c) /\ DropOnFull
        /\ dropped' = dropped \cup {Head(call[c].rest)}
        /\ UNCHANGED <<offered, rejected, accepted>>
    BY <1>3 DEF DropRecord
  <2>2. Accepted' = Accepted /\ AcceptedOnce'
    BY <1>0, <2>1 DEF Accepted, AcceptedOnce
  <2>3. OwnRecords' /\ Accounted'
    BY <1>0, <2>1, <2>2, MovedAccounts
  <2>4. QED
    BY <2>2, <2>3 DEF Accounts
<1>4. ASSUME NEW c \in Caller, GiveUp(c) PROVE Accounts'
  <2>1. /\ ~DropOnFull /\ rejected' = rejected \cup call[c].all
        /\ UNCHANGED <<offered, dropped, accepted>>
    BY <1>4 DEF GiveUp
  <2>2. /\ call'[c].rest = <<>> /\ call'[c].all = {}
        /\ \A d \in Caller : d # c => call'[d] = call[d]
    BY <1>4 DEF GiveUp, IdleCall, TypeOK
  <2>3. Accepted' = Accepted /\ AcceptedOnce'
    BY <1>0, <2>1 DEF Accepted, AcceptedOnce
  <2>4. /\ Rest(c)' = {} /\ Distinct(call'[c].rest) /\ Rest(c) \subseteq call[c].all
        /\ \A d \in Caller : d # c => Rest(d)' = Rest(d)
    BY <1>0, <2>2, NothingInEmpty DEF Rest, OwnRecords
  <2>5. OwnRecords'
    <3>1. \A d \in Caller : Rest(d)' \subseteq call'[d].all /\ call'[d].all \subseteq 1..offered
      BY <1>0, <2>2, <2>4 DEF OwnRecords
    <3>2. \A d \in Caller : Distinct(call'[d].rest)
      BY <1>0, <2>2, <2>4 DEF OwnRecords
    <3>3. \A d, e \in Caller : d # e => Rest(d)' \cap Rest(e)' = {}
      BY <1>0, <2>4 DEF OwnRecords
    <3>4. \A d \in Caller : Rest(d)' \cap (Accepted \cup dropped)' = {}
      BY <1>0, <2>1, <2>3, <2>4 DEF OwnRecords
    <3>5. QED
      BY <1>0, <2>1, <2>3, <3>1, <3>2, <3>3, <3>4 DEF OwnRecords
  <2>6. ASSUME NEW r \in 1..offered
        PROVE  \/ r \in (Accepted \cup dropped \cup rejected)'
               \/ \E d \in Caller : r \in Rest(d)'
    BY <1>0, <2>1, <2>3, <2>4 DEF Accounted, Rest
  <2>7. Accounted'
    BY <1>0, <2>1, <2>3, <2>6 DEF Accounted, Rest
  <2>8. QED
    BY <2>3, <2>5, <2>7 DEF Accounts
<1>5. CASE Worker
  BY <1>5, SameAccounts
  DEF Worker, Receive, Tick, SeeStop, Drain, DrainNext, Insert, EndFlush
<1>6. CASE SetOnFlush \/ Stop \/ Cancel
  BY <1>6, SameAccounts DEF SetOnFlush, Stop, Cancel
<1>7. ASSUME NEW e \in pending, OnFlush(e) PROVE Accounts'
  BY <1>7, SameAccounts DEF OnFlush
<1>8. CASE UNCHANGED vars
  BY <1>8, SameAccounts DEF vars
<1>9. QED
  BY <1>1, <1>2, <1>3, <1>4, <1>5, <1>6, <1>7, <1>8 DEF Next, Producers

\* The accounts are an invariant, given the types.
LEMMA AlwaysAccounts == Spec => [](TypeOK /\ Accounts)
<1>1. Init => TypeOK /\ Accounts
  BY InitType, InitAccounts
<1>2. TypeOK /\ Accounts /\ [Next]_vars => (TypeOK /\ Accounts)'
  BY NextType, NextAccounts
<1>3. QED
  BY <1>1, <1>2, PTL DEF Spec

\* Whatever callers, the worker and shutdown do, every record offered is accepted,
\* counted as dropped, reported as rejected or still to be sent, and none is both
\* accepted and dropped.
THEOREM ProcessorAccounted == Spec => []Accounted
<1>1. Accounts => Accounted
  BY DEF Accounts
<1>2. QED
  BY AlwaysAccounts, <1>1, PTL

\* Without DropOnFull a record of a call that returned without an error is in the
\* pipeline.
THEOREM ProcessorAckedIsAccepted ==
  ASSUME ~DropOnFull
  PROVE  Spec => []AckedIsAccepted
<1>1. Accounts => AckedIsAccepted
  <2> SUFFICES ASSUME Accounts, NEW r \in 1..offered
               PROVE  r \in Accepted \/ r \in InCall \/ r \in rejected
    BY DEF AckedIsAccepted
  <2>1. dropped = {} /\ (r \in Accepted \cup dropped \cup rejected
                           \/ \E c \in Caller : r \in Rest(c))
    BY DEF Accounts, Accounted, Rest
  <2>2. ASSUME NEW c \in Caller, r \in Rest(c) PROVE r \in InCall
    <3>1. call[c].rest # <<>> /\ r \in call[c].all
      BY <2>2, NothingInEmpty DEF Accounts, OwnRecords, Rest
    <3>2. QED
      BY <3>1 DEF InCall
  <2>3. QED
    BY <2>1, <2>2
<1>2. QED
  BY AlwaysAccounts, <1>1, PTL

-----------------------------------------------------------------------------
(* Fan-out *)

\* What waits in a batch has not been handed over.
LEMMA BatchIsNew ==
  ASSUME TypeOK, FIFO, AcceptedOnce, NEW s \in Signal
  PROVE  Elements(batch[s]) \cap Handed = {}
<1>1. ASSUME NEW t \in Signal
      PROVE  /\ handed[t] \in Seq(Record) /\ batch[t] \in Seq(Record)
             /\ queue[t] \in Seq(Record)
             /\ handed[t] \o batch[t] \in Seq(Record)
             /\ accepted[t] = (handed[t] \o batch[t]) \o queue[t]
  <2>1. /\ handed[t] \in Seq(Record) /\ batch[t] \in Seq(Record)
        /\ queue[t] \in Seq(Record)
    BY DEF TypeOK
  <2>2. QED
    BY <2>1, ConcatProperties DEF FIFO
<1>2. ASSUME NEW t \in Signal
      PROVE  Elements(accepted[t]) =
               Elements(handed[t]) \cup Elements(batch[t]) \cup Elements(queue[t])
  <2>1. Elements((handed[t] \o batch[t]) \o queue[t]) =
          Elements(handed[t] \o batch[t]) \cup Elements(queue[t])
    BY <1>1, ElementsOfConcat
  <2>2. Elements(handed[t] \o batch[t]) = Elements(handed[t]) \cup Elements(batch[t])
    BY <1>1, ElementsOfConcat
  <2>3. QED
    BY <1>1, <2>1, <2>2
<1>3. ASSUME NEW t \in Signal, t # s PROVE Elements(batch[s]) \cap Elements(handed[t]) = {}
  <2>1. Elements(accepted[s]) \cap Elements(accepted[t]) = {}
    BY <1>3 DEF AcceptedOnce
  <2>2. QED
    BY <1>2, <2>1
<1>4. Elements(batch[s]) \cap Elements(handed[s]) = {}
  <2>1. Distinct((handed[s] \o batch[s]) \o queue[s])
    BY <1>1 DEF AcceptedOnce
  <2>2. Distinct(handed[s] \o batch[s])
    BY <1>1, <2>1, DistinctParts
  <2>3. QED
    BY <1>1, <2>2, DistinctParts
<1>5. QED
  BY <1>3, <1>4 DEF Handed

\* What one signal of a flush adds to what was handed over.
LEMMA InsertHands ==
  TypeOK /\ Insert => Handed' = Handed \cup Elements(batch[stage])
<1> SUFFICES ASSUME TypeOK, Insert PROVE Handed' = Handed \cup Elements(batch[stage])
  OBVIOUS
<1>1. /\ stage \in Signal
      /\ handed'[stage] = handed[stage] \o batch[stage]
      /\ \A s \in Signal : s # stage => handed'[s] = handed[s]
      /\ handed[stage] \in Seq(Record) /\ batch[stage] \in Seq(Record)
  BY DEF Insert, TypeOK
<1>2. Elements(handed'[stage]) = Elements(handed[stage]) \cup Elements(batch[stage])
  <2>1. Elements(handed[stage] \o batch[stage]) =
          Elements(handed[stage]) \cup Elements(batch[stage])
    BY <1>1, ElementsOfConcat
  <2>2. QED
    BY <1>1, <2>1
<1>3. QED
  BY <1>1, <1>2 DEF Handed

\* Every action keeps FanOutOnce: Insert adds what no event had, EndFlush and OnFlush
\* move whole events.
LEMMA NextFanOut ==
  TypeOK /\ FIFO /\ AcceptedOnce /\ FanOutOnce /\ [Next]_vars => FanOutOnce'
<1> SUFFICES ASSUME TypeOK, FIFO, AcceptedOnce, FanOutOnce, [Next]_vars PROVE FanOutOnce'
  OBVIOUS
<1> USE DEF pipe, worker, fanout
<1>1. ASSUME UNCHANGED <<handed, event, fanout>> PROVE FanOutOnce'
  BY <1>1 DEF FanOutOnce, Handed
<1>2. CASE Insert
  <2>1. /\ event' = event \cup Elements(batch[stage])
        /\ pending' = pending /\ fanned' = fanned
        /\ stage \in Signal
    BY <1>2 DEF Insert
  <2>2. Handed' = Handed \cup Elements(batch[stage])
    BY <1>2, InsertHands
  <2>3. Elements(batch[stage]) \cap Handed = {}
    BY <2>1, BatchIsNew
  <2>4. QED
    BY <2>1, <2>2, <2>3 DEF FanOutOnce
<1>3. CASE EndFlush
  <2>1. /\ pending' \subseteq pending \cup {event} /\ event' = {} /\ fanned' = fanned
        /\ Handed' = Handed
    BY <1>3 DEF EndFlush, Handed
  <2>2. QED
    BY <2>1 DEF FanOutOnce
<1>4. ASSUME NEW e \in pending, OnFlush(e) PROVE FanOutOnce'
  <2>1. /\ pending' = pending \ {e} /\ fanned' = fanned \cup e /\ event' = event
        /\ Handed' = Handed
    BY <1>4 DEF OnFlush, Handed
  <2>2. QED
    BY <2>1 DEF FanOutOnce
<1>5. CASE Producers
  BY <1>1, <1>5 DEF Producers, Push, Enqueue, DropRecord, GiveUp
<1>6. CASE (\E s \in Signal : Receive(s)) \/ Tick \/ SeeStop \/ Drain \/ DrainNext
  BY <1>1, <1>6 DEF Receive, Tick, SeeStop, Drain, DrainNext, BeginFlush
<1>7. CASE SetOnFlush \/ Stop \/ Cancel \/ UNCHANGED vars
  BY <1>1, <1>7 DEF SetOnFlush, Stop, Cancel, vars
<1>8. QED
  BY <1>2, <1>3, <1>4, <1>5, <1>6, <1>7 DEF Next, Worker

\* A record reaches a callback at most once, only after it was handed to the store,
\* however many callbacks are pending and in whatever order they run.
THEOREM ProcessorFansOutOnce == Spec => []FanOutOnce
<1>1. Init => FanOutOnce
  BY DEF Init, FanOutOnce
<1>2. (TypeOK /\ Accounts) /\ FIFO /\ FanOutOnce /\ [Next]_vars => FanOutOnce'
  BY NextFanOut DEF Accounts
<1>3. QED
  BY <1>1, <1>2, AlwaysAccounts, ProcessorFIFO, PTL DEF Spec
=============================================================================
