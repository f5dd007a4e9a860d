------------------------------ MODULE Processor ------------------------------
(***************************************************************************)
(* The batch processor of internal/processor/processor.go.                 *)
(*                                                                         *)
(* Receiver goroutines push records into one bounded channel per signal.   *)
(* A single worker goroutine moves them into one batch per signal and      *)
(* hands the batches to the store: when one batch is full, when the ticker *)
(* fires, and once more after draining the channels at shutdown.  After    *)
(* each flush it spawns a goroutine that runs the OnFlush callback.        *)
(*                                                                         *)
(* Signals are numbered in the order the worker drains and flushes them:   *)
(* 1 spans, 2 metrics, 3 logs, 4 exemplars.  A record is the number of its *)
(* arrival at the processor; its contents play no part here.               *)
(***************************************************************************)
EXTENDS Naturals, Sequences

CONSTANTS
  NumSignals,   \* 4 in the code
  Caller,       \* concurrent Push calls (receiver handler goroutines)
  QueueSize,    \* cfg.QueueSize, the capacity of each channel
  BatchSize,    \* cfg.BatchSize
  DropOnFull,   \* cfg.DropOnFull
  MaxPush,      \* bound: records in one Push call
  MaxRecords    \* bound: records offered in a behaviour

ASSUME ProcessorAssumption ==
  /\ NumSignals \in Nat \ {0}
  /\ QueueSize \in Nat \ {0}
  /\ BatchSize \in Nat \ {0}
  /\ DropOnFull \in BOOLEAN
  /\ MaxPush \in Nat
  /\ MaxRecords \in Nat

Signal == 1..NumSignals
Record == Nat

VARIABLES
  queue,      \* the channels: spansCh, metricsCh, logsCh, exemplarsCh
  batch,      \* the worker's slices: spansBatch, metricsBatch, ...
  call,       \* the Push call each caller is in; idle when rest is empty
  stopped,    \* stopCh is closed
  ctxDone,    \* the context given to Start is cancelled
  hooked,     \* onFlush is set
  phase,      \* where the worker is: select, drain, flush or done
  stage,      \* the signal being drained or flushed
  final,      \* the flush in progress is the one before the worker returns
  event,      \* the records copied for the FlushEvent of this flush
  pending,    \* the spawned callbacks that have not run yet
  \* History of what became of every record.
  offered,    \* the number of records offered to a Push call
  accepted,   \* per signal, the records sent to the channel, in order
  dropped,    \* records discarded because the channel was full
  rejected,   \* records of calls that returned an error
  handed,     \* per signal, the records given to Insert, in order
  lost,       \* the records whose Insert reported an error and was rolled back
  fanned,     \* records whose callback has run
  atQuit      \* per signal, how many records were accepted when the worker was
              \* first told to exit

pipe == <<queue, batch, accepted, handed>>
worker == <<phase, stage, final, event>>
inputs == <<call, offered, dropped, rejected>>
control == <<stopped, ctxDone, hooked, atQuit>>
fanout == <<pending, fanned>>
vars == <<pipe, worker, inputs, control, fanout, lost>>

Elements(s) == {s[i] : i \in 1..Len(s)}

IdleCall == [sig |-> 1, all |-> {}, rest |-> <<>>]

Init ==
  /\ queue = [s \in Signal |-> <<>>]
  /\ batch = [s \in Signal |-> <<>>]
  /\ accepted = [s \in Signal |-> <<>>]
  /\ handed = [s \in Signal |-> <<>>]
  /\ call = [c \in Caller |-> IdleCall]
  /\ offered = 0
  /\ dropped = {} /\ rejected = {} /\ lost = {}
  /\ stopped = FALSE /\ ctxDone = FALSE /\ hooked = FALSE
  /\ atQuit = [s \in Signal |-> 0]
  /\ phase = "select" /\ stage = 1 /\ final = FALSE /\ event = {}
  /\ pending = {} /\ fanned = {}

-----------------------------------------------------------------------------
(* The Push methods, run by the receivers' handlers.                       *)

\* A handler calls Push with k records of one signal.
Push(c, s, k) ==
  /\ call[c].rest = <<>>
  /\ offered + k <= MaxRecords
  /\ call' = [call EXCEPT ![c] = [sig  |-> s,
                                  all  |-> (offered + 1)..(offered + k),
                                  rest |-> [i \in 1..k |-> offered + i]]]
  /\ offered' = offered + k
  /\ UNCHANGED <<pipe, worker, dropped, rejected, control, fanout, lost>>

\* The call goes on to its next record, or returns.
Advance(c) ==
  LET rest == Tail(call[c].rest)
  IN call' = [call EXCEPT ![c] =
                IF rest = <<>> THEN IdleCall
                ELSE [sig |-> call[c].sig, all |-> call[c].all, rest |-> rest]]

\* Mutated HasRoom: the capacity is off by one.
HasRoomOffByOne(s) == Len(queue[s]) + 1 < QueueSize

HasRoom(s) == Len(queue[s]) < QueueSize

\* The send of one record succeeds.
Enqueue(c) ==
  LET s == call[c].sig
      r == Head(call[c].rest)
  IN /\ call[c].rest # <<>>
     /\ HasRoom(s)
     /\ queue' = [queue EXCEPT ![s] = Append(@, r)]
     /\ accepted' = [accepted EXCEPT ![s] = Append(@, r)]
     /\ Advance(c)
     /\ UNCHANGED <<batch, handed, worker, offered, dropped, rejected, control,
                    fanout, lost>>

\* Mutated DropRecord: the first full channel ends the whole call.
DropRestOfCall(c) ==
  /\ DropOnFull
  /\ call[c].rest # <<>>
  /\ ~HasRoom(call[c].sig)
  /\ dropped' = dropped \cup {Head(call[c].rest)}
  /\ call' = [call EXCEPT ![c] = IdleCall]
  /\ UNCHANGED <<pipe, worker, offered, rejected, control, fanout, lost>>

\* The default branch of the select: the record is skipped, the loop goes on,
\* and Push still returns nil.
DropRecord(c) ==
  /\ DropOnFull
  /\ call[c].rest # <<>>
  /\ ~HasRoom(call[c].sig)
  /\ dropped' = dropped \cup {Head(call[c].rest)}
  /\ Advance(c)
  /\ UNCHANGED <<pipe, worker, offered, rejected, control, fanout, lost>>

\* Mutated GiveUp: the error is swallowed and the call reported as a success.
GiveUpSilently(c) ==
  /\ ~DropOnFull
  /\ call[c].rest # <<>>
  /\ rejected' = rejected
  /\ call' = [call EXCEPT ![c] = IdleCall]
  /\ UNCHANGED <<pipe, worker, offered, dropped, control, fanout, lost>>

\* The request's context ends while the call waits for room: Push returns an
\* error and the handler reports the whole call as rejected.
GiveUp(c) ==
  /\ ~DropOnFull
  /\ call[c].rest # <<>>
  /\ rejected' = rejected \cup call[c].all
  /\ call' = [call EXCEPT ![c] = IdleCall]
  /\ UNCHANGED <<pipe, worker, offered, dropped, control, fanout, lost>>

-----------------------------------------------------------------------------
(* main: SetOnFlush after the worker and the receivers are running; Stop.  *)

SetOnFlush ==
  /\ ~hooked
  /\ hooked' = TRUE
  /\ UNCHANGED <<pipe, worker, inputs, stopped, ctxDone, atQuit, fanout, lost>>

\* The records accepted before the worker is first told to exit.
MarkQuit ==
  atQuit' = IF stopped \/ ctxDone THEN atQuit
            ELSE [s \in Signal |-> Len(accepted[s])]

\* Stop closes stopCh; it returns when phase is done (wg.Wait).
Stop ==
  /\ ~stopped
  /\ stopped' = TRUE
  /\ MarkQuit
  /\ UNCHANGED <<pipe, worker, inputs, ctxDone, hooked, fanout, lost>>

Cancel ==
  /\ ~ctxDone
  /\ ctxDone' = TRUE
  /\ MarkQuit
  /\ UNCHANGED <<pipe, worker, inputs, stopped, hooked, fanout, lost>>

-----------------------------------------------------------------------------
(* batchWorker.                                                            *)

BeginFlush(last) ==
  /\ phase' = "flush" /\ stage' = 1 /\ final' = last /\ event' = event

BatchFull(n) == n >= BatchSize

\* One record is received and appended; a full batch flushes every signal.
Receive(s) ==
  /\ phase = "select"
  /\ queue[s] # <<>>
  /\ queue' = [queue EXCEPT ![s] = Tail(@)]
  /\ batch' = [batch EXCEPT ![s] = Append(@, Head(queue[s]))]
  /\ IF BatchFull(Len(batch[s]) + 1) THEN BeginFlush(FALSE) ELSE UNCHANGED worker
  /\ UNCHANGED <<accepted, handed, inputs, control, fanout, lost>>

\* Mutated Tick: the ticker flushes only what is full anyway.
TickWhenFull ==
  /\ phase = "select"
  /\ \E s \in Signal : BatchFull(Len(batch[s]))
  /\ BeginFlush(FALSE)
  /\ UNCHANGED <<pipe, inputs, control, fanout, lost>>

Tick ==
  /\ phase = "select"
  /\ \E s \in Signal : batch[s] # <<>>   \* otherwise flush changes nothing
  /\ BeginFlush(FALSE)
  /\ UNCHANGED <<pipe, inputs, control, fanout, lost>>

\* Mutated SeeStop: flush without draining the channels first.
SeeStopNoDrain ==
  /\ phase = "select"
  /\ stopped \/ ctxDone
  /\ BeginFlush(TRUE)
  /\ UNCHANGED <<pipe, inputs, control, fanout, lost>>

\* Mutated SeeStop: no case for stopCh.
SeeCancelOnly ==
  /\ phase = "select"
  /\ ctxDone
  /\ phase' = "drain" /\ stage' = 1
  /\ UNCHANGED <<final, event, pipe, inputs, control, fanout, lost>>

SeeStop ==
  /\ phase = "select"
  /\ stopped \/ ctxDone
  /\ phase' = "drain" /\ stage' = 1
  /\ UNCHANGED <<final, event, pipe, inputs, control, fanout, lost>>

\* drainAndFlush takes what the channel of the current signal holds ...
Drain ==
  /\ phase = "drain" /\ stage \in Signal
  /\ queue[stage] # <<>>
  /\ queue' = [queue EXCEPT ![stage] = Tail(@)]
  /\ batch' = [batch EXCEPT ![stage] = Append(@, Head(queue[stage]))]
  /\ UNCHANGED <<accepted, handed, worker, inputs, control, fanout, lost>>

\* ... and goes on to the next signal when it finds the channel empty.
DrainNext ==
  /\ phase = "drain" /\ stage \in Signal
  /\ queue[stage] = <<>>
  /\ IF stage < NumSignals
       THEN stage' = stage + 1 /\ UNCHANGED <<phase, final, event>>
       ELSE BeginFlush(TRUE)
  /\ UNCHANGED <<pipe, inputs, control, fanout, lost>>

\* What a call of Insert may lose: nothing when it succeeds; when it fails,
\* any part of the batch, since the store commits one transaction per day; and
\* all of it when the context is already cancelled.
InsertLoss(recs) == IF ctxDone THEN {recs} ELSE SUBSET recs

\* Mutated Insert: the batch is not truncated after Insert.
InsertNoTruncate ==
  /\ phase = "flush" /\ stage \in Signal
  /\ \E l \in InsertLoss(Elements(batch[stage])) : lost' = lost \cup l
  /\ event' = event \cup Elements(batch[stage])
  /\ handed' = [handed EXCEPT ![stage] = @ \o batch[stage]]
  /\ stage' = stage + 1
  /\ UNCHANGED <<queue, batch, accepted, phase, final, inputs, control, fanout>>

\* One signal of the flush: copy the batch into the event, Insert, truncate.
\* An error of Insert is printed and otherwise ignored.
Insert ==
  /\ phase = "flush" /\ stage \in Signal
  /\ \E l \in InsertLoss(Elements(batch[stage])) : lost' = lost \cup l
  /\ event' = event \cup Elements(batch[stage])
  /\ handed' = [handed EXCEPT ![stage] = @ \o batch[stage]]
  /\ batch' = [batch EXCEPT ![stage] = <<>>]
  /\ stage' = stage + 1
  /\ UNCHANGED <<queue, accepted, phase, final, inputs, control, fanout>>

\* Mutated EndFlush: the copies outlive the flush they belong to.
EndFlushKeepsEvent ==
  /\ phase = "flush" /\ stage = NumSignals + 1
  /\ pending' = IF hooked /\ event # {} THEN pending \cup {event} ELSE pending
  /\ phase' = IF final THEN "done" ELSE "select"
  /\ stage' = 1
  /\ UNCHANGED <<final, event, pipe, inputs, control, fanned, lost>>

\* Mutated EndFlush: the flush at shutdown does not call back.
EndFlushNoFinalEvent ==
  /\ phase = "flush" /\ stage = NumSignals + 1
  /\ pending' = IF hooked /\ event # {} /\ ~final
                  THEN pending \cup {event} ELSE pending
  /\ phase' = IF final THEN "done" ELSE "select"
  /\ stage' = 1
  /\ event' = {}
  /\ UNCHANGED <<final, pipe, inputs, control, fanned, lost>>

\* The end of flush: spawn the callback, then return to the loop or exit.
EndFlush ==
  /\ phase = "flush" /\ stage = NumSignals + 1
  /\ pending' = IF hooked /\ event # {} THEN pending \cup {event} ELSE pending
  /\ phase' = IF final THEN "done" ELSE "select"
  /\ stage' = 1
  /\ event' = {}
  /\ UNCHANGED <<final, pipe, inputs, control, fanned, lost>>

\* A spawned callback runs.  Go runs goroutines in any order.
OnFlush(e) ==
  /\ pending' = pending \ {e}
  /\ fanned' = fanned \cup e
  /\ UNCHANGED <<pipe, worker, inputs, control, lost>>

-----------------------------------------------------------------------------
Producers ==
  \E c \in Caller :
    \/ \E s \in Signal, k \in 1..MaxPush : Push(c, s, k)
    \/ Enqueue(c)
    \/ DropRecord(c)
    \/ GiveUp(c)

Worker ==
  \/ \E s \in Signal : Receive(s)
  \/ Tick
  \/ SeeStop
  \/ Drain
  \/ DrainNext
  \/ Insert
  \/ EndFlush

Next ==
  \/ Producers
  \/ Worker
  \/ SetOnFlush
  \/ Stop
  \/ Cancel
  \/ \E e \in pending : OnFlush(e)

Spec == Init /\ [][Next]_vars

\* The worker and the spawned goroutines are scheduled; select picks among the
\* ready cases at random, so a case that is ready again and again is taken; a
\* send blocked on a full channel is served in arrival order when there is room.
Fairness ==
  /\ \A s \in Signal : SF_vars(Receive(s))
  /\ SF_vars(Tick)
  /\ SF_vars(SeeStop)
  /\ WF_vars(Drain) /\ WF_vars(DrainNext)
  /\ WF_vars(Insert) /\ WF_vars(EndFlush)
  /\ \A c \in Caller : SF_vars(Enqueue(c))
  /\ \A c \in Caller : WF_vars(DropRecord(c))
  /\ WF_vars(\E e \in pending : OnFlush(e))

FairSpec == Spec /\ Fairness

-----------------------------------------------------------------------------
(* Properties.                                                             *)

\* The type of every variable.
TypeOK ==
  /\ queue \in [Signal -> Seq(Record)]
  /\ batch \in [Signal -> Seq(Record)]
  /\ accepted \in [Signal -> Seq(Record)]
  /\ handed \in [Signal -> Seq(Record)]
  /\ call \in [Caller -> [sig : Signal, all : SUBSET Record, rest : Seq(Record)]]
  /\ offered \in Nat
  /\ dropped \subseteq Record /\ rejected \subseteq Record
  /\ lost \subseteq Record /\ fanned \subseteq Record
  /\ stopped \in BOOLEAN /\ ctxDone \in BOOLEAN /\ hooked \in BOOLEAN
  /\ atQuit \in [Signal -> Nat]
  /\ phase \in {"select", "drain", "flush", "done"}
  /\ stage \in 1..(NumSignals + 1)
  /\ final \in BOOLEAN
  /\ event \subseteq Record
  /\ pending \subseteq SUBSET Record

\* Between the channel and the store no record is lost, duplicated or put out
\* of order: what was accepted for a signal is exactly what was handed to
\* Insert, followed by the batch, followed by the channel, whichever of the
\* flush triggers ran and whatever Insert answered.
FIFO ==
  \A s \in Signal : accepted[s] = handed[s] \o batch[s] \o queue[s]

\* While the worker waits in its select every batch is below BatchSize and no
\* channel holds more than QueueSize: memory stays bounded.  Only the drain at
\* shutdown may build a longer batch.
Bounded ==
  /\ \A s \in Signal : Len(queue[s]) <= QueueSize
  /\ phase = "select" => \A s \in Signal : Len(batch[s]) < BatchSize

\* When the worker has returned, every record accepted before it was told to
\* exit, by Stop or by its context, has been handed to the store.
DrainedAtQuit ==
  phase = "done" => \A s \in Signal : Len(handed[s]) >= atQuit[s]

InCall == UNION {call[c].all : c \in {d \in Caller : call[d].rest # <<>>}}
Accepted == UNION {Elements(accepted[s]) : s \in Signal}
Handed == UNION {Elements(handed[s]) : s \in Signal}

\* A record whose Push call returned nil is in the pipeline.  (A handler then
\* answers without PartialSuccess.)
AckedIsAccepted ==
  \A r \in 1..offered : r \in Accepted \/ r \in InCall \/ r \in rejected

\* Every record offered is accounted for: accepted, counted as dropped (only
\* with DropOnFull), reported as rejected (only without), or still to be sent.
\* No record is both accepted and dropped.
Accounted ==
  /\ \A r \in 1..offered :
       \/ r \in Accepted \cup dropped \cup rejected
       \/ \E c \in Caller : r \in Elements(call[c].rest)
  /\ Accepted \cap dropped = {}
  /\ DropOnFull => rejected = {}
  /\ ~DropOnFull => dropped = {}

\* A record reaches the OnFlush callback at most once, and only after it was
\* handed to the store: concurrent callbacks never share a record.
FanOutOnce ==
  /\ \A e, f \in pending : e # f => e \cap f = {}
  /\ \A e \in pending : e \cap fanned = {} /\ e \cap event = {}
  /\ event \cap fanned = {}
  /\ fanned \cup event \cup UNION pending \subseteq Handed

\* Every accepted record is handed to the store in the end, even when its batch
\* never fills up, unless it came after the worker began its final flush.
EventuallyHanded ==
  \A r \in 1..MaxRecords : r \in Accepted ~> (r \in Handed \/ phase = "done")

\* Once the callback is set, every record still in the pipeline is fanned out,
\* the last flush at shutdown included.
EventuallyFanned ==
  \A r \in 1..MaxRecords :
    (hooked /\ \E s \in Signal : r \in Elements(batch[s]))
      ~> (r \in fanned)

\* Stop returns: the worker drains, flushes and exits.
StopReturns == stopped ~> phase = "done"

\* A Push call does not hang while the worker runs: it returns, or the worker
\* has exited and nobody empties the channel any more.
PushReturns ==
  \A c \in Caller : call[c].rest # <<>> ~> (call[c].rest = <<>> \/ phase = "done")
=============================================================================
