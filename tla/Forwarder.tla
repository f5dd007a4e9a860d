------------------------------ MODULE Forwarder ------------------------------
(***************************************************************************)
(* The exporter: internal/exporter/exporter.go with its circuit breakers   *)
(* (Breaker.tla), its dead letter queue (dlq.go) and the requests of       *)
(* otlp_client.go.                                                         *)
(*                                                                         *)
(* The OnFlush callback puts batches into one bounded channel per signal.  *)
(* One worker takes a batch at a time and sends it to each endpoint in     *)
(* turn; what an endpoint's breaker refuses or the endpoint fails to take  *)
(* is saved as a file of that endpoint's dead letter queue.  One retry     *)
(* worker per endpoint resends the files at every tick.  The two share the *)
(* endpoint's breaker and its directory, and only Save takes the lock of   *)
(* the directory.  A crash loses everything but the files.                 *)
(***************************************************************************)
EXTENDS Breaker, Sequences

CONSTANTS
  NumSignals,    \* traces, metrics, logs in the order processDLQ scans them
  NumEndpoints,  \* endpoints in the order of cfg.Endpoints
  SignalTypes,   \* per endpoint, the signals sent to it
  DLQEnabled,    \* per endpoint, DLQ.Enabled
  QueueCap,      \* capacity of spanCh, metricCh and logCh: 100
  Poison,        \* batches no endpoint ever accepts (too large, invalid)
  MaxBatches,    \* bound: batches forwarded in a behaviour
  MaxFaults      \* bound: crashes, failed saves and deletions, removals by hand

Signal == 1..NumSignals
Endpoint == 1..NumEndpoints
Batch == [id : Nat, sig : Signal]

ASSUME ForwarderAssumption ==
  /\ NumSignals \in Nat \ {0} /\ NumEndpoints \in Nat \ {0}
  /\ QueueCap \in Nat \ {0}
  /\ SignalTypes \in [Endpoint -> SUBSET Signal]
  /\ DLQEnabled \in [Endpoint -> BOOLEAN]
  /\ Poison \subseteq Nat
  /\ MaxBatches \in Nat /\ MaxFaults \in Nat

VARIABLES
  chan,       \* spanCh, metricCh, logCh
  worker,     \* workerLoop: pc, the batch it broadcasts and the endpoint reached
  retry,      \* per endpoint, retryWorker: pc, signal, batches still to send, and
              \* whether the data read was whole
  breaker,    \* per endpoint, its circuit breaker
  files,      \* per endpoint, the files in its directories, one per batch saved
  cancelled,  \* f.ctx is cancelled
  up,         \* per endpoint, whether it answers with success
  \* History.
  forwarded,  \* number of batches given to Forward*
  taken,      \* batches the worker has received from a channel
  received,   \* per endpoint, the batches it has accepted
  twice,      \* per endpoint, the batches it has accepted more than once
  unsure,     \* per endpoint, the batches accepted without the sender learning it
  undeleted,  \* per endpoint, the batches accepted from a file that stayed
  gone,       \* per endpoint, the batches given up, with the reason
  faults      \* number of crashes, disk errors and removals by hand so far

history == <<forwarded, taken, received, twice, unsure, undeleted, gone, faults>>
vars == <<chan, worker, retry, breaker, files, cancelled, up, history>>

NoBatch == [id |-> 0, sig |-> 1]
IdleWorker == [pc |-> "idle", batch |-> NoBatch, ep |-> 1]
IdleRetry == [pc |-> "idle", sig |-> 1, list |-> {}, whole |-> FALSE]

Init ==
  /\ chan = [s \in Signal |-> <<>>]
  /\ worker = IdleWorker
  /\ retry = [e \in Endpoint |-> IdleRetry]
  /\ breaker = [e \in Endpoint |-> NewBreaker]
  /\ files = [e \in Endpoint |-> {}]
  /\ cancelled = FALSE
  /\ up \in [Endpoint -> BOOLEAN]
  /\ forwarded = 0 /\ taken = {} /\ faults = 0
  /\ received = [e \in Endpoint |-> {}]
  /\ twice = [e \in Endpoint |-> {}]
  /\ unsure = [e \in Endpoint |-> {}]
  /\ undeleted = [e \in Endpoint |-> {}]
  /\ gone = [e \in Endpoint |-> {}]

-----------------------------------------------------------------------------
(* The outside: the network, the clock, the operator.                      *)

\* What can become of a request: the endpoint accepts the batch or not, and the
\* sender sees a status below 300 or an error.  A batch may be accepted and still
\* be reported as an error (timeout, lost answer).  After cancel the client
\* returns an error.  The content of a file read before it was written is empty
\* or cut off: an endpoint may take it for an empty request, or refuse it.
Outcomes(e, b, whole) ==
  {o \in [accepted : BOOLEAN, ok : BOOLEAN] :
     /\ o.accepted => whole /\ b.id \notin Poison
     /\ o.ok => up[e] /\ ~cancelled /\ (whole => o.accepted)
     /\ ~o.ok => ~up[e] \/ cancelled \/ b.id \in Poison \/ ~whole}

\* Endpoint e accepts the batches bs, for the first time or again.
Accept(e, bs) ==
  /\ received' = [received EXCEPT ![e] = @ \cup bs]
  /\ twice' = [twice EXCEPT ![e] = @ \cup (bs \cap received[e])]

\* The request of batch b to e ends with outcome o; its sender tells the breaker.
Answer(e, b, o) ==
  /\ Accept(e, IF o.accepted THEN {b} ELSE {})
  /\ unsure' = [unsure EXCEPT ![e] = IF o.accepted /\ ~o.ok THEN @ \cup {b} ELSE @]
  /\ breaker' = [breaker EXCEPT ![e] = IF o.ok THEN Success(@) ELSE Failure(@)]

GiveUp(e, b, why) == gone' = [gone EXCEPT ![e] = @ \cup {[batch |-> b, why |-> why]}]

Flip(e) ==
  /\ up' = [up EXCEPT ![e] = ~@]
  /\ UNCHANGED <<chan, worker, retry, breaker, files, cancelled, history>>

Wait(e) ==
  /\ ~breaker[e].waited
  /\ breaker' = [breaker EXCEPT ![e] = Elapse(@)]
  /\ UNCHANGED <<chan, worker, retry, files, cancelled, up, history>>

Fault == faults < MaxFaults /\ faults' = faults + 1

\* The operator removes a file by hand (exporter-guide, section 3).
RemoveByHand(e) ==
  /\ Fault
  /\ \E f \in files[e] :
       /\ GiveUp(e, f.batch, "removed")
       /\ files' = [files EXCEPT ![e] = @ \ {f}]
  /\ UNCHANGED <<chan, worker, retry, breaker, cancelled, up,
                 forwarded, taken, received, twice, unsure, undeleted>>

-----------------------------------------------------------------------------
(* ForwardSpans, ForwardMetrics, ForwardLogs: a send that never blocks.    *)

Forward(s) ==
  /\ forwarded < MaxBatches
  /\ forwarded' = forwarded + 1
  /\ chan' = IF Len(chan[s]) < QueueCap
             THEN [chan EXCEPT ![s] = Append(@, [id |-> forwarded + 1, sig |-> s])]
             ELSE chan
  /\ UNCHANGED <<worker, retry, breaker, files, cancelled, up,
                 taken, received, twice, unsure, undeleted, gone, faults>>

-----------------------------------------------------------------------------
(* workerLoop and the broadcast functions.                                 *)

\* The endpoints a batch of signal s goes to, from endpoint e on.
TargetsFrom(s, e) == {x \in e..NumEndpoints : s \in SignalTypes[x]}

\* The broadcast of b goes on with the next endpoint from e, or ends.
GoTo(b, e) ==
  LET ts == TargetsFrom(b.sig, e)
  IN worker' = IF ts = {} THEN IdleWorker
               ELSE [pc |-> "try", batch |-> b,
                     ep |-> CHOOSE x \in ts : \A y \in ts : x <= y]

Take(s) ==
  /\ worker.pc = "idle"
  /\ chan[s] # <<>>
  /\ chan' = [chan EXCEPT ![s] = Tail(@)]
  /\ taken' = taken \cup {Head(chan[s])}
  /\ GoTo(Head(chan[s]), 1)
  /\ UNCHANGED <<retry, breaker, files, cancelled, up,
                 forwarded, received, twice, unsure, undeleted, gone, faults>>

\* Mutated SaveOrGiveUp: an endpoint without dead letter queue ends the broadcast.
SaveOrStop ==
  IF DLQEnabled[worker.ep]
    THEN worker' = [worker EXCEPT !.pc = "create"] /\ UNCHANGED gone
    ELSE GiveUp(worker.ep, worker.batch, "no dlq") /\ worker' = IdleWorker

\* The batch could not be sent to the worker's endpoint: it is saved, or given
\* up where there is no dead letter queue.
SaveOrGiveUp ==
  IF DLQEnabled[worker.ep]
    THEN worker' = [worker EXCEPT !.pc = "create"] /\ UNCHANGED gone
    ELSE GiveUp(worker.ep, worker.batch, "no dlq") /\ GoTo(worker.batch, worker.ep + 1)

\* Allow, and what follows a refusal.
Try ==
  /\ worker.pc = "try"
  /\ IF Granted(breaker[worker.ep])
       THEN /\ breaker' = [breaker EXCEPT ![worker.ep] = Allow(@)]
            /\ worker' = [worker EXCEPT !.pc = "sending"]
            /\ UNCHANGED gone
       ELSE UNCHANGED breaker /\ SaveOrGiveUp
  /\ UNCHANGED <<chan, retry, files, cancelled, up,
                 forwarded, taken, received, twice, unsure, undeleted, faults>>

\* Mutated Sent: the batch is saved whatever the answer.
SentAndSaved ==
  /\ worker.pc = "sending"
  /\ \E o \in Outcomes(worker.ep, worker.batch, TRUE) :
       Answer(worker.ep, worker.batch, o) /\ SaveOrGiveUp
  /\ UNCHANGED <<chan, retry, files, cancelled, up,
                 forwarded, taken, undeleted, faults>>

\* ExportSpans, ExportMetrics or ExportLogs returns.
Sent ==
  /\ worker.pc = "sending"
  /\ \E o \in Outcomes(worker.ep, worker.batch, TRUE) :
       /\ Answer(worker.ep, worker.batch, o)
       /\ IF o.ok THEN GoTo(worker.batch, worker.ep + 1) /\ UNCHANGED gone
                  ELSE SaveOrGiveUp
  /\ UNCHANGED <<chan, retry, files, cancelled, up,
                 forwarded, taken, undeleted, faults>>

\* Save creates the file: from now on it is listed, and it is empty.
Create ==
  /\ worker.pc = "create"
  /\ files' = [files EXCEPT ![worker.ep] =
                 @ \cup {[batch |-> worker.batch, whole |-> FALSE]}]
  /\ worker' = [worker EXCEPT !.pc = "write"]
  /\ UNCHANGED <<chan, retry, breaker, cancelled, up, history>>

\* Save writes the content, into a file that may have been removed meanwhile.
Write ==
  /\ worker.pc = "write"
  /\ files' = [files EXCEPT ![worker.ep] =
                 {[f EXCEPT !.whole = @ \/ f.batch = worker.batch] : f \in @}]
  /\ GoTo(worker.batch, worker.ep + 1)
  /\ UNCHANGED <<chan, retry, breaker, cancelled, up, history>>

\* MkdirAll, the creation or the write fails; the worker ignores the error and
\* a file already created stays as it is.
SaveFails ==
  /\ worker.pc \in {"create", "write"}
  /\ Fault
  /\ GiveUp(worker.ep, worker.batch, "save failed")
  /\ GoTo(worker.batch, worker.ep + 1)
  /\ UNCHANGED <<chan, retry, breaker, files, cancelled, up,
                 forwarded, taken, received, twice, unsure, undeleted>>

WorkerExit ==
  /\ worker.pc = "idle" /\ cancelled
  /\ worker' = [worker EXCEPT !.pc = "done"]
  /\ UNCHANGED <<chan, retry, breaker, files, cancelled, up, history>>

-----------------------------------------------------------------------------
(* retryWorker and processDLQ, for endpoints with a dead letter queue.     *)

SetRetry(e, r) == retry' = [retry EXCEPT ![e] = r]

\* The ticker fires: the scan starts with the first signal.
Tick(e) ==
  /\ DLQEnabled[e] /\ retry[e].pc = "idle"
  /\ SetRetry(e, [IdleRetry EXCEPT !.pc = "list"])
  /\ UNCHANGED <<chan, worker, breaker, files, cancelled, up, history>>

FilesOf(e, b) == {f \in files[e] : f.batch = b}

\* The first name of a list of one signal's files.  A name begins with the time
\* of its Save, and the worker saves the batches of a signal in their order.
Oldest(list) == CHOOSE b \in list : \A c \in list : b.id <= c.id

\* ListFiles of one signal: the names present now.
List(e) ==
  /\ retry[e].pc = "list"
  /\ SetRetry(e, [retry[e] EXCEPT
       !.pc = "next",
       !.list = {b \in {f.batch : f \in files[e]} :
                   b.sig = retry[e].sig /\ b.sig \in SignalTypes[e]}])
  /\ UNCHANGED <<chan, worker, breaker, files, cancelled, up, history>>

\* The list is done: on to the next signal, or wait for the next tick.
NextSignal(e) ==
  /\ retry[e].pc = "next" /\ retry[e].list = {}
  /\ SetRetry(e, IF retry[e].sig < NumSignals
                   THEN [IdleRetry EXCEPT !.pc = "list", !.sig = retry[e].sig + 1]
                   ELSE IdleRetry)
  /\ UNCHANGED <<chan, worker, breaker, files, cancelled, up, history>>

\* Allow, then ReadFile of the first file listed.  A refusal ends the scan; a
\* file that is gone is skipped after Allow has already moved the breaker.
Read(e) ==
  LET b == Oldest(retry[e].list)
  IN /\ retry[e].pc = "next" /\ retry[e].list # {}
     /\ breaker' = [breaker EXCEPT ![e] = Allow(@)]
     /\ SetRetry(e,
          IF ~Granted(breaker[e]) THEN IdleRetry
          ELSE IF FilesOf(e, b) = {} THEN [retry[e] EXCEPT !.list = @ \ {b}]
          ELSE [retry[e] EXCEPT
                  !.pc = "sending",
                  !.whole = \A f \in FilesOf(e, b) : f.whole])
     /\ UNCHANGED <<chan, worker, files, cancelled, up, history>>

\* Mutated Resent: the file is deleted whatever the answer.
ResentAnyway(e) ==
  /\ retry[e].pc = "sending"
  /\ \E o \in Outcomes(e, Oldest(retry[e].list), retry[e].whole) :
       /\ Answer(e, Oldest(retry[e].list), o)
       /\ SetRetry(e, [retry[e] EXCEPT !.pc = "delete"])
  /\ UNCHANGED <<chan, worker, files, cancelled, up,
                 forwarded, taken, undeleted, gone, faults>>

\* ExportRaw returns; the first error ends the scan.
Resent(e) ==
  /\ retry[e].pc = "sending"
  /\ \E o \in Outcomes(e, Oldest(retry[e].list), retry[e].whole) :
       /\ Answer(e, Oldest(retry[e].list), o)
       /\ SetRetry(e, IF o.ok THEN [retry[e] EXCEPT !.pc = "delete"] ELSE IdleRetry)
  /\ UNCHANGED <<chan, worker, files, cancelled, up,
                 forwarded, taken, undeleted, gone, faults>>

\* The file at the head of the list is done with, and the scan goes on.
PassOver(e) ==
  SetRetry(e, [retry[e] EXCEPT !.pc = "next", !.list = @ \ {Oldest(@)}, !.whole = FALSE])

\* Delete removes the file, whatever it contains by now.
Delete(e) ==
  LET b == Oldest(retry[e].list)
  IN /\ retry[e].pc = "delete"
     /\ files' = [files EXCEPT ![e] = @ \ FilesOf(e, b)]
     /\ IF retry[e].whole THEN UNCHANGED gone ELSE GiveUp(e, b, "unread")
     /\ PassOver(e)
     /\ UNCHANGED <<chan, worker, breaker, cancelled, up,
                    forwarded, taken, received, twice, unsure, undeleted, faults>>

\* os.Remove fails: processDLQ ignores the error and goes on, and the file stays
\* for the next tick, although what was read of it has been accepted.
DeleteFails(e) ==
  /\ retry[e].pc = "delete"
  /\ Fault
  /\ undeleted' = [undeleted EXCEPT ![e] =
                     IF retry[e].whole THEN @ \cup {Oldest(retry[e].list)} ELSE @]
  /\ PassOver(e)
  /\ UNCHANGED <<chan, worker, breaker, files, cancelled, up,
                 forwarded, taken, received, twice, unsure, gone>>

\* Mutated RetryExit: the retry worker stays until its directory is empty.
RetryExitWhenEmpty(e) ==
  /\ DLQEnabled[e] /\ retry[e].pc = "idle" /\ cancelled
  /\ files[e] = {}
  /\ SetRetry(e, [IdleRetry EXCEPT !.pc = "done"])
  /\ UNCHANGED <<chan, worker, breaker, files, cancelled, up, history>>

RetryExit(e) ==
  /\ DLQEnabled[e] /\ retry[e].pc = "idle" /\ cancelled
  /\ SetRetry(e, [IdleRetry EXCEPT !.pc = "done"])
  /\ UNCHANGED <<chan, worker, breaker, files, cancelled, up, history>>

-----------------------------------------------------------------------------
(* Stop, and the end of the process.                                       *)

\* Stop cancels the context; it returns when all the goroutines are done.
Stop ==
  /\ ~cancelled
  /\ cancelled' = TRUE
  /\ UNCHANGED <<chan, worker, retry, breaker, files, up, history>>

\* The batches for endpoint e that only the worker's memory holds.
InHand(e) ==
  IF worker.pc \in {"try", "sending", "create", "write"}
     /\ e \in TargetsFrom(worker.batch.sig, worker.ep)
  THEN {worker.batch} ELSE {}

\* The batches on their way to e, which it may or may not accept.
OnTheWire(e) ==
  (IF worker.pc = "sending" /\ worker.ep = e THEN {worker.batch} ELSE {})
  \cup (IF retry[e].pc = "sending" /\ retry[e].whole THEN {Oldest(retry[e].list)} ELSE {})

\* The process dies and is started again; only the files survive.  A request on
\* the wire may have been accepted, and an accepted batch's file may be left.
Crash ==
  /\ Fault
  /\ \E acc \in [Endpoint -> SUBSET {b \in taken : b.id \notin Poison}] :
       /\ \A e \in Endpoint : acc[e] \subseteq OnTheWire(e)
       /\ received' = [e \in Endpoint |-> received[e] \cup acc[e]]
       /\ twice' = [e \in Endpoint |-> twice[e] \cup (acc[e] \cap received[e])]
       /\ unsure' = [e \in Endpoint |-> unsure[e] \cup acc[e] \cup
                       (IF retry[e].pc = "delete" /\ retry[e].whole
                          THEN {Oldest(retry[e].list)} ELSE {})]
  /\ gone' = [e \in Endpoint |->
                gone[e] \cup {[batch |-> b, why |-> "crash"] : b \in InHand(e)}]
  /\ chan' = [s \in Signal |-> <<>>]
  /\ worker' = IdleWorker
  /\ retry' = [e \in Endpoint |-> IdleRetry]
  /\ breaker' = [e \in Endpoint |-> NewBreaker]
  /\ cancelled' = FALSE
  /\ UNCHANGED <<files, up, forwarded, taken, undeleted>>

-----------------------------------------------------------------------------
Worker ==
  \/ \E s \in Signal : Take(s)
  \/ Try
  \/ Sent
  \/ Create
  \/ Write
  \/ SaveFails
  \/ WorkerExit

Retry(e) ==
  \/ Tick(e)
  \/ List(e)
  \/ NextSignal(e)
  \/ Read(e)
  \/ Resent(e)
  \/ Delete(e)
  \/ DeleteFails(e)
  \/ RetryExit(e)

Next ==
  \/ \E s \in Signal : Forward(s)
  \/ Worker
  \/ \E e \in Endpoint : Retry(e) \/ Flip(e) \/ Wait(e) \/ RemoveByHand(e)
  \/ Stop
  \/ Crash

Spec == Init /\ [][Next]_vars

\* Goroutines are scheduled, requests end (the client has a timeout), tickers
\* fire, time passes, and select picks among its ready cases at random: the
\* cancelled context is seen in the end although ticks and batches keep coming.
Fairness ==
  /\ \A s \in Signal : SF_vars(Take(s))
  /\ WF_vars(Try) /\ WF_vars(Sent) /\ WF_vars(Create) /\ WF_vars(Write)
  /\ SF_vars(WorkerExit)
  /\ \A e \in Endpoint :
       /\ WF_vars(Tick(e)) /\ WF_vars(List(e)) /\ WF_vars(NextSignal(e))
       /\ WF_vars(Read(e)) /\ WF_vars(Resent(e)) /\ WF_vars(Delete(e))
       /\ SF_vars(RetryExit(e))
       /\ SF_vars(Wait(e))

FairSpec == Spec /\ Fairness

-----------------------------------------------------------------------------
(* Properties.                                                             *)

Subscribed(e) == {b \in taken : b.sig \in SignalTypes[e]}
Saved(e) == {b \in taken : \E f \in FilesOf(e, b) : f.whole}
GivenUp(e) == {g.batch : g \in gone[e]}

\* At-least-once, per endpoint: a batch the worker has taken from its channel is
\* accepted by the endpoint, written completely to its dead letter queue, still
\* in the worker's hands, or given up in one of the places that give up, across
\* refusals, failed requests, crashes and the retry worker's concurrent deletes.
AtLeastOnce ==
  \A e \in Endpoint :
    Subscribed(e) \subseteq received[e] \cup Saved(e) \cup InHand(e) \cup GivenUp(e)

\* An endpoint accepts a batch twice only if an earlier acceptance was not seen
\* by its sender (an error reported for an accepted request, or a crash), or if
\* its file could not be deleted after the resend.  Apart from that the worker and
\* the retry worker never send again what is known to have arrived.
DuplicatesExplained == \A e \in Endpoint : twice[e] \subseteq unsure[e] \cup undeleted[e]

\* exporter-guide.md:89 says that data whose transmission failed is saved in the
\* dead letter queue to prevent its loss.  Without faults, an endpoint that has
\* one loses nothing.
DLQPreventsLoss ==
  faults = 0 => \A e \in Endpoint : DLQEnabled[e] => gone[e] = {}

\* Batch b waits in a file of e behind one that e never accepts: in a signal
\* scanned before, or saved earlier for the same signal.  The refusal ends every
\* scan before it comes to b.
BehindPoison(e, b) ==
  /\ FilesOf(e, b) # {}
  /\ \E f \in files[e] :
       /\ f.batch.id \in Poison
       /\ \/ f.batch.sig < b.sig
          \/ f.batch.sig = b.sig /\ f.batch.id < b.id

\* Once an endpoint is back for good, every batch meant for it that it can accept
\* reaches it in the end, by the worker or from the dead letter queue, unless it
\* was given up or waits for ever behind a file the endpoint always refuses.
Drains ==
  \A e \in Endpoint : \A s \in SignalTypes[e], n \in 1..MaxBatches \ Poison :
    LET b == [id |-> n, sig |-> s]
    IN <>[]up[e] /\ []~cancelled
         => (b \in Subscribed(e) ~>
               \/ b \in received[e] \cup GivenUp(e)
               \/ []BehindPoison(e, b))

\* Stop returns: the worker finishes its batch, every retry worker its scan.
StopReturns ==
  cancelled ~> \/ ~cancelled
               \/ /\ worker.pc = "done"
                  /\ \A e \in Endpoint : DLQEnabled[e] => retry[e].pc = "done"
=============================================================================
