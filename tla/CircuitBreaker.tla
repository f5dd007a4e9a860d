--------------------------- MODULE CircuitBreaker ---------------------------
(***************************************************************************)
(* One circuit breaker (internal/exporter/circuit_breaker.go) and the      *)
(* goroutines that share it.  In the forwarder these are two per endpoint: *)
(* the worker of workerLoop and the endpoint's retryWorker.  Each asks     *)
(* Allow, sends its request without holding the lock, and reports Success  *)
(* or Failure when the answer comes, by which time the breaker may be in   *)
(* another state than the one that granted the request.  A retry worker    *)
(* whose file cannot be read reports nothing of what Allow granted it.     *)
(***************************************************************************)
EXTENDS Breaker

CONSTANTS
  Caller,
  Reader  \* the callers that read a file between Allow and the request

VARIABLES
  gate,      \* the CircuitBreaker
  request,   \* per caller: idle, or the state in which its request was granted
  answering, \* the endpoint answers requests with success
  failures   \* history: failures reported since the last success, up to MaxFailures

gateVars == <<gate, request, answering, failures>>

GateInit ==
  /\ gate = NewBreaker
  /\ request = [c \in Caller |-> "idle"]
  /\ answering \in BOOLEAN
  /\ failures = 0

\* Allow grants the request; a refusal changes nothing.
Ask(c) ==
  /\ request[c] = "idle"
  /\ Granted(gate)
  /\ gate' = Allow(gate)
  /\ request' = [request EXCEPT ![c] = gate'.state]
  /\ UNCHANGED <<answering, failures>>

Succeed(c) ==
  /\ request[c] # "idle" /\ answering
  /\ gate' = Success(gate)
  /\ request' = [request EXCEPT ![c] = "idle"]
  /\ failures' = 0
  /\ UNCHANGED answering

Fail(c) ==
  /\ request[c] # "idle" /\ ~answering
  /\ gate' = Failure(gate)
  /\ request' = [request EXCEPT ![c] = "idle"]
  /\ failures' = IF failures < MaxFailures THEN failures + 1 ELSE failures
  /\ UNCHANGED answering

\* os.ReadFile fails: processDLQ goes on to the next file.
Vanish(c) ==
  /\ c \in Reader /\ request[c] # "idle"
  /\ request' = [request EXCEPT ![c] = "idle"]
  /\ UNCHANGED <<gate, answering, failures>>

\* openDuration has passed since the last failure.
GateWait ==
  /\ ~gate.waited
  /\ gate' = Elapse(gate)
  /\ UNCHANGED <<request, answering, failures>>

\* The endpoint goes down or comes back.
GateFlip ==
  /\ answering' = ~answering
  /\ UNCHANGED <<gate, request, failures>>

GateNext ==
  \/ \E c \in Caller : Ask(c) \/ Succeed(c) \/ Fail(c) \/ Vanish(c)
  \/ GateWait
  \/ GateFlip

GateSpec == GateInit /\ [][GateNext]_gateVars

\* Time passes, requests are answered (the HTTP client has a timeout), and the
\* goroutines come back for the next batch or at the next tick.  GateFlip is free,
\* and a reader may fail to read whenever it is granted a request.
GateFairness ==
  /\ WF_gateVars(GateWait)
  /\ \A c \in Caller : SF_gateVars(Ask(c))
  /\ \A c \in Caller : WF_gateVars(Succeed(c) \/ Fail(c) \/ Vanish(c))

GateFairSpec == GateSpec /\ GateFairness

-----------------------------------------------------------------------------
\* The type of every variable.
GateTypeOK ==
  /\ gate \in BreakerType
  /\ request \in [Caller -> State \cup {"idle"}]
  /\ answering \in BOOLEAN
  /\ failures \in 0..MaxFailures

\* However the answers of concurrent callers interleave, the breaker is closed
\* exactly while fewer than maxFailures failures have been reported in a row: the
\* failure that reaches the threshold opens it, whoever reports it, and an answer
\* that comes late, in another state than the one that granted its request, can
\* neither leave it closed at the threshold nor suspended below it.
ClosedIffBelowThreshold == gate.state = "closed" <=> failures < MaxFailures

\* After any failure reported to a suspended breaker, that of a request granted
\* long before included, everything waits for openDuration again: there is never
\* a half-open breaker with a fresh failure, so no trial is sent after one.
TrialOnlyAfterWait == gate.state = "half-open" => gate.waited

\* When the endpoint comes back for good, the breaker closes for good, though trials
\* end without a result that would close or open it, as long as a caller that reads
\* no file, the worker, has batches to send.
Recovers == <>[]answering => <>[](gate.state = "closed")
=============================================================================
