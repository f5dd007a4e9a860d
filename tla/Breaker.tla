------------------------------- MODULE Breaker -------------------------------
(***************************************************************************)
(* The circuit breaker of internal/exporter/circuit_breaker.go as a value  *)
(* and the functions its methods compute.  Every method holds cb.mu from   *)
(* beginning to end, so each is one atomic step of the goroutine calling   *)
(* it: CircuitBreaker.tla and Forwarder.tla use them so.                   *)
(*                                                                         *)
(* waited abstracts time.Since(lastFailure) > openDuration: Failure makes  *)
(* it false, and it becomes true as time passes.  failCount is only ever   *)
(* compared with maxFailures, incremented and reset, so it stops counting  *)
(* there.                                                                  *)
(***************************************************************************)
EXTENDS Naturals

CONSTANT MaxFailures   \* 5, as NewForwarder sets it

ASSUME BreakerAssumption == MaxFailures \in Nat \ {0}

State == {"closed", "open", "half-open"}

BreakerType == [state : State, failCount : 0..MaxFailures, waited : BOOLEAN]

\* lastFailure is the zero time: its openDuration is long over.
NewBreaker == [state |-> "closed", failCount |-> 0, waited |-> TRUE]

\* Mutated Granted: an open breaker never lets a trial through.
GrantedWhenClosed(b) == b.state = "closed"

\* What Allow returns ...
Granted(b) == b.state = "open" => b.waited

\* ... and what it does to the breaker.
Allow(b) ==
  IF b.state = "open" /\ b.waited THEN [b EXCEPT !.state = "half-open"] ELSE b

\* Mutated Success: the count is reset but the state is not.
SuccessKeepsState(b) == [b EXCEPT !.failCount = 0]

Success(b) == [state |-> "closed", failCount |-> 0, waited |-> b.waited]

Count(b) == IF b.failCount < MaxFailures THEN b.failCount + 1 ELSE b.failCount

\* Mutated Failure: the threshold is tested before the failure is counted.
FailureLate(b) ==
  [state     |-> IF b.state = "half-open" \/ b.failCount >= MaxFailures
                   THEN "open" ELSE b.state,
   failCount |-> Count(b),
   waited    |-> FALSE]

\* Mutated Failure: a failed trial leaves the breaker half-open.
FailureKeepsTrial(b) ==
  [state     |-> IF b.state = "closed" /\ Count(b) >= MaxFailures
                   THEN "open" ELSE b.state,
   failCount |-> Count(b),
   waited    |-> FALSE]

Failure(b) ==
  [state     |-> IF b.state = "half-open" \/ Count(b) >= MaxFailures
                   THEN "open" ELSE b.state,
   failCount |-> Count(b),
   waited    |-> FALSE]

Elapse(b) == [b EXCEPT !.waited = TRUE]
=============================================================================
