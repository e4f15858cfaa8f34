--------------------------- MODULE CircuitBreaker ---------------------------
(***************************************************************************)
(* One circuit breaker of core/circuit_breaker.py as a value and the       *)
(* operations on it.  Each runs under the breaker's lock, so each is one   *)
(* atomic step of whoever uses it.                                         *)
(*                                                                         *)
(* failures stops counting at FailureThreshold, the only value it is ever  *)
(* compared with; cooled stands for "recovery_timeout_seconds have passed  *)
(* since opened_at".                                                       *)
(***************************************************************************)
EXTENDS Naturals

CONSTANTS FailureThreshold,  \* failures that open a closed circuit
          SuccessThreshold,  \* successes that close a half-open one
          HalfOpenMax        \* half_open_max_calls: probes admitted at once

ASSUME ThresholdsAssumption ==
  /\ FailureThreshold \in Nat \ {0}
  /\ SuccessThreshold \in Nat \ {0}
  /\ HalfOpenMax \in Nat \ {0}

Breaker == [state     : {"closed", "open", "half_open"},
            failures  : 0..FailureThreshold,
            successes : 0..SuccessThreshold,
            inflight  : 0..HalfOpenMax,
            cooled    : BOOLEAN]

NewBreaker ==
  [state |-> "closed", failures |-> 0, successes |-> 0, inflight |-> 0, cooled |-> FALSE]

\* _transition_to_half_open_if_ready, which allow() calls first.
HalfOpened(b) ==
  IF b.state = "open" /\ b.cooled
    THEN [b EXCEPT !.state = "half_open", !.inflight = 0, !.successes = 0, !.cooled = FALSE]
    ELSE b

\* The answer of allow().
Admits(b) ==
  \/ b.state = "closed"
  \/ b.state = "open" /\ b.cooled
  \/ b.state = "half_open" /\ b.inflight < HalfOpenMax

\* The breaker after allow(): an admitted probe takes one of the slots.
Allowed(b) ==
  LET h == HalfOpened(b)
  IN IF h.state = "half_open" /\ h.inflight < HalfOpenMax
       THEN [h EXCEPT !.inflight = @ + 1]
       ELSE h

Less(n) == IF n = 0 THEN 0 ELSE n - 1

\* record_success.  Outside HALF_OPEN it closes the circuit whatever the state.
Succeeded(b) ==
  LET s == b.successes + 1
  IN CASE b.state = "half_open" /\ s < SuccessThreshold ->
            [b EXCEPT !.failures = 0, !.successes = s, !.inflight = Less(@)]
       [] b.state = "half_open" /\ s >= SuccessThreshold ->
            [b EXCEPT !.failures = 0, !.successes = 0, !.inflight = Less(@), !.state = "closed"]
       [] b.state # "half_open" ->
            [b EXCEPT !.failures = 0, !.state = "closed", !.cooled = FALSE]

Counted(n) == IF n < FailureThreshold THEN n + 1 ELSE n

\* Mutant: a failed probe leaves the circuit half open.
Failed_StaysHalfOpen(b) ==
  LET f == [b EXCEPT !.failures = Counted(@), !.successes = 0]
  IN IF f.failures >= FailureThreshold /\ f.state # "half_open"
       THEN [f EXCEPT !.state = "open", !.cooled = FALSE]
       ELSE f

\* record_failure: a failed probe reopens at once, otherwise the threshold decides.
\* Either way opened_at is set to now.
Failed(b) ==
  LET f == [b EXCEPT !.failures = Counted(@), !.successes = 0]
  IN IF f.state = "half_open"
       THEN [f EXCEPT !.inflight = Less(@), !.state = "open", !.cooled = FALSE]
       ELSE IF f.failures >= FailureThreshold
              THEN [f EXCEPT !.state = "open", !.cooled = FALSE]
              ELSE f

\* The passing of recovery_timeout_seconds.
CanCool(b) == b.state = "open" /\ ~b.cooled
Cooled(b)  == [b EXCEPT !.cooled = TRUE]
=============================================================================
