---------------------------- MODULE CircuitCalls ----------------------------
(***************************************************************************)
(* CircuitBreakerRegistry.call: threads that run a function behind one     *)
(* breaker.  allow(), the function and the record are separate steps, so   *)
(* calls overlap and a call may end in a later state of the breaker than   *)
(* the one that admitted it.                                               *)
(***************************************************************************)
EXTENDS CircuitBreaker, FiniteSets

CONSTANTS Callers        \* threads that may be inside call() at once

ASSUME CallersAssumption == IsFiniteSet(Callers)

VARIABLES breaker,
          running,       \* callers whose function has not returned
          probes         \* history: those admitted in the current HALF_OPEN period

vars == <<breaker, running, probes>>

TypeOK ==
  /\ breaker \in Breaker
  /\ running \subseteq Callers
  /\ probes \subseteq running

Init ==
  /\ breaker = NewBreaker
  /\ running = {}
  /\ probes = {}

\* allow() said yes.  When it says no, the breaker is unchanged and call() raises
\* CircuitOpenError.
Call(c) ==
  /\ c \notin running
  /\ Admits(breaker)
  /\ breaker' = Allowed(breaker)
  /\ running' = running \union {c}
  /\ probes' = CASE breaker.state = "closed"    -> probes
                 [] breaker.state = "open"      -> {c}
                 [] breaker.state = "half_open" -> probes \union {c}

\* The function returned.
Return(c) ==
  /\ c \in running
  /\ breaker' = Succeeded(breaker)
  /\ running' = running \ {c}
  /\ probes' = probes \ {c}

\* The function raised.
Raise(c) ==
  /\ c \in running
  /\ breaker' = Failed(breaker)
  /\ running' = running \ {c}
  /\ probes' = probes \ {c}

Cool ==
  /\ CanCool(breaker)
  /\ breaker' = Cooled(breaker)
  /\ UNCHANGED <<running, probes>>

\* reset: the counters go too, the calls in progress do not.
Reset ==
  /\ breaker' = NewBreaker
  /\ UNCHANGED <<running, probes>>

Next ==
  \/ \E c \in Callers : Call(c) \/ Return(c) \/ Raise(c)
  \/ Cool
  \/ Reset

Spec == Init /\ [][Next]_vars

\* Time passes, and a function that was called returns or raises.
Fairness == WF_vars(Cool) /\ \A c \in Callers : WF_vars(Return(c) \/ Raise(c))

FairSpec == Spec /\ Fairness

---------------------------------------------------------------------------
HalfOpen == breaker.state = "half_open"

\* A recovering dependency is probed by at most half_open_max_calls functions at
\* once, although calls admitted before the circuit opened end during the probe
\* and give back slots they never took.  It needs the success_threshold of 1 that
\* every caller uses: then any outcome ends the HALF_OPEN period.
ProbesBounded == SuccessThreshold = 1 /\ HalfOpen => Cardinality(probes) <= HalfOpenMax

\* Every slot in use belongs to a function that is still running and will release
\* it, so a HALF_OPEN circuit never rejects everybody for ever.
SlotsAreHeld == HalfOpen => breaker.inflight <= Cardinality(probes)

\* Whatever fails, the circuit keeps coming back to a state that admits a call.
KeepsAdmitting == []<>Admits(breaker)
=============================================================================
