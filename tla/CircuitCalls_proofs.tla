------------------------ MODULE CircuitCalls_proofs ------------------------
(***************************************************************************)
(* Theorems about CircuitCalls, for any finite set of callers and any      *)
(* thresholds.                                                             *)
(***************************************************************************)
EXTENDS CircuitCalls, FiniteSetTheorems, TLAPS

\* What the breaker's operations make of a breaker is a breaker.
LEMMA OperationsType ==
  ASSUME NEW b \in Breaker
  PROVE  /\ Allowed(b) \in Breaker
         /\ Succeeded(b) \in Breaker
         /\ Failed(b) \in Breaker
         /\ NewBreaker \in Breaker
<1>0. /\ 0 \in 0..FailureThreshold /\ 0 \in 0..SuccessThreshold /\ 0 \in 0..HalfOpenMax
      /\ Less(b.inflight) \in 0..HalfOpenMax
      /\ Counted(b.failures) \in 0..FailureThreshold
      /\ b.successes + 1 < SuccessThreshold => b.successes + 1 \in 0..SuccessThreshold
  BY ThresholdsAssumption DEF Breaker, Less, Counted
<1>1. Allowed(b) \in Breaker
  <2>1. HalfOpened(b) \in Breaker
    BY <1>0 DEF HalfOpened, Breaker
  <2>2. ASSUME NEW h \in Breaker, h.inflight < HalfOpenMax
        PROVE  [h EXCEPT !.inflight = @ + 1] \in Breaker
    BY <2>2, ThresholdsAssumption DEF Breaker
  <2> QED
    BY <2>1, <2>2 DEF Allowed
<1>2. Succeeded(b) \in Breaker
  <2>1. CASE b.state = "half_open" /\ b.successes + 1 < SuccessThreshold
    BY <1>0, <2>1 DEF Succeeded, Breaker
  <2>2. CASE b.state = "half_open" /\ ~(b.successes + 1 < SuccessThreshold)
    <3>1. b.successes + 1 >= SuccessThreshold
      BY <2>2, ThresholdsAssumption DEF Breaker
    <3> QED
      BY <1>0, <2>2, <3>1 DEF Succeeded, Breaker
  <2>3. CASE b.state # "half_open"
    BY <1>0, <2>3 DEF Succeeded, Breaker
  <2> QED
    BY <2>1, <2>2, <2>3
<1>3. Failed(b) \in Breaker
  <2> DEFINE f == [b EXCEPT !.failures = Counted(@), !.successes = 0]
  <2>1. f \in Breaker /\ f.inflight = b.inflight
    BY <1>0 DEF Breaker
  <2>2. /\ [f EXCEPT !.inflight = Less(@), !.state = "open", !.cooled = FALSE] \in Breaker
        /\ [f EXCEPT !.state = "open", !.cooled = FALSE] \in Breaker
    BY <1>0, <2>1 DEF Breaker
  <2> QED
    BY <2>1, <2>2 DEF Failed
<1>4. NewBreaker \in Breaker
  BY <1>0 DEF NewBreaker, Breaker
<1> QED
  BY <1>1, <1>2, <1>3, <1>4

\* The counters stay within their limits, below zero in particular.
THEOREM TypeCorrect == Spec => []TypeOK
<1>1. Init => TypeOK
  BY OperationsType, ThresholdsAssumption DEF Init, TypeOK, NewBreaker, Breaker
<1>2. TypeOK /\ [Next]_vars => TypeOK'
  <2> SUFFICES ASSUME TypeOK, [Next]_vars PROVE TypeOK'
    OBVIOUS
  <2>1. ASSUME NEW c \in Callers, Call(c) PROVE TypeOK'
    BY <2>1, OperationsType DEF Call, TypeOK, Breaker
  <2>2. ASSUME NEW c \in Callers, Return(c) \/ Raise(c) PROVE TypeOK'
    BY <2>2, OperationsType DEF Return, Raise, TypeOK
  <2>3. CASE Cool
    BY <2>3 DEF Cool, Cooled, TypeOK, Breaker
  <2>4. CASE Reset
    BY <2>4, OperationsType DEF Reset, TypeOK
  <2>5. CASE UNCHANGED vars
    BY <2>5 DEF vars, TypeOK
  <2> QED
    BY <2>1, <2>2, <2>3, <2>4, <2>5 DEF Next
<1> QED
  BY <1>1, <1>2, PTL DEF Spec

\* The slots in use are those of the probes that are still running: never more, and
\* with a success_threshold of 1 never fewer.
SlotInv ==
  HalfOpen =>
    /\ breaker.inflight <= Cardinality(probes)
    /\ SuccessThreshold = 1 => Cardinality(probes) <= breaker.inflight

\* One member more or less changes the number of probes by at most one.
LEMMA ProbeCount ==
  ASSUME TypeOK, NEW c \in Callers
  PROVE  /\ Cardinality(probes) \in Nat
         /\ Cardinality({c}) = 1
         /\ c \notin probes => Cardinality(probes \union {c}) = Cardinality(probes) + 1
         /\ c \in probes => Cardinality(probes \ {c}) = Cardinality(probes) - 1
         /\ c \notin probes => Cardinality(probes \ {c}) = Cardinality(probes)
<1>1. IsFiniteSet(probes)
  BY CallersAssumption, FS_Subset DEF TypeOK
<1>2. Cardinality(probes) \in Nat
  BY <1>1, FS_CardinalityType
<1>3. Cardinality({c}) = 1
  BY FS_Singleton
<1>4. c \notin probes => Cardinality(probes \union {c}) = Cardinality(probes) + 1
  BY <1>1, FS_AddElement
<1>5. c \in probes => Cardinality(probes \ {c}) = Cardinality(probes) - 1
  BY <1>1, FS_RemoveElement
<1>6. c \notin probes => probes \ {c} = probes
  OBVIOUS
<1> QED
  BY <1>2, <1>3, <1>4, <1>5, <1>6

\* SlotInv is kept by every step: allow() takes a slot for the probe it admits, and a
\* record gives back at most one.
THEOREM SlotsCorrect == Spec => []SlotInv
<1>1. Init => SlotInv
  BY DEF Init, SlotInv, HalfOpen, NewBreaker
<1>2. TypeOK /\ SlotInv /\ [Next]_vars => SlotInv'
  <2> SUFFICES ASSUME TypeOK, SlotInv, [Next]_vars PROVE SlotInv'
    OBVIOUS
  <2> USE DEF SlotInv, HalfOpen
  <2> breaker \in Breaker
    BY DEF TypeOK
  <2>1. ASSUME NEW c \in Callers, Call(c) PROVE SlotInv'
    <3>1. CASE breaker.state = "closed"
      BY <2>1, <3>1 DEF Call, Allowed, HalfOpened, Breaker
    <3>2. CASE breaker.state = "open"
      <4>1. breaker'.inflight = 1 /\ probes' = {c}
        BY <2>1, <3>2, ThresholdsAssumption DEF Call, Admits, Allowed, HalfOpened, Breaker
      <4>2. Cardinality({c}) = 1
        BY ProbeCount
      <4> QED
        BY <4>1, <4>2
    <3>3. CASE breaker.state = "half_open"
      <4>1. breaker'.inflight = breaker.inflight + 1 /\ probes' = probes \union {c}
        BY <2>1, <3>3 DEF Call, Admits, Allowed, HalfOpened, Breaker
      <4>2. c \notin probes
        BY <2>1 DEF Call, TypeOK
      <4>3. Cardinality(probes') = Cardinality(probes) + 1 /\ Cardinality(probes) \in Nat
        BY <4>1, <4>2, ProbeCount
      <4>4. breaker.inflight \in Nat
        BY ThresholdsAssumption DEF Breaker
      <4> QED
        BY <3>3, <4>1, <4>3, <4>4
    <3> QED
      BY <3>1, <3>2, <3>3 DEF Breaker
  <2>2. ASSUME NEW c \in Callers, Return(c) PROVE SlotInv'
    <3>1. CASE breaker.state = "half_open" /\ breaker.successes + 1 < SuccessThreshold
      <4>1. breaker'.inflight = Less(breaker.inflight) /\ probes' = probes \ {c} /\ SuccessThreshold # 1
        BY <2>2, <3>1, ThresholdsAssumption DEF Return, Succeeded, Breaker
      <4>2. /\ Cardinality(probes) \in Nat
            /\ \/ Cardinality(probes') = Cardinality(probes) - 1
               \/ Cardinality(probes') = Cardinality(probes)
            /\ Cardinality(probes') \in Nat
        <5>1. IsFiniteSet(probes) /\ IsFiniteSet(probes')
          BY <4>1, CallersAssumption, FS_Subset DEF TypeOK
        <5> QED
          BY <4>1, <5>1, ProbeCount, FS_CardinalityType
      <4>3. breaker.inflight \in Nat
        BY ThresholdsAssumption DEF Breaker
      <4> QED
        BY <3>1, <4>1, <4>2, <4>3 DEF Less
    <3>2. CASE ~(breaker.state = "half_open" /\ breaker.successes + 1 < SuccessThreshold)
      BY <2>2, <3>2, ThresholdsAssumption DEF Return, Succeeded, Breaker
    <3> QED
      BY <3>1, <3>2
  <2>3. ASSUME NEW c \in Callers, Raise(c) PROVE SlotInv'
    BY <2>3, ThresholdsAssumption DEF Raise, Failed, Counted, Breaker
  <2>4. CASE Cool \/ Reset
    BY <2>4 DEF Cool, CanCool, Cooled, Reset, NewBreaker, Breaker
  <2>5. CASE UNCHANGED vars
    BY <2>5 DEF vars
  <2> QED
    BY <2>1, <2>2, <2>3, <2>4, <2>5 DEF Next
<1> QED
  BY <1>1, <1>2, TypeCorrect, PTL DEF Spec

\* A HALF_OPEN breaker has a running probe for every slot it counts as taken.
THEOREM SlotsAreHeldCorrect == Spec => []SlotsAreHeld
<1>1. SlotInv => SlotsAreHeld
  BY DEF SlotInv, SlotsAreHeld
<1> QED
  BY <1>1, SlotsCorrect, PTL

\* With a success_threshold of 1 no more than half_open_max_calls probes run at once.
THEOREM ProbesBoundedCorrect == Spec => []ProbesBounded
<1>1. TypeOK /\ SlotInv => ProbesBounded
  <2> SUFFICES ASSUME TypeOK, SlotInv, SuccessThreshold = 1, HalfOpen
               PROVE  Cardinality(probes) <= HalfOpenMax
    BY DEF ProbesBounded
  <2>1. breaker.inflight \in 0..HalfOpenMax
    BY DEF TypeOK, Breaker
  <2>2. Cardinality(probes) \in Nat
    BY CallersAssumption, FS_Subset, FS_CardinalityType DEF TypeOK
  <2> QED
    BY <2>1, <2>2, ThresholdsAssumption DEF SlotInv
<1> QED
  BY <1>1, TypeCorrect, SlotsCorrect, PTL
=============================================================================
