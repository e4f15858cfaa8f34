------------------------------ MODULE Seats_proofs ------------------------------
(***************************************************************************)
(* Theorems about Seats, for any finite set of machines, any plans and any *)
(* number of enrolments at once.                                           *)
(***************************************************************************)
EXTENDS Seats, FiniteSetTheorems, TLAPS

LEMMA LimitIsNat ==
  ASSUME NEW p \in Plan
  PROVE  p.limit \in Nat
<1>1. \A x \in Limits : x \in Nat
  BY LimitsAssumption
<1>2. p.limit \in Limits \union {0}
  BY DEF Plan
<1> QED
  BY <1>1, <1>2

\* The state's types are kept by every enrolment, revocation and change of plan.
THEOREM TypeCorrect == Spec => []TypeOK
<1>1. Init => TypeOK
  BY DEF Init, TypeOK, Plan, Agent
<1>2. TypeOK /\ [Next]_vars => TypeOK'
  <2> SUFFICES ASSUME TypeOK, [Next]_vars PROVE TypeOK'
    OBVIOUS
  <2>1. ASSUME NEW new \in Plan, SubscriptionChanges(new) PROVE TypeOK'
    <3>1. new.limit \in Nat
      BY LimitIsNat
    <3> QED
      BY <2>1, <3>1 DEF SubscriptionChanges, TypeOK
  <2>2. ASSUME NEW t \in Threads, NEW m \in Machines, Enroll(t, m) PROVE TypeOK'
    <3> DEFINE w == [machine |-> m, insert |-> ~agent[m].known, was |-> agent[m].trusted,
                     grant |-> Assigned(m), restore |-> agent[m].revoked]
    <3>1. w \in Enrolment
      BY DEF TypeOK, Agent, Enrolment, Assigned, HasSeat, Plan
    <3>2. thread' = [thread EXCEPT ![t] = {w}]
      BY <2>2 DEF Enroll
    <3>3. thread' \in [Threads -> {{}} \union {{v} : v \in Enrolment}]
      BY <3>1, <3>2 DEF TypeOK
    <3> QED
      BY <2>2, <3>3 DEF Enroll, TypeOK
  <2>3. ASSUME NEW t \in Threads, Commit(t) PROVE TypeOK'
    <3>1. PICK w \in thread[t] : Commit(t)!(w)
      BY <2>3 DEF Commit
    <3>2. w \in Enrolment
      BY DEF TypeOK
    <3>3. thread' \in [Threads -> {{}} \union {{v} : v \in Enrolment}]
      BY <3>1 DEF TypeOK
    <3>4. Enrolled(agent[w.machine], w) \in Agent
      BY <3>2 DEF TypeOK, Agent, Enrolment, Enrolled
    <3>5. agent' \in [Machines -> Agent]
      BY <3>1, <3>2, <3>4 DEF TypeOK, Enrolment
    <3>6. Enrolling(Threads) \subseteq Machines
      BY DEF Enrolling, TypeOK, Enrolment
    <3>7. unchecked' \subseteq Machines
      BY <3>1, <3>2, <3>6 DEF TypeOK, Enrolment
    <3> QED
      BY <3>1, <3>3, <3>5, <3>7 DEF TypeOK
  <2>4. ASSUME NEW m \in Machines, Revoke(m) PROVE TypeOK'
    BY <2>4 DEF Revoke, TypeOK, Agent
  <2>5. ASSUME NEW t \in Threads, Abort(t) PROVE TypeOK'
    BY <2>5 DEF Abort, TypeOK
  <2>6. CASE UNCHANGED vars
    BY <2>6 DEF vars, TypeOK
  <2> QED
    BY <2>1, <2>2, <2>3, <2>4, <2>5, <2>6 DEF Next
<1> QED
  BY <1>1, <1>2, PTL DEF Spec

---------------------------------------------------------------------------
(* What a pending enrolment knows *)

\* It never takes trust away, and what it read of the agent's trust is still so.
ClaimInv ==
  \A t \in Threads : \A w \in thread[t] : w.was => w.grant /\ agent[w.machine].trusted

\* A machine that was trusted stays trusted: an enrolment writes the column only if it
\* changes it, and it changes it only to TRUE.
LEMMA TrustStays ==
  ASSUME TypeOK, ClaimInv, [Next]_vars, NEW m \in Machines, agent[m].trusted
  PROVE  agent'[m].trusted
<1>1. ASSUME NEW new \in Plan, SubscriptionChanges(new) PROVE agent'[m].trusted
  BY <1>1 DEF SubscriptionChanges
<1>2. ASSUME NEW t \in Threads, NEW n \in Machines, Enroll(t, n) PROVE agent'[m].trusted
  BY <1>2 DEF Enroll
<1>3. ASSUME NEW t \in Threads, Commit(t) PROVE agent'[m].trusted
  <2>1. PICK w \in thread[t] : Commit(t)!(w)
    BY <1>3 DEF Commit
  <2>2. w \in Enrolment /\ (w.was => w.grant)
    BY DEF TypeOK, ClaimInv
  <2>3. w.machine = m => Enrolled(agent[w.machine], w).trusted
    BY <2>2 DEF Enrolled, Enrolment
  <2> QED
    BY <2>1, <2>2, <2>3 DEF TypeOK, Enrolment
<1>4. ASSUME NEW n \in Machines, Revoke(n) PROVE agent'[m].trusted
  BY <1>4 DEF Revoke, TypeOK, Agent
<1>5. ASSUME NEW t \in Threads, Abort(t) PROVE agent'[m].trusted
  BY <1>5 DEF Abort
<1>6. CASE UNCHANGED vars
  BY <1>6 DEF vars
<1> QED
  BY <1>1, <1>2, <1>3, <1>4, <1>5, <1>6 DEF Next

LEMMA ClaimsHold ==
  ASSUME TypeOK, ClaimInv, [Next]_vars
  PROVE  ClaimInv'
<1> SUFFICES ASSUME NEW t \in Threads, NEW w \in thread'[t], w.was
             PROVE  w.grant /\ agent'[w.machine].trusted
  BY DEF ClaimInv
<1>1. CASE w \in thread[t]
  <2>1. w.grant /\ agent[w.machine].trusted /\ w.machine \in Machines
    BY <1>1 DEF ClaimInv, TypeOK, Enrolment
  <2> QED
    BY <2>1, TrustStays
<1>2. CASE w \notin thread[t]
  <2>1. PICK u \in Threads, m \in Machines : Enroll(u, m)
    <3>1. ~(\E new \in Plan : SubscriptionChanges(new))
      BY <1>2 DEF SubscriptionChanges
    <3>2. ASSUME NEW u \in Threads, Commit(u) \/ Abort(u) PROVE FALSE
      <4>1. thread' = [thread EXCEPT ![u] = {}]
        BY <3>2 DEF Commit, Abort
      <4> QED
        BY <4>1, <1>2 DEF TypeOK
    <3>3. ~(\E m \in Machines : Revoke(m)) /\ ~UNCHANGED vars
      BY <1>2 DEF Revoke, vars
    <3> QED
      BY <3>1, <3>2, <3>3 DEF Next
  <2> DEFINE v == [machine |-> m, insert |-> ~agent[m].known, was |-> agent[m].trusted,
                   grant |-> Assigned(m), restore |-> agent[m].revoked]
  <2>3. thread' = [thread EXCEPT ![u] = {v}] /\ agent' = agent
    BY <2>1 DEF Enroll
  <2>4. t = u /\ thread'[t] = {v}
    BY <1>2, <2>3 DEF TypeOK
  <2>5. w = v
    BY <2>4
  <2>6. /\ w.machine = m /\ w.was = agent[m].trusted /\ w.grant = Assigned(m)
        /\ agent' = agent
    BY <2>3, <2>5
  <2> QED
    BY <2>6 DEF Assigned
<1> QED
  BY <1>1, <1>2

\* An agent's trust, once given, survives every later enrolment.
THEOREM SeatsAreKeptCorrect == Spec => SeatsAreKept
<1>1. Init => ClaimInv
  BY DEF Init, ClaimInv
<1>2. TypeOK /\ ClaimInv /\ [Next]_vars => ClaimInv'
  BY ClaimsHold
<1>3. TypeOK /\ ClaimInv /\ [Next]_vars
      => [\A m \in Machines : agent[m].trusted => agent'[m].trusted]_vars
  BY TrustStays
<1> QED
  BY <1>1, <1>2, <1>3, TypeCorrect, PTL DEF Spec, SeatsAreKept

---------------------------------------------------------------------------
(* The seats *)

Counted == Seated \ unchecked

\* The inductive invariant: while an enrolment that is going to take a seat is pending,
\* that seat is still free, unless another enrolment was committed meanwhile.
SeatInv ==
  /\ plan.limit <= peak
  /\ Cardinality(Counted) <= peak
  /\ \A t \in Threads : \A w \in thread[t] :
       w.grant /\ ~w.was => w.machine \in unchecked \/ Cardinality(Counted) < peak

LEMMA Finite ==
  ASSUME NEW S \in SUBSET Machines
  PROVE  IsFiniteSet(S) /\ Cardinality(S) \in Nat
BY MachinesAssumption, FS_Subset, FS_CardinalityType

LEMMA Smaller ==
  ASSUME NEW S \in SUBSET Machines, NEW T \in SUBSET S
  PROVE  Cardinality(T) <= Cardinality(S)
BY Finite, FS_Subset

\* An agent that is supportable after a commit and was not before has come back, has been
\* granted a seat, or has been left out of the count.
LEMMA NewlySeated ==
  ASSUME TypeOK, ClaimInv, NEW t \in Threads, NEW w \in thread[t], Commit(t)!(w),
         NEW m \in Counted', m \notin Counted
  PROVE  m = w.machine /\ w.grant /\ ~w.was /\ m \notin unchecked
<1>1. w \in Enrolment /\ (w.was => w.grant /\ agent[w.machine].trusted)
  BY DEF TypeOK, ClaimInv
<1>2. m \in Machines /\ agent'[m].trusted /\ ~agent'[m].revoked /\ m \notin unchecked'
  BY DEF Counted, Seated, Supportable
<1>3. unchecked \subseteq unchecked'
  OBVIOUS
<1>4. ~Supportable(m)
  BY <1>2, <1>3 DEF Counted, Seated
<1>5. agent' = [agent EXCEPT ![w.machine] = Enrolled(@, w)] /\ ~(w.insert /\ agent[w.machine].known)
  BY <1>2, <1>4 DEF Supportable
<1>6. m = w.machine
  BY <1>2, <1>4, <1>5 DEF Supportable, TypeOK
<1>7. ~(agent[m].trusted /\ w.restore)
  BY <1>2, <1>5, <1>6
<1>8. /\ agent'[m].trusted = (IF w.grant = w.was THEN agent[m].trusted ELSE w.grant)
      /\ agent'[m].revoked = (agent[m].revoked /\ ~w.restore)
  BY <1>2, <1>5, <1>6 DEF Enrolled, TypeOK
<1>9. ~agent[m].trusted
  <2> SUFFICES ASSUME agent[m].trusted PROVE FALSE
    OBVIOUS
  <2>1. ~w.restore
    BY <1>7
  <2>2. agent[m].revoked
    BY <1>4 DEF Supportable
  <2> QED
    BY <1>2, <1>8, <2>1, <2>2
<1>10. ~w.was
  BY <1>1, <1>6, <1>9
<1>11. w.grant
  BY <1>2, <1>8, <1>9, <1>10
<1> QED
  BY <1>2, <1>3, <1>6, <1>10, <1>11

\* The steps that seat nobody and count nobody keep the invariant.
LEMMA NobodySeated ==
  ASSUME TypeOK, SeatInv, Counted' \subseteq Counted, peak' = peak, plan' = plan,
         unchecked' = unchecked, \A t \in Threads : thread'[t] \subseteq thread[t]
  PROVE  SeatInv'
<1>1. Cardinality(Counted') <= Cardinality(Counted)
  <2>1. Counted \in SUBSET Machines
    BY DEF Counted, Seated
  <2> QED
    BY <2>1, Smaller
<1>2. Cardinality(Counted') \in Nat /\ Cardinality(Counted) \in Nat /\ peak \in Nat
  <2>1. Counted \in SUBSET Machines /\ Counted' \in SUBSET Machines
    BY DEF Counted, Seated
  <2> QED
    BY <2>1, Finite DEF TypeOK
<1>3. Cardinality(Counted') <= peak'
  BY <1>1, <1>2 DEF SeatInv
<1>4. ASSUME NEW t \in Threads, NEW w \in thread'[t], w.grant /\ ~w.was,
             ~(w.machine \in unchecked')
      PROVE  Cardinality(Counted') < peak'
  BY <1>1, <1>2, <1>4 DEF SeatInv
<1> QED
  BY <1>3, <1>4 DEF SeatInv

LEMMA SeatsHold ==
  ASSUME TypeOK, TypeOK', ClaimInv, SeatInv, [Next]_vars
  PROVE  SeatInv'
<1>0. /\ Counted \in SUBSET Machines /\ Counted' \in SUBSET Machines /\ Seated \in SUBSET Machines
      /\ Cardinality(Counted) \in Nat /\ Cardinality(Counted') \in Nat
      /\ Cardinality(Seated) \in Nat /\ peak \in Nat
  <2>1. /\ Counted \in SUBSET Machines /\ Counted' \in SUBSET Machines
        /\ Seated \in SUBSET Machines
    BY DEF Counted, Seated
  <2> QED
    BY <2>1, Finite DEF TypeOK
<1>1. ASSUME NEW new \in Plan, SubscriptionChanges(new) PROVE SeatInv'
  <2>1. Counted' = Counted /\ thread' = thread /\ unchecked' = unchecked
    BY <1>1 DEF SubscriptionChanges, Counted, Seated, Supportable
  <2>2. new.limit \in Nat
    BY LimitIsNat
  <2>3. plan'.limit <= peak' /\ peak <= peak' /\ peak' \in Nat
    BY <1>0, <1>1, <2>2 DEF SubscriptionChanges
  <2>4. Cardinality(Counted') <= peak'
    BY <1>0, <2>1, <2>3 DEF SeatInv
  <2>5. ASSUME NEW t \in Threads, NEW w \in thread'[t], w.grant /\ ~w.was,
               ~(w.machine \in unchecked')
        PROVE  Cardinality(Counted') < peak'
    <3>1. Cardinality(Counted) < peak
      BY <2>1, <2>5 DEF SeatInv
    <3> QED
      BY <1>0, <2>1, <2>3, <3>1
  <2> QED
    BY <2>3, <2>4, <2>5 DEF SeatInv
<1>2. ASSUME NEW u \in Threads, NEW m \in Machines, Enroll(u, m) PROVE SeatInv'
  <2> DEFINE v == [machine |-> m, insert |-> ~agent[m].known, was |-> agent[m].trusted,
                   grant |-> Assigned(m), restore |-> agent[m].revoked]
  <2>1. thread' = [thread EXCEPT ![u] = {v}]
    BY <1>2 DEF Enroll
  <2>2. Counted' = Counted /\ UNCHANGED <<plan, peak, unchecked>>
    BY <1>2 DEF Enroll, Counted, Seated, Supportable
  <2>3. ASSUME NEW t \in Threads, NEW w \in thread'[t], w.grant /\ ~w.was,
               ~(w.machine \in unchecked')
        PROVE  Cardinality(Counted') < peak'
    <3>1. CASE w \in thread[t]
      BY <2>2, <2>3, <3>1 DEF SeatInv
    <3>2. CASE w \notin thread[t]
      <4>1. t = u /\ thread'[t] = {v}
        BY <2>1, <3>2 DEF TypeOK
      <4>2. w = v
        BY <4>1
      <4>3. HasSeat
        BY <2>3, <4>2 DEF Assigned
      <4>4. Cardinality(Seated) < plan.limit
        <5>1. plan.limit - Cardinality(Seated) > 0
          BY <4>3 DEF HasSeat
        <5>2. plan.limit \in Nat
          BY LimitIsNat DEF TypeOK
        <5> QED
          BY <1>0, <5>1, <5>2
      <4>5. Cardinality(Counted) <= Cardinality(Seated)
        <5>1. Counted \in SUBSET Seated
          BY DEF Counted
        <5> QED
          BY <1>0, <5>1, Smaller
      <4>6. plan.limit <= peak /\ plan.limit \in Nat
        BY LimitIsNat DEF SeatInv, TypeOK
      <4> QED
        BY <1>0, <2>2, <4>4, <4>5, <4>6
    <3> QED
      BY <3>1, <3>2
  <2>4. plan'.limit <= peak' /\ Cardinality(Counted') <= peak'
    BY <2>2 DEF SeatInv
  <2> QED
    BY <2>3, <2>4 DEF SeatInv
<1>3. ASSUME NEW u \in Threads, Commit(u) PROVE SeatInv'
  <2>1. PICK w \in thread[u] : Commit(u)!(w)
    BY <1>3 DEF Commit
  <2>2. thread' = [thread EXCEPT ![u] = {}] /\ UNCHANGED <<plan, peak>>
    BY <2>1
  <2>3. \A m \in Counted' : m \notin Counted =>
          m = w.machine /\ w.grant /\ ~w.was /\ m \notin unchecked
    BY <2>1, NewlySeated
  <2>4. Cardinality(Counted') <= peak
    <3>1. CASE Counted' \subseteq Counted
      <4>1. Cardinality(Counted') <= Cardinality(Counted)
        BY <1>0, <3>1, Smaller
      <4> QED
        BY <1>0, <4>1 DEF SeatInv
    <3>2. CASE ~(Counted' \subseteq Counted)
      <4>1. Counted' \subseteq Counted \union {w.machine}
        BY <2>3
      <4>2. w.grant /\ ~w.was /\ w.machine \notin unchecked
        BY <2>3, <3>2
      <4>3. Cardinality(Counted) < peak
        BY <4>2 DEF SeatInv
      <4>4. Cardinality(Counted') <= Cardinality(Counted \union {w.machine})
        <5>1. Counted \union {w.machine} \in SUBSET Machines
          BY <1>0 DEF TypeOK, Enrolment
        <5> QED
          BY <4>1, <5>1, Smaller
      <4>5. IsFiniteSet(Counted)
        BY <1>0, Finite
      <4>6. /\ IsFiniteSet(Counted \union {w.machine})
            /\ Cardinality(Counted \union {w.machine})
                 = IF w.machine \in Counted THEN Cardinality(Counted) ELSE Cardinality(Counted) + 1
        BY <4>5, FS_AddElement
      <4>7. /\ Cardinality(Counted \union {w.machine}) \in Nat
            /\ Cardinality(Counted \union {w.machine}) <= Cardinality(Counted) + 1
        BY <1>0, <4>6
      <4> QED
        BY <1>0, <4>3, <4>4, <4>7
    <3> QED
      BY <3>1, <3>2
  <2>5. ASSUME NEW t \in Threads, NEW v \in thread'[t], v.grant /\ ~v.was,
               ~(v.machine \in unchecked')
        PROVE  Cardinality(Counted') < peak'
    <3>1. t # u /\ v \in thread[t]
      BY <2>2 DEF TypeOK
    <3>2. v.machine \in Enrolling(Threads \ {u}) /\ v.machine \in Enrolling(Threads)
      BY <3>1 DEF Enrolling
    <3>3. UNCHANGED <<agent, unchecked>>
      BY <2>1, <2>5, <3>2
    <3>4. Counted' = Counted
      BY <3>3 DEF Counted, Seated, Supportable
    <3>5. Cardinality(Counted) < peak
      BY <2>5, <3>1, <3>3 DEF SeatInv
    <3> QED
      BY <2>2, <3>4, <3>5
  <2>6. plan'.limit <= peak' /\ Cardinality(Counted') <= peak'
    BY <2>2, <2>4 DEF SeatInv
  <2> QED
    BY <2>5, <2>6 DEF SeatInv
<1>4. ASSUME NEW m \in Machines, Revoke(m) PROVE SeatInv'
  <2>1. /\ agent' = [agent EXCEPT ![m].revoked = TRUE]
        /\ UNCHANGED <<plan, thread, peak, unchecked>>
    BY <1>4 DEF Revoke
  <2>2. Counted' \subseteq Counted
    BY <2>1 DEF Counted, Seated, Supportable, TypeOK, Agent
  <2> QED
    BY <2>1, <2>2, NobodySeated
<1>5. ASSUME NEW t \in Threads, Abort(t) PROVE SeatInv'
  <2>1. thread' = [thread EXCEPT ![t] = {}] /\ UNCHANGED <<plan, agent, peak, unchecked>>
    BY <1>5 DEF Abort
  <2>2. Counted' = Counted
    BY <2>1 DEF Counted, Seated, Supportable
  <2>3. \A u \in Threads : thread'[u] \subseteq thread[u]
    BY <2>1 DEF TypeOK
  <2> QED
    BY <2>1, <2>2, <2>3, NobodySeated
<1>6. CASE UNCHANGED vars
  <2>1. Counted' = Counted
    BY <1>6 DEF vars, Counted, Seated, Supportable
  <2> QED
    BY <1>6, <2>1, NobodySeated DEF vars
<1> QED
  BY <1>1, <1>2, <1>3, <1>4, <1>5, <1>6 DEF Next

\* No enrolment that looked at a current count seats a machine beyond the largest plan.
THEOREM SeatsWithinPlanCorrect == Spec => []SeatsWithinPlan
<1>1. Init => SeatInv /\ ClaimInv
  <2> SUFFICES ASSUME Init PROVE SeatInv /\ ClaimInv
    OBVIOUS
  <2>1. Counted = {}
    BY DEF Init, Counted, Seated, Supportable
  <2>2. Cardinality(Counted) = 0
    BY <2>1, FS_EmptySet
  <2> QED
    BY <2>2 DEF Init, SeatInv, ClaimInv
<1>2. TypeOK /\ TypeOK' /\ SeatInv /\ ClaimInv /\ [Next]_vars => SeatInv' /\ ClaimInv'
  BY SeatsHold, ClaimsHold
<1>3. SeatInv => SeatsWithinPlan
  BY DEF SeatInv, SeatsWithinPlan, Counted
<1> QED
  BY <1>1, <1>2, <1>3, TypeCorrect, PTL DEF Spec
=============================================================================
