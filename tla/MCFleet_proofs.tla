---------------------------- MODULE MCFleet_proofs ----------------------------
(***************************************************************************)
(* Theorems about what the server does with the devices, for every value   *)
(* of the constants.  Inv of each component, with the variables of         *)
(* Gallery, is the inductive invariant; the run stays in its component, so *)
(* that FleetSpec keeps it.                                                *)
(***************************************************************************)
EXTENDS MCFleet, SequenceTheorems, TLAPS

\* A step of the fleet is one of the component in focus.
LEMMA Focused ==
  ASSUME [FleetNext]_FleetVars
  PROVE  /\ focus' = focus
         /\ focus = "rollout" => Rollout!Next \/ UNCHANGED slots
         /\ focus = "alerts" => Monitor!Next \/ UNCHANGED slots
         /\ focus = "remediation" => Remedy!Next \/ UNCHANGED slots
         /\ focus = "presence" => Presence!Next \/ UNCHANGED slots
         /\ focus = "security" => Posture!Next \/ UNCHANGED slots
BY DEF FleetNext, FleetVars

---------------------------------------------------------------------------
(* PatchRollout *)

\* An execution is one of these records, at rest or not.
LEMMA RunType ==
  ASSUME Rollout!TypeOK, NEW r \in Requests
  PROVE  /\ v4[r] \in [open : BOOLEAN, read : Rollout!Status, left : SUBSET v2, queued : BOOLEAN, skipped : BOOLEAN]
         /\ ~Rollout!Unrun.open /\ Rollout!Unrun.left = {}
         /\ Rollout!Unrun \in [open : BOOLEAN, read : Rollout!Status, left : SUBSET v2, queued : BOOLEAN, skipped : BOOLEAN]
BY DEF Rollout!TypeOK, Rollout!Unrun, Rollout!Status

LEMMA RolloutKeeps ==
  ASSUME Rollout!Inv, Rollout!Next
  PROVE  Rollout!Inv'
<1> DEFINE Run == [open : BOOLEAN, read : Rollout!Status, left : SUBSET v2, queued : BOOLEAN, skipped : BOOLEAN]
           Goal == Rollout!TypeOK' /\ Rollout!OneExecution' /\ Rollout!StatusTellsOrders'
<1>0. Rollout!TypeOK /\ Rollout!OneExecution /\ Rollout!StatusTellsOrders
  BY DEF Rollout!Inv
<1>1. ASSUME NEW r \in Requests, Rollout!Execute(r) PROVE Goal
  <2> DEFINE x == [Rollout!Unrun EXCEPT !.open = TRUE, !.read = v1, !.left = v2]
  <2>1. x \in Run /\ x.open = TRUE /\ x.read = v1 /\ x.queued = FALSE
    BY <1>0 DEF Rollout!Unrun, Rollout!TypeOK
  <2> HIDE DEF x
  <2>2. v4' = [v4 EXCEPT ![r] = x] /\ UNCHANGED <<v1, v2, v3, v5>> /\ ~v4[r].open
        /\ v6' = (v6 \/ v1 # "planned" \/ \E q \in Requests : v4[q].open)
    BY <1>1 DEF Rollout!Execute, x
  <2>3. \A q \in Requests : v4'[q] = IF q = r THEN x ELSE v4[q]
    BY <1>0, <2>2 DEF Rollout!TypeOK
  <2>4. Rollout!TypeOK'
    BY <1>0, <2>1, <2>2 DEF Rollout!TypeOK
  <2>5. Rollout!OneExecution'
    BY <1>0, <2>1, <2>2, <2>3 DEF Rollout!OneExecution, Rollout!StatusTellsOrders
  <2>6. Rollout!StatusTellsOrders'
    BY <1>0, <2>1, <2>2, <2>3 DEF Rollout!StatusTellsOrders
  <2> QED
    BY <2>4, <2>5, <2>6
<1>2. ASSUME NEW r \in Requests, NEW d \in v4[r].left, Rollout!QueueOne(r, d) \/ Rollout!SkipOne(r, d) PROVE Goal
  <2>0. v4[r].open
    BY <1>0, RunType DEF Rollout!OneExecution
  <2>1. PICK x : v4' = [v4 EXCEPT ![r] = x] /\ x \in Run /\ x.open /\ x.read = v4[r].read
                 /\ \/ x.queued /\ v5' = v5 \union {d}
                    \/ (x.queued <=> v4[r].queued) /\ v5' = v5
    <3>1. CASE Rollout!QueueOne(r, d)
      <4> DEFINE x == [v4[r] EXCEPT !.left = v4[r].left \ {d}, !.queued = TRUE]
      <4>1. x \in Run /\ x.open /\ x.read = v4[r].read /\ x.queued
        BY <1>0, <2>0, RunType
      <4>2. v4' = [v4 EXCEPT ![r] = x] /\ v5' = v5 \union {d}
        BY <3>1 DEF Rollout!QueueOne
      <4> QED
        BY <4>1, <4>2
    <3>2. CASE Rollout!SkipOne(r, d)
      <4> DEFINE x == [v4[r] EXCEPT !.left = v4[r].left \ {d}, !.skipped = TRUE]
      <4>1. x \in Run /\ x.open /\ x.read = v4[r].read /\ (x.queued <=> v4[r].queued)
        BY <1>0, <2>0, RunType
      <4>2. v4' = [v4 EXCEPT ![r] = x] /\ v5' = v5
        BY <3>2 DEF Rollout!SkipOne
      <4> QED
        BY <4>1, <4>2
    <3> QED
      BY <1>2, <3>1, <3>2
  <2>2. UNCHANGED <<v1, v2, v3, v6>> /\ v5' \subseteq Hosts
    BY <1>0, <1>2 DEF Rollout!QueueOne, Rollout!SkipOne, Rollout!TypeOK
  <2>3. v4[r].open /\ \A q \in Requests : v4'[q] = IF q = r THEN x ELSE v4[q]
    BY <1>0, <2>1, RunType DEF Rollout!TypeOK, Rollout!OneExecution
  <2>4. Rollout!TypeOK'
    BY <1>0, <2>1, <2>2 DEF Rollout!TypeOK
  <2>5. Rollout!OneExecution'
    BY <1>0, <2>1, <2>2, <2>3 DEF Rollout!OneExecution
  <2>6. Rollout!StatusTellsOrders'
    BY <1>0, <2>1, <2>2, <2>3 DEF Rollout!OneExecution, Rollout!StatusTellsOrders
  <2> QED
    BY <2>4, <2>5, <2>6
<1>3. ASSUME NEW r \in Requests, Rollout!Finish(r) \/ Rollout!Abort(r) PROVE Goal
  <2>1. /\ v4' = [v4 EXCEPT ![r] = Rollout!Unrun] /\ UNCHANGED <<v2, v3, v5>> /\ v4[r].open
        /\ \/ v6' = TRUE /\ v1' = v1
           \/ v6' = v6 /\ v1' = IF Rollout!Verdict(v4[r]) = v4[r].read THEN v1 ELSE Rollout!Verdict(v4[r])
    BY <1>3 DEF Rollout!Finish, Rollout!Abort
  <2>2. Rollout!Verdict(v4[r]) = IF v4[r].queued THEN "in_progress" ELSE IF v4[r].skipped THEN "failed" ELSE "completed"
    BY DEF Rollout!Verdict
  <2>3. \A q \in Requests : v4'[q] = IF q = r THEN Rollout!Unrun ELSE v4[q]
    BY <1>0, <2>1 DEF Rollout!TypeOK
  <2>4. Rollout!TypeOK'
    BY <1>0, <2>1, <2>2, RunType DEF Rollout!TypeOK, Rollout!Status
  <2>5. Rollout!OneExecution'
    <3>1. ~Rollout!Unrun.open
      BY <1>0, RunType
    <3>2. \A q \in Requests : v4'[q].open => q # r /\ v4[q].open
      BY <2>3, <3>1
    <3>3. \A q \in Requests : ~v4'[q].open => v4'[q] = Rollout!Unrun
      BY <1>0, <2>3 DEF Rollout!OneExecution
    <3>4. v6' \/ \A q \in Requests : ~v4'[q].open
      BY <1>0, <2>1, <3>2 DEF Rollout!OneExecution
    <3> QED
      BY <3>3, <3>4 DEF Rollout!OneExecution
  <2>6. Rollout!StatusTellsOrders'
    BY <1>0, <2>1, <2>2, <2>3 DEF Rollout!OneExecution, Rollout!StatusTellsOrders
  <2> QED
    BY <2>4, <2>5, <2>6
<1>4. ASSUME Rollout!Rollback \/ \E h \in Hosts : Rollout!SetEnabled(h) PROVE Goal
  <2>1. /\ UNCHANGED <<v2, v4, v5>> /\ v3' \subseteq Hosts
        /\ \/ v1' = "rolled_back" /\ v6' = (v6 \/ \E r \in Requests : v4[r].open)
           \/ UNCHANGED <<v1, v6>>
    BY <1>0, <1>4 DEF Rollout!Rollback, Rollout!SetEnabled, Rollout!TypeOK
  <2> QED
    BY <1>0, <2>1 DEF Rollout!TypeOK, Rollout!Status, Rollout!OneExecution, Rollout!StatusTellsOrders
<1>5. Goal
  <2> HIDE DEF Goal
  <2> QED
    BY <1>1, <1>2, <1>3, <1>4 DEF Rollout!Next
<1> QED
  BY <1>5 DEF Rollout!Inv

\* Unless it was executed more than once or cut off, a rollout reads failed, completed or planned
\* only if it has ordered nothing, and in progress only if it has (Verdict, execute_rollout), for
\* any number of devices and requests.
THEOREM StatusTellsOrdersCorrect == FleetSpec => []StatusTellsOrders
<1> DEFINE I == focus = "rollout" => Rollout!Inv
<1>1. FleetInit => I
  <2> SUFFICES ASSUME Rollout!Init PROVE Rollout!Inv
    BY DEF FleetInit
  <2>1. Rollout!TypeOK
    BY DEF Rollout!Init, Rollout!TypeOK, Rollout!Unrun, Rollout!Status
  <2>2. \A r \in Requests : v4[r] = Rollout!Unrun /\ ~Rollout!Unrun.open
    BY DEF Rollout!Init, Rollout!Unrun
  <2> QED
    BY <2>1, <2>2 DEF Rollout!Init, Rollout!Inv, Rollout!OneExecution, Rollout!StatusTellsOrders
<1>2. I /\ [FleetNext]_FleetVars => I'
  <2> SUFFICES ASSUME Rollout!Inv, [FleetNext]_FleetVars, focus = "rollout" PROVE Rollout!Inv'
    BY Focused
  <2>1. CASE UNCHANGED slots
    BY <2>1 DEF slots, Rollout!Inv, Rollout!TypeOK, Rollout!OneExecution, Rollout!StatusTellsOrders
  <2> QED
    BY <2>1, Focused, RolloutKeeps
<1>3. I => StatusTellsOrders
  BY DEF StatusTellsOrders, Rollout!Inv
<1> QED
  BY <1>1, <1>2, <1>3, PTL DEF FleetSpec
---------------------------------------------------------------------------
(* DeviceHealth *)

LEMMA HealthOperators ==
  ASSUME NEW a \in 0..MaxAge
  PROVE  /\ Presence!StatusOf(a) \in Presence!Status
         /\ Presence!StatusOf(a) = "online" <=> a <= Online
         /\ Presence!StatusOf(a) = "offline" => a > Online /\ a > Overdue
BY HealthAssumption DEF Presence!StatusOf, Presence!Status

LEMMA HealthLeast ==
  ASSUME NEW a \in Nat, NEW b \in Nat
  PROVE  Presence!Least(a, b) \in 0..a /\ Presence!Least(a, b) \in 0..b
BY DEF Presence!Least

LEMMA HealthScore ==
  ASSUME NEW status \in Presence!Status, NEW misses \in Nat, NEW penalty \in {0, 30, 60, 90}
  PROVE  Presence!Score(status, misses, penalty) \in 0..100
<1> DEFINE silence == [online |-> 0, overdue |-> 20, offline |-> 40][status]
           missing == IF misses > 1 THEN Presence!Least(30, 5 * (misses - 1)) ELSE 0
           left    == 100 - silence - missing - penalty
<1>1. silence \in 0..40
  BY DEF Presence!Status
<1>2. missing \in 0..30
  <2>1. CASE misses > 1
    <3>1. 5 * (misses - 1) \in Nat
      BY <2>1
    <3>2. Presence!Least(30, 5 * (misses - 1)) \in 0..30
      BY <3>1 DEF Presence!Least
    <3> QED
      BY <2>1, <3>2
  <2>2. CASE ~(misses > 1)
    BY <2>2
  <2> QED
    BY <2>1, <2>2
<1>3. Presence!Score(status, misses, penalty) = IF left < 0 THEN 0 ELSE left
  BY DEF Presence!Score
<1> HIDE DEF silence, missing
<1> QED
  BY <1>1, <1>2, <1>3

\* The types of the rows, field by field.
LEMMA HealthRows ==
  ASSUME Presence!TypeOK
  PROVE  /\ v1 \in 0..MaxAge /\ v5.age \in 0..MaxAge /\ v5.misses \in 0..MaxMisses /\ v7 \in 0..MaxMisses /\ v6 \in Presence!Status
         /\ v2.status \in Presence!Status /\ v2.score \in 0..100
         /\ v3.status \in Presence!Status /\ v3.score \in 0..100 /\ v3.misses \in 0..MaxMisses /\ v3.held \in {0, 60}
         /\ v5.agent \in Presence!Status /\ v5.device \in Presence!Status
         /\ v4.agent \in Presence!Status /\ v4.device \in Presence!Status
BY DEF Presence!TypeOK

LEMMA HealthIdle ==
  /\ "online" \in Presence!Status /\ ~Presence!NoBeat.open /\ ~Presence!NoPass.open
  /\ Presence!NoBeat \in [open : BOOLEAN, agent : Presence!Status, device : Presence!Status]
  /\ Presence!NoPass \in [open : BOOLEAN, age : 0..MaxAge, agent : Presence!Status, device : Presence!Status, misses : 0..MaxMisses]
<1>1. "online" \in Presence!Status /\ ~Presence!NoBeat.open /\ ~Presence!NoPass.open
  BY DEF Presence!Status, Presence!NoBeat, Presence!NoPass
<1>2. Presence!NoBeat \in [open : BOOLEAN, agent : Presence!Status, device : Presence!Status]
  BY DEF Presence!Status, Presence!NoBeat
<1>3. 0 \in 0..MaxAge /\ 0 \in 0..MaxMisses
  BY HealthAssumption
<1>4. Presence!NoPass \in [open : BOOLEAN, age : 0..MaxAge, agent : Presence!Status, device : Presence!Status, misses : 0..MaxMisses]
  BY <1>1, <1>3 DEF Presence!NoPass
<1> QED
  BY <1>1, <1>2, <1>4

LEMMA HealthKeeps ==
  ASSUME Presence!Inv, Presence!Next
  PROVE  Presence!Inv'
<1> DEFINE Goal == Presence!TypeOK' /\ Presence!SilenceLasts' /\ Presence!PassHolds' /\ Presence!RowsFollow'
           AgentRow == [status : Presence!Status, score : 0..100]
           DeviceRow == [status : Presence!Status, misses : 0..MaxMisses, held : {0, 60}, score : 0..100]
<1> USE HealthAssumption
<1>0. Presence!TypeOK /\ Presence!SilenceLasts /\ Presence!PassHolds /\ Presence!RowsFollow
  BY DEF Presence!Inv
<1>1. /\ v1 \in 0..MaxAge /\ v2 \in AgentRow /\ v3 \in DeviceRow /\ v6 \in Presence!Status /\ v7 \in 0..MaxMisses
      /\ v8 \in BOOLEAN /\ v9 \in BOOLEAN /\ 0 \in 0..MaxAge /\ 0 \in 0..MaxMisses
  BY <1>0 DEF Presence!TypeOK
<1>10. /\ "online" \in Presence!Status /\ ~Presence!NoBeat.open /\ ~Presence!NoPass.open
       /\ Presence!NoBeat \in [open : BOOLEAN, agent : Presence!Status, device : Presence!Status]
       /\ Presence!NoPass \in [open : BOOLEAN, age : 0..MaxAge, agent : Presence!Status, device : Presence!Status, misses : 0..MaxMisses]
  BY <1>0, HealthIdle
<1>2. ASSUME Presence!Tick PROVE Goal
  <2>1. v1' = v1 + 1 /\ v1 < MaxAge /\ UNCHANGED <<v2, v3, v4, v5, v6, v7, v8, v9>>
    BY <1>2 DEF Presence!Tick
  <2>2. v1' \in 0..MaxAge
    BY <1>1, <2>1
  <2>3. Presence!TypeOK'
    BY <1>0, <2>1, <2>2 DEF Presence!TypeOK
  <2>4. v5.age \in 0..MaxAge
    BY <1>0, HealthRows
  <2>5. Presence!SilenceLasts' /\ Presence!RowsFollow'
    BY <1>0, <1>1, <2>1 DEF Presence!SilenceLasts, Presence!RowsFollow
  <2>6. v5.age <= v1 => v5.age <= v1'
    BY <1>1, <2>1, <2>4
  <2>7. Presence!PassHolds'
    BY <1>0, <2>1, <2>6 DEF Presence!PassHolds
  <2> QED
    BY <2>3, <2>5, <2>7
<1>3. ASSUME Presence!BeatReads PROVE Goal
  <2>1. v4' \in [open : BOOLEAN, agent : Presence!Status, device : Presence!Status]
    <3> DEFINE a == v2.status
               d == v3.status
    <3>1. a \in Presence!Status /\ d \in Presence!Status
      BY <1>0, HealthRows
    <3>2. v4' = [open |-> TRUE, agent |-> a, device |-> d]
      BY <1>3 DEF Presence!BeatReads
    <3> HIDE DEF a, d
    <3> QED
      BY <3>1, <3>2
  <2> QED
    BY <1>0, <1>3, <2>1 DEF Presence!BeatReads, Presence!TypeOK, Presence!SilenceLasts, Presence!PassHolds, Presence!RowsFollow
<1>4. ASSUME Presence!Heartbeat PROVE Goal
  <2>1. /\ v2' \in AgentRow /\ (v4.agent = v2.status => v2'.status = "online")
        /\ v3' \in DeviceRow /\ v3'.misses = v3.misses /\ (v4.device = v3.status => v3'.status = "online")
    <3> DEFINE a == [v2 EXCEPT !.status = "online"]
               d == [v3 EXCEPT !.status = "online"]
    <3>1. a \in AgentRow /\ a.status = "online"
      BY <1>1, <1>10
    <3>2. d \in DeviceRow /\ d.status = "online" /\ d.misses = v3.misses
      BY <1>1, <1>10
    <3> HIDE DEF a, d, AgentRow, DeviceRow
    <3>3. /\ v2' = IF v4.agent = "online" THEN v2 ELSE a
          /\ v3' = IF v4.device = "online" THEN v3 ELSE d
      BY <1>4 DEF Presence!Heartbeat, Presence!Beaten, a, d
    <3> QED
      BY <1>1, <3>1, <3>2, <3>3
  <2>2. /\ v1' = 0 /\ v4' = Presence!NoBeat /\ v6' = "online" /\ UNCHANGED <<v5, v7, v9>>
        /\ v8' = (v5.open \/ v4.agent # v2.status \/ v4.device # v3.status)
    BY <1>4 DEF Presence!Heartbeat
  <2>3. v8' \in BOOLEAN /\ (v8' <=> v5.open \/ v4.agent # v2.status \/ v4.device # v3.status)
    BY <2>2
  <2>4. Presence!TypeOK'
    BY <1>0, <1>1, <1>10, <2>1, <2>2, <2>3 DEF Presence!TypeOK
  <2>5. ~v8' => ~v5.open /\ v2'.status = "online" /\ v3'.status = "online"
    BY <2>1, <2>3
  <2> HIDE DEF AgentRow, DeviceRow
  <2> QED
    BY <1>0, <2>1, <2>2, <2>4, <2>5 DEF Presence!SilenceLasts, Presence!PassHolds, Presence!RowsFollow
<1>5. ASSUME NEW reading \in Presence!Readings, Presence!OnHeartbeat(reading) PROVE Goal
  <2> DEFINE score == Presence!Score("online", 0, reading.held + reading.more)
  <2>1. score \in 0..100 /\ reading.held \in {0, 60}
    <3>1. reading.held \in {0, 60} /\ reading.held + reading.more \in {0, 30, 60, 90}
      BY DEF Presence!Readings
    <3> DEFINE penalty == reading.held + reading.more
    <3> HIDE DEF penalty
    <3>2. penalty \in {0, 30, 60, 90} /\ 0 \in Nat /\ "online" \in Presence!Status
      BY <1>10, <3>1 DEF penalty
    <3>3. Presence!Score("online", 0, penalty) \in 0..100
      BY <3>2, HealthScore
    <3> QED
      BY <3>1, <3>3 DEF penalty, score
  <2> HIDE DEF score
  <2>2. /\ v2' = [status |-> "online", score |-> score]
        /\ v3' = [status |-> "online", misses |-> 0, held |-> reading.held, score |-> score]
        /\ v1' = 0 /\ v6' = "online" /\ v7' = 0 /\ v8' = v5.open /\ v9' = v5.open /\ UNCHANGED <<v4, v5>>
    BY <1>5 DEF Presence!OnHeartbeat, score
  <2>3. v2' \in AgentRow /\ v3' \in DeviceRow /\ v5.open \in BOOLEAN
    <3>1. v2' \in AgentRow
      BY <1>10, <2>1, <2>2
    <3>2. v3' \in DeviceRow
      BY <1>1, <1>10, <2>1, <2>2
    <3>3. v5.open \in BOOLEAN
      BY <1>0 DEF Presence!TypeOK
    <3> QED
      BY <3>1, <3>2, <3>3
  <2>4. v8' \in BOOLEAN /\ v9' \in BOOLEAN /\ (v8' <=> v5.open) /\ (v9' <=> v5.open)
    BY <2>2, <2>3
  <2>5. v2'.status = "online" /\ v3'.status = "online" /\ v3'.misses = 0
    BY <2>2
  <2>6. Presence!TypeOK'
    BY <1>0, <1>1, <1>10, <2>2, <2>3, <2>4 DEF Presence!TypeOK
  <2> HIDE DEF AgentRow, DeviceRow
  <2> QED
    BY <2>2, <2>4, <2>5, <2>6 DEF Presence!SilenceLasts, Presence!PassHolds, Presence!RowsFollow
<1>6. ASSUME Presence!BeatFails \/ Presence!PassFails PROVE Goal
  BY <1>0, <1>1, <1>10, <1>6 DEF Presence!BeatFails, Presence!PassFails, Presence!TypeOK, Presence!SilenceLasts, Presence!PassHolds, Presence!RowsFollow
<1>7. ASSUME Presence!PassReads PROVE Goal
  <2>1. /\ v5' \in [open : BOOLEAN, age : 0..MaxAge, agent : Presence!Status, device : Presence!Status, misses : 0..MaxMisses]
        /\ v5'.age = v1 /\ v5'.agent = v2.status /\ v5'.device = v3.status /\ v5'.misses = v3.misses
    <3> DEFINE a == v2.status
               d == v3.status
               m == v3.misses
    <3>1. a \in Presence!Status /\ d \in Presence!Status /\ m \in 0..MaxMisses
      BY <1>0, HealthRows
    <3>2. v5' = [open |-> TRUE, age |-> v1, agent |-> a, device |-> d, misses |-> m]
      BY <1>7 DEF Presence!PassReads
    <3> HIDE DEF a, d, m
    <3>3. /\ v5' \in [open : BOOLEAN, age : 0..MaxAge, agent : Presence!Status, device : Presence!Status, misses : 0..MaxMisses]
          /\ v5'.age = v1 /\ v5'.agent = a /\ v5'.device = d /\ v5'.misses = m
      BY <1>1, <3>1, <3>2
    <3> QED
      BY <3>3 DEF a, d, m
  <2>2. UNCHANGED <<v1, v2, v3, v4, v6, v7, v8, v9>>
    BY <1>7 DEF Presence!PassReads
  <2> QED
    BY <1>0, <1>1, <2>1, <2>2 DEF Presence!TypeOK, Presence!SilenceLasts, Presence!PassHolds, Presence!RowsFollow
<1>8. ASSUME Presence!PassCommits PROVE Goal
  <2> DEFINE found == Presence!StatusOf(v5.age)
             misses == Presence!Least(MaxMisses, v5.misses + 1)
             scored == Presence!Score(found, misses, v3.held)
             score  == Presence!Score(found, Presence!MissesOf(v5.age), 0)
             stale(row) == found # "online" /\ row # "offline"
  <2>1. /\ v5.open /\ v5' = Presence!NoPass /\ UNCHANGED <<v1, v4, v8, v9>>
        /\ v2' = IF stale(v5.agent) THEN [status |-> IF found = v5.agent THEN v2.status ELSE found, score |-> score] ELSE v2
        /\ v3' = IF stale(v5.device)
                 THEN [v3 EXCEPT !.status = IF found = v5.device THEN v3.status ELSE found, !.misses = misses, !.score = scored]
                 ELSE v3
        /\ v6' = IF found = "online" \/ v1 < v5.age THEN v6 ELSE found
        /\ v7' = IF stale(v5.device) THEN Presence!Least(MaxMisses, v7 + 1) ELSE v7
    BY <1>8 DEF Presence!PassCommits
  <2>2. v5.age \in 0..MaxAge /\ v5.misses \in 0..MaxMisses /\ v3.held \in {0, 60}
    BY <1>0, HealthRows
  <2>3. /\ found \in Presence!Status /\ (found = "online" <=> v5.age <= Online)
        /\ (found = "offline" => v5.age > Online /\ v5.age > Overdue)
    BY <2>2, HealthOperators
  <2>4. misses \in 0..MaxMisses /\ Presence!Least(MaxMisses, v7 + 1) \in 0..MaxMisses
        /\ Presence!MissesOf(v5.age) \in Nat
    <3> DEFINE n == v5.misses + 1
               k == v7 + 1
               a == IF v5.age > 1 THEN v5.age ELSE 1
    <3>1. n \in Nat /\ k \in Nat /\ a \in Nat /\ MaxMisses \in Nat
      BY <1>1, <2>2
    <3> HIDE DEF n, k, a
    <3>2. Presence!Least(MaxMisses, n) \in 0..MaxMisses /\ Presence!Least(MaxMisses, k) \in 0..MaxMisses
          /\ Presence!Least(MaxMisses, a) \in 0..MaxMisses
      BY <3>1, HealthLeast
    <3> QED
      BY <3>2 DEF n, k, a, Presence!MissesOf
  <2> HIDE DEF found, misses
  <2>5. score \in 0..100 /\ scored \in 0..100
    <3> DEFINE n == Presence!MissesOf(v5.age)
               held == v3.held
    <3>1. n \in Nat /\ misses \in Nat /\ held \in {0, 30, 60, 90}
      BY <2>2, <2>4
    <3> HIDE DEF n, held
    <3>2. Presence!Score(found, n, 0) \in 0..100 /\ Presence!Score(found, misses, held) \in 0..100
      BY <2>3, <3>1, HealthScore
    <3> QED
      BY <3>2 DEF n, held
  <2> HIDE DEF score, scored
  <2>6. v2' \in AgentRow /\ v2'.status = IF stale(v5.agent) /\ found # v5.agent THEN found ELSE v2.status
    BY <1>1, <2>1, <2>3, <2>5
  <2>7. /\ v3' \in DeviceRow /\ v3'.status = (IF stale(v5.device) /\ found # v5.device THEN found ELSE v3.status)
        /\ v3'.misses = (IF stale(v5.device) THEN misses ELSE v3.misses)
    BY <1>1, <2>1, <2>3, <2>4, <2>5
  <2>8. v6' \in Presence!Status /\ v7' \in 0..MaxMisses
    BY <1>1, <2>1, <2>3, <2>4
  <2>9. Presence!TypeOK'
    BY <1>0, <1>1, <1>10, <2>1, <2>6, <2>7, <2>8 DEF Presence!TypeOK
  <2>10. Presence!SilenceLasts'
    BY <1>0, <1>1, <2>1, <2>2, <2>3 DEF Presence!SilenceLasts
  <2>11. Presence!PassHolds'
    BY <1>10, <2>1 DEF Presence!PassHolds
  <2>12. ~v8 => v2'.status = v6' /\ v3'.status = v6'
    <3> SUFFICES ASSUME ~v8 PROVE v2'.status = v6' /\ v3'.status = v6'
      OBVIOUS
    <3>1. /\ v5.agent = v6 /\ v5.device = v6 /\ v2.status = v6 /\ v3.status = v6 /\ v5.age <= v1
          /\ v6 = "offline" => v5.age > Overdue
      BY <1>0, <2>1 DEF Presence!PassHolds, Presence!RowsFollow
    <3>2. v6' = IF found = "online" THEN v6 ELSE found
      BY <1>1, <2>1, <2>2, <3>1
    <3>3. v6 = "offline" => found = "online" \/ found = "offline"
      BY <2>2, <3>1 DEF found, Presence!StatusOf
    <3> QED
      BY <2>6, <2>7, <3>1, <3>2, <3>3
  <2>13. ~v9 => v3'.misses = v7'
    <3> SUFFICES ASSUME ~v9 PROVE v3'.misses = v7'
      OBVIOUS
    <3>1. v5.misses = v7 /\ v3.misses = v7
      BY <1>0, <2>1 DEF Presence!PassHolds, Presence!RowsFollow
    <3>2. misses = Presence!Least(MaxMisses, v7 + 1)
      BY <3>1 DEF misses
    <3> QED
      BY <2>1, <2>7, <3>1, <3>2
  <2> QED
    BY <2>1, <2>9, <2>10, <2>11, <2>12, <2>13 DEF Presence!RowsFollow
<1>9. Goal
  <2> HIDE DEF Goal
  <2> QED
    BY <1>2, <1>3, <1>4, <1>5, <1>6, <1>7, <1>8 DEF Presence!Next
<1> QED
  BY <1>9 DEF Presence!Inv

\* Unless a heartbeat and a pass overlapped, both rows hold the status the last pass found, the
\* snapshot and the listing agree on who is online, and the counter is the number of passes that
\* found silence (process_stale_endpoints, get_health_snapshot), for any limits and ages.
THEOREM PresenceFollowsHeartbeatsCorrect == FleetSpec => []PresenceFollowsHeartbeats
<1> DEFINE I == focus = "presence" => Presence!Inv
<1>1. FleetInit => I
  <2> SUFFICES ASSUME Presence!Init PROVE Presence!Inv
    BY DEF FleetInit
  <2>1. Presence!TypeOK
    <3>1. "online" \in Presence!Status /\ 0 \in 0..MaxAge /\ 0 \in 0..MaxMisses
      BY HealthIdle, HealthAssumption
    <3> QED
      <4>1. v2 \in [status : Presence!Status, score : 0..100]
        BY <3>1 DEF Presence!Init
      <4>2. v3 \in [status : Presence!Status, misses : 0..MaxMisses, held : {0, 60}, score : 0..100]
        BY <3>1 DEF Presence!Init
      <4>3. /\ v1 \in 0..MaxAge /\ v6 \in Presence!Status /\ v7 \in 0..MaxMisses /\ v8 \in BOOLEAN /\ v9 \in BOOLEAN
            /\ v4 = Presence!NoBeat /\ v5 = Presence!NoPass
        BY <3>1 DEF Presence!Init
      <4> QED
        BY <4>1, <4>2, <4>3, HealthIdle DEF Presence!TypeOK
  <2> QED
    BY <2>1 DEF Presence!Init, Presence!Inv, Presence!SilenceLasts, Presence!PassHolds, Presence!RowsFollow, Presence!NoPass
<1>2. I /\ [FleetNext]_FleetVars => I'
  <2> SUFFICES ASSUME Presence!Inv, [FleetNext]_FleetVars, focus = "presence" PROVE Presence!Inv'
    BY Focused
  <2>1. CASE UNCHANGED slots
    BY <2>1 DEF slots, Presence!Inv, Presence!TypeOK, Presence!SilenceLasts, Presence!PassHolds, Presence!RowsFollow
  <2> QED
    BY <2>1, Focused, HealthKeeps
<1>3. I => PresenceFollowsHeartbeats
  <2> SUFFICES ASSUME Presence!Inv PROVE Presence!PresenceFollowsHeartbeats
    BY DEF PresenceFollowsHeartbeats
  <2>1. Presence!TypeOK /\ Presence!SilenceLasts /\ Presence!RowsFollow
    BY DEF Presence!Inv
  <2>2. ASSUME ~v8, NEW m \in BOOLEAN PROVE Presence!Snapshot(m) = "online" <=> Presence!Listed = "online"
    <3>1. v1 \in 0..MaxAge
      BY <2>1, HealthRows
    <3>2. Presence!Listed = "online" <=> v1 <= Online
      BY HealthAssumption DEF Presence!Listed
    <3>3. Presence!StatusOf(v1) = "online" <=> v1 <= Online
      BY <3>1, HealthOperators
    <3>4. v3.status # "online" => v1 > Online
      BY <2>1, <2>2 DEF Presence!SilenceLasts, Presence!RowsFollow
    <3> QED
      BY <3>1, <3>2, <3>3, <3>4, HealthAssumption DEF Presence!Snapshot
  <2> QED
    BY <2>1, <2>2 DEF Presence!PresenceFollowsHeartbeats, Presence!RowsFollow
<1> QED
  BY <1>1, <1>2, <1>3, PTL DEF FleetSpec
---------------------------------------------------------------------------
(* Alerts *)

LEMMA SeqRemoved ==
  ASSUME NEW S, NEW s \in Seq(S), NEW i \in 1..Len(s)
  PROVE  LET r == SubSeq(s, 1, i - 1) \o SubSeq(s, i + 1, Len(s)) IN
           /\ r \in Seq(S) /\ Len(r) = Len(s) - 1
           /\ \A k \in 1..Len(r) : r[k] = s[IF k < i THEN k ELSE k + 1]
<1> DEFINE a == SubSeq(s, 1, i - 1)
           b == SubSeq(s, i + 1, Len(s))
           r == a \o b
<1>1. Len(s) \in Nat /\ i \in Nat
  BY LenProperties
<1>2. a \in Seq(S) /\ Len(a) = i - 1 /\ \A k \in 1..(i - 1) : a[k] = s[k]
  BY <1>1, SubSeqProperties
<1>3. b \in Seq(S) /\ Len(b) = Len(s) - i /\ \A k \in 1..(Len(s) - i) : b[k] = s[i + k]
  BY <1>1, SubSeqProperties
<1> HIDE DEF a, b
<1>6. /\ r \in Seq(S) /\ Len(r) = Len(a) + Len(b)
      /\ \A k \in 1..(Len(a) + Len(b)) : r[k] = IF k <= Len(a) THEN a[k] ELSE b[k - Len(a)]
  BY <1>2, <1>3, ConcatProperties
<1>7. Len(a) = i - 1 /\ Len(a) + Len(b) = Len(s) - 1
  BY <1>1, <1>2, <1>3
<1>4. /\ r \in Seq(S) /\ Len(r) = Len(s) - 1
      /\ \A k \in 1..Len(r) : r[k] = IF k < i THEN a[k] ELSE b[k - (i - 1)]
  BY <1>1, <1>6, <1>7
<1> HIDE DEF r
<1>5. ASSUME NEW k \in 1..Len(r) PROVE r[k] = s[IF k < i THEN k ELSE k + 1]
  <2>1. CASE k < i
    <3>1. k \in 1..(i - 1)
      BY <1>1, <1>4, <2>1
    <3> QED
      BY <1>2, <1>4, <2>1, <3>1
  <2>2. CASE ~(k < i)
    <3>1. k - (i - 1) \in 1..(Len(s) - i) /\ i + (k - (i - 1)) = k + 1
      BY <1>1, <1>4, <2>2
    <3> QED
      BY <1>1, <1>2, <1>3, <1>4, <2>2, <3>1
  <2> QED
    BY <2>1, <2>2
<1> QED
  BY <1>4, <1>5 DEF r, a, b

Thread == [pc : {"idle", "decide", "raise", "queue"}, asked : {"warning", "critical"},
           severity : {"warning", "critical"}, yes : BOOLEAN, met : BOOLEAN]

\* Only t acts, and whoever is then where t is has met it.
Turn(t) ==
  /\ v4' \in [Threads -> Thread]
  /\ \A u \in Threads \ {t} :
       /\ v4'[u].pc = v4[u].pc /\ v4'[u].asked = v4[u].asked /\ (v4'[u].yes <=> v4[u].yes)
       /\ v4[u].met => v4'[u].met
       /\ v4'[t].pc \in {"raise", "queue"} /\ v4[u].pc = v4'[t].pc => v4'[u].met /\ v4'[t].met

AlertTypes == v1 \in Monitor!Rule /\ v2 \in Seq(Monitor!Alert) /\ v3 \in Seq(Monitor!Run) /\ v4 \in [Threads -> Thread]

LEMMA AlertTyped ==
  (Monitor!TypeOK => AlertTypes) /\ (Remedy!TypeOK => AlertTypes)
BY DEF AlertTypes, Thread, Monitor!TypeOK, Monitor!Rule, Monitor!Alert, Monitor!Run, Monitor!Severity,
       Remedy!TypeOK, Remedy!Rule, Remedy!Alert, Remedy!Run, Remedy!Severity

\* The types of a thread and of its next states, field by field.
LEMMA AlertThread ==
  ASSUME AlertTypes, NEW t \in Threads
  PROVE  /\ v4[t] \in Thread /\ v4[t].asked \in Monitor!Severity /\ v4[t].severity \in Monitor!Severity /\ v4[t].yes \in BOOLEAN /\ v4[t].met \in BOOLEAN
         /\ Monitor!Idle \in Thread
BY DEF AlertTypes, Monitor!Severity, Monitor!Idle, Thread

\* Who is between the same read and write has met t, the others are as they were.
LEMMA AlertMet ==
  ASSUME AlertTypes, NEW t \in Threads, NEW pc
  PROVE  /\ Monitor!Meeting(t, pc) \in [Threads -> Thread]
         /\ \A u \in Threads :
              /\ Monitor!Meeting(t, pc)[u].pc = v4[u].pc /\ Monitor!Meeting(t, pc)[u].asked = v4[u].asked
              /\ Monitor!Meeting(t, pc)[u].yes <=> v4[u].yes
              /\ v4[u].met \/ (u # t /\ v4[u].pc = pc) => Monitor!Meeting(t, pc)[u].met
<1>1. ASSUME NEW u \in Threads
      PROVE  LET w == IF u # t /\ v4[u].pc = pc THEN [v4[u] EXCEPT !.met = TRUE] ELSE v4[u] IN
               /\ w \in Thread /\ w.pc = v4[u].pc /\ w.asked = v4[u].asked /\ (w.yes <=> v4[u].yes)
               /\ v4[u].met \/ (u # t /\ v4[u].pc = pc) => w.met
  <2>1. v4[u] \in Thread
    BY AlertThread
  <2> QED
    BY <2>1 DEF Thread
<1> QED
  BY <1>1 DEF Monitor!Meeting

\* What every action of a thread does to the threads.
LEMMA AlertTurn ==
  ASSUME AlertTypes, NEW t \in Threads,
         (\E asked \in Monitor!Severity : Monitor!Evaluate(t, asked)) \/ Monitor!Decide(t) \/ Monitor!Raise(t) \/ v4' = [v4 EXCEPT ![t] = Monitor!Idle]
  PROVE  Turn(t)
<1> SUFFICES \/ \E x \in Thread : v4' = [v4 EXCEPT ![t] = x] /\ x.pc \notin {"raise", "queue"}
             \/ \E pc \in {"raise", "queue"}, x \in Thread : v4' = [Monitor!Meeting(t, pc) EXCEPT ![t] = x]
               /\ x.pc = pc /\ (x.met <=> \E u \in Threads \ {t} : v4[u].pc = pc)
  <2>1. ASSUME NEW x \in Thread, v4' = [v4 EXCEPT ![t] = x], x.pc \notin {"raise", "queue"} PROVE Turn(t)
    <3>1. v4 \in [Threads -> Thread]
      BY DEF AlertTypes
    <3> QED
      BY <2>1, <3>1 DEF Turn
  <2>2. ASSUME NEW pc \in {"raise", "queue"}, NEW x \in Thread, v4' = [Monitor!Meeting(t, pc) EXCEPT ![t] = x], x.pc = pc,
               x.met <=> \E u \in Threads \ {t} : v4[u].pc = pc
        PROVE Turn(t)
    <3> DEFINE m == Monitor!Meeting(t, pc)
    <3>1. /\ m \in [Threads -> Thread]
          /\ \A u \in Threads : /\ m[u].pc = v4[u].pc /\ m[u].asked = v4[u].asked /\ (m[u].yes <=> v4[u].yes)
                                /\ v4[u].met \/ (u # t /\ v4[u].pc = pc) => m[u].met
      BY AlertMet
    <3>2. v4' = [m EXCEPT ![t] = x]
      BY <2>2
    <3> HIDE DEF m
    <3>3. v4' \in [Threads -> Thread] /\ v4'[t] = x /\ \A u \in Threads \ {t} : v4'[u] = m[u]
      BY <3>1, <3>2
    <3>4. \A u \in Threads \ {t} : v4[u].pc = pc => m[u].met /\ x.met
      BY <2>2, <3>1
    <3> QED
      BY <2>2, <3>1, <3>3, <3>4 DEF Turn
  <2> QED
    BY <2>1, <2>2
<1>0. v4[t] \in Thread /\ Monitor!Idle \in Thread
  BY AlertThread
<1>1. ASSUME NEW asked \in Monitor!Severity, Monitor!Evaluate(t, asked)
      PROVE  \E x \in Thread : v4' = [v4 EXCEPT ![t] = x] /\ x.pc \notin {"raise", "queue"}
  <2> DEFINE x == [Monitor!Idle EXCEPT !.pc = "decide", !.asked = asked]
  <2>1. x \in Thread /\ x.pc = "decide"
    BY <1>0 DEF Thread, Monitor!Severity
  <2> QED
    BY <1>1, <2>1 DEF Monitor!Evaluate
<1>2. ASSUME Monitor!Decide(t)
      PROVE  \E pc \in {"raise", "queue"}, x \in Thread : v4' = [Monitor!Meeting(t, pc) EXCEPT ![t] = x]
               /\ x.pc = pc /\ (x.met <=> \E u \in Threads \ {t} : v4[u].pc = pc)
  <2> DEFINE m == Monitor!Meeting(t, "raise")
             yes == v1.ai /\ Monitor!Duplicate(v4[t].asked)
             severity == IF Len(v2) + 1 >= EscalateAt THEN "critical" ELSE v4[t].asked
             met == Monitor!Busy(t, {"raise"})
             x == [m[t] EXCEPT !.pc = "raise", !.yes = yes, !.severity = severity, !.met = met]
  <2>1. m \in [Threads -> Thread]
    BY AlertMet
  <2>2. severity \in {"warning", "critical"} /\ yes \in BOOLEAN /\ met \in BOOLEAN
    <3>1. v4[t].asked \in Monitor!Severity
      BY AlertThread
    <3> QED
      BY <3>1 DEF Monitor!Severity, Monitor!Duplicate, Monitor!Busy
  <2>3. met <=> \E u \in Threads \ {t} : v4[u].pc = "raise"
    BY DEF Monitor!Busy
  <2>4. v4' = [m EXCEPT ![t].pc = "raise", ![t].yes = yes, ![t].severity = severity, ![t].met = met]
    BY <1>2 DEF Monitor!Decide
  <2> HIDE DEF m, yes, severity, met
  <2>5. x \in Thread /\ x.pc = "raise" /\ (x.met <=> met)
    BY <2>1, <2>2 DEF Thread
  <2>6. v4' = [m EXCEPT ![t] = x]
    BY <2>1, <2>4
  <2> HIDE DEF x
  <2> QED
    BY <2>3, <2>5, <2>6 DEF m
<1>3. ASSUME Monitor!Raise(t)
      PROVE  \E pc \in {"raise", "queue"}, x \in Thread : v4' = [Monitor!Meeting(t, pc) EXCEPT ![t] = x]
               /\ x.pc = pc /\ (x.met <=> \E u \in Threads \ {t} : v4[u].pc = pc)
  <2> DEFINE yes == (~v4[t].yes \/ v1.ignore) /\ Monitor!Allowed(v4[t].severity) /\ ~Monitor!InCooldown
             met == Monitor!Busy(t, {"queue"})
             x == [Monitor!Idle EXCEPT !.pc = "queue", !.yes = yes, !.met = met]
  <2>1. yes \in BOOLEAN /\ met \in BOOLEAN /\ (met <=> \E u \in Threads \ {t} : v4[u].pc = "queue")
    BY DEF Monitor!Busy
  <2>2. v4' = [Monitor!Meeting(t, "queue") EXCEPT ![t] = x]
    BY <1>3 DEF Monitor!Raise
  <2> HIDE DEF yes, met
  <2>3. x \in Thread /\ x.pc = "queue" /\ (x.met <=> met)
    BY <1>0, <2>1 DEF Thread
  <2> HIDE DEF x
  <2> QED
    BY <2>1, <2>2, <2>3
<1>4. ASSUME v4' = [v4 EXCEPT ![t] = Monitor!Idle]
      PROVE  \E x \in Thread : v4' = [v4 EXCEPT ![t] = x] /\ x.pc \notin {"raise", "queue"}
  <2>1. Monitor!Idle.pc = "idle"
    BY DEF Monitor!Idle
  <2> QED
    BY <1>0, <1>4, <2>1
<1> QED
  BY <1>1, <1>2, <1>3, <1>4

LEMMA AlertTurnKeeps ==
  ASSUME Monitor!Overlapped, NEW t \in Threads, Turn(t)
  PROVE  Monitor!Overlapped' /\ v4' \in [Threads -> Thread]
BY DEF Turn, Monitor!Overlapped
\* The actions of a thread, with the other instance's bounds on the same rows.
LEMMA RemedyActs ==
  ASSUME AlertTypes, NEW t \in Threads
  PROVE  /\ \A asked \in Remedy!Severity : Remedy!Evaluate(t, asked) => asked \in Monitor!Severity /\ Monitor!Evaluate(t, asked)
         /\ Remedy!Decide(t) => Monitor!Decide(t)
         /\ Remedy!Raise(t) => Monitor!Raise(t)
         /\ Remedy!Queue(t) => v4' = [v4 EXCEPT ![t] = Monitor!Idle]
<1>1. Len(v2) \in Nat
  BY LenProperties DEF AlertTypes
<1>2. \A asked \in Remedy!Severity : Remedy!Evaluate(t, asked) => asked \in Monitor!Severity /\ Monitor!Evaluate(t, asked)
  BY <1>1 DEF Remedy!Severity, Monitor!Severity, Remedy!Evaluate, Monitor!Evaluate, Remedy!Idle, Monitor!Idle
<1>3. Remedy!Decide(t) => Monitor!Decide(t)
  <2>1. Remedy!Meeting(t, "raise") = Monitor!Meeting(t, "raise")
    BY DEF Remedy!Meeting, Monitor!Meeting
  <2>2. Remedy!Busy(t, {"raise"}) = Monitor!Busy(t, {"raise"})
    BY DEF Remedy!Busy, Monitor!Busy
  <2>3. Remedy!Duplicate(v4[t].asked) = Monitor!Duplicate(v4[t].asked)
    BY DEF Remedy!Duplicate, Monitor!Duplicate
  <2>4. Len(v2) < 1 => Len(v2) < 2
    BY <1>1
  <2> QED
    BY <2>1, <2>2, <2>3, <2>4, Zenon DEF Remedy!Decide, Monitor!Decide
<1>4. Remedy!Raise(t) => Monitor!Raise(t)
  BY <1>1 DEF Remedy!Raise, Monitor!Raise, Remedy!Meeting, Monitor!Meeting, Remedy!Busy, Monitor!Busy,
              Remedy!Allowed, Monitor!Allowed, Remedy!InCooldown, Monitor!InCooldown, Remedy!Counted, Monitor!Counted,
              Remedy!Idle, Monitor!Idle
<1>5. Remedy!Queue(t) => v4' = [v4 EXCEPT ![t] = Monitor!Idle]
  BY DEF Remedy!Queue, Remedy!Idle, Monitor!Idle
<1> QED
  BY <1>2, <1>3, <1>4, <1>5

\* A report replaces a run by one of the same kind.
LEMMA MonitorReported ==
  ASSUME v3 \in Seq(Monitor!Run), NEW r \in 1..Len(v3), NEW status \in {"open", "success", "failed"},
         NEW code \in {"none", "0", "1"}, Monitor!Report(r, status, code)
  PROVE  \E x : x \in Monitor!Run /\ v3' = [v3 EXCEPT ![r] = x]
<1> DEFINE bad == IF code = "none" THEN v3[r].bad ELSE code # "0"
           final == IF status = "success" /\ code = "1" THEN "failed" ELSE status
           mirrored == Monitor!Mirrored(v3[r], final, bad)
           late == v3[r].late \/ v3[r].task \in Monitor!Ended
           x == [v3[r] EXCEPT !.task = final, !.bad = bad, !.status = mirrored, !.late = late]
<1>1. v3[r] \in Monitor!Run
  BY ElementOfSeq
<1>2. bad \in BOOLEAN /\ final \in {"open", "success", "failed"} /\ late \in BOOLEAN
  BY <1>1 DEF Monitor!Run
<1>3. mirrored \in {"queued", "completed", "failed"}
  BY <1>1 DEF Monitor!Mirrored, Monitor!Run
<1>4. v3' = [v3 EXCEPT ![r].task = final, ![r].bad = bad, ![r].status = mirrored, ![r].late = late]
  BY DEF Monitor!Report
<1> HIDE DEF bad, final, mirrored, late
<1>5. x \in Monitor!Run
  BY <1>1, <1>2, <1>3 DEF Monitor!Run
<1>6. v3' = [v3 EXCEPT ![r] = x]
  BY <1>4
<1> QED
  BY <1>5, <1>6

MonitorInv == Monitor!TypeOK /\ Monitor!Overlapped /\ Monitor!RaiseHolds /\ Monitor!OneAlertPerCondition

LEMMA MonitorKeeps ==
  ASSUME MonitorInv, Monitor!Next
  PROVE  MonitorInv'
<1> DEFINE Goal == Monitor!TypeOK' /\ Monitor!Overlapped' /\ Monitor!RaiseHolds' /\ Monitor!OneAlertPerCondition'
<1>0. /\ Monitor!TypeOK /\ Monitor!Overlapped /\ Monitor!RaiseHolds /\ Monitor!OneAlertPerCondition
      /\ AlertTypes /\ Len(v2) \in Nat /\ Len(v3) \in Nat
  BY AlertTyped, LenProperties DEF MonitorInv, AlertTypes
<1>1. v1 \in Monitor!Rule /\ v2 \in Seq(Monitor!Alert) /\ v3 \in Seq(Monitor!Run) /\ Len(v2) <= 2 /\ Len(v3) <= 1
  BY <1>0 DEF Monitor!TypeOK
<1>2. ASSUME v1' = v1, v2' \in Seq(Monitor!Alert), Len(v2') <= 2, v3' \in Seq(Monitor!Run), Len(v3') <= 1,
             v4' \in [Threads -> Thread]
      PROVE  Monitor!TypeOK'
  BY <1>1, <1>2 DEF Monitor!TypeOK, Thread, Monitor!Severity
<1>3. ASSUME NEW t \in Threads, (\E asked \in Monitor!Severity : Monitor!Evaluate(t, asked)) \/ Monitor!Queue(t) PROVE Goal
  <2>1. v1' = v1 /\ v2' = v2 /\ v3' \in Seq(Monitor!Run) /\ Len(v3') <= 1 /\ v4'[t].pc \notin {"raise", "queue"}
    <3>1. CASE Monitor!Queue(t)
      <4> DEFINE q == Monitor!Queued(v4[t])
      <4>1. q \in Monitor!Run
        BY <1>0, AlertThread DEF Monitor!Queued, Monitor!Run
      <4>2. v1' = v1 /\ v2' = v2 /\ v4' = [v4 EXCEPT ![t] = Monitor!Idle] /\ (v3' = v3 \/ (Len(v3) < 1 /\ v3' = Append(v3, q)))
        <5>1. v1' = v1 /\ v2' = v2 /\ v4' = [v4 EXCEPT ![t] = Monitor!Idle]
          BY <3>1 DEF Monitor!Queue
        <5>2. v3' = v3 \/ (Len(v3) < 1 /\ v3' = Append(v3, q))
          BY <3>1, Zenon DEF Monitor!Queue
        <5> QED
          BY <5>1, <5>2
      <4> HIDE DEF q
      <4>3. Append(v3, q) \in Seq(Monitor!Run) /\ Len(Append(v3, q)) = Len(v3) + 1
        BY <1>1, <4>1, AppendProperties
      <4>4. v4'[t] = Monitor!Idle
        BY <1>0, <4>2 DEF AlertTypes
      <4> QED
        BY <1>0, <1>1, <4>2, <4>3, <4>4 DEF Monitor!Idle
    <3>2. CASE \E asked \in Monitor!Severity : Monitor!Evaluate(t, asked)
      <4>1. PICK asked \in Monitor!Severity : v4' = [v4 EXCEPT ![t] = [Monitor!Idle EXCEPT !.pc = "decide", !.asked = asked]]
                                               /\ UNCHANGED <<v1, v2, v3>>
        BY <3>2 DEF Monitor!Evaluate
      <4>2. v4'[t].pc = "decide"
        BY <1>0, <4>1 DEF AlertTypes, Monitor!Idle
      <4> QED
        BY <1>1, <4>1, <4>2
    <3> QED
      BY <1>3, <3>1, <3>2
  <2>2. Turn(t)
    BY <1>0, <1>3, AlertTurn DEF Monitor!Queue
  <2>3. Monitor!Overlapped' /\ v4' \in [Threads -> Thread]
    BY <1>0, <2>2, AlertTurnKeeps
  <2>4. Monitor!RaiseHolds'
    BY <1>0, <2>1, <2>2 DEF Turn, Monitor!RaiseHolds, Monitor!Duplicate
  <2>5. Monitor!OneAlertPerCondition'
    BY <1>0, <2>1 DEF Monitor!OneAlertPerCondition
  <2> QED
    BY <1>1, <1>2, <2>1, <2>3, <2>4, <2>5
<1>4. ASSUME NEW t \in Threads, Monitor!Decide(t) PROVE Goal
  <2>1. UNCHANGED <<v1, v2, v3>>
    BY <1>4 DEF Monitor!Decide
  <2>2. Turn(t)
    BY <1>0, <1>4, AlertTurn
  <2>3. Monitor!Overlapped' /\ v4' \in [Threads -> Thread]
    BY <1>0, <2>2, AlertTurnKeeps
  <2>4. v4'[t].asked = v4[t].asked /\ (v1.ai /\ ~v4'[t].yes => ~Monitor!Duplicate(v4[t].asked))
    <3> DEFINE m == Monitor!Meeting(t, "raise")
               asked == v4[t].asked
               yes == v1.ai /\ Monitor!Duplicate(asked)
               severity == IF Len(v2) + 1 >= EscalateAt THEN "critical" ELSE v4[t].asked
               met == Monitor!Busy(t, {"raise"})
    <3>1. m \in [Threads -> Thread] /\ m[t].asked = asked
      BY <1>0, AlertMet
    <3>2. v4' = [m EXCEPT ![t].pc = "raise", ![t].yes = yes, ![t].severity = severity, ![t].met = met]
      BY <1>4 DEF Monitor!Decide
    <3>3. yes <=> v1.ai /\ Monitor!Duplicate(asked)
      OBVIOUS
    <3> HIDE DEF m, yes, severity, met, asked
    <3>4. v4'[t].asked = asked /\ (v4'[t].yes <=> yes)
      BY <3>1, <3>2 DEF Thread
    <3> QED
      BY <3>3, <3>4 DEF asked
  <2>5. Monitor!RaiseHolds'
    BY <1>0, <2>1, <2>2, <2>4 DEF Turn, Monitor!RaiseHolds, Monitor!Duplicate
  <2>6. Monitor!OneAlertPerCondition'
    BY <1>0, <2>1 DEF Monitor!OneAlertPerCondition
  <2> QED
    BY <1>1, <1>2, <2>1, <2>3, <2>5, <2>6
<1>5. ASSUME NEW t \in Threads, Monitor!Raise(t) PROVE Goal
  <2> DEFINE w == v4[t]
             x == [asked |-> w.asked, severity |-> w.severity, suppressed |-> w.yes, met |-> w.met]
  <2>1. /\ x \in Monitor!Alert /\ x.asked = w.asked /\ (x.suppressed <=> w.yes) /\ (x.met <=> w.met)
    BY <1>0, AlertThread DEF Monitor!Alert
  <2> HIDE DEF x
  <2>2. v2' = Append(v2, x) /\ UNCHANGED <<v1, v3>> /\ w.pc = "raise" /\ Len(v2) < 2
    BY <1>5 DEF Monitor!Raise, x
  <2> HIDE DEF w
  <2>3. /\ v2' \in Seq(Monitor!Alert) /\ Len(v2') = Len(v2) + 1 /\ v2'[Len(v2) + 1] = x
        /\ \A a \in 1..Len(v2) : v2'[a] = v2[a]
    BY <1>1, <2>1, <2>2, AppendProperties
  <2>4. Turn(t) /\ v4'[t].pc = "queue"
    <3>1. v4' = [Monitor!Meeting(t, "queue") EXCEPT ![t] = [Monitor!Idle EXCEPT !.pc = "queue",
                   !.yes = (~v4[t].yes \/ v1.ignore) /\ Monitor!Allowed(v4[t].severity) /\ ~Monitor!InCooldown,
                   !.met = Monitor!Busy(t, {"queue"})]]
      BY <1>5 DEF Monitor!Raise
    <3>2. Monitor!Meeting(t, "queue") \in [Threads -> Thread]
      BY <1>0, AlertMet
    <3> QED
      BY <1>0, <1>5, <3>1, <3>2, AlertTurn DEF Monitor!Idle
  <2>5. Monitor!Overlapped' /\ v4' \in [Threads -> Thread]
    BY <1>0, <2>4, AlertTurnKeeps
  <2>6. \A u \in Threads \ {t} : v4[u].pc = "raise" => v4[u].met
    BY <1>0, <2>2 DEF Monitor!Overlapped, w
  <2>7. Monitor!RaiseHolds'
    BY <2>4, <2>6 DEF Turn, Monitor!RaiseHolds
  <2>8. ASSUME v1.ai, ~x.met, ~x.suppressed, NEW a \in 1..Len(v2), v2[a].asked = x.asked PROVE v2[a].severity # v2[a].asked
    BY <1>0, <2>1, <2>2, <2>8 DEF Monitor!RaiseHolds, Monitor!Duplicate, w
  <2>9. Monitor!OneAlertPerCondition'
    <3> SUFFICES ASSUME v1.ai, NEW a \in 1..Len(v2'), NEW b \in 1..Len(v2'), a < b, v2'[a].asked = v2'[b].asked,
                        ~v2'[a].suppressed, ~v2'[b].suppressed
                 PROVE  v2'[b].met \/ v2'[a].severity # v2'[a].asked
      BY <2>2 DEF Monitor!OneAlertPerCondition
    <3>1. a \in 1..Len(v2) /\ v2'[a] = v2[a] /\ (b \in 1..Len(v2) \/ b = Len(v2) + 1)
      BY <1>0, <2>3
    <3>2. CASE b \in 1..Len(v2)
      BY <1>0, <2>3, <3>1, <3>2 DEF Monitor!OneAlertPerCondition
    <3>3. CASE b = Len(v2) + 1
      BY <2>3, <2>8, <3>1, <3>3
    <3> QED
      BY <3>1, <3>2, <3>3
  <2> QED
    BY <1>0, <1>1, <1>2, <2>2, <2>3, <2>5, <2>7, <2>9
<1>6. ASSUME Monitor!CooldownOver \/ \E r \in 1..Len(v3), code \in {"none", "0", "1"} :
               \E status \in {"open", "success", "failed"} : Monitor!Report(r, status, code)
      PROVE  Goal
  <2>1. UNCHANGED <<v1, v2, v4>>
    <3>1. Monitor!CooldownOver => UNCHANGED <<v1, v2, v4>>
      BY DEF Monitor!CooldownOver
    <3>2. \A r, status, code : Monitor!Report(r, status, code) => UNCHANGED <<v1, v2, v4>>
      BY DEF Monitor!Report
    <3> QED
      BY <1>6, <3>1, <3>2, Zenon
  <2>2. v3' \in Seq(Monitor!Run) /\ Len(v3') <= 1
    <3>1. CASE Monitor!CooldownOver
      <4>1. v3 # <<>> /\ v3' = Tail(v3)
        BY <3>1 DEF Monitor!CooldownOver
      <4>2. v3' \in Seq(Monitor!Run) /\ Len(v3') = Len(v3) - 1
        BY <1>1, <4>1, HeadTailProperties
      <4> QED
        BY <1>0, <1>1, <4>2
    <3>2. ASSUME NEW r \in 1..Len(v3), NEW code \in {"none", "0", "1"}, NEW status \in {"open", "success", "failed"},
                 Monitor!Report(r, status, code)
          PROVE  v3' \in Seq(Monitor!Run) /\ Len(v3') <= 1
      <4>1. PICK x : x \in Monitor!Run /\ v3' = [v3 EXCEPT ![r] = x]
        BY <1>1, <3>2, MonitorReported
      <4>2. v3' \in Seq(Monitor!Run) /\ Len(v3') = Len(v3)
        BY <1>1, <4>1, ExceptSeq
      <4> QED
        BY <1>1, <4>2
    <3> QED
      BY <1>6, <3>1, <3>2
  <2>3. v4' \in [Threads -> Thread]
    BY <1>0, <2>1 DEF AlertTypes
  <2>4. Monitor!Overlapped' /\ Monitor!RaiseHolds' /\ Monitor!OneAlertPerCondition'
    BY <1>0, <2>1 DEF Monitor!Overlapped, Monitor!RaiseHolds, Monitor!Duplicate, Monitor!OneAlertPerCondition
  <2> QED
    BY <1>1, <1>2, <2>1, <2>2, <2>3, <2>4
<1>7. ASSUME NEW i \in 1..Len(v2), Monitor!ResolveAlert(i) PROVE Goal
  <2>1. UNCHANGED <<v1, v3, v4>> /\ v2' = SubSeq(v2, 1, i - 1) \o SubSeq(v2, i + 1, Len(v2))
    BY <1>7 DEF Monitor!ResolveAlert, Monitor!RemoveAt
  <2>2. /\ v2' \in Seq(Monitor!Alert) /\ Len(v2') = Len(v2) - 1
        /\ \A k \in 1..Len(v2') : v2'[k] = v2[IF k < i THEN k ELSE k + 1]
    BY <1>1, <2>1, SeqRemoved
  <2>3. v4' \in [Threads -> Thread] /\ Len(v2') <= 2
    <3>1. v4 \in [Threads -> Thread]
      BY <1>0 DEF AlertTypes
    <3>2. v4' \in [Threads -> Thread]
      BY <2>1, <3>1
    <3>3. Len(v2') = Len(v2) - 1
      BY <2>2
    <3>4. Len(v2') <= 2
      BY <1>0, <1>1, <3>3
    <3> QED
      BY <3>2, <3>4
  <2>4. Monitor!Overlapped'
    BY <1>0, <2>1 DEF Monitor!Overlapped
  <2>5. \A k \in 1..Len(v2') : (IF k < i THEN k ELSE k + 1) \in 1..Len(v2)
    BY <1>0, <2>2
  <2>6. Monitor!RaiseHolds'
    BY <1>0, <2>1, <2>2, <2>5 DEF Monitor!RaiseHolds, Monitor!Duplicate
  <2>7. Monitor!OneAlertPerCondition'
    <3> SUFFICES ASSUME v1.ai, NEW a \in 1..Len(v2'), NEW b \in 1..Len(v2'), a < b, v2'[a].asked = v2'[b].asked,
                        ~v2'[a].suppressed, ~v2'[b].suppressed
                 PROVE  v2'[b].met \/ v2'[a].severity # v2'[a].asked
      BY <2>1 DEF Monitor!OneAlertPerCondition
    <3> DEFINE c == IF a < i THEN a ELSE a + 1
               d == IF b < i THEN b ELSE b + 1
    <3>1. c \in 1..Len(v2) /\ d \in 1..Len(v2) /\ c < d /\ v2'[a] = v2[c] /\ v2'[b] = v2[d]
      BY <1>0, <2>2, <2>5
    <3> HIDE DEF c, d
    <3> QED
      BY <1>0, <3>1 DEF Monitor!OneAlertPerCondition
  <2> QED
    BY <1>1, <1>2, <2>1, <2>2, <2>3, <2>4, <2>6, <2>7
<1>8. Goal
  <2> HIDE DEF Goal
  <2> QED
    BY <1>3, <1>4, <1>5, <1>6, <1>7 DEF Monitor!Next
<1> QED
  BY <1>8 DEF MonitorInv

\* With suppression on, one condition has one alert that is neither resolved nor suppressed, unless
\* two were raised at once or an escalation stored another severity (raise_alert), for any number
\* of threads.
THEOREM OneAlertPerConditionCorrect == FleetSpec => []OneAlertPerCondition
<1> DEFINE I == focus = "alerts" => MonitorInv
<1>1. FleetInit => I
  <2> SUFFICES ASSUME Monitor!Init PROVE MonitorInv
    BY DEF FleetInit
  <2>1. Monitor!Idle \in Thread /\ Monitor!Idle.pc = "idle"
    BY DEF Monitor!Idle, Thread
  <2>2. v1 \in Monitor!Rule /\ v2 = <<>> /\ v3 = <<>> /\ v4 = [t \in Threads |-> Monitor!Idle]
    <3>1. v1 \in {[ai |-> TRUE, ignore |-> FALSE, min |-> "warning"], [ai |-> FALSE, ignore |-> FALSE, min |-> "critical"]}
      BY DEF Monitor!Init
    <3>2. v1 \in Monitor!Rule
      <4>1. CASE v1 = [ai |-> TRUE, ignore |-> FALSE, min |-> "warning"]
        BY <4>1 DEF Monitor!Rule, Monitor!Severity
      <4>2. CASE v1 = [ai |-> FALSE, ignore |-> FALSE, min |-> "critical"]
        BY <4>2 DEF Monitor!Rule, Monitor!Severity
      <4> QED
        BY <3>1, <4>1, <4>2
    <3> QED
      BY <3>2 DEF Monitor!Init
  <2>3. v4 \in [Threads -> Thread] /\ \A t \in Threads : v4[t].pc = "idle"
    BY <2>1, <2>2
  <2>4. Monitor!TypeOK
    BY <2>2, <2>3 DEF Monitor!TypeOK, Thread, Monitor!Severity
  <2> QED
    BY <2>2, <2>3, <2>4 DEF MonitorInv, Monitor!Overlapped, Monitor!RaiseHolds, Monitor!OneAlertPerCondition
<1>2. I /\ [FleetNext]_FleetVars => I'
  <2> SUFFICES ASSUME MonitorInv, [FleetNext]_FleetVars, focus = "alerts" PROVE MonitorInv'
    BY Focused
  <2>1. CASE UNCHANGED slots
    BY <2>1 DEF slots, MonitorInv, Monitor!TypeOK, Monitor!Overlapped, Monitor!RaiseHolds, Monitor!Duplicate,
                Monitor!OneAlertPerCondition
  <2> QED
    BY <2>1, Focused, MonitorKeeps
<1>3. I => OneAlertPerCondition
  BY DEF OneAlertPerCondition, MonitorInv
<1> QED
  BY <1>1, <1>2, <1>3, PTL DEF FleetSpec
RemedyInv == Remedy!TypeOK /\ Remedy!Overlapped /\ Remedy!QueueHolds /\ Remedy!OpenIsQueued /\ Remedy!CooldownHolds

\* What a report makes of a run.
RunReported(r, x) ==
  /\ x \in Remedy!Run /\ v3' = [v3 EXCEPT ![r] = x] /\ (x.met <=> v3[r].met)
  /\ x.late <=> v3[r].late \/ v3[r].task \in Remedy!Ended
  /\ x.task \notin Remedy!Ended => x.status = v3[r].status
  /\ x.task \in Remedy!Ended /\ x.status = "completed" => x.task = "success" /\ ~x.bad

LEMMA RemedyReported ==
  ASSUME v3 \in Seq(Remedy!Run), NEW r \in 1..Len(v3), NEW status \in {"open", "success", "failed"},
         NEW code \in {"none", "0", "1"}, Remedy!Report(r, status, code)
  PROVE  \E x : RunReported(r, x)
<1> DEFINE bad == IF code = "none" THEN v3[r].bad ELSE code # "0"
           final == IF status = "success" /\ code = "1" THEN "failed" ELSE status
           mirrored == Remedy!Mirrored(v3[r], final, bad)
           late == v3[r].late \/ v3[r].task \in Remedy!Ended
           x == [v3[r] EXCEPT !.task = final, !.bad = bad, !.status = mirrored, !.late = late]
<1>1. v3[r] \in Remedy!Run
  BY ElementOfSeq
<1>2. bad \in BOOLEAN /\ final \in {"open", "success", "failed"} /\ late \in BOOLEAN
  BY <1>1 DEF Remedy!Run
<1>3. /\ mirrored \in {"queued", "completed", "failed"}
      /\ final \notin Remedy!Ended => mirrored = v3[r].status
      /\ final \in Remedy!Ended /\ mirrored = "completed" => final = "success" /\ ~bad
  <2> HIDE DEF bad, final
  <2>1. v3[r].status \in {"queued", "completed", "failed"}
    BY <1>1 DEF Remedy!Run
  <2> QED
    BY <2>1 DEF Remedy!Mirrored
<1>4. v3' = [v3 EXCEPT ![r].task = final, ![r].bad = bad, ![r].status = mirrored, ![r].late = late]
  BY DEF Remedy!Report
<1>5. late <=> v3[r].late \/ v3[r].task \in Remedy!Ended
  OBVIOUS
<1> HIDE DEF bad, final, mirrored, late
<1>6. /\ x \in Remedy!Run /\ x.task = final /\ x.status = mirrored /\ (x.bad <=> bad) /\ (x.late <=> late) /\ (x.met <=> v3[r].met)
  BY <1>1, <1>2, <1>3 DEF Remedy!Run
<1>7. v3' = [v3 EXCEPT ![r] = x]
  BY <1>4
<1> HIDE DEF x
<1> QED
  BY <1>3, <1>5, <1>6, <1>7 DEF RunReported

LEMMA RemedyKeeps ==
  ASSUME RemedyInv, Remedy!Next
  PROVE  RemedyInv'
<1> DEFINE Goal == Remedy!TypeOK' /\ Remedy!Overlapped' /\ Remedy!QueueHolds' /\ Remedy!OpenIsQueued' /\ Remedy!CooldownHolds'
<1>0. /\ Remedy!TypeOK /\ Remedy!Overlapped /\ Remedy!QueueHolds /\ Remedy!OpenIsQueued /\ Remedy!CooldownHolds
      /\ Monitor!Overlapped /\ AlertTypes /\ Len(v2) \in Nat /\ Len(v3) \in Nat
  <2>1. Remedy!TypeOK /\ Remedy!Overlapped /\ Remedy!QueueHolds /\ Remedy!OpenIsQueued /\ Remedy!CooldownHolds
    BY DEF RemedyInv
  <2>2. AlertTypes
    BY <2>1, AlertTyped
  <2>3. Len(v2) \in Nat /\ Len(v3) \in Nat
    BY <2>2, LenProperties DEF AlertTypes
  <2> QED
    BY <2>1, <2>2, <2>3 DEF Remedy!Overlapped, Monitor!Overlapped
<1>1. v1 \in Remedy!Rule /\ v2 \in Seq(Remedy!Alert) /\ v3 \in Seq(Remedy!Run) /\ Len(v2) <= 1 /\ Len(v3) <= 2
      /\ v4 \in [Threads -> Thread]
  BY <1>0 DEF Remedy!TypeOK, AlertTypes
<1>2. ASSUME v1' = v1, v2' \in Seq(Remedy!Alert), Len(v2') <= 1, v3' \in Seq(Remedy!Run), Len(v3') <= 2,
             v4' \in [Threads -> Thread]
      PROVE  Remedy!TypeOK'
  BY <1>1, <1>2 DEF Remedy!TypeOK, Thread, Remedy!Severity
<1>3. ASSUME v3' = v3 PROVE Remedy!OpenIsQueued' /\ Remedy!CooldownHolds'
  BY <1>0, <1>3 DEF Remedy!OpenIsQueued, Remedy!CooldownHolds
<1>4. ASSUME NEW t \in Threads, Turn(t) PROVE Remedy!Overlapped' /\ v4' \in [Threads -> Thread]
  BY <1>0, <1>4, AlertTurnKeeps DEF Remedy!Overlapped, Monitor!Overlapped
<1>5. ASSUME NEW t \in Threads, (\E asked \in Remedy!Severity : Remedy!Evaluate(t, asked)) \/ Remedy!Decide(t) PROVE Goal
  <2>1. v1' = v1 /\ v2' = v2 /\ v3' = v3
    BY <1>5 DEF Remedy!Evaluate, Remedy!Decide
  <2>2. Turn(t)
    BY <1>0, <1>5, RemedyActs, AlertTurn
  <2>3. v4'[t].pc # "queue"
    <3>1. CASE Remedy!Decide(t)
      <4> DEFINE m == Remedy!Meeting(t, "raise")
                 asked == v4[t].asked
                 yes == v1.ai /\ Remedy!Duplicate(asked)
                 severity == IF Len(v2) + 1 >= EscalateAt THEN "critical" ELSE v4[t].asked
                 met == Remedy!Busy(t, {"raise"})
      <4>1. m \in [Threads -> Thread]
        <5>1. m = Monitor!Meeting(t, "raise")
          BY DEF Remedy!Meeting, Monitor!Meeting
        <5> HIDE DEF m
        <5> QED
          BY <1>0, <5>1, AlertMet
      <4>2. v4' = [m EXCEPT ![t].pc = "raise", ![t].yes = yes, ![t].severity = severity, ![t].met = met]
        BY <3>1 DEF Remedy!Decide
      <4> HIDE DEF m, yes, severity, met
      <4> QED
        BY <4>1, <4>2 DEF Thread
    <3>2. CASE \E asked \in Remedy!Severity : Remedy!Evaluate(t, asked)
      <4>1. PICK asked \in Remedy!Severity : v4' = [v4 EXCEPT ![t] = [Remedy!Idle EXCEPT !.pc = "decide", !.asked = asked]]
        BY <3>2 DEF Remedy!Evaluate
      <4> QED
        BY <1>1, <4>1 DEF Remedy!Idle
    <3> QED
      BY <1>5, <3>1, <3>2
  <2>4. Remedy!QueueHolds'
    BY <1>0, <2>1, <2>2, <2>3 DEF Turn, Remedy!QueueHolds
  <2> QED
    BY <1>1, <1>2, <1>3, <1>4, <2>1, <2>2, <2>4
<1>6. ASSUME NEW t \in Threads, Remedy!Raise(t) PROVE Goal
  <2> DEFINE x == [asked |-> v4[t].asked, severity |-> v4[t].severity, suppressed |-> v4[t].yes, met |-> v4[t].met]
             m == Remedy!Meeting(t, "queue")
             yes == (~v4[t].yes \/ v1.ignore) /\ Remedy!Allowed(v4[t].severity) /\ ~Remedy!InCooldown
             met == Remedy!Busy(t, {"queue"})
             y == [Remedy!Idle EXCEPT !.pc = "queue", !.yes = yes, !.met = met]
  <2>1. x \in Remedy!Alert
    BY <1>0, AlertThread DEF Remedy!Alert, Remedy!Severity, Monitor!Severity
  <2>2. m \in [Threads -> Thread]
    <3>1. m = Monitor!Meeting(t, "queue")
      BY DEF Remedy!Meeting, Monitor!Meeting
    <3> HIDE DEF m
    <3> QED
      BY <1>0, <3>1, AlertMet
  <2>3. yes => ~Remedy!InCooldown
    OBVIOUS
  <2> HIDE DEF x
  <2>4. v2' = Append(v2, x) /\ v1' = v1 /\ v3' = v3 /\ v4' = [m EXCEPT ![t] = y] /\ Len(v2) < 1
    BY <1>6 DEF Remedy!Raise, x
  <2> HIDE DEF m, yes, met
  <2>5. v2' \in Seq(Remedy!Alert) /\ Len(v2') <= 1
    BY <1>0, <1>1, <2>1, <2>4, AppendProperties
  <2>6. Turn(t)
    BY <1>0, <1>6, RemedyActs, AlertTurn
  <2>7. v4'[t].yes => ~Remedy!InCooldown
    <3>1. y.yes <=> yes
      BY DEF Remedy!Idle
    <3> QED
      BY <2>2, <2>3, <2>4, <3>1
  <2>8. \A u \in Threads \ {t} : v4'[u].pc = "queue" /\ v4'[u].yes /\ ~v4'[u].met => v4[u].pc = "queue" /\ v4[u].yes /\ ~v4[u].met
    BY <2>6 DEF Turn
  <2>9. Remedy!QueueHolds'
    BY <1>0, <2>4, <2>7, <2>8 DEF Remedy!QueueHolds, Remedy!InCooldown
  <2> QED
    BY <1>1, <1>2, <1>3, <1>4, <2>4, <2>5, <2>6, <2>9
<1>7. ASSUME NEW t \in Threads, Remedy!Queue(t) PROVE Goal
  <2> DEFINE x == Remedy!Queued(v4[t])
  <2>1. x \in Remedy!Run /\ x.status = "queued" /\ x.task = "open" /\ (x.met <=> v4[t].met)
    BY <1>0, AlertThread DEF Remedy!Queued, Remedy!Run
  <2>2. v1' = v1 /\ v2' = v2 /\ v4' = [v4 EXCEPT ![t] = Remedy!Idle] /\ v4[t].pc = "queue"
    BY <1>7 DEF Remedy!Queue
  <2>3. v3' = v3 \/ (v4[t].yes /\ Len(v3) < 2 /\ v3' = Append(v3, x))
    BY <1>7, Zenon DEF Remedy!Queue
  <2> HIDE DEF x
  <2>4. Turn(t)
    BY <1>0, <1>7, RemedyActs, AlertTurn
  <2>5. v4'[t].pc = "idle"
    BY <1>1, <2>2 DEF Remedy!Idle
  <2>6. CASE v3' = v3
    <3>1. Remedy!QueueHolds'
      BY <1>0, <2>4, <2>5, <2>6 DEF Turn, Remedy!QueueHolds
    <3> QED
      BY <1>1, <1>2, <1>3, <1>4, <2>2, <2>4, <2>6, <3>1
  <2>7. CASE v4[t].yes /\ Len(v3) < 2 /\ v3' = Append(v3, x)
    <3>1. /\ v3' \in Seq(Remedy!Run) /\ Len(v3') = Len(v3) + 1 /\ v3'[Len(v3) + 1] = x
          /\ \A r \in 1..Len(v3) : v3'[r] = v3[r]
      BY <1>1, <2>1, <2>7, AppendProperties
    <3>2. Len(v3') <= 2
      BY <1>0, <2>7, <3>1
    <3>3. Remedy!OpenIsQueued'
      BY <1>0, <2>1, <3>1 DEF Remedy!OpenIsQueued
    <3>4. \A u \in Threads \ {t} : v4[u].pc = "queue" => v4[u].met
      BY <1>0, <2>2 DEF Remedy!Overlapped
    <3>5. Remedy!QueueHolds'
      BY <2>4, <2>5, <3>4 DEF Turn, Remedy!QueueHolds
    <3>6. x.met \/ \A r \in 1..Len(v3) : v3[r].late \/ v3[r].status \notin Remedy!Counted
      BY <1>0, <2>1, <2>2, <2>7 DEF Remedy!QueueHolds
    <3>7. Remedy!CooldownHolds'
      <4> SUFFICES ASSUME NEW r \in 1..Len(v3'), ~v3'[r].late
                   PROVE  /\ \A q \in (r + 1)..Len(v3') : v3'[q].met \/ v3'[r].status \notin Remedy!Counted
                          /\ v3'[r].status = "completed" => v3'[r].task = "success" /\ ~v3'[r].bad
        BY DEF Remedy!CooldownHolds, Remedy!Counted
      <4>1. CASE r = Len(v3) + 1
        BY <1>0, <2>1, <3>1, <4>1
      <4>2. CASE r \in 1..Len(v3)
        <5>1. v3'[r] = v3[r] /\ (v3'[r].status = "completed" => v3'[r].task = "success" /\ ~v3'[r].bad)
          BY <1>0, <3>1, <4>2 DEF Remedy!CooldownHolds
        <5>2. ASSUME NEW q \in (r + 1)..Len(v3') PROVE v3'[q].met \/ v3[r].status \notin Remedy!Counted
          <6>1. CASE q = Len(v3) + 1
            BY <3>1, <3>6, <4>2, <5>1, <6>1
          <6>2. CASE q # Len(v3) + 1
            <7>1. q \in (r + 1)..Len(v3) /\ q \in 1..Len(v3)
              BY <1>0, <3>1, <4>2, <6>2
            <7> QED
              BY <1>0, <3>1, <4>2, <5>1, <7>1 DEF Remedy!CooldownHolds
          <6> QED
            BY <6>1, <6>2
        <5> QED
          BY <5>1, <5>2
      <4> QED
        BY <1>0, <3>1, <4>1, <4>2
    <3> QED
      BY <1>1, <1>2, <1>4, <2>2, <2>4, <3>1, <3>2, <3>3, <3>5, <3>7
  <2> QED
    BY <2>3, <2>6, <2>7
<1>8. ASSUME Remedy!CooldownOver PROVE Goal
  <2>1. v1' = v1 /\ v2' = v2 /\ v4' = v4 /\ v3 # <<>> /\ v3' = Tail(v3)
    BY <1>8 DEF Remedy!CooldownOver
  <2>2. v3' \in Seq(Remedy!Run) /\ Len(v3') = Len(v3) - 1 /\ \A r \in 1..Len(v3') : v3'[r] = v3[r + 1]
    BY <1>1, <2>1, HeadTailProperties
  <2>3. \A r \in 1..Len(v3') : r + 1 \in 1..Len(v3)
    BY <1>0, <2>2
  <2>4. Len(v3') <= 2
    BY <1>0, <1>1, <2>2
  <2>5. Remedy!QueueHolds' /\ Remedy!OpenIsQueued'
    BY <1>0, <2>1, <2>2, <2>3 DEF Remedy!QueueHolds, Remedy!OpenIsQueued
  <2>6. Remedy!CooldownHolds'
    <3> SUFFICES ASSUME NEW r \in 1..Len(v3'), ~v3'[r].late
                 PROVE  /\ \A q \in (r + 1)..Len(v3') : v3'[q].met \/ v3'[r].status \notin Remedy!Counted
                        /\ v3'[r].status = "completed" => v3'[r].task = "success" /\ ~v3'[r].bad
      BY DEF Remedy!CooldownHolds, Remedy!Counted
    <3>1. v3'[r] = v3[r + 1] /\ r + 1 \in 1..Len(v3)
      BY <2>2, <2>3
    <3>2. ASSUME NEW q \in (r + 1)..Len(v3') PROVE v3'[q] = v3[q + 1] /\ q + 1 \in ((r + 1) + 1)..Len(v3)
      BY <1>0, <2>2
    <3> QED
      BY <1>0, <3>1, <3>2 DEF Remedy!CooldownHolds
  <2>7. Remedy!Overlapped'
    BY <1>0, <2>1 DEF Remedy!Overlapped
  <2>8. v4' \in [Threads -> Thread]
    BY <1>1, <2>1
  <2> QED
    BY <1>1, <1>2, <2>1, <2>2, <2>4, <2>5, <2>6, <2>7, <2>8
<1>9. ASSUME NEW r \in 1..Len(v3), NEW code \in {"none", "0", "1"}, NEW status \in {"open", "success", "failed"},
             Remedy!Report(r, status, code)
      PROVE  Goal
  <2>0. PICK x : RunReported(r, x)
    BY <1>1, <1>9, RemedyReported
  <2>1. /\ x \in Remedy!Run /\ v3' = [v3 EXCEPT ![r] = x] /\ (x.met <=> v3[r].met)
        /\ x.late <=> v3[r].late \/ v3[r].task \in Remedy!Ended
        /\ x.task \notin Remedy!Ended => x.status = v3[r].status
        /\ x.task \in Remedy!Ended /\ x.status = "completed" => x.task = "success" /\ ~x.bad
    BY <2>0 DEF RunReported
  <2>2. v1' = v1 /\ v2' = v2 /\ v4' = v4
    BY <1>9 DEF Remedy!Report
  <2>3. v3' \in Seq(Remedy!Run) /\ Len(v3') = Len(v3) /\ \A q \in 1..Len(v3) : v3'[q] = IF q = r THEN x ELSE v3[q]
    BY <1>1, <2>1, ExceptSeq
  <2>4. x.late \/ (v3[r].status = "queued" /\ ~v3[r].late)
    <3>1. v3[r].task \notin Remedy!Ended => v3[r].late \/ v3[r].status = "queued"
      BY <1>0 DEF Remedy!OpenIsQueued
    <3> QED
      BY <2>1, <3>1
  <2>5. Remedy!OpenIsQueued'
    BY <1>0, <2>1, <2>3, <2>4 DEF Remedy!OpenIsQueued
  <2>6. Remedy!QueueHolds'
    BY <1>0, <2>2, <2>3, <2>4 DEF Remedy!QueueHolds, Remedy!Counted
  <2>7. Remedy!CooldownHolds'
    <3> SUFFICES ASSUME NEW p \in 1..Len(v3), ~v3'[p].late
                 PROVE  /\ \A q \in (p + 1)..Len(v3) : v3'[q].met \/ v3'[p].status \notin Remedy!Counted
                        /\ v3'[p].status = "completed" => v3'[p].task = "success" /\ ~v3'[p].bad
      BY <2>3 DEF Remedy!CooldownHolds, Remedy!Counted
    <3>1. CASE p # r
      BY <1>0, <2>1, <2>3, <3>1 DEF Remedy!CooldownHolds
    <3>2. CASE p = r
      BY <1>0, <2>1, <2>3, <2>4, <3>2 DEF Remedy!CooldownHolds, Remedy!Counted
    <3> QED
      BY <3>1, <3>2
  <2>8. Remedy!Overlapped'
    BY <1>0, <2>2 DEF Remedy!Overlapped
  <2>9. v4' \in [Threads -> Thread] /\ Len(v3') <= 2
    BY <1>1, <2>2, <2>3
  <2> QED
    BY <1>1, <1>2, <2>2, <2>3, <2>5, <2>6, <2>7, <2>8, <2>9
<1>10. ASSUME NEW i \in 1..Len(v2), Remedy!ResolveAlert(i) PROVE Goal
  <2>1. v1' = v1 /\ v3' = v3 /\ v4' = v4 /\ v2' = SubSeq(v2, 1, i - 1) \o SubSeq(v2, i + 1, Len(v2))
    BY <1>10 DEF Remedy!ResolveAlert, Remedy!RemoveAt
  <2>2. v2' \in Seq(Remedy!Alert) /\ Len(v2') = Len(v2) - 1
    BY <1>1, <2>1, SeqRemoved
  <2>3. Len(v2') <= 1
    BY <1>0, <1>1, <2>2
  <2>4. Remedy!Overlapped' /\ Remedy!QueueHolds'
    BY <1>0, <2>1 DEF Remedy!Overlapped, Remedy!QueueHolds
  <2>5. v4' \in [Threads -> Thread]
    BY <1>1, <2>1
  <2> QED
    BY <1>1, <1>2, <1>3, <2>1, <2>2, <2>3, <2>4, <2>5
<1>11. Goal
  <2> HIDE DEF Goal
  <2> QED
    BY <1>5, <1>6, <1>7, <1>8, <1>9, <1>10 DEF Remedy!Next
<1> QED
  BY <1>11 DEF RemedyInv

\* Within the cooldown an action is queued once and not again while it may still succeed or has
\* succeeded, unless two alerts were remediated at once or a task reported again after its end,
\* and a completed run has a task that succeeded (process_alert, the report of a task's state).
THEOREM CooldownHoldsCorrect == FleetSpec => []CooldownHolds
<1> DEFINE I == focus = "remediation" => RemedyInv
<1>1. FleetInit => I
  <2> SUFFICES ASSUME Remedy!Init PROVE RemedyInv
    BY DEF FleetInit
  <2>1. Remedy!Idle \in Thread /\ Remedy!Idle.pc = "idle"
    BY DEF Remedy!Idle, Thread
  <2>2. v2 = <<>> /\ v3 = <<>> /\ v4 = [t \in Threads |-> Remedy!Idle]
    BY DEF Remedy!Init
  <2>3. v4 \in [Threads -> Thread] /\ \A t \in Threads : v4[t].pc = "idle"
    BY <2>1, <2>2
  <2>4. v1 \in Remedy!Rule
    <3>1. v1 \in {[ai |-> TRUE, ignore |-> FALSE, min |-> "warning"], [ai |-> FALSE, ignore |-> FALSE, min |-> "critical"]}
      BY DEF Remedy!Init
    <3>2. CASE v1 = [ai |-> TRUE, ignore |-> FALSE, min |-> "warning"]
      BY <3>2 DEF Remedy!Rule, Remedy!Severity
    <3>3. CASE v1 = [ai |-> FALSE, ignore |-> FALSE, min |-> "critical"]
      BY <3>3 DEF Remedy!Rule, Remedy!Severity
    <3> QED
      BY <3>1, <3>2, <3>3
  <2>5. Remedy!TypeOK
    BY <2>2, <2>3, <2>4 DEF Remedy!TypeOK, Thread, Remedy!Severity
  <2> QED
    BY <2>2, <2>3, <2>5 DEF RemedyInv, Remedy!Overlapped, Remedy!QueueHolds, Remedy!OpenIsQueued, Remedy!CooldownHolds
<1>2. I /\ [FleetNext]_FleetVars => I'
  <2> SUFFICES ASSUME RemedyInv, [FleetNext]_FleetVars, focus = "remediation" PROVE RemedyInv'
    BY Focused
  <2>1. CASE UNCHANGED slots
    BY <2>1 DEF slots, RemedyInv, Remedy!TypeOK, Remedy!Overlapped, Remedy!QueueHolds, Remedy!OpenIsQueued, Remedy!CooldownHolds
  <2> QED
    BY <2>1, Focused, RemedyKeeps
<1>3. I => CooldownHolds
  BY DEF CooldownHolds, RemedyInv
<1> QED
  BY <1>1, <1>2, <1>3, PTL DEF FleetSpec
---------------------------------------------------------------------------
(* EndpointSecurity *)

\* What a request has to do, and the rows the component keeps, are of one form each.
Request(r) == r \in [phase : {r.phase}, dev : {r.dev}, score : {r.score}, of : {r.of}, todo : {r.todo}]
Formed ==
  /\ v2 = [r \in Products \X Endpoints |-> v2[r]] /\ v5 = [d \in Endpoints |-> v5[d]]
  /\ v4 = [f \in Products \X Findings |-> [on |-> v4[f].on, status |-> v4[f].status]]
  /\ \A f \in Products \X Findings : v4[f].on \in Endpoints \union {"none"}
  /\ v6 = [t \in Threads |-> v6[t]] /\ \A t \in Threads : Request(v6[t])
\* The invariant, device by device: what is stored, and what a request is about to store.
Busy(r)  == IF r.phase \in {"read", "write"} THEN r.dev \in Endpoints ELSE r.dev = "none"
Stored(e) == e \in v7 \/ v5[e] = Posture!NoScore \/ (\E t \in Threads : v6[t].dev = e) \/ v5[e] = Posture!Score(e)
Sound(e) ==
  \A t \in Threads : v6[t].phase = "write" /\ v6[t].dev = e /\ e \notin v7 =>
    v6[t].score = Posture!Score(e) \/ \E u \in Threads : v6[u].phase = "read" /\ v6[u].dev = e
LEMMA PostureMeaning ==
  /\ Posture!Inv <=> (\A t \in Threads : Busy(v6[t])) /\ \A e \in Endpoints : Stored(e) /\ Sound(e)
  /\ Posture!Inv' <=> (\A t \in Threads : Busy(v6[t])') /\ \A e \in Endpoints : Stored(e)' /\ Sound(e)'
<1>1. Posture!Inv <=> (\A t \in Threads : Busy(v6[t])) /\ \A e \in Endpoints : Stored(e) /\ Sound(e)
  BY DEF Posture!Inv, Posture!ScoreFollowsPosture, Posture!Written, Busy, Stored, Sound
<1>2. Posture!Inv' <=> (\A t \in Threads : Busy(v6[t])') /\ \A e \in Endpoints : Stored(e)' /\ Sound(e)'
  BY DEF Posture!Inv, Posture!ScoreFollowsPosture, Posture!Written, Busy, Stored, Sound
<1> QED
  BY <1>1, <1>2

\* The score of a device is computed from its products' rows and its open findings alone.
SameRows(e) == \A p \in Products : v2'[<<p, e>>] = v2[<<p, e>>]
SameFindings(e) ==
  \A f \in Products \X Findings : v4'[f].on = e /\ v4'[f].status = "open" <=> v4[f].on = e /\ v4[f].status = "open"
LEMMA SameScore ==
  ASSUME NEW e \in Endpoints, SameRows(e), SameFindings(e)
  PROVE  Posture!Score(e)' = Posture!Score(e)
<1>1. Posture!Open(e)' = Posture!Open(e)
  BY DEF SameFindings, Posture!Open
<1> DEFINE rows    == {p \in Products : v2[<<p, e>>].status # "none"}
           healthy == [p \in rows |-> v2[<<p, e>>].status = "healthy"]
           rtp     == [p \in rows |-> v2[<<p, e>>].rtp]
           defs    == [p \in rows |-> v2[<<p, e>>].defs]
<1>2. rows' = rows
  BY DEF SameRows
<1>3. healthy' = healthy /\ rtp' = rtp /\ defs' = defs
  BY <1>2 DEF SameRows
<1> DEFINE Lack(sound) == Posture!Cardinality({p \in rows : ~sound[p]})
           left == 100 - 25 * Posture!Cardinality(Posture!Open(e))
                    - (IF rows = {} THEN 40
                       ELSE Posture!AtMost(30, 15 * Lack(healthy)) + Posture!AtMost(15, 10 * Lack(rtp))
                            + Posture!AtMost(10, 5 * Lack(defs)))
<1>4. Lack(healthy)' = Lack(healthy) /\ Lack(rtp)' = Lack(rtp) /\ Lack(defs)' = Lack(defs)
  BY <1>2, <1>3
<1>5. left' = left
  BY <1>1, <1>2, <1>4 DEF Posture!AtMost
<1>6. Posture!Score(e) = IF left < 0 THEN 0 ELSE left
  BY DEF Posture!Score
<1>7. Posture!Score(e)' = IF left' < 0 THEN 0 ELSE left'
  BY DEF Posture!Score
<1> QED
  BY <1>5, <1>6, <1>7

\* What a step that gives a request something else to do may do about a device: the request will
\* read the rows again; or it has nothing to do with the device, which is as right as before; or
\* it is done with the device; or it has read the rows.
Rereads(x, e) == x.phase = "read" /\ x.dev = e
Apart(e) ==
  /\ v5'[e] = v5[e] /\ (e \in v7 => e \in v7')
  /\ e \in v7' \/ Posture!Score(e)' = Posture!Score(e)
LeavesIt(r, e) ==
  /\ r.dev = e
  /\ \/ e \in v7'
     \/ r.phase = "write" /\ e \notin v7 /\ v5'[e] = r.score /\ Posture!Score(e)' = Posture!Score(e)
ReadsIt(t, x, e) ==
  /\ x.phase = "write" /\ x.dev = e /\ x.score = Posture!Score(e)'
  /\ \A w \in Threads \ {t} : v6[w].phase = "write" /\ v6[w].dev = e => e \in v7'
LEMMA RequestMoves ==
  ASSUME Posture!Inv, Formed, NEW t \in Threads, NEW x, v6' = [v6 EXCEPT ![t] = x], Request(x), Busy(x),
         \A e \in Endpoints : \/ Rereads(x, e)
                              \/ v6[t].dev # e /\ x.dev # e /\ Apart(e)
                              \/ x.dev # e /\ LeavesIt(v6[t], e)
                              \/ ReadsIt(t, x, e)
  PROVE  /\ Posture!Inv'
         /\ v6' = [u \in Threads |-> v6'[u]] /\ \A u \in Threads : Request(v6'[u])
<1>1. \A u \in Threads : v6'[u] = IF u = t THEN x ELSE v6[u]
  BY DEF Formed
<1>2. v6' = [u \in Threads |-> v6'[u]] /\ \A u \in Threads : Request(v6'[u])
  BY <1>1 DEF Formed
<1>3. ASSUME NEW u \in Threads PROVE Busy(v6[u])'
  BY <1>1, PostureMeaning DEF Busy
<1>4. ASSUME NEW e \in Endpoints PROVE Stored(e)' /\ Sound(e)'
  <2>1. Stored(e) /\ Sound(e)
    BY PostureMeaning
  <2>2. CASE Rereads(x, e)
    BY <1>1, <2>2 DEF Rereads, Stored, Sound
  <2>3. CASE v6[t].dev # e /\ x.dev # e /\ Apart(e)
    <3>1. CASE e \in v7'
      BY <3>1 DEF Stored, Sound
    <3>2. CASE e \notin v7'
      <4>1. e \notin v7 /\ v5'[e] = v5[e] /\ Posture!Score(e)' = Posture!Score(e)
        BY <2>3, <3>2 DEF Apart
      <4>2. Stored(e)'
        BY <1>1, <2>1, <2>3, <4>1 DEF Stored, Posture!NoScore
      <4>3. Sound(e)'
        BY <1>1, <2>1, <2>3, <4>1 DEF Sound
      <4> QED
        BY <4>2, <4>3
    <3> QED
      BY <3>1, <3>2
  <2>4. CASE x.dev # e /\ LeavesIt(v6[t], e)
    <3>1. CASE e \in v7'
      BY <3>1 DEF Stored, Sound
    <3>2. CASE e \notin v7'
      <4>1. /\ v6[t].phase = "write" /\ v6[t].dev = e /\ e \notin v7
            /\ v5'[e] = v6[t].score /\ Posture!Score(e)' = Posture!Score(e)
        BY <2>4, <3>2 DEF LeavesIt
      <4>2. v6[t].score = Posture!Score(e) \/ \E u \in Threads \ {t} : v6[u].phase = "read" /\ v6[u].dev = e
        BY <2>1, <4>1 DEF Sound
      <4>3. Stored(e)'
        BY <1>1, <4>1, <4>2 DEF Stored
      <4>4. Sound(e)'
        BY <1>1, <2>1, <2>4, <4>1, <4>2 DEF Sound
      <4> QED
        BY <4>3, <4>4
    <3> QED
      BY <3>1, <3>2
  <2>5. CASE ReadsIt(t, x, e)
    BY <1>1, <2>5 DEF ReadsIt, Stored, Sound
  <2> QED
    BY <2>2, <2>3, <2>4, <2>5
<1> QED
  BY <1>2, <1>3, <1>4, PostureMeaning
\* A step that leaves the requests alone.
LEMMA RequestsStay ==
  ASSUME Posture!Inv, v6' = v6, \A e \in Endpoints : Apart(e)
  PROVE  Posture!Inv'
<1>1. ASSUME NEW u \in Threads PROVE Busy(v6[u])'
  BY PostureMeaning DEF Busy
<1>2. ASSUME NEW e \in Endpoints PROVE Stored(e)' /\ Sound(e)'
  BY PostureMeaning DEF Apart, Stored, Sound, Posture!NoScore
<1> QED
  BY <1>1, <1>2, PostureMeaning
\* A step leaves the rows in their form and every score as right as it was.
LEMMA PostureKeeps ==
  ASSUME Posture!Inv, Formed, Posture!Next
  PROVE  Posture!Inv' /\ Formed'
<1> DEFINE Goal == Posture!Inv' /\ Formed'
           Threaded == v6' = [u \in Threads |-> v6'[u]] /\ \A u \in Threads : Request(v6'[u])
           OneForm == /\ v2' = [r \in Products \X Endpoints |-> v2'[r]] /\ v5' = [d \in Endpoints |-> v5'[d]]
                      /\ v4' = [f \in Products \X Findings |-> [on |-> v4'[f].on, status |-> v4'[f].status]]
                      /\ \A f \in Products \X Findings : v4'[f].on \in Endpoints \union {"none"}
<1>a. Threaded /\ OneForm => Formed'
  BY DEF Formed
<1>b. Request(Posture!Idle) /\ Posture!Idle.phase = "idle" /\ Posture!Idle.dev = "none" /\ Busy(Posture!Idle)
  BY DEF Posture!Idle, Request, Busy
<1>c. \A t \in Threads : /\ Request(v6[t]) /\ Busy(v6[t])
                         /\ v6[t] = Posture!Idle => v6[t].phase = "idle" /\ v6[t].dev = "none"
  BY <1>b, PostureMeaning DEF Formed
\* A request begins to compute the score of a device, or nothing.
<1>d. ASSUME NEW t \in Threads, NEW d \in Endpoints \union {"none"}, v6[t] = Posture!Idle, Posture!Computes(t, d),
             OneForm, \A e \in Endpoints \ {d} : Apart(e)
      PROVE  Goal
  <2>1. PICK x : /\ v6' = [v6 EXCEPT ![t] = x] /\ Request(x) /\ Busy(x) /\ x.dev = d /\ (d # "none" => x.phase = "read")
    <3>1. CASE d # "none"
      <4> DEFINE x == [Posture!Idle EXCEPT !.phase = "read", !.dev = d]
      <4>1. Request(x) /\ x.phase = "read" /\ x.dev = d
        BY <1>b DEF Request
      <4>2. v6' = [v6 EXCEPT ![t] = x]
        BY <1>d, <3>1 DEF Posture!Computes
      <4> HIDE DEF x
      <4> QED
        BY <3>1, <4>1, <4>2 DEF Busy
    <3>2. CASE d = "none"
      <4>1. v6' = [v6 EXCEPT ![t] = Posture!Idle]
        BY <1>d, <3>2 DEF Posture!Computes
      <4> QED
        BY <1>b, <3>2, <4>1
    <3> QED
      BY <3>1, <3>2
  <2>2. ASSUME NEW e \in Endpoints PROVE Rereads(x, e) \/ (v6[t].dev # e /\ x.dev # e /\ Apart(e))
    <3>1. CASE e = d
      BY <2>1, <3>1, EndpointsAssumption DEF Rereads
    <3>2. CASE e # d
      BY <1>c, <1>d, <2>1, <3>2, EndpointsAssumption
    <3> QED
      BY <3>1, <3>2
  <2>3. Posture!Inv' /\ Threaded
    BY <2>1, <2>2, RequestMoves
  <2> QED
    BY <1>a, <1>d, <2>3
\* A request goes on with something else than a device.
<1>e. ASSUME NEW t \in Threads, NEW x, v6' = [v6 EXCEPT ![t] = x], Request(x), x.dev = "none",
             x.phase \notin {"read", "write"}, v6[t].phase \notin {"read", "write"},
             v2' = v2, v4' = v4, v5' = v5, v7' = v7
      PROVE  Goal
  <2>1. OneForm
    BY <1>e DEF Formed
  <2>2. Busy(x) /\ v6[t].dev = "none"
    BY <1>c, <1>e DEF Busy
  <2>3. ASSUME NEW e \in Endpoints PROVE v6[t].dev # e /\ x.dev # e /\ Apart(e)
    <3>1. Posture!Score(e)' = Posture!Score(e)
      BY <1>e, SameScore DEF SameRows, SameFindings
    <3> QED
      BY <1>e, <2>2, <3>1, EndpointsAssumption DEF Apart
  <2>4. Posture!Inv' /\ Threaded
    BY <1>e, <2>2, <2>3, RequestMoves
  <2> QED
    BY <1>a, <2>1, <2>4
\* One row of a device changes: the others are as before.
<1>f. ASSUME NEW d \in Endpoints, NEW p, NEW y, v2' = [v2 EXCEPT ![<<p, d>>] = y], v4' = v4, v5' = v5, v7' = v7
      PROVE  OneForm /\ \A e \in Endpoints \ {d} : Apart(e)
  <2>1. OneForm
    BY <1>f DEF Formed
  <2>2. ASSUME NEW e \in Endpoints \ {d} PROVE Apart(e)
    <3>1. ASSUME NEW q \in Products PROVE v2'[<<q, e>>] = v2[<<q, e>>]
      <4>1. <<q, e>> # <<p, d>> /\ <<q, e>> \in Products \X Endpoints
        OBVIOUS
      <4> QED
        BY <1>f, <4>1 DEF Formed
    <3>2. Posture!Score(e)' = Posture!Score(e)
      BY <1>f, <3>1, SameScore DEF SameRows, SameFindings
    <3> QED
      BY <1>f, <3>2 DEF Apart
  <2> QED
    BY <2>1, <2>2
<1>1. ASSUME NEW t \in Threads, NEW d \in Endpoints, Posture!Recompute(t, d) PROVE Goal
  <2>1. /\ v6[t] = Posture!Idle /\ Posture!Computes(t, d) /\ v5' = v5 /\ v7' = v7 /\ v2' = v2 /\ v4' = v4
    BY <1>1 DEF Posture!Recompute
  <2>2. OneForm
    BY <2>1 DEF Formed
  <2>3. ASSUME NEW e \in Endpoints PROVE Apart(e)
    <3>1. Posture!Score(e)' = Posture!Score(e)
      BY <2>1, SameScore DEF SameRows, SameFindings
    <3> QED
      BY <2>1, <3>1 DEF Apart
  <2> QED
    BY <1>d, <2>1, <2>2, <2>3
<1>2. ASSUME NEW t \in Threads, NEW d \in Endpoints, NEW p \in Products,
             \/ \E said \in Posture!Scanned(p) : Posture!IngestAgent(t, p, d, said)
             \/ Posture!WriteAgent(t, p, d, Posture!Says("healthy", "yes", "yes"))
             \/ Posture!DeleteAgent(t, p, d)
      PROVE  Goal
  <2>1. PICK y : v2' = [v2 EXCEPT ![<<p, d>>] = y]
    BY <1>2 DEF Posture!IngestAgent, Posture!WriteAgent, Posture!DeleteAgent
  <2>2. v6[t] = Posture!Idle /\ Posture!Computes(t, d) /\ v5' = v5 /\ v7' = v7 /\ v4' = v4
    BY <1>2 DEF Posture!IngestAgent, Posture!WriteAgent, Posture!DeleteAgent
  <2>3. OneForm /\ \A e \in Endpoints \ {d} : Apart(e)
    BY <1>f, <2>1, <2>2
  <2> QED
    BY <1>d, <2>2, <2>3
<1>3. ASSUME NEW t \in Threads, NEW d \in Endpoints, Posture!IngestHost(t, d) PROVE Goal
  <2> DEFINE rest == [v6[t] EXCEPT !.todo = v6[t].todo \ {d}]
  <2>1. /\ v6[t].phase \in {"sync", "scan"} /\ v5' = v5 /\ v7' = v7 /\ v4' = v4
        /\ \/ /\ \E p, y : v2' = [v2 EXCEPT ![<<p, d>>] = y]
              /\ v6' = [v6 EXCEPT ![t] = [rest EXCEPT !.phase = "read", !.dev = d]]
           \/ v2' = v2 /\ v6' = [v6 EXCEPT ![t] = IF rest.todo = {} THEN Posture!Idle ELSE rest]
    BY <1>3 DEF Posture!IngestHost
  <2>2. Request(rest) /\ rest.phase = v6[t].phase /\ rest.dev = v6[t].dev
    BY <1>c DEF Request
  <2>3. v6[t].dev = "none" /\ v6[t].phase \notin {"read", "write"}
    BY <1>c, <2>1 DEF Busy
  <2> HIDE DEF rest
  <2>4. CASE v2' = v2 /\ v6' = [v6 EXCEPT ![t] = IF rest.todo = {} THEN Posture!Idle ELSE rest]
    <3>1. PICK x : /\ v6' = [v6 EXCEPT ![t] = x] /\ x.phase \notin {"read", "write"}
                   /\ Request(x) /\ x.dev = "none"
      <4>1. CASE rest.todo = {}
        BY <1>b, <2>4, <4>1
      <4>2. CASE rest.todo # {}
        BY <2>2, <2>3, <2>4, <4>2
      <4> QED
        BY <4>1, <4>2
    <3> QED
      BY <1>e, <2>1, <2>3, <2>4, <3>1
  <2>5. CASE /\ \E p, y : v2' = [v2 EXCEPT ![<<p, d>>] = y]
             /\ v6' = [v6 EXCEPT ![t] = [rest EXCEPT !.phase = "read", !.dev = d]]
    <3> DEFINE x == [rest EXCEPT !.phase = "read", !.dev = d]
    <3>1. Request(x) /\ x.phase = "read" /\ x.dev = d
      BY <2>2 DEF Request
    <3>2. v6' = [v6 EXCEPT ![t] = x]
      BY <2>5
    <3> HIDE DEF x
    <3>3. OneForm /\ \A e \in Endpoints \ {d} : Apart(e)
      BY <1>f, <2>1, <2>5
    <3>4. ASSUME NEW e \in Endpoints PROVE Rereads(x, e) \/ (v6[t].dev # e /\ x.dev # e /\ Apart(e))
      BY <2>3, <3>1, <3>3, EndpointsAssumption DEF Rereads
    <3>5. Posture!Inv' /\ Threaded
      BY <3>1, <3>2, <3>4, RequestMoves DEF Busy
    <3> QED
      BY <1>a, <3>3, <3>5
  <2> QED
    BY <2>1, <2>4, <2>5
<1>4. ASSUME NEW t \in Threads, NEW p, NEW hosts, Posture!Sync(t, p, hosts) \/ \E d \in Endpoints : Posture!Scan(t, p, d)
      PROVE  Goal
  <2>1. PICK x : /\ v6' = [v6 EXCEPT ![t] = x] /\ x.phase \in {"scan", "sync"}
                 /\ Request(x) /\ x.dev = "none"
    <3>1. CASE Posture!Sync(t, p, hosts)
      <4> DEFINE x == [Posture!Idle EXCEPT !.phase = "sync", !.of = {p}, !.todo = hosts]
      <4>1. Request(x) /\ x.phase = "sync" /\ x.dev = "none"
        BY <1>b DEF Request
      <4>2. v6' = [v6 EXCEPT ![t] = x]
        BY <3>1 DEF Posture!Sync
      <4> HIDE DEF x
      <4> QED
        BY <4>1, <4>2
    <3>2. ASSUME NEW d \in Endpoints, Posture!Scan(t, p, d)
          PROVE  \E x : v6' = [v6 EXCEPT ![t] = x] /\ x.phase \in {"scan", "sync"} /\ Request(x) /\ x.dev = "none"
      <4> DEFINE x == [Posture!Idle EXCEPT !.phase = "scan", !.of = {p}, !.todo = {d}]
      <4>1. Request(x) /\ x.phase = "scan" /\ x.dev = "none"
        BY <1>b DEF Request
      <4>2. v6' = [v6 EXCEPT ![t] = x]
        BY <3>2 DEF Posture!Scan
      <4> HIDE DEF x
      <4> QED
        BY <4>1, <4>2
    <3> QED
      BY <1>4, <3>1, <3>2
  <2>2. v6[t] = Posture!Idle /\ v2' = v2 /\ v4' = v4 /\ v5' = v5 /\ v7' = v7
    BY <1>4 DEF Posture!Sync, Posture!Scan
  <2>3. v6[t].phase = "idle"
    BY <1>b, <2>2
  <2> QED
    BY <1>e, <2>1, <2>2, <2>3
<1>5. ASSUME NEW p, NEW state, Posture!WriteProvider(p, state) PROVE Goal
  <2>1. v2' = v2 /\ v4' = v4 /\ v5' = v5 /\ v6' = v6 /\ v7' = v7
    BY <1>5 DEF Posture!WriteProvider
  <2>2. Formed'
    BY <2>1 DEF Formed
  <2>3. ASSUME NEW e \in Endpoints PROVE Apart(e)
    BY <2>1, SameScore DEF SameRows, SameFindings, Apart
  <2> QED
    BY <2>1, <2>2, <2>3, RequestsStay
<1>6. ASSUME NEW p \in Products, Posture!DeleteProvider(p) PROVE Goal
  <2>1. /\ v2' = [r \in Products \X Endpoints |-> IF r[1] = p THEN Posture!NoRow ELSE v2[r]]
        /\ v4' = [f \in Products \X Findings |-> IF f[1] = p THEN Posture!Gone ELSE v4[f]]
        /\ v7' = v7 \union {d \in Endpoints : v2[<<p, d>>] # Posture!NoRow \/ \E f \in Findings : v4[<<p, f>>].on = d}
        /\ v5' = v5 /\ v6' = v6
    BY <1>6 DEF Posture!DeleteProvider
  <2>2. Posture!Gone = [on |-> "none", status |-> "absent"]
    BY DEF Posture!Gone
  <2>3. Formed'
    <3>1. OneForm
      BY <2>1, <2>2 DEF Formed
    <3>2. Threaded
      BY <2>1 DEF Formed
    <3> QED
      BY <1>a, <3>1, <3>2
  <2>4. ASSUME NEW e \in Endpoints PROVE Apart(e)
    <3>1. CASE e \in v7'
      BY <2>1, <3>1 DEF Apart
    <3>2. CASE e \notin v7'
      <4>1. v2[<<p, e>>] = Posture!NoRow /\ \A f \in Findings : v4[<<p, f>>].on # e
        BY <2>1, <3>2
      <4>2. SameRows(e)
        BY <2>1, <4>1 DEF SameRows
      <4>3. ASSUME NEW f \in Products \X Findings
            PROVE  v4'[f].on = e /\ v4'[f].status = "open" <=> v4[f].on = e /\ v4[f].status = "open"
        BY <2>1, <2>2, <4>1, EndpointsAssumption
      <4>4. Posture!Score(e)' = Posture!Score(e)
        BY <4>2, <4>3, SameScore DEF SameFindings
      <4> QED
        BY <2>1, <4>4 DEF Apart
    <3> QED
      BY <3>1, <3>2
  <2> QED
    BY <2>1, <2>3, <2>4, RequestsStay
\* A finding is written: the devices it was and is on are read again, or counted as stale.
<1>7. ASSUME NEW t \in Threads, NEW f \in Products \X Findings, NEW y, NEW d \in Endpoints \union {"none"},
             v4' = [v4 EXCEPT ![f] = y], y = [on |-> y.on, status |-> y.status], y.on \in Endpoints \union {"none"},
             v6[t] = Posture!Idle, Posture!Computes(t, d), v2' = v2, v5' = v5, v7 \subseteq v7',
             \A e \in Endpoints \ {d} : e \in {v4[f].on, y.on} => e \in v7'
      PROVE  Goal
  <2>1. OneForm
    BY <1>7 DEF Formed
  <2>2. ASSUME NEW e \in Endpoints \ {d} PROVE Apart(e)
    <3>1. CASE e \in v7'
      BY <1>7, <3>1 DEF Apart
    <3>2. CASE v4[f].on # e /\ y.on # e
      <4>1. ASSUME NEW g \in Products \X Findings
            PROVE  v4'[g].on = e /\ v4'[g].status = "open" <=> v4[g].on = e /\ v4[g].status = "open"
        <5>1. v4'[g] = IF g = f THEN y ELSE v4[g]
          BY <1>7 DEF Formed
        <5> QED
          BY <3>2, <5>1
      <4>2. Posture!Score(e)' = Posture!Score(e)
        BY <1>7, <4>1, SameScore DEF SameRows, SameFindings
      <4> QED
        BY <1>7, <4>2 DEF Apart
    <3> QED
      BY <1>7, <3>1, <3>2
  <2> QED
    BY <1>7, <1>d, <2>1, <2>2
<1>8. ASSUME NEW t \in Threads, NEW f \in Products \X Findings,
             \/ Posture!DeleteFinding(t, f)
             \/ \E d \in Endpoints \union {"none"} : Posture!IngestFinding(t, f, d)
             \/ \E s \in {"open", "resolved"} : Posture!UpdateFinding(t, f, s)
      PROVE  Goal
  <2>0. v4[f].on \in Endpoints \union {"none"} /\ v4[f] = [on |-> v4[f].on, status |-> v4[f].status]
    BY DEF Formed
  <2>1. CASE Posture!DeleteFinding(t, f)
    <3>1. /\ v4' = [v4 EXCEPT ![f] = Posture!Gone] /\ v6[t] = Posture!Idle /\ Posture!Computes(t, v4[f].on)
          /\ v2' = v2 /\ v5' = v5 /\ v7' = v7
      BY <2>1 DEF Posture!DeleteFinding
    <3>2. Posture!Gone = [on |-> Posture!Gone.on, status |-> Posture!Gone.status] /\ Posture!Gone.on = "none"
      BY DEF Posture!Gone
    <3>3. \A e \in Endpoints \ {v4[f].on} : e \notin {v4[f].on, Posture!Gone.on}
      BY <3>2, EndpointsAssumption
    <3>4. PICK d \in Endpoints \union {"none"} : d = v4[f].on
      BY <2>0
    <3> QED
      BY <1>7, <3>1, <3>2, <3>3, <3>4
  <2>2. ASSUME NEW d \in Endpoints \union {"none"}, Posture!IngestFinding(t, f, d) PROVE Goal
    <3> DEFINE o == IF d = "none" THEN v4[f].on ELSE d
               y == [on |-> o, status |-> "open"]
    <3>1. v4' = [v4 EXCEPT ![f] = y] /\ v6[t] = Posture!Idle /\ v2' = v2 /\ v5' = v5 /\ v7 \subseteq v7'
      BY <2>2 DEF Posture!IngestFinding
    <3>2. v4'[f] = y
      BY <3>1 DEF Formed
    <3>3. /\ Posture!Computes(t, v4'[f].on)
          /\ v4[f].on \notin {"none", d, v4'[f].on} => v4[f].on \in v7'
      BY <2>2 DEF Posture!IngestFinding
    <3>4. y = [on |-> y.on, status |-> y.status] /\ y.on = o /\ o \in Endpoints \union {"none"}
      BY <2>0
    <3>5. Posture!Computes(t, o)
      BY <3>2, <3>3
    <3>6. ASSUME NEW e \in Endpoints \ {o}, e \in {v4[f].on, y.on} PROVE e \in v7'
      BY <3>2, <3>3, <3>4, <3>6, EndpointsAssumption
    <3> HIDE DEF y, o
    <3> QED
      BY <1>7, <3>1, <3>4, <3>5, <3>6
  <2>3. ASSUME NEW st \in {"open", "resolved"}, Posture!UpdateFinding(t, f, st) PROVE Goal
    <3> DEFINE y == [v4[f] EXCEPT !.status = st]
    <3>1. /\ v4' = [v4 EXCEPT ![f] = y] /\ v6[t] = Posture!Idle /\ Posture!Computes(t, v4[f].on)
          /\ v2' = v2 /\ v5' = v5 /\ v7' = v7
      BY <2>3 DEF Posture!UpdateFinding
    <3>2. y = [on |-> y.on, status |-> y.status] /\ y.on = v4[f].on
      BY <2>0
    <3> HIDE DEF y
    <3>3. PICK d \in Endpoints \union {"none"} : d = v4[f].on
      BY <2>0
    <3>4. /\ \A e \in Endpoints \ {d} : e \notin {v4[f].on, y.on}
          /\ y.on \in Endpoints \union {"none"} /\ Posture!Computes(t, d) /\ v7 \subseteq v7'
      BY <3>1, <3>2, <3>3
    <3> QED
      BY <1>7, <3>1, <3>2, <3>4
  <2> QED
    BY <1>8, <2>1, <2>2, <2>3
<1>9. ASSUME NEW t \in Threads, Posture!ReadRows(t) PROVE Goal
  <2> DEFINE d == v6[t].dev
             x == [v6[t] EXCEPT !.phase = "write", !.score = Posture!Score(d)]
  <2>1. /\ v6[t].phase = "read" /\ v2' = v2 /\ v4' = v4 /\ v5' = v5
        /\ v6' = [v6 EXCEPT ![t] = x]
        /\ v7' = IF \E u \in Threads : v6[u].phase = "write" /\ v6[u].dev = d
                 THEN v7 \union {d} ELSE v7 \ {d}
    BY <1>9 DEF Posture!ReadRows
  <2>2. d \in Endpoints
    BY <1>c, <2>1 DEF Busy
  <2>3. Request(x) /\ x.phase = "write" /\ x.dev = d /\ x.score = Posture!Score(d)
    BY <1>c DEF Request
  <2> HIDE DEF x
  <2>4. \A e \in Endpoints : Posture!Score(e)' = Posture!Score(e)
    BY <2>1, SameScore DEF SameRows, SameFindings
  <2>5. PICK c \in Endpoints : c = d
    BY <2>2
  <2>6. Posture!Score(c) = Posture!Score(d)
    BY <2>5
  <2>7. ASSUME NEW e \in Endpoints PROVE ReadsIt(t, x, e) \/ (v6[t].dev # e /\ x.dev # e /\ Apart(e))
    <3>1. CASE e = c
      BY <2>1, <2>3, <2>4, <2>5, <2>6, <3>1 DEF ReadsIt
    <3>2. CASE e # c
      BY <2>1, <2>3, <2>4, <2>5, <3>2 DEF Apart
    <3> QED
      BY <3>1, <3>2
  <2>8. Posture!Inv' /\ Threaded
    BY <2>1, <2>2, <2>3, <2>7, RequestMoves DEF Busy
  <2>9. OneForm
    BY <2>1 DEF Formed
  <2> QED
    BY <1>a, <2>8, <2>9
\* A request is done with its device, or was killed.
<1>10. ASSUME NEW t \in Threads, NEW x, v6' = [v6 EXCEPT ![t] = x], Request(x), x.dev = "none",
              x.phase \notin {"read", "write"}, v2' = v2, v4' = v4, OneForm,
              \A e \in Endpoints : IF v6[t].dev = e THEN e \in v7' \/ (v6[t].phase = "write" /\ e \notin v7 /\ v5'[e] = v6[t].score)
                                   ELSE v5'[e] = v5[e] /\ (e \in v7 => e \in v7')
       PROVE  Goal
  <2>2. ASSUME NEW e \in Endpoints
        PROVE  x.dev # e /\ (LeavesIt(v6[t], e) \/ (v6[t].dev # e /\ Apart(e)))
    <3>1. Posture!Score(e)' = Posture!Score(e)
      BY <1>10, SameScore DEF SameRows, SameFindings
    <3> QED
      BY <1>10, <3>1, EndpointsAssumption DEF LeavesIt, Apart
  <2>3. Posture!Inv' /\ Threaded
    BY <1>10, <2>2, RequestMoves DEF Busy
  <2> QED
    BY <1>a, <1>10, <2>3
<1>11. ASSUME NEW t \in Threads, Posture!WriteScore(t) PROVE Goal
  <2>1. /\ v6[t].phase = "write" /\ v2' = v2 /\ v4' = v4 /\ v7' = v7
        /\ v6' = [v6 EXCEPT ![t] = IF v6[t].todo = {} THEN Posture!Idle
                                   ELSE [v6[t] EXCEPT !.phase = "sync", !.dev = "none", !.score = Posture!NoScore]]
        /\ \/ v5' = [v5 EXCEPT ![v6[t].dev] = v6[t].score]
           \/ v6[t].dev \in v7 /\ v5' = v5
    BY <1>11 DEF Posture!WriteScore
  <2>2. v6[t].dev \in Endpoints
    BY <1>c, <2>1 DEF Busy
  <2>3. PICK x : /\ v6' = [v6 EXCEPT ![t] = x] /\ x.phase \notin {"read", "write"}
                 /\ Request(x) /\ x.dev = "none"
    <3>1. CASE v6[t].todo = {}
      BY <1>b, <2>1, <3>1
    <3>2. CASE v6[t].todo # {}
      <4> DEFINE x == [v6[t] EXCEPT !.phase = "sync", !.dev = "none", !.score = Posture!NoScore]
      <4>1. Request(x) /\ x.dev = "none" /\ x.phase = "sync"
        BY <1>c DEF Request
      <4>2. v6' = [v6 EXCEPT ![t] = x]
        BY <2>1, <3>2
      <4> HIDE DEF x
      <4> QED
        BY <4>1, <4>2
    <3> QED
      BY <3>1, <3>2
  <2>4. OneForm
    BY <2>1 DEF Formed
  <2> HIDE DEF OneForm
  <2>5. ASSUME NEW e \in Endpoints
        PROVE  IF v6[t].dev = e THEN e \in v7' \/ (v6[t].phase = "write" /\ e \notin v7 /\ v5'[e] = v6[t].score)
               ELSE v5'[e] = v5[e] /\ (e \in v7 => e \in v7')
    <3>1. CASE v5' = [v5 EXCEPT ![v6[t].dev] = v6[t].score]
      <4>1. v5'[e] = IF e = v6[t].dev THEN v6[t].score ELSE v5[e]
        BY <3>1 DEF Formed
      <4> QED
        BY <2>1, <4>1
    <3>2. CASE v6[t].dev \in v7 /\ v5' = v5
      BY <2>1, <3>2
    <3> QED
      BY <2>1, <3>1, <3>2
  <2> QED
    BY <1>10, <2>1, <2>3, <2>4, <2>5
<1>12. ASSUME NEW t \in Threads, Posture!Dies(t) PROVE Goal
  <2>1. /\ v6' = [v6 EXCEPT ![t] = Posture!Idle] /\ v7' = v7 \union ({v6[t].dev} \ {"none"})
        /\ v2' = v2 /\ v4' = v4 /\ v5' = v5
    BY <1>12 DEF Posture!Dies
  <2>2. \A e \in Endpoints : (v6[t].dev = e => e \in v7') /\ v5'[e] = v5[e] /\ (e \in v7 => e \in v7')
    BY <2>1, EndpointsAssumption
  <2>3. OneForm
    BY <2>1 DEF Formed
  <2> HIDE DEF OneForm
  <2>4. ASSUME NEW e \in Endpoints
        PROVE  IF v6[t].dev = e THEN e \in v7' \/ (v6[t].phase = "write" /\ e \notin v7 /\ v5'[e] = v6[t].score)
               ELSE v5'[e] = v5[e] /\ (e \in v7 => e \in v7')
    BY <2>2
  <2>5. Posture!Idle.phase \notin {"read", "write"}
    BY <1>b
  <2> QED
    BY <1>10, <1>b, <2>1, <2>3, <2>4, <2>5
<1>13. Goal
  <2> HIDE DEF Goal
  <2> QED
    BY <1>1, <1>2, <1>3, <1>4, <1>5, <1>6, <1>8, <1>9, <1>11, <1>12 DEF Posture!Next
<1> QED
  BY <1>13
\* When nobody writes, a device's score is the one its products and open findings give it now
\* (compute_device_score), unless computations overlapped, one was lost, a finding was moved or a
\* provider deleted, for any products, devices, findings and requests.
THEOREM ScoreFollowsPostureCorrect == FleetSpec => []ScoreFollowsPosture
<1> DEFINE I == focus = "security" => Posture!Inv /\ Formed
<1>1. FleetInit => I
  <2> SUFFICES ASSUME Posture!Init PROVE Posture!Inv /\ Formed
    BY DEF FleetInit
  <2>1. Request(Posture!Idle) /\ Posture!Idle.phase = "idle" /\ Posture!Idle.dev = "none"
    BY DEF Posture!Idle, Request
  <2>2. Posture!Gone = [on |-> "none", status |-> "absent"]
    BY DEF Posture!Gone
  <2>3. Formed
    BY <2>1, <2>2 DEF Posture!Init, Formed
  <2>4. \A t \in Threads : v6[t].phase = "idle" /\ v6[t].dev = "none"
    BY <2>1 DEF Posture!Init
  <2>5. \A e \in Endpoints : v5[e] = Posture!NoScore
    BY DEF Posture!Init
  <2> QED
    BY <2>3, <2>4, <2>5 DEF Posture!Inv, Posture!ScoreFollowsPosture, Posture!Written
<1>2. I /\ [FleetNext]_FleetVars => I'
  <2> SUFFICES ASSUME Posture!Inv, Formed, [FleetNext]_FleetVars, focus = "security" PROVE Posture!Inv' /\ Formed'
    BY Focused
  <2>1. CASE UNCHANGED slots
    <3>1. v2' = v2 /\ v4' = v4 /\ v5' = v5 /\ v6' = v6 /\ v7' = v7
      BY <2>1 DEF slots
    <3>2. ASSUME NEW e \in Endpoints PROVE Apart(e)
      BY <3>1, SameScore DEF SameRows, SameFindings, Apart
    <3> QED
      BY <3>1, <3>2, RequestsStay DEF Formed
  <2> QED
    BY <2>1, Focused, PostureKeeps
<1>3. I => ScoreFollowsPosture
  BY DEF ScoreFollowsPosture, Posture!Inv
<1> QED
  BY <1>1, <1>2, <1>3, PTL DEF FleetSpec
=============================================================================
