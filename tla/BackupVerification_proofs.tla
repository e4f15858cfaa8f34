--------------------- MODULE BackupVerification_proofs ---------------------
(***************************************************************************)
(* Theorems about BackupVerification, for any restores, handlers, checks,  *)
(* thresholds and retry limits.                                            *)
(***************************************************************************)
EXTENDS BackupVerification, TLAPS

---------------------------------------------------------------------------
(* Types *)

LEMMA BreakerTypes ==
  ASSUME NEW b \in Breaker
  PROVE  /\ Allowed(b) \in Breaker
         /\ Succeeded(b) \in Breaker
         /\ Failed(b) \in Breaker
         /\ Cooled(b) \in Breaker
<1>0. /\ 0 \in 0..FailureThreshold /\ 0 \in 0..SuccessThreshold /\ 0 \in 0..HalfOpenMax
      /\ Less(b.inflight) \in 0..HalfOpenMax
      /\ Counted(b.failures) \in 0..FailureThreshold
      /\ b.successes + 1 < SuccessThreshold => b.successes + 1 \in 0..SuccessThreshold
  BY ThresholdsAssumption DEF Breaker, Less, Counted
<1>1. Allowed(b) \in Breaker
  <2>1. HalfOpened(b) \in Breaker
    BY <1>0 DEF HalfOpened, Breaker
  <2>2. ASSUME NEW h \in Breaker, h.inflight < HalfOpenMax
        PROVE  [h EXCEPT !.inflight = @ + 1] \in Breaker
    BY <2>2, ThresholdsAssumption DEF Breaker
  <2> QED
    BY <2>1, <2>2 DEF Allowed
<1>2. Succeeded(b) \in Breaker
  <2>1. CASE b.state = "half_open" /\ b.successes + 1 < SuccessThreshold
    BY <1>0, <2>1 DEF Succeeded, Breaker
  <2>2. CASE b.state = "half_open" /\ ~(b.successes + 1 < SuccessThreshold)
    <3>1. b.successes + 1 >= SuccessThreshold
      BY <2>2, ThresholdsAssumption DEF Breaker
    <3> QED
      BY <1>0, <2>2, <3>1 DEF Succeeded, Breaker
  <2>3. CASE b.state # "half_open"
    BY <1>0, <2>3 DEF Succeeded, Breaker
  <2> QED
    BY <2>1, <2>2, <2>3
<1>3. Failed(b) \in Breaker
  <2> DEFINE f == [b EXCEPT !.failures = Counted(@), !.successes = 0]
  <2>1. f \in Breaker
    BY <1>0 DEF Breaker
  <2>2. /\ [f EXCEPT !.inflight = Less(@), !.state = "open", !.cooled = FALSE] \in Breaker
        /\ [f EXCEPT !.state = "open", !.cooled = FALSE] \in Breaker
    BY <1>0, <2>1 DEF Breaker
  <2> QED
    BY <2>1, <2>2 DEF Failed
<1> QED
  BY <1>1, <1>2, <1>3 DEF Cooled, Breaker

LEMMA NewTypes == NewBreaker \in Breaker /\ Absent \in Row
<1>1. 1 \in 1..MaxAttempts
  BY AttemptsAssumption
<1> QED
  BY <1>1, ThresholdsAssumption DEF NewBreaker, Breaker, Absent, Built, Row, RestoreStatus, Workflow, CheckStatus

\* What _build_verification makes for an attempt within the bound.
LEMMA BuiltType ==
  ASSUME NEW verify \in BOOLEAN, NEW n \in 1..MaxAttempts
  PROVE  Built(verify, n) \in Workflow /\ Running(Built(verify, n)) \in Workflow
BY DEF Built, Running, Workflow, CheckStatus

\* A handler that is not idle names a restore, and holds a workflow.
LEMMA WorkParts ==
  ASSUME TypeOK, NEW t \in Threads, thread[t].todo # "idle"
  PROVE  /\ thread[t].id \in Restores /\ thread[t].flow \in Workflow
         /\ thread[t].status \in RestoreStatus \union {"as read"}
         /\ thread[t].todo \in {"write", "timeout", "record"}
<1>1. thread[t] \in Work /\ thread[t] # Idle
  BY DEF TypeOK, Idle
<1> QED
  BY <1>1 DEF Work

LEMMA DoingType ==
  ASSUME NEW todo \in {"write", "timeout"}, NEW r \in Restores, NEW new \in Row
  PROVE  Doing(todo, r, new) \in Work
BY DEF Doing, Work, Row

LEMMA GoingType ==
  ASSUME TypeOK, NEW t \in Threads, NEW r \in Restores, NEW new \in Row,
         Going(t, r, new)
  PROVE  thread' \in [Threads -> Work] /\ UNCHANGED <<row, raced>>
BY DoingType DEF Going, TypeOK

LEMMA HandlerType ==
  ASSUME TypeOK, NEW t \in Threads, NEW r \in Restores, Handler(t, r)
  PROVE  TypeOK'
<1>0. /\ row[r] \in Row /\ row[r].flow \in Workflow /\ row[r].status \in RestoreStatus
      /\ row[r].flow.attempt \in 1..MaxAttempts
      /\ row[r].flow.checks \in [Checks -> CheckStatus]
      /\ 1 \in 1..MaxAttempts /\ MaxAttempts \in Nat
      /\ Allowed(breaker) \in Breaker
      /\ Succeeded(Allowed(breaker)) \in Breaker /\ Failed(Allowed(breaker)) \in Breaker
  BY BreakerTypes, AttemptsAssumption DEF TypeOK, Row, Workflow
<1>1. CASE StartRestore(t, r)
  <2>1. [row[r] EXCEPT !.status = "running"] \in Row
    BY <1>0 DEF Row, RestoreStatus
  <2> QED
    BY <1>1, <2>1, GoingType DEF StartRestore, TypeOK
<1>2. ASSUME NEW success \in BOOLEAN, NEW skip \in BOOLEAN, CompleteUnverified(t, r, success, skip)
      PROVE  TypeOK'
  <2>1. [row[r] EXCEPT !.status = IF success THEN "success" ELSE "failed"] \in Row
    BY <1>0 DEF Row, RestoreStatus
  <2> QED
    BY <1>2, <2>1, GoingType DEF CompleteUnverified, TypeOK
<1>3. CASE CompleteAndVerify(t, r)
  <2>1. [status |-> "verifying",
         flow |-> [row[r].flow EXCEPT !.status = "running", !.late = FALSE, !.stamped = FALSE]] \in Row
    BY <1>0 DEF Row, RestoreStatus, Workflow
  <2> QED
    BY <1>0, <1>3, <2>1, GoingType DEF CompleteAndVerify, Guarded, TypeOK
<1>4. CASE SkipVerification(t, r)
  <2> DEFINE checks == [k \in Checks |-> IF row[r].flow.checks[k] = "pending" THEN "skipped"
                                         ELSE row[r].flow.checks[k]]
             flow   == [row[r].flow EXCEPT !.status = "skipped", !.verify = FALSE, !.late = FALSE,
                          !.checks = [k \in Checks |-> IF @[k] = "pending" THEN "skipped" ELSE @[k]]]
             status == IF row[r].status \in {"verifying", "running", "queued", "pending"}
                         THEN "success" ELSE row[r].status
  <2>1. checks \in [Checks -> CheckStatus]
    BY <1>0 DEF CheckStatus
  <2>2. flow = [row[r].flow EXCEPT !.status = "skipped", !.verify = FALSE, !.late = FALSE, !.checks = checks]
    BY <1>0 DEF Workflow
  <2>3. flow \in Workflow
    BY <1>0, <2>1, <2>2 DEF Workflow
  <2>4. status \in RestoreStatus
    BY <1>0 DEF RestoreStatus
  <2>5. [status |-> status, flow |-> flow] \in Row
    BY <2>3, <2>4 DEF Row
  <2> HIDE DEF flow, status
  <2>6. Going(t, r, [status |-> status, flow |-> flow]) /\ UNCHANGED <<breaker, forced>>
    BY <1>4 DEF SkipVerification, flow, status
  <2> QED
    BY <2>5, <2>6, GoingType DEF TypeOK
<1>5. ASSUME NEW force \in BOOLEAN, StartVerification(t, r, force) PROVE TypeOK'
  <2>1. [status |-> "verifying", flow |-> Running(Built(TRUE, 1))] \in Row
    BY <1>0, BuiltType DEF Row, RestoreStatus
  <2>2. thread' \in [Threads -> Work] /\ UNCHANGED <<row, raced>>
    BY <1>5, <2>1, GoingType DEF StartVerification, Rejects, TypeOK
  <2> QED
    BY <1>0, <1>5, <2>2 DEF StartVerification, Guarded, TypeOK
<1>6. ASSUME NEW force \in BOOLEAN, RetryVerification(t, r, force) PROVE TypeOK'
  <2>1. row[r].flow.attempt + 1 \in 1..MaxAttempts
    BY <1>0, <1>6 DEF RetryVerification
  <2>2. Retried(row[r]) \in Row
    BY <2>1, BuiltType DEF Retried, Row, RestoreStatus
  <2>3. thread' \in [Threads -> Work] /\ UNCHANGED <<row, raced>>
    BY <1>6, <2>2, GoingType DEF RetryVerification, Rejects, TypeOK
  <2>4. forced' \subseteq Restores
    BY <1>6 DEF RetryVerification, TypeOK
  <2> QED
    BY <1>0, <1>6, <2>3, <2>4 DEF RetryVerification, Guarded, TypeOK
<1>7. ASSUME NEW checks \in [Checks -> CheckStatus \ {"pending"}], RunToTheEnd(t, r, checks)
      PROVE  TypeOK'
  <2> DEFINE result == Outcome(checks)
             new == [status |-> IF result = "passed" THEN "success" ELSE "verify_failed",
                     flow   |-> [row[r].flow EXCEPT !.status = result, !.checks = checks, !.late = FALSE]]
  <2>1. result \in {"passed", "failed"} /\ checks \in [Checks -> CheckStatus]
    BY DEF Outcome
  <2>2. new \in Row
    BY <1>0, <2>1 DEF Row, RestoreStatus, Workflow
  <2> HIDE DEF new
  <2>3. Going(t, r, new) /\ UNCHANGED forced /\ breaker' \in Breaker
    BY <1>0, <1>7 DEF RunToTheEnd, new
  <2> QED
    BY <2>2, <2>3, GoingType DEF TypeOK
<1>8. CASE RunPartly(t, r)
  BY <1>0, <1>8 DEF RunPartly, Guarded, Rejects, TypeOK
<1>9. CASE FindOverdue(t, r)
  <2> DEFINE checks == [k \in Checks |-> IF row[r].flow.checks[k] = "pending" THEN "failed"
                                         ELSE row[r].flow.checks[k]]
             flow   == [row[r].flow EXCEPT !.status = "timed_out", !.late = FALSE, !.stamped = TRUE,
                          !.checks = [k \in Checks |-> IF @[k] = "pending" THEN "failed" ELSE @[k]]]
  <2>1. checks \in [Checks -> CheckStatus]
    BY <1>0 DEF CheckStatus
  <2>2. flow = [row[r].flow EXCEPT !.status = "timed_out", !.late = FALSE, !.stamped = TRUE, !.checks = checks]
    BY <1>0 DEF Workflow
  <2>3. flow \in Workflow
    BY <1>0, <2>1, <2>2 DEF Workflow
  <2> HIDE DEF flow
  <2>4. [status |-> "verify_failed", flow |-> flow] \in Row
    BY <2>3 DEF Row, RestoreStatus
  <2>5. /\ thread' = [thread EXCEPT ![t] = Doing("timeout", r, [status |-> "verify_failed", flow |-> flow])]
        /\ UNCHANGED <<row, breaker, raced, forced>>
    BY <1>9 DEF FindOverdue, flow
  <2> QED
    BY <2>4, <2>5, DoingType DEF TypeOK
<1> QED
  BY <1>1, <1>2, <1>3, <1>4, <1>5, <1>6, <1>7, <1>8, <1>9 DEF Handler

\* Rows, handlers and the circuit keep their types; attempts stay within their bound.
THEOREM TypeCorrect == Spec => []TypeOK
<1>1. Init => TypeOK
  BY NewTypes DEF Init, TypeOK, Work
<1>2. TypeOK /\ [Next]_vars => TypeOK'
  <2> SUFFICES ASSUME TypeOK, [Next]_vars PROVE TypeOK'
    OBVIOUS
  <2>1. ASSUME NEW t \in Threads, NEW r \in Restores, Handler(t, r) PROVE TypeOK'
    BY <2>1, HandlerType
  <2>2. ASSUME NEW t \in Threads, Commit(t) PROVE TypeOK'
    <3>1. thread[t].id \in Restores /\ thread[t].flow \in Workflow
          /\ thread[t].status \in RestoreStatus \union {"as read"}
      BY <2>2, WorkParts DEF Commit
    <3>2. Merged(row[thread[t].id], thread[t]) \in Row
      BY <3>1 DEF TypeOK, Merged, Row
    <3>3. row' \in [Restores -> Row] /\ raced' \subseteq Restores
      BY <2>2, <3>1, <3>2 DEF Commit, TypeOK
    <3>4. thread[t] \in Work /\ Idle \in Work
      BY DEF TypeOK, Work
    <3>5. thread[t] # Idle
      BY <2>2 DEF Commit, Idle
    <3>6. [thread[t] EXCEPT !.todo = "record"] \in Work
      BY <3>4, <3>5 DEF Work
    <3>7. thread' \in [Threads -> Work]
      BY <2>2, <3>4, <3>6 DEF Commit, TypeOK
    <3> QED
      BY <2>2, <3>3, <3>7 DEF Commit, TypeOK
  <2>3. ASSUME NEW t \in Threads, NEW auto_retry \in BOOLEAN, RecordTimeout(t, auto_retry)
        PROVE  TypeOK'
    <3> DEFINE r == thread[t].id
    <3>1. r \in Restores
      BY <2>3, WorkParts DEF RecordTimeout
    <3>2. Failed(breaker) \in Breaker /\ Allowed(Failed(breaker)) \in Breaker
      BY BreakerTypes DEF TypeOK
    <3>3. ASSUME MayRetry(row[r], FALSE) PROVE Retried(row[r]) \in Row
      <4>1. row[r].flow.attempt \in 1..MaxAttempts
        BY <3>1 DEF TypeOK, Row, Workflow
      <4>2. row[r].flow.attempt + 1 \in 1..MaxAttempts
        BY <3>3, <4>1, AttemptsAssumption DEF MayRetry
      <4> QED
        BY <4>2, BuiltType DEF Retried, Row, RestoreStatus
    <3>4. Idle \in Work
      BY DEF Work
    <3>5. thread' \in [Threads -> Work]
      BY <2>3, <3>1, <3>3, <3>4, DoingType DEF RecordTimeout, TypeOK
    <3>6. breaker' \in Breaker /\ UNCHANGED <<row, raced, forced>>
      BY <2>3, <3>2 DEF RecordTimeout
    <3> QED
      BY <3>5, <3>6 DEF TypeOK
  <2>4. ASSUME NEW r \in Restores, NEW start \in BOOLEAN, NEW verify \in BOOLEAN,
               CreateRestore(r, start, verify)
        PROVE  TypeOK'
    <3>1. Built(verify, 1) \in Workflow
      BY BuiltType, AttemptsAssumption
    <3> QED
      BY <2>4, <3>1 DEF CreateRestore, TypeOK, Row, RestoreStatus
  <2>5. ASSUME NEW r \in Restores, DeleteRestore(r) PROVE TypeOK'
    BY <2>5, NewTypes DEF DeleteRestore, TypeOK, Row, RestoreStatus
  <2>6. CASE ResetCircuit
    BY <2>6, NewTypes DEF ResetCircuit, TypeOK
  <2>7. CASE Restart
    BY <2>7, NewTypes DEF Restart, TypeOK, Work
  <2>8. CASE RecoveryTimePasses
    BY <2>8, BreakerTypes DEF RecoveryTimePasses, TypeOK
  <2>9. ASSUME NEW r \in Restores, DeadlinePasses(r) PROVE TypeOK'
    <3>1. row[r] \in Row /\ [row[r] EXCEPT !.flow.late = TRUE] \in Row
      BY DEF TypeOK, Row, Workflow
    <3>2. row' = [row EXCEPT ![r] = [row[r] EXCEPT !.flow.late = TRUE]]
      BY <2>9 DEF DeadlinePasses
    <3> QED
      BY <2>9, <3>1, <3>2 DEF DeadlinePasses, TypeOK
  <2>10. CASE UNCHANGED vars
    BY <2>10 DEF vars, TypeOK
  <2> QED
    BY <2>1, <2>2, <2>3, <2>4, <2>5, <2>6, <2>7, <2>8, <2>9, <2>10 DEF Next, Finish, Operators, Time
<1> QED
  BY <1>1, <1>2, PTL DEF Spec

---------------------------------------------------------------------------
(* What handlers hold *)

Checked(flow) == flow.status = "passed" =>
  /\ \A k \in Checks : flow.checks[k] # "pending"
  /\ \A k \in Required : flow.checks[k] # "failed"

Within(flow) == flow.attempt <= MaxRetries + 1

\* Both, for a workflow of r, if those in set were verified with force.
Sound(flow, r, set) == Checked(flow) /\ (r \in set \/ Within(flow))

\* No row, and no handler that may overwrite one, holds a PASSED workflow with a check left over
\* or a required one failed, nor one that is over its budget.
FlowInv ==
  /\ \A r \in Restores : Sound(row[r].flow, r, forced)
  /\ \A t \in Threads : thread[t].todo # "idle" => Sound(thread[t].flow, thread[t].id, forced)

\* What a workflow that timed out may be replaced by.
Follows(s, flow) ==
  s.status = "verify_failed" /\ s.flow.status = "timed_out" => flow.status \in {"timed_out", "running"}

\* The row of a restore no two handlers overlapped on is still what the handler that is about to
\* write it has read, in this respect: a timeout is not settled by it.
TimeoutInv ==
  \A t \in Threads : thread[t].todo \in {"write", "timeout"} =>
    thread[t].id \in raced \/ Follows(row[thread[t].id], thread[t].flow)

\* A workflow of _build_verification has no result yet.
LEMMA BuiltSound ==
  ASSUME NEW verify \in BOOLEAN, NEW n \in 1..MaxAttempts, NEW r, NEW set,
         r \in set \/ n <= MaxRetries + 1
  PROVE  Sound(Built(verify, n), r, set) /\ Sound(Running(Built(verify, n)), r, set)
BY DEF Built, Running, Sound, Checked, Within

\* What a handler that reads row r is left with: nothing, or a sound workflow for r that does not
\* settle a timeout it has seen.
Takes(t, r, set) ==
  \/ UNCHANGED thread
  \/ \E w \in Work : /\ thread' = [thread EXCEPT ![t] = w]
                     /\ w.todo \in {"write", "timeout"} /\ w.id = r
                     /\ Sound(w.flow, r, set) /\ Follows(row[r], w.flow)

LEMMA DoingTakes ==
  ASSUME TypeOK, NEW t \in Threads, NEW r \in Restores, NEW new \in Row, NEW set,
         NEW todo \in {"write", "timeout"}, thread' = [thread EXCEPT ![t] = Doing(todo, r, new)],
         Sound(new.flow, r, set), Follows(row[r], new.flow)
  PROVE  Takes(t, r, set)
<1>1. Doing(todo, r, new) \in Work
  BY DoingType
<1>2. /\ Doing(todo, r, new).todo \in {"write", "timeout"} /\ Doing(todo, r, new).id = r
      /\ Doing(todo, r, new).flow = new.flow
  BY DEF Doing
<1> QED
  BY <1>1, <1>2 DEF Takes

LEMMA HandlerTakes ==
  ASSUME TypeOK, FlowInv, NEW t \in Threads, NEW r \in Restores, Handler(t, r)
  PROVE  UNCHANGED <<row, raced>> /\ forced \subseteq forced' /\ Takes(t, r, forced')
<1>0. /\ row[r] \in Row /\ row[r].flow \in Workflow /\ row[r].status \in RestoreStatus
      /\ row[r].flow.attempt \in 1..MaxAttempts /\ row[r].flow.attempt \in Nat
      /\ row[r].flow.checks \in [Checks -> CheckStatus]
      /\ 1 \in 1..MaxAttempts /\ 1 <= MaxRetries + 1 /\ MaxRetries \in Nat /\ MaxAttempts \in Nat
      /\ Sound(row[r].flow, r, forced)
  BY AttemptsAssumption DEF TypeOK, Row, Workflow, FlowInv
<1> DEFINE Goal == UNCHANGED <<row, raced>> /\ forced \subseteq forced' /\ Takes(t, r, forced')
<1>1. CASE StartRestore(t, r)
  <2> DEFINE new == [row[r] EXCEPT !.status = "running"]
  <2>1. new \in Row /\ new.flow = row[r].flow /\ Follows(row[r], new.flow)
    BY <1>0, <1>1 DEF StartRestore, Row, RestoreStatus, Follows
  <2> HIDE DEF new
  <2> QED
    BY <1>0, <1>1, <2>1, DoingTakes DEF StartRestore, Going, new
<1>2. ASSUME NEW success \in BOOLEAN, NEW skip \in BOOLEAN, CompleteUnverified(t, r, success, skip)
      PROVE  Goal
  <2> DEFINE new == [row[r] EXCEPT !.status = IF success THEN "success" ELSE "failed"]
  <2>1. new \in Row /\ new.flow = row[r].flow /\ Follows(row[r], new.flow)
    BY <1>0 DEF Row, RestoreStatus, Follows
  <2> HIDE DEF new
  <2> QED
    BY <1>0, <1>2, <2>1, DoingTakes DEF CompleteUnverified, Going, new
<1>3. CASE CompleteAndVerify(t, r)
  <2> DEFINE new == [status |-> "verifying",
                     flow |-> [row[r].flow EXCEPT !.status = "running", !.late = FALSE, !.stamped = FALSE]]
  <2>1. new \in Row /\ Follows(row[r], new.flow) /\ Sound(new.flow, r, forced)
    BY <1>0 DEF Row, RestoreStatus, Workflow, Follows, Sound, Checked, Within
  <2> HIDE DEF new
  <2> QED
    BY <1>3, <2>1, DoingTakes DEF CompleteAndVerify, Going, new
<1>4. CASE SkipVerification(t, r)
  <2> DEFINE checks == [k \in Checks |-> IF row[r].flow.checks[k] = "pending" THEN "skipped"
                                         ELSE row[r].flow.checks[k]]
             flow   == [row[r].flow EXCEPT !.status = "skipped", !.verify = FALSE, !.late = FALSE,
                          !.checks = [k \in Checks |-> IF @[k] = "pending" THEN "skipped" ELSE @[k]]]
             status == IF row[r].status \in {"verifying", "running", "queued", "pending"}
                         THEN "success" ELSE row[r].status
             new    == [status |-> status, flow |-> flow]
  <2>1. checks \in [Checks -> CheckStatus]
    BY <1>0 DEF CheckStatus
  <2>2. flow = [row[r].flow EXCEPT !.status = "skipped", !.verify = FALSE, !.late = FALSE, !.checks = checks]
    BY <1>0 DEF Workflow
  <2>3. /\ flow \in Workflow /\ flow.status = "skipped"
        /\ flow.attempt = row[r].flow.attempt
    BY <1>0, <2>1, <2>2 DEF Workflow
  <2>4. status \in RestoreStatus
    BY <1>0 DEF RestoreStatus
  <2> HIDE DEF flow, status
  <2>5. new \in Row /\ Sound(new.flow, r, forced)
    BY <1>0, <2>3, <2>4 DEF Row, Sound, Checked, Within
  <2>6. Follows(row[r], new.flow)
    BY <1>4 DEF SkipVerification, TimedOut, Follows
  <2>7. Going(t, r, new) /\ UNCHANGED forced
    BY <1>4 DEF SkipVerification, flow, status
  <2> QED
    BY <2>5, <2>6, <2>7, DoingTakes DEF Going
<1>5. ASSUME NEW force \in BOOLEAN, StartVerification(t, r, force) PROVE Goal
  <2> DEFINE new == [status |-> "verifying", flow |-> Running(Built(TRUE, 1))]
  <2>1. new \in Row
    BY <1>0, BuiltType DEF Row, RestoreStatus
  <2>2. Sound(new.flow, r, forced)
    BY <1>0, BuiltSound
  <2>3. Follows(row[r], new.flow)
    BY DEF Follows, Running, Built
  <2> HIDE DEF new
  <2>4. Going(t, r, new) \/ Rejects
    BY <1>5 DEF StartVerification, new
  <2> QED
    BY <1>5, <2>1, <2>2, <2>3, <2>4, DoingTakes DEF StartVerification, Going, Rejects, Takes
<1>6. ASSUME NEW force \in BOOLEAN, RetryVerification(t, r, force) PROVE Goal
  <2>1. forced' = (IF force THEN forced \union {r} ELSE forced) /\ forced \subseteq forced'
    BY <1>6 DEF RetryVerification
  <2>2. CASE MayRetry(row[r], force)
    <3>1. row[r].flow.attempt + 1 \in 1..MaxAttempts
      BY <1>0, <1>6 DEF RetryVerification
    <3>2. Retried(row[r]) \in Row
      BY <3>1, BuiltType DEF Retried, Row, RestoreStatus
    <3>3. r \in forced' \/ row[r].flow.attempt + 1 <= MaxRetries + 1
      BY <2>1, <2>2 DEF MayRetry
    <3>4. Sound(Retried(row[r]).flow, r, forced')
      BY <3>1, <3>3, BuiltSound DEF Retried
    <3>5. Follows(row[r], Retried(row[r]).flow)
      BY DEF Follows, Retried, Running, Built
    <3>6. Going(t, r, Retried(row[r]))
      BY <1>6, <2>2 DEF RetryVerification
    <3> QED
      BY <2>1, <3>2, <3>4, <3>5, <3>6, DoingTakes DEF Going
  <2>3. CASE ~MayRetry(row[r], force)
    BY <1>6, <2>1, <2>3 DEF RetryVerification, Rejects, Takes
  <2> QED
    BY <2>2, <2>3
<1>7. ASSUME NEW checks \in [Checks -> CheckStatus \ {"pending"}], RunToTheEnd(t, r, checks)
      PROVE  Goal
  <2> DEFINE result == Outcome(checks)
             flow == [row[r].flow EXCEPT !.status = result, !.checks = checks, !.late = FALSE]
             new == [status |-> IF result = "passed" THEN "success" ELSE "verify_failed", flow |-> flow]
  <2>1. result \in {"passed", "failed"} /\ checks \in [Checks -> CheckStatus]
    BY DEF Outcome
  <2>2. /\ flow \in Workflow /\ flow.status = result /\ flow.checks = checks
        /\ flow.attempt = row[r].flow.attempt
    BY <1>0, <2>1 DEF Workflow
  <2>3. new \in Row
    BY <2>1, <2>2 DEF Row, RestoreStatus
  <2>4. Checked(flow)
    <3>1. \A k \in Checks : checks[k] # "pending"
      BY DEF CheckStatus
    <3>2. result = "passed" => \A k \in Required : checks[k] # "failed"
      BY DEF Outcome
    <3> QED
      BY <2>2, <3>1, <3>2 DEF Checked
  <2>5. Sound(new.flow, r, forced)
    BY <1>0, <2>2, <2>4 DEF Sound, Within
  <2>6. Follows(row[r], new.flow)
    BY <1>7 DEF RunToTheEnd, Follows
  <2> HIDE DEF flow
  <2>7. Going(t, r, new) /\ UNCHANGED forced
    BY <1>7 DEF RunToTheEnd, flow
  <2> QED
    BY <2>3, <2>5, <2>6, <2>7, DoingTakes DEF Going
<1>8. CASE RunPartly(t, r)
  BY <1>8 DEF RunPartly, Rejects, Takes
<1>9. CASE FindOverdue(t, r)
  <2> DEFINE checks == [k \in Checks |-> IF row[r].flow.checks[k] = "pending" THEN "failed"
                                         ELSE row[r].flow.checks[k]]
             flow   == [row[r].flow EXCEPT !.status = "timed_out", !.late = FALSE, !.stamped = TRUE,
                          !.checks = [k \in Checks |-> IF @[k] = "pending" THEN "failed" ELSE @[k]]]
             new    == [status |-> "verify_failed", flow |-> flow]
  <2>1. checks \in [Checks -> CheckStatus]
    BY <1>0 DEF CheckStatus
  <2>2. flow = [row[r].flow EXCEPT !.status = "timed_out", !.late = FALSE, !.stamped = TRUE, !.checks = checks]
    BY <1>0 DEF Workflow
  <2>3. /\ flow \in Workflow /\ flow.status = "timed_out"
        /\ flow.attempt = row[r].flow.attempt
    BY <1>0, <2>1, <2>2 DEF Workflow
  <2> HIDE DEF flow
  <2>4. new \in Row /\ Sound(new.flow, r, forced) /\ Follows(row[r], new.flow)
    BY <1>0, <2>3 DEF Row, RestoreStatus, Sound, Checked, Within, Follows
  <2>5. thread' = [thread EXCEPT ![t] = Doing("timeout", r, new)] /\ UNCHANGED <<row, raced, forced>>
    BY <1>9 DEF FindOverdue, flow
  <2> QED
    BY <2>4, <2>5, DoingTakes
<1> QED
  BY <1>1, <1>2, <1>3, <1>4, <1>5, <1>6, <1>7, <1>8, <1>9 DEF Handler

\* The same for the retry that follows a timeout.
LEMMA RecordTakes ==
  ASSUME TypeOK, FlowInv, NEW t \in Threads, NEW auto_retry \in BOOLEAN, RecordTimeout(t, auto_retry)
  PROVE  /\ UNCHANGED <<row, raced, forced>>
         /\ \/ thread' = [thread EXCEPT ![t] = Idle]
            \/ \E r \in Restores : Takes(t, r, forced')
<1> DEFINE r == thread[t].id
<1>0. r \in Restores /\ UNCHANGED <<row, raced, forced>>
  BY WorkParts DEF RecordTimeout
<1>1. \/ thread' = [thread EXCEPT ![t] = Idle]
      \/ MayRetry(row[r], FALSE) /\ thread' = [thread EXCEPT ![t] = Doing("write", r, Retried(row[r]))]
  BY DEF RecordTimeout
<1>2. ASSUME MayRetry(row[r], FALSE), thread' = [thread EXCEPT ![t] = Doing("write", r, Retried(row[r]))]
      PROVE  Takes(t, r, forced')
  <2>1. /\ row[r].flow.attempt \in 1..MaxAttempts
        /\ row[r].flow.attempt + 1 <= MaxRetries + 1
    BY <1>0, <1>2 DEF TypeOK, Row, Workflow, MayRetry
  <2>2. row[r].flow.attempt + 1 \in 1..MaxAttempts
    BY <2>1, AttemptsAssumption
  <2>3. Retried(row[r]) \in Row
    BY <2>2, BuiltType DEF Retried, Row, RestoreStatus
  <2>4. Sound(Retried(row[r]).flow, r, forced')
    BY <2>1, <2>2, BuiltSound DEF Retried
  <2>5. Follows(row[r], Retried(row[r]).flow)
    BY DEF Follows, Retried, Running, Built
  <2> QED
    BY <1>0, <1>2, <2>3, <2>4, <2>5, DoingTakes
<1> QED
  BY <1>0, <1>1, <1>2

LEMMA TakesKeeps ==
  ASSUME TypeOK, FlowInv, TimeoutInv, NEW t \in Threads, NEW r \in Restores,
         UNCHANGED <<row, raced>>, forced \subseteq forced', Takes(t, r, forced')
  PROVE  FlowInv' /\ TimeoutInv'
<1>1. \A q \in Restores : Sound(row'[q].flow, q, forced')
  BY DEF FlowInv, Sound
<1>2. ASSUME UNCHANGED thread PROVE FlowInv' /\ TimeoutInv'
  <2>1. ASSUME NEW u \in Threads, thread[u].todo # "idle"
        PROVE  Sound(thread[u].flow, thread[u].id, forced')
    BY <2>1 DEF FlowInv, Sound
  <2> QED
    BY <1>1, <1>2, <2>1 DEF FlowInv, TimeoutInv
<1>3. ASSUME NEW w \in Work, thread' = [thread EXCEPT ![t] = w],
             w.todo \in {"write", "timeout"}, w.id = r,
             Sound(w.flow, r, forced'), Follows(row[r], w.flow)
      PROVE  FlowInv' /\ TimeoutInv'
  <2>1. \A u \in Threads : thread'[u] = IF u = t THEN w ELSE thread[u]
    BY <1>3 DEF TypeOK
  <2>2. ASSUME NEW u \in Threads, thread'[u].todo # "idle"
        PROVE  Sound(thread'[u].flow, thread'[u].id, forced')
    BY <1>3, <2>1, <2>2 DEF FlowInv, Sound
  <2>3. ASSUME NEW u \in Threads, thread'[u].todo \in {"write", "timeout"}
        PROVE  thread'[u].id \in raced' \/ Follows(row'[thread'[u].id], thread'[u].flow)
    BY <1>3, <2>1, <2>3 DEF TimeoutInv
  <2> QED
    BY <1>1, <2>2, <2>3 DEF FlowInv, TimeoutInv
<1> QED
  BY <1>2, <1>3 DEF Takes

\* A flush leaves a row or gives it the workflow of the handler.
LEMMA MergedFlow ==
  ASSUME NEW s, NEW w
  PROVE  Merged(s, w) = s \/ Merged(s, w).flow = w.flow
<1>1. CASE Gone(s)
  BY <1>1 DEF Merged
<1>2. CASE ~Gone(s)
  BY <1>2 DEF Merged
<1> QED
  BY <1>1, <1>2

LEMMA CommitKeeps ==
  ASSUME TypeOK, FlowInv, TimeoutInv, NEW t \in Threads, Commit(t)
  PROVE  FlowInv' /\ TimeoutInv'
<1> DEFINE r == thread[t].id
<1>0. /\ thread[t].todo \in {"write", "timeout"} /\ thread[t].todo # "idle"
      /\ r \in Restores /\ UNCHANGED forced
      /\ raced' = IF Overlapped(t) THEN raced \union {r} ELSE raced
  BY WorkParts DEF Commit
<1>1. \A q \in Restores : row'[q] = IF q = r THEN Merged(row[r], thread[t]) ELSE row[q]
  BY <1>0 DEF Commit, TypeOK
<1>2. \A u \in Threads :
        \/ thread'[u] = IF u # t THEN thread[u] ELSE [thread[t] EXCEPT !.todo = "record"]
        \/ u = t /\ thread'[u] = Idle
  BY DEF Commit, TypeOK
<1>3. /\ [thread[t] EXCEPT !.todo = "record"].flow = thread[t].flow
      /\ [thread[t] EXCEPT !.todo = "record"].id = r
      /\ [thread[t] EXCEPT !.todo = "record"].todo = "record"
  <2>1. thread[t] \in Work /\ thread[t] # Idle
    BY <1>0 DEF TypeOK, Idle
  <2> QED
    BY <2>1 DEF Work
<1>4. ASSUME NEW q \in Restores PROVE Sound(row'[q].flow, q, forced')
  <2>1. Sound(row[q].flow, q, forced) /\ Sound(thread[t].flow, r, forced)
    BY <1>0 DEF FlowInv
  <2>2. row'[q] = row[q] \/ (q = r /\ row'[q].flow = thread[t].flow)
    BY <1>1, MergedFlow
  <2>3. Sound(row'[q].flow, q, forced)
    BY <2>1, <2>2
  <2> QED
    BY <1>0, <2>3
<1>5. ASSUME NEW u \in Threads, thread'[u].todo # "idle"
      PROVE  Sound(thread'[u].flow, thread'[u].id, forced')
  <2>1. thread'[u] # Idle
    BY <1>5 DEF Idle
  <2> QED
    BY <1>0, <1>2, <1>3, <1>5, <2>1 DEF FlowInv
<1>6. ASSUME NEW u \in Threads, thread'[u].todo \in {"write", "timeout"}
      PROVE  thread'[u].id \in raced' \/ Follows(row'[thread'[u].id], thread'[u].flow)
  <2>0. Idle.todo = "idle"
    BY DEF Idle
  <2>1. u # t /\ thread'[u] = thread[u]
    BY <1>2, <1>3, <1>6, <2>0
  <2>2. thread[u].id \in Restores
    BY <1>6, <2>1, WorkParts
  <2>3. CASE thread[u].id = r
    BY <1>0, <1>6, <2>1, <2>3 DEF Overlapped
  <2>4. CASE thread[u].id # r
    BY <1>0, <1>1, <1>6, <2>1, <2>2, <2>4 DEF TimeoutInv
  <2> QED
    BY <2>3, <2>4
<1> QED
  BY <1>4, <1>5, <1>6 DEF FlowInv, TimeoutInv

\* A step of nobody's handler leaves every row as it is, or with a workflow that has no result, or
\* one that does not show a timeout.
LEMMA OthersKeep ==
  ASSUME TypeOK, FlowInv, TimeoutInv, Operators \/ Time \/ UNCHANGED vars
  PROVE  FlowInv' /\ TimeoutInv'
<1>0. Checked(Built(FALSE, 1)) /\ Within(Built(FALSE, 1)) /\ Built(FALSE, 1).status = "skipped"
  BY AttemptsAssumption DEF Checked, Within, Built
<1>1. ASSUME NEW r \in Restores, NEW new \in Row, row' = [row EXCEPT ![r] = new],
             UNCHANGED <<thread, raced, forced>>,
             Sound(new.flow, r, forced),
             \A flow \in Workflow : Follows(row[r], flow) => Follows(new, flow)
      PROVE  FlowInv' /\ TimeoutInv'
  <2>1. \A q \in Restores : row'[q] = IF q = r THEN new ELSE row[q]
    BY <1>1 DEF TypeOK
  <2>2. \A q \in Restores : Sound(row'[q].flow, q, forced')
    BY <1>1, <2>1 DEF FlowInv
  <2>3. ASSUME NEW u \in Threads, thread[u].todo \in {"write", "timeout"}
        PROVE  thread[u].id \in raced \/ Follows(row'[thread[u].id], thread[u].flow)
    <3>1. thread[u].id \in Restores /\ thread[u].flow \in Workflow
      BY <2>3, WorkParts
    <3> QED
      BY <1>1, <2>1, <2>3, <3>1 DEF TimeoutInv
  <2> QED
    BY <1>1, <2>2, <2>3 DEF FlowInv, TimeoutInv
<1>2. ASSUME NEW r \in Restores, NEW start \in BOOLEAN, NEW verify \in BOOLEAN,
             CreateRestore(r, start, verify)
      PROVE  FlowInv' /\ TimeoutInv'
  <2> DEFINE new == [status |-> IF start THEN "queued" ELSE "pending", flow |-> Built(verify, 1)]
  <2>1. Built(verify, 1) \in Workflow /\ Sound(Built(verify, 1), r, forced)
    BY BuiltType, BuiltSound, AttemptsAssumption
  <2>2. new \in Row
    BY <2>1 DEF Row, RestoreStatus
  <2>3. \A flow \in Workflow : Follows(new, flow)
    BY DEF Follows
  <2> QED
    BY <1>1, <1>2, <2>1, <2>2, <2>3 DEF CreateRestore
<1>3. ASSUME NEW r \in Restores, DeleteRestore(r) PROVE FlowInv' /\ TimeoutInv'
  <2> DEFINE new == [Absent EXCEPT !.status = "deleted"]
  <2>1. new \in Row /\ new.flow = Built(FALSE, 1) /\ new.status = "deleted"
    BY NewTypes DEF Absent, Row, RestoreStatus
  <2> HIDE DEF new
  <2>2. Sound(new.flow, r, forced) /\ \A flow \in Workflow : Follows(new, flow)
    BY <1>0, <2>1 DEF Sound, Follows
  <2> QED
    BY <1>1, <1>3, <2>1, <2>2 DEF DeleteRestore, new
<1>4. ASSUME NEW r \in Restores, DeadlinePasses(r) PROVE FlowInv' /\ TimeoutInv'
  <2> DEFINE new == [row[r] EXCEPT !.flow.late = TRUE]
  <2>1. /\ new \in Row /\ new.status = row[r].status /\ new.flow.status = row[r].flow.status
        /\ new.flow.checks = row[r].flow.checks /\ new.flow.attempt = row[r].flow.attempt
    BY DEF TypeOK, Row, Workflow
  <2> HIDE DEF new
  <2>2. Sound(new.flow, r, forced) /\ \A flow \in Workflow : Follows(row[r], flow) => Follows(new, flow)
    BY <2>1 DEF FlowInv, Sound, Checked, Within, Follows
  <2>3. row' = [row EXCEPT ![r] = new]
    BY <1>4 DEF DeadlinePasses, new
  <2> QED
    BY <1>1, <1>4, <2>1, <2>2, <2>3 DEF DeadlinePasses
<1>5. CASE Restart
  BY <1>5 DEF Restart, FlowInv, TimeoutInv, Idle
<1>6. CASE ResetCircuit \/ RecoveryTimePasses \/ UNCHANGED vars
  BY <1>6 DEF ResetCircuit, RecoveryTimePasses, vars, FlowInv, TimeoutInv
<1> QED
  BY <1>2, <1>3, <1>4, <1>5, <1>6 DEF Operators, Time

LEMMA StepKeeps ==
  ASSUME TypeOK, FlowInv, TimeoutInv, [Next]_vars
  PROVE  FlowInv' /\ TimeoutInv'
<1>1. ASSUME NEW t \in Threads, NEW r \in Restores, Handler(t, r) PROVE FlowInv' /\ TimeoutInv'
  BY <1>1, HandlerTakes, TakesKeeps
<1>2. ASSUME NEW t \in Threads, NEW auto_retry \in BOOLEAN, RecordTimeout(t, auto_retry)
      PROVE  FlowInv' /\ TimeoutInv'
  <2>1. CASE thread' = [thread EXCEPT ![t] = Idle]
    <3>1. UNCHANGED <<row, raced, forced>>
      BY <1>2, RecordTakes
    <3>2. \A u \in Threads : thread'[u] = IF u = t THEN Idle ELSE thread[u]
      BY <2>1 DEF TypeOK
    <3> QED
      BY <3>1, <3>2 DEF FlowInv, TimeoutInv, Idle
  <2>2. ASSUME NEW r \in Restores, Takes(t, r, forced') PROVE FlowInv' /\ TimeoutInv'
    BY <1>2, <2>2, RecordTakes, TakesKeeps
  <2> QED
    BY <1>2, <2>1, <2>2, RecordTakes
<1> QED
  BY <1>1, <1>2, CommitKeeps, OthersKeep DEF Next, Finish

LEMMA InvCorrect == Spec => [](TypeOK /\ FlowInv /\ TimeoutInv)
<1>1. Init => FlowInv /\ TimeoutInv
  <2> SUFFICES ASSUME Init PROVE FlowInv /\ TimeoutInv
    OBVIOUS
  <2>2. \A r \in Restores : Sound(Absent.flow, r, forced)
    BY AttemptsAssumption DEF Absent, Sound, Checked, Within, Built
  <2>3. \A r \in Restores : row[r] = Absent
    BY DEF Init
  <2>4. \A t \in Threads : thread[t].todo = "idle"
    BY DEF Init, Idle
  <2> QED
    BY <2>2, <2>3, <2>4 DEF FlowInv, TimeoutInv
<1> QED
  BY <1>1, StepKeeps, TypeCorrect, PTL DEF Spec

---------------------------------------------------------------------------
(* The properties *)

\* PASSED means that every check has a result and no required one failed, however many handlers
\* overwrite each other's workflow.
THEOREM PassedMeansCheckedCorrect == Spec => []PassedMeansChecked
<1>1. FlowInv => PassedMeansChecked
  BY DEF FlowInv, Sound, Checked, PassedMeansChecked
<1> QED
  BY <1>1, InvCorrect, PTL

\* Whatever retries, timeouts and restarts of the workflow overlap, a restore is verified at most
\* MaxRetries + 1 times without force.
THEOREM AttemptBudgetCorrect == Spec => []AttemptBudget
<1>1. FlowInv => AttemptBudget
  BY DEF FlowInv, Sound, Within, AttemptBudget
<1> QED
  BY <1>1, InvCorrect, PTL

\* A timeout that a restore shows is settled only by a new run or the deletion of the job, unless
\* handlers of that restore overlapped.
THEOREM TimedOutStaysCorrect == Spec => TimedOutStays
<1>1. ASSUME TypeOK, TimeoutInv, FlowInv, [Next]_vars, NEW r \in Restores, r \notin raced',
             row[r].status = "verify_failed", row[r].flow.status = "timed_out"
      PROVE  row'[r].flow.status \in {"timed_out", "running"} \/ row'[r].status = "deleted"
  <2>1. CASE UNCHANGED row
    BY <1>1, <2>1
  <2>2. ASSUME NEW t \in Threads, Commit(t)
        PROVE  row'[r].flow.status \in {"timed_out", "running"}
    <3>0. /\ thread[t].todo \in {"write", "timeout"} /\ thread[t].todo # "idle"
          /\ raced \subseteq raced'
      BY <2>2 DEF Commit
    <3>1. thread[t].id \in Restores
      BY <1>1, <3>0, WorkParts
    <3>2. row'[r] = IF r = thread[t].id THEN Merged(row[r], thread[t]) ELSE row[r]
      BY <1>1, <2>2, <3>1 DEF Commit, TypeOK
    <3>3. r = thread[t].id => thread[t].flow.status \in {"timed_out", "running"}
      BY <1>1, <3>0, <3>1 DEF TimeoutInv, Follows
    <3>4. row'[r] = row[r] \/ (r = thread[t].id /\ row'[r].flow = thread[t].flow)
      BY <3>2, MergedFlow
    <3> QED
      BY <1>1, <3>3, <3>4
  <2>3. ASSUME NEW q \in Restores, NEW start \in BOOLEAN, NEW verify \in BOOLEAN,
               CreateRestore(q, start, verify)
        PROVE  UNCHANGED row[r]
    BY <1>1, <2>3 DEF CreateRestore, TypeOK
  <2>4. ASSUME NEW q \in Restores, DeleteRestore(q)
        PROVE  row'[r].status = "deleted" \/ UNCHANGED row[r]
    BY <2>4, NewTypes DEF DeleteRestore, TypeOK, Absent
  <2>5. ASSUME NEW q \in Restores, DeadlinePasses(q) PROVE UNCHANGED row[r]
    BY <1>1, <2>5 DEF DeadlinePasses, TypeOK
  <2>6. ASSUME NEW t \in Threads, NEW q \in Restores, Handler(t, q) PROVE UNCHANGED row
    BY <1>1, <2>6, HandlerTakes
  <2>7. ASSUME NEW t \in Threads, NEW auto_retry \in BOOLEAN, RecordTimeout(t, auto_retry)
        PROVE  UNCHANGED row
    BY <2>7 DEF RecordTimeout
  <2>8. ResetCircuit \/ Restart \/ RecoveryTimePasses \/ UNCHANGED vars => UNCHANGED row
    BY DEF ResetCircuit, Restart, RecoveryTimePasses, vars
  <2> QED
    BY <1>1, <2>1, <2>2, <2>3, <2>4, <2>5, <2>6, <2>7, <2>8 DEF Next, Finish, Operators, Time
<1>2. TypeOK /\ TimeoutInv /\ FlowInv /\ [Next]_vars =>
        [\A r \in Restores :
           r \notin raced' /\ row[r].status = "verify_failed" /\ row[r].flow.status = "timed_out" =>
           \/ row'[r].flow.status \in {"timed_out", "running"}
           \/ row'[r].status = "deleted"]_vars
  BY <1>1
<1> QED
  BY <1>2, InvCorrect, PTL DEF Spec, TimedOutStays
=============================================================================
