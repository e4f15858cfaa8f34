------------------------- MODULE BackupVerification -------------------------
(***************************************************************************)
(* Restore jobs of one backup provider and their verification workflow     *)
(* (services/backup_verification_mixin.py), behind the circuit breaker of  *)
(* services/backup_circuit.py.                                             *)
(*                                                                         *)
(* A handler reads the row, asks the breaker and computes the new row      *)
(* without I/O, then commits.  Handlers of different threads overlap       *)
(* between the two.  An UPDATE writes only the columns the handler changed *)
(* in the row it read: status, and automation, the JSON column that holds  *)
(* the whole workflow.                                                     *)
(***************************************************************************)
EXTENDS CircuitBreaker, FiniteSets

CONSTANTS
  Restores,     \* restore jobs
  Threads,      \* handlers that may run at once
  Checks,       \* checks of a verification
  Required,     \* those whose failure fails it
  MaxRetries,   \* max_retries of the workflow
  MaxAttempts   \* bound on attempts, which forced retries raise without limit

ASSUME ChecksAssumption   == Required \subseteq Checks
ASSUME AttemptsAssumption ==
  MaxRetries \in Nat /\ MaxAttempts \in Nat /\ MaxAttempts > MaxRetries + 1

VARIABLES row,      \* RestoreJob.status and .automation
          thread,   \* what each handler is about to do
          breaker,  \* the provider's verification circuit
          raced,    \* history: restores of which two handlers overlapped
          forced    \* history: restores verified with force=true

vars == <<row, thread, breaker, raced, forced>>

RestoreStatus == {"absent", "deleted", "pending", "queued", "running", "verifying",
                  "success", "failed", "verify_failed"}
CheckStatus   == {"pending", "passed", "failed", "skipped"}

\* late: deadline_at has passed; it matters, and is kept, only while RUNNING.
\* stamped: timed_out_at is set, which outlives the status TIMED_OUT.
Workflow == [verify  : BOOLEAN,
             status  : {"pending", "running", "passed", "failed", "skipped", "timed_out"},
             attempt : 1..MaxAttempts,
             checks  : [Checks -> CheckStatus],
             late    : BOOLEAN,
             stamped : BOOLEAN]

Row == [status : RestoreStatus, flow : Workflow]

Idle == [todo |-> "idle"]

\* write: commit the workflow and, if the handler changed it, the status.  timeout: the
\* same for a workflow found late.  record: tell the circuit about that timeout.
Work == [todo : {"write", "timeout", "record"}, id : Restores,
         status : RestoreStatus \union {"as read"}, flow : Workflow] \union {Idle}

TypeOK ==
  /\ row \in [Restores -> Row]
  /\ thread \in [Threads -> Work]
  /\ breaker \in Breaker
  /\ raced \subseteq Restores /\ forced \subseteq Restores

\* _build_verification
Built(verify, attempt) ==
  [verify |-> verify, attempt |-> attempt, late |-> FALSE, stamped |-> FALSE,
   status |-> IF verify THEN "pending" ELSE "skipped",
   checks |-> [k \in Checks |-> "pending"]]

Absent == [status |-> "absent", flow |-> Built(FALSE, 1)]

Init ==
  /\ row = [r \in Restores |-> Absent]
  /\ thread = [t \in Threads |-> Idle]
  /\ breaker = NewBreaker
  /\ raced = {} /\ forced = {}

Doing(todo, r, new) ==
  [todo |-> todo, id |-> r, flow |-> new.flow,
   status |-> IF new.status = row[r].status THEN "as read" ELSE new.status]

\* A handler on thread t has read row r and is going to commit the row new.
Going(t, r, new) ==
  /\ thread' = [thread EXCEPT ![t] = Doing("write", r, new)]
  /\ UNCHANGED <<row, raced>>

Gone(s) == s.status \in {"absent", "deleted"}

Reads(t, r) == thread[t] = Idle /\ ~Gone(row[r])

\* An error answer: the transaction is rolled back.
Rejects == UNCHANGED <<row, thread, raced>>

---------------------------------------------------------------------------
(* Handlers that do not touch the circuit *)

\* create_restore: one INSERT.
CreateRestore(r, start, verify) ==
  /\ row[r].status = "absent"
  /\ row' = [row EXCEPT ![r] = [status |-> IF start THEN "queued" ELSE "pending",
                                flow |-> Built(verify, 1)]]
  /\ UNCHANGED <<thread, breaker, raced, forced>>

DeleteRestore(r) ==
  /\ ~Gone(row[r])
  /\ row' = [row EXCEPT ![r] = [Absent EXCEPT !.status = "deleted"]]
  /\ UNCHANGED <<thread, breaker, raced, forced>>

StartRestore(t, r) ==
  /\ Reads(t, r)
  /\ row[r].status \in {"pending", "queued"}
  /\ Going(t, r, [row[r] EXCEPT !.status = "running"])
  /\ UNCHANGED <<breaker, forced>>

\* complete_restore(success=False), and success without a verification.
CompleteUnverified(t, r, success, skip) ==
  /\ Reads(t, r)
  /\ success => skip \/ ~row[r].flow.verify
  /\ Going(t, r, [row[r] EXCEPT !.status = IF success THEN "success" ELSE "failed"])
  /\ UNCHANGED <<breaker, forced>>

\* _is_timed_out for a workflow that is not finished.
Overdue(s) == s.flow.status = "running" /\ s.flow.late

\* Mutant: a timeout is forgotten.
TimedOut_Never(s) == FALSE

\* The workflow timed out, although its status may have changed since.
TimedOut(s) == s.flow.status = "timed_out" \/ (s.status = "verify_failed" /\ s.flow.stamped)

SkipVerification(t, r) ==
  /\ Reads(t, r)
  /\ ~TimedOut(row[r])
  /\ ~(row[r].status = "verifying" /\ Overdue(row[r]))
  /\ Going(t, r,
       [status |-> IF row[r].status \in {"verifying", "running", "queued", "pending"}
                     THEN "success" ELSE row[r].status,
        flow   |-> [row[r].flow EXCEPT
                      !.status = "skipped", !.verify = FALSE, !.late = FALSE,
                      !.checks = [k \in Checks |-> IF @[k] = "pending" THEN "skipped" ELSE @[k]]]])
  /\ UNCHANGED <<breaker, forced>>

---------------------------------------------------------------------------
(* Handlers behind _guard_verification_circuit.  Only a recorded outcome gives *)
(* a half-open permit back, and most of them record none.                      *)

Guarded == Admits(breaker) /\ breaker' = Allowed(breaker)

\* complete_restore: attempt and checks of the old workflow stay.
CompleteAndVerify(t, r) ==
  /\ Reads(t, r)
  /\ row[r].flow.verify
  /\ Guarded
  /\ Going(t, r, [status |-> "verifying",
                  flow |-> [row[r].flow EXCEPT !.status = "running", !.late = FALSE,
                                               !.stamped = FALSE]])
  /\ UNCHANGED forced

Running(flow) == [flow EXCEPT !.status = "running"]

StartVerification(t, r, force) ==
  /\ Reads(t, r)
  /\ Guarded
  /\ IF row[r].status = "failed" /\ ~force
       THEN Rejects
       ELSE Going(t, r, [status |-> "verifying",
                         flow |-> Running(Built(TRUE, 1))])
  /\ UNCHANGED forced

\* Mutant: the retry budget has one slot too many.
MayRetry_OneTooMany(s, force) ==
  force \/ (TimedOut(s) /\ s.flow.attempt + 1 <= MaxRetries + 2)

MayRetry(s, force) ==
  force \/ (TimedOut(s) /\ s.flow.attempt + 1 <= MaxRetries + 1)

Retried(s) ==
  [status |-> "verifying",
   flow |-> Running(Built(TRUE, s.flow.attempt + 1))]

RetryVerification(t, r, force) ==
  /\ Reads(t, r)
  /\ row[r].flow.attempt < MaxAttempts
  /\ Guarded
  /\ IF MayRetry(row[r], force)
       THEN Going(t, r, Retried(row[r]))
       ELSE Rejects
  /\ forced' = IF force THEN forced \union {r} ELSE forced

\* Mutant: only missing results count against the verification.
Outcome_PendingOnly(checks) == IF \E k \in Checks : checks[k] = "pending" THEN "failed" ELSE "passed"

Outcome(checks) == IF \E k \in Required : checks[k] = "failed" THEN "failed" ELSE "passed"

\* run_verification once every check has a result: the outcome goes to the circuit
\* before the commit.
RunToTheEnd(t, r, checks) ==
  /\ Reads(t, r)
  /\ ~(row[r].status = "verifying" /\ Overdue(row[r]))
  /\ ~(row[r].status = "verify_failed" /\ row[r].flow.status = "timed_out")
  /\ Admits(breaker)
  /\ LET result == Outcome(checks)
     IN /\ breaker' = IF result = "passed" THEN Succeeded(Allowed(breaker))
                                           ELSE Failed(Allowed(breaker))
        /\ Going(t, r, [status |-> IF result = "passed" THEN "success" ELSE "verify_failed",
                        flow |-> [row[r].flow EXCEPT !.status = result, !.checks = checks, !.late = FALSE]])
  /\ UNCHANGED forced

\* run_verification with checks left over changes nothing that is written: it mutates
\* the dictionary it loaded, so the column compares equal at the flush.  The permit is
\* taken all the same.  report_check mutates the same way and asks no circuit.
RunPartly(t, r) ==
  /\ Reads(t, r)
  /\ ~(row[r].status = "verifying" /\ Overdue(row[r]))
  /\ ~(row[r].status = "verify_failed" /\ row[r].flow.status = "timed_out")
  /\ \E k \in Checks : row[r].flow.checks[k] = "pending"
  /\ Guarded
  /\ Rejects
  /\ UNCHANGED forced

---------------------------------------------------------------------------
(* The timeout: enforce_verification_timeout, from sweep, GET, check and run *)

\* deadline_at passes.
DeadlinePasses(r) ==
  /\ row[r].flow.status = "running"
  /\ ~row[r].flow.late
  /\ row' = [row EXCEPT ![r].flow.late = TRUE]
  /\ UNCHANGED <<thread, breaker, raced, forced>>

FindOverdue(t, r) ==
  /\ Reads(t, r)
  /\ row[r].status = "verifying"
  /\ Overdue(row[r])
  /\ thread' = [thread EXCEPT ![t] = Doing("timeout", r,
       [status |-> "verify_failed",
        flow |-> [row[r].flow EXCEPT
                    !.status = "timed_out", !.late = FALSE, !.stamped = TRUE,
                    !.checks = [k \in Checks |-> IF @[k] = "pending" THEN "failed" ELSE @[k]]]])]
  /\ UNCHANGED <<row, breaker, raced, forced>>

\* The flush: UPDATE the changed columns.  A row deleted meanwhile matches nothing.
Merged(current, work) ==
  IF Gone(current) THEN current
  ELSE [status |-> IF work.status = "as read" THEN current.status ELSE work.status,
        flow   |-> work.flow]

\* Another handler is going to commit the same row.
Overlapped(t) ==
  \E u \in Threads \ {t} : thread[u].todo \in {"write", "timeout"} /\ thread[u].id = thread[t].id

Commit(t) ==
  /\ thread[t].todo \in {"write", "timeout"}
  /\ row' = [row EXCEPT ![thread[t].id] = Merged(@, thread[t])]
  /\ thread' = [thread EXCEPT ![t] =
       IF @.todo = "timeout" /\ ~Gone(row[@.id]) THEN [@ EXCEPT !.todo = "record"] ELSE Idle]
  /\ raced' = IF Overlapped(t) THEN raced \union {thread[t].id} ELSE raced
  /\ UNCHANGED <<breaker, forced>>

\* retries_remaining as _mark_verification_timed_out computes it, one less than
\* _build_verification does.
RetriesRemain(flow) == flow.attempt < MaxRetries

\* The timeout counts as a failure; then, if the workflow asks for it, the row is read
\* again and the circuit asked, which may have opened just now.
RecordTimeout(t, auto_retry) ==
  /\ thread[t].todo = "record"
  /\ LET r     == thread[t].id
         after == Failed(breaker)
         retry == /\ auto_retry
                  /\ RetriesRemain(thread[t].flow)
                  /\ ~Gone(row[r])
                  /\ Admits(after)
     IN /\ breaker' = IF retry THEN Allowed(after) ELSE after
        /\ thread' = [thread EXCEPT ![t] =
             IF retry /\ MayRetry(row[r], FALSE)
               THEN Doing("write", r, Retried(row[r]))
               ELSE Idle]
        /\ UNCHANGED <<row, raced, forced>>

---------------------------------------------------------------------------
(* The rest of the world *)

RecoveryTimePasses ==
  /\ CanCool(breaker)
  /\ breaker' = Cooled(breaker)
  /\ UNCHANGED <<row, thread, raced, forced>>

\* POST /circuits/reset
ResetCircuit ==
  /\ breaker' = NewBreaker
  /\ UNCHANGED <<row, thread, raced, forced>>

\* The process restarts: circuits live in memory, uncommitted work is gone.
Restart ==
  /\ breaker' = NewBreaker
  /\ thread' = [t \in Threads |-> Idle]
  /\ UNCHANGED <<row, raced, forced>>

Handler(t, r) ==
  \/ StartRestore(t, r)
  \/ \E success, skip \in BOOLEAN : CompleteUnverified(t, r, success, skip)
  \/ CompleteAndVerify(t, r)
  \/ SkipVerification(t, r)
  \/ \E force \in BOOLEAN : StartVerification(t, r, force) \/ RetryVerification(t, r, force)
  \/ \E checks \in [Checks -> CheckStatus \ {"pending"}] : RunToTheEnd(t, r, checks)
  \/ RunPartly(t, r)
  \/ FindOverdue(t, r)

Finish(t) == Commit(t) \/ \E auto_retry \in BOOLEAN : RecordTimeout(t, auto_retry)

Operators ==
  \/ \E r \in Restores, start, verify \in BOOLEAN : CreateRestore(r, start, verify)
  \/ \E r \in Restores : DeleteRestore(r)
  \/ ResetCircuit
  \/ Restart

Time == RecoveryTimePasses \/ \E r \in Restores : DeadlinePasses(r)

Next ==
  \/ \E t \in Threads : (\E r \in Restores : Handler(t, r)) \/ Finish(t)
  \/ Operators
  \/ Time

Spec == Init /\ [][Next]_vars

\* A running handler ends, time passes and somebody polls what is being verified.
Fairness ==
  /\ \A t \in Threads : WF_vars(Finish(t))
  /\ \A r \in Restores : WF_vars(DeadlinePasses(r)) /\ WF_vars(\E t \in Threads : FindOverdue(t, r))
  /\ WF_vars(RecoveryTimePasses)

FairSpec == Spec /\ Fairness

---------------------------------------------------------------------------
(* Properties *)

\* A workflow is PASSED only when every check has a result and no required one
\* failed, although handlers overwrite each other's workflow.
PassedMeansChecked ==
  \A r \in Restores : row[r].flow.status = "passed" =>
    /\ \A k \in Checks : row[r].flow.checks[k] # "pending"
    /\ \A k \in Required : row[r].flow.checks[k] # "failed"

\* No restore is verified more often than max_retries allows, unless force=true says so,
\* although retries race each other, timeouts and restarts of the workflow.
AttemptBudget == \A r \in Restores \ forced : row[r].flow.attempt <= MaxRetries + 1

\* A late result or a skip never settles a workflow while its job shows the timeout;
\* only a new run of the verification may follow, or the deletion of the job.
TimedOutStays ==
  [][\A r \in Restores :
       r \notin raced' /\ row[r].status = "verify_failed" /\ row[r].flow.status = "timed_out" =>
       \/ row'[r].flow.status \in {"timed_out", "running"}
       \/ row'[r].status = "deleted"]_vars

\* "CLOSED -> OPEN -> HALF_OPEN -> CLOSED" in the head of circuit_breaker.py: probing
\* comes to an end.
HalfOpenEnds == breaker.state = "half_open" ~> breaker.state # "half_open"
=============================================================================
