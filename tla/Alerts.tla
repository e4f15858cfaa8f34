--------------------------------- MODULE Alerts ---------------------------------
(***************************************************************************)
(* Checks, alerts and remediation for one monitored target                  *)
(* (services/monitoring_service.py, services/remediation_service.py) and    *)
(* the script tasks remediation queues (endpoints/automation.py).           *)
(*                                                                          *)
(* Checks are evaluated in threads, one commit per row: the check, then for *)
(* every condition it meets an alert and the remediation of that alert.     *)
(* Each row is decided from what was read before it is written.             *)
(***************************************************************************)
EXTENDS Integers, Sequences, FiniteSets, SequencesExt

CONSTANTS
  Threads,
  MaxAlerts,   \* bound on the unresolved alerts
  MaxRuns,     \* bound on the runs within their cooldown
  EscalateAt   \* repeat_count of the policy's one level, which raises the severity to critical

VARIABLES rule,    \* the matching AlertRule
          alerts,  \* the unresolved monitoring_alerts, in order of commits
          runs,    \* the remediation_runs that queued work less than cooldown_seconds ago, each
                   \* with its script task
          thread   \* what each evaluation has read

vars == <<rule, alerts, runs, thread>>

Severity == {"warning", "critical"}
\* ai: ai_suppression_enabled.  ignore, min: ignore_suppression and min_severity of its action.
Rule     == [ai : BOOLEAN, ignore : BOOLEAN, min : Severity]
\* met: history, decided while another thread decided.
Alert    == [asked : Severity, severity : Severity, suppressed : BOOLEAN, met : BOOLEAN]
\* bad: the last exit_code reported is not 0.  late: history, the task reported after its end.
Run      == [status : {"queued", "completed", "failed"}, task : {"open", "success", "failed"},
             bad : BOOLEAN, met : BOOLEAN, late : BOOLEAN]
Idle     == [pc |-> "idle", asked |-> "warning", severity |-> "warning", yes |-> FALSE, met |-> FALSE]

Counted  == {"queued", "completed"}
Ended    == {"success", "failed"}

TypeOK ==
  /\ rule \in Rule
  /\ alerts \in Seq(Alert) /\ Len(alerts) <= MaxAlerts
  /\ runs \in Seq(Run) /\ Len(runs) <= MaxRuns
  /\ thread \in [Threads -> [pc : {"idle", "decide", "raise", "queue"}, asked : Severity, severity : Severity,
                             yes : BOOLEAN, met : BOOLEAN]]

Init ==
  /\ rule \in {[ai |-> TRUE, ignore |-> FALSE, min |-> "warning"],
               [ai |-> FALSE, ignore |-> FALSE, min |-> "critical"]}
  /\ alerts = <<>> /\ runs = <<>>
  /\ thread = [t \in Threads |-> Idle]

Busy(t, pcs) == \E u \in Threads \ {t} : thread[u].pc \in pcs
\* Whoever is between the same read and write has overlapped with t from now on.
Meeting(t, pc) == [u \in Threads |-> IF u # t /\ thread[u].pc = pc THEN [thread[u] EXCEPT !.met = TRUE] ELSE thread[u]]

---------------------------------------------------------------------------
(* evaluate_check *)

\* The check is committed; whatever was read to evaluate it, it meets a condition: a threshold,
\* an anomaly or a changed state.  The conditions of one check are treated one after the other,
\* as those of two checks.
Evaluate(t, asked) ==
  /\ thread[t].pc = "idle" /\ Len(alerts) < MaxAlerts
  /\ thread' = [thread EXCEPT ![t] = [Idle EXCEPT !.pc = "decide", !.asked = asked]]
  /\ UNCHANGED <<rule, alerts, runs>>

---------------------------------------------------------------------------
(* raise_alert *)

\* Mutant: only suppressed alerts are taken for duplicates.
Duplicate_Suppressed(severity) ==
  \E a \in 1..Len(alerts) : alerts[a].severity = severity /\ alerts[a].suppressed

Duplicate(severity) == \E a \in 1..Len(alerts) : alerts[a].severity = severity

\* The severity of the condition finds duplicates; the escalated one is stored.
Decide(t) ==
  LET asked == thread[t].asked IN
  /\ thread[t].pc = "decide" /\ Len(alerts) < MaxAlerts
  /\ thread' = [Meeting(t, "raise") EXCEPT ![t].pc = "raise",
                  ![t].yes = rule.ai /\ Duplicate(asked),
                  ![t].severity = IF Len(alerts) + 1 >= EscalateAt THEN "critical" ELSE asked,
                  ![t].met = Busy(t, {"raise"})]
  /\ UNCHANGED <<rule, alerts, runs>>

Allowed(severity) == rule.min = "warning" \/ severity = "critical"

\* Mutant: only a run that is still queued is looked for.
InCooldown_Queued == \E r \in 1..Len(runs) : runs[r].status = "queued"

InCooldown == \E r \in 1..Len(runs) : runs[r].status \in Counted

\* The alert is committed; process_alert then reads whether its action may run.
Raise(t) ==
  LET w == thread[t] IN
  /\ w.pc = "raise" /\ Len(alerts) < MaxAlerts
  /\ alerts' = Append(alerts, [asked |-> w.asked, severity |-> w.severity,
                               suppressed |-> w.yes, met |-> w.met])
  /\ thread' = [Meeting(t, "queue") EXCEPT ![t] = [Idle EXCEPT !.pc = "queue",
                  !.yes = (~w.yes \/ rule.ignore) /\ Allowed(w.severity) /\ ~InCooldown,
                  !.met = Busy(t, {"queue"})]]
  /\ UNCHANGED <<rule, runs>>

---------------------------------------------------------------------------
(* RemediationService *)

Queued(w) == [status |-> "queued", task |-> "open", bad |-> FALSE, met |-> w.met, late |-> FALSE]

\* One commit for the runs of an alert, which may fail and is then swallowed.  An action that is
\* skipped, has no device or could not be queued leaves a run that counts for nothing.
Queue(t) ==
  LET w == thread[t] IN
  /\ w.pc = "queue"
  /\ \/ w.yes /\ Len(runs) < MaxRuns /\ runs' = Append(runs, Queued(w))
     \/ UNCHANGED runs
  /\ thread' = [thread EXCEPT ![t] = Idle]
  /\ UNCHANGED <<rule, alerts>>

CooldownOver ==
  /\ runs # <<>> /\ runs' = Tail(runs)
  /\ UNCHANGED <<rule, alerts, thread>>

---------------------------------------------------------------------------
(* Reports about a task: POST /automation/tasks/{id}/state *)

\* The run follows the outcome, in which an exit code reported earlier still counts.
Mirrored(run, status, bad) ==
  IF status \notin Ended THEN run.status
  ELSE IF status = "success" /\ ~bad THEN "completed" ELSE "failed"

\* code: no exit code, 0, or another; the last turns success into failure.  Bound: of the reports
\* after the end, the first.
Report(r, status, code) ==
  LET run   == runs[r]
      bad   == IF code = "none" THEN run.bad ELSE code # "0"
      final == IF status = "success" /\ code = "1" THEN "failed" ELSE status IN
  /\ ~run.late
  /\ runs' = [runs EXCEPT ![r].task = final, ![r].bad = bad, ![r].status = Mirrored(run, final, bad),
                           ![r].late = @ \/ run.task \in Ended]
  /\ UNCHANGED <<rule, alerts, thread>>

ResolveAlert(a) == alerts' = RemoveAt(alerts, a) /\ UNCHANGED <<rule, runs, thread>>

Next ==
  \/ \E t \in Threads, asked \in Severity : Evaluate(t, asked)
  \/ \E t \in Threads : Decide(t) \/ Raise(t) \/ Queue(t)
  \/ CooldownOver
  \/ \E r \in 1..Len(runs), code \in {"none", "0", "1"} :
       \E status \in {"open", "success", "failed"} : Report(r, status, code)
  \/ \E a \in 1..Len(alerts) : ResolveAlert(a)

Spec == Init /\ [][Next]_vars

---------------------------------------------------------------------------
(* Properties *)

\* With suppression on, one condition has one alert that is neither resolved nor suppressed,
\* unless two were raised at once or an escalation stored another severity than asked for.
OneAlertPerCondition ==
  rule.ai => \A a, b \in 1..Len(alerts) :
    a < b /\ alerts[a].asked = alerts[b].asked /\ ~alerts[a].suppressed /\ ~alerts[b].suppressed
      => alerts[b].met \/ alerts[a].severity # alerts[a].asked

\* Within the cooldown an action is queued once and not again while it may still succeed or has
\* succeeded, unless two alerts were remediated at once or a task reported again after it had
\* ended; and a completed run has a task that succeeded.
CooldownHolds ==
  \A r \in 1..Len(runs) :
    ~runs[r].late =>
      /\ \A q \in (r + 1)..Len(runs) : runs[q].met \/ runs[r].status \notin Counted
      /\ runs[r].status = "completed" => runs[r].task = "success" /\ ~runs[r].bad
\* Why: threads between the same read and write have met, and what one has decided on is still so
\* unless it has met another.
Overlapped ==
  \A t \in Threads : \A u \in Threads \ {t} :
    thread[t].pc = thread[u].pc /\ thread[t].pc \in {"raise", "queue"} => thread[t].met
RaiseHolds ==
  \A t \in Threads :
    thread[t].pc = "raise" /\ ~thread[t].met /\ rule.ai /\ ~thread[t].yes => ~Duplicate(thread[t].asked)
QueueHolds ==
  \A t \in Threads :
    thread[t].pc = "queue" /\ ~thread[t].met /\ thread[t].yes =>
      \A r \in 1..Len(runs) : runs[r].late \/ runs[r].status \notin Counted
OpenIsQueued == \A r \in 1..Len(runs) : runs[r].task \notin Ended => runs[r].late \/ runs[r].status = "queued"
Inv == TypeOK /\ Overlapped /\ RaiseHolds /\ QueueHolds /\ OpenIsQueued /\ OneAlertPerCondition /\ CooldownHolds
=================================================================================
