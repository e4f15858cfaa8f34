------------------------- MODULE SoftwareDeployment -------------------------
(***************************************************************************)
(* Deployment jobs (services/software_deployment_service.py), their        *)
(* targets, one per device, and the Python agents that poll for pending    *)
(* targets, run them and report (agent/bhudi_agent.py,                     *)
(* agent/software_deploy.py).                                              *)
(*                                                                         *)
(* A handler of the service reads a job with its targets, computes, and    *)
(* commits; handlers of different threads overlap between the two, and an  *)
(* UPDATE writes only the columns that differ from what was read.  An      *)
(* agent sends one report after the other, each with a 30 s timeout that   *)
(* does not stop the handler.                                              *)
(***************************************************************************)
EXTENDS Integers, FiniteSets

CONSTANTS
  Jobs,     \* job ids, the rows of deployment_jobs
  Rollbacks,\* those that rollbacks take, the others are for create_job
  Devices,  \* devices, each with one agent
  Threads,  \* handlers that may run at once
  Compound, \* faults may hit a job that another one has hit (a bound)
  Faults    \* which of the faults below happen; a job is cancelled once at most

ASSUME DevicesAssumption == IsFiniteSet(Devices)
ASSUME RollbacksAssumption == Rollbacks \subseteq Jobs
ASSUME FaultsAssumption == Faults \subseteq {"lost", "timeout", "restart", "cancel"}
ASSUME CompoundAssumption == Compound \in BOOLEAN

VARIABLES job,     \* the job rows
          target,  \* the status of each job's target on each device
          thread,  \* what each handler is about to do
          agent,   \* what each agent is doing
          ran,     \* history: how often an agent ran a target's package (2: more than once)
          upset    \* history: the faults and the races that a job met

vars == <<job, target, thread, agent, ran, upset>>

Unfinished   == {"pending", "downloading", "installing"}
TargetStatus == Unfinished \union {"success", "failed", "rolled_back", "skipped", "none"}
JobStatus    == {"absent", "queued", "running", "completed", "failed", "cancelled", "rolled_back"}

\* action: uninstall and rollback jobs remove the package.
Job == [status : JobStatus, action : {"install", "remove"},
        total : 0..Cardinality(Devices), success : 0..Cardinality(Devices),
        failed : 0..Cardinality(Devices), pending : 0..Cardinality(Devices)]

Absent == [status |-> "absent", action |-> "install",
           total |-> 0, success |-> 0, failed |-> 0, pending |-> 0]

\* A job with its targets, as a session holds it.
Loaded == [job : Job, target : [Devices -> TargetStatus]]

Idle == [todo |-> "idle", awaited |-> {}]

\* report: a report has been sent and is not read yet.
\* write, cancel: replace what was read by new, and create the rollback job in rb, if any,
\* for the devices picked.  awaited: the agent that waits for the answer, if any.
Work ==
  {Idle}
  \union [todo : {"report"}, id : Jobs, awaited : SUBSET Devices, from : Devices, status : TargetStatus]
  \union [todo : {"write", "cancel"}, id : Jobs, awaited : SUBSET Devices, was : Loaded, new : Loaded,
          rb : SUBSET Jobs, picked : SUBSET Devices]

\* polled: deliveries not begun.  phase: how far the agent is with those in at (one or none).
Agent == [polled : SUBSET Jobs, at : SUBSET Jobs,
          phase : {"idle", "downloading", "installing", "ran"}]

TypeOK ==
  /\ job \in [Jobs -> Job]
  /\ target \in [Jobs -> [Devices -> TargetStatus]]
  /\ thread \in [Threads -> Work]
  /\ agent \in [Devices -> Agent]
  /\ ran \in [Jobs -> [Devices -> 0..2]]
  /\ upset \in [Jobs -> SUBSET (Faults \union {"race"})]

Resting == [polled |-> {}, at |-> {}, phase |-> "idle"]

Init ==
  /\ job = [j \in Jobs |-> Absent]
  /\ target = [j \in Jobs |-> [d \in Devices |-> "none"]]
  /\ thread = [t \in Threads |-> Idle]
  /\ agent = [d \in Devices |-> Resting]
  /\ ran = [j \in Jobs |-> [d \in Devices |-> 0]]
  /\ upset = [j \in Jobs |-> {}]

---------------------------------------------------------------------------
(* The service *)

Load(j) == [job |-> job[j], target |-> target[j]]

In(targets, statuses) == Cardinality({d \in Devices : targets[d] \in statuses})

\* Mutant: a job whose targets failed without exception completes too.
Verdict_AlwaysCompleted(success, failed) == "completed"

Verdict(success, failed) ==
  IF failed > 0 /\ success = 0 THEN "failed" ELSE "completed"

\* Mutant: the counters are taken before the report is stored.
Recomputed_Stale(s) ==
  LET pending == In(s.target, Unfinished)
  IN [s EXCEPT !.job.total = In(s.target, TargetStatus \ {"none"}),
               !.job.status = IF pending = 0 THEN Verdict(s.job.success, s.job.failed) ELSE @,
               !.job.pending = pending]

\* Mutant: the job ends when its successes and failures add up, which forgets removals.
Recomputed_OutcomesAddUp(s) ==
  LET success == In(s.target, {"success"})
      failed  == In(s.target, {"failed"})
      total   == In(s.target, TargetStatus \ {"none"})
  IN [s EXCEPT !.job.total = total,
               !.job.success = success, !.job.failed = failed, !.job.pending = In(s.target, Unfinished),
               !.job.status = IF success + failed = total THEN Verdict(success, failed) ELSE @]

\* _recompute_job_counts
Recomputed(s) ==
  LET success == In(s.target, {"success"})
      failed  == In(s.target, {"failed"})
      pending == In(s.target, Unfinished)
      total   == In(s.target, TargetStatus \ {"none"})
  IN [s EXCEPT !.job.total = total,
               !.job.success = success, !.job.failed = failed, !.job.pending = pending,
               !.job.status = IF total > 0 /\ pending = 0 THEN Verdict(success, failed) ELSE @]

\* Ids are fresh UUIDs: none belongs to a job or to one about to be committed.
Fresh(j) == job[j] = Absent /\ \A t \in Threads : thread[t].todo = "write" => j \notin thread[t].rb

\* The new targets are not flushed when create_job counts, so it counts none.
CreateJob(j, devices, action) ==
  /\ j \notin Rollbacks
  /\ Fresh(j)
  /\ job' = [job EXCEPT ![j] = [Absent EXCEPT !.status = "queued", !.action = action]]
  /\ target' = [target EXCEPT ![j] = [d \in Devices |-> IF d \in devices THEN "pending" ELSE "none"]]
  /\ UNCHANGED <<thread, agent, ran, upset>>

\* A fault may hit the jobs: unless faults are compounded, those no other fault has hit.
Hits(fault, jobs) == fault \in Faults /\ (Compound \/ \A j \in jobs : upset[j] = {})
Upset(jobs, fault) == upset' = [j \in Jobs |-> IF j \in jobs THEN upset[j] \union {fault} ELSE upset[j]]

Writing(todo, j, awaited, new, rb, picked) ==
  [todo |-> todo, id |-> j, awaited |-> awaited, was |-> Load(j), new |-> new, rb |-> rb, picked |-> picked]

StartJob(t, j) ==
  /\ thread[t] = Idle
  /\ job[j].status = "queued"
  /\ thread' = [thread EXCEPT ![t] =
       Writing("write", j, {}, [Load(j) EXCEPT !.job.status = "running"], {}, {})]
  /\ UNCHANGED <<job, target, agent, ran, upset>>

Skipped(s) ==
  [job    |-> [s.job EXCEPT !.status = "cancelled"],
   target |-> [d \in Devices |-> IF s.target[d] \in Unfinished THEN "skipped" ELSE s.target[d]]]

CancelJob(t, j) ==
  /\ Hits("cancel", {j}) /\ "cancel" \notin upset[j]
  /\ thread[t] = Idle
  /\ job[j] # Absent
  /\ thread' = [thread EXCEPT ![t] = Writing("cancel", j, {}, Recomputed(Skipped(Load(j))), {}, {})]
  /\ Upset({j}, "cancel")
  /\ UNCHANGED <<job, target, agent, ran>>

\* wanted: the device_ids of the request; without any, all successful targets.
CreateRollback(t, j, rb, wanted) ==
  /\ thread[t] = Idle
  /\ rb \in Rollbacks
  /\ Fresh(rb)
  /\ LET all        == {d \in Devices : target[j][d] = "success"}
         candidates == IF wanted = {} THEN all ELSE all \intersect wanted
     IN /\ candidates # {}
        /\ thread' = [thread EXCEPT ![t] =
             Writing("write", j, {},
                     IF wanted = {} THEN [Load(j) EXCEPT !.job.status = "rolled_back"] ELSE Load(j),
                     {rb}, candidates)]
  /\ UNCHANGED <<job, target, agent, ran, upset>>

\* report_target, up to the commit.
Reported(s, d, status) ==
  Recomputed([s EXCEPT !.job.status = IF @ = "queued" THEN "running" ELSE @,
                       !.target[d] = status])

ReportTarget(t) ==
  /\ thread[t].todo = "report"
  /\ thread' = [thread EXCEPT ![t] =
       Writing("write", @.id, @.awaited, Reported(Load(@.id), @.from, @.status), {}, {})]
  /\ UNCHANGED <<job, target, agent, ran, upset>>

\* The columns of new that differ from was.
Merged(now, was, new) ==
  [k \in DOMAIN now |-> IF new[k] = was[k] THEN now[k] ELSE new[k]]

Commit(t) ==
  /\ thread[t].todo \in {"write", "cancel"}
  /\ LET w == thread[t]
     IN /\ job' = [j \in Jobs |->
             IF j = w.id THEN Merged(job[j], w.was.job, w.new.job)
             ELSE IF j \in w.rb THEN [Absent EXCEPT !.status = "queued", !.action = "remove"]
             ELSE job[j]]
        /\ target' = [j \in Jobs |->
             IF j = w.id THEN Merged(target[j], w.was.target, w.new.target)
             ELSE IF j \in w.rb THEN [d \in Devices |-> IF d \in w.picked THEN "pending" ELSE "none"]
             ELSE target[j]]
        /\ Upset(IF w.was = Load(w.id) THEN {} ELSE {w.id}, "race")
  /\ thread' = [thread EXCEPT ![t] = Idle]
  /\ UNCHANGED <<agent, ran>>

---------------------------------------------------------------------------
(* The agents *)

\* Mutant: targets under way are handed out again.
Delivers_UnderWay(j, d) ==
  target[j][d] \in Unfinished /\ job[j].status \in {"queued", "running"}

\* pending_for_agent
Delivers(j, d) == target[j][d] = "pending" /\ job[j].status \in {"queued", "running"}

\* The agent waits for no answer.
Free(d) == \A t \in Threads : d \notin thread[t].awaited

Poll(d) ==
  /\ Free(d)
  /\ agent[d] = Resting
  /\ \E j \in Jobs : Delivers(j, d)
  /\ agent' = [agent EXCEPT ![d].polled = {j \in Jobs : Delivers(j, d)}]
  /\ UNCHANGED <<job, target, thread, ran, upset>>

Begin(d, j) ==
  /\ Free(d)
  /\ agent[d].at = {} /\ j \in agent[d].polled
  /\ agent' = [agent EXCEPT ![d].polled = @ \ {j}, ![d].at = {j}]
  /\ UNCHANGED <<job, target, thread, ran, upset>>

\* report_deployment about the target at hand
Sends(t, d, status) ==
  /\ Free(d)
  /\ thread[t] = Idle
  /\ \E j \in agent[d].at :
       thread' = [thread EXCEPT ![t] = [todo |-> "report", id |-> j, awaited |-> {d},
                                          from |-> d, status |-> status]]
  /\ UNCHANGED <<job, target, ran, upset>>

\* _report: downloading, for a package with a file, then installing.
Progress(t, d, phase) ==
  /\ \/ /\ phase = "downloading" /\ agent[d].phase = "idle"
        /\ \A j \in agent[d].at : job[j].action = "install"
     \/ phase = "installing" /\ agent[d].phase \in {"idle", "downloading"}
  /\ Sends(t, d, phase)
  /\ agent' = [agent EXCEPT ![d].phase = phase]

Execute(d) ==
  /\ Free(d)
  /\ agent[d].phase = "installing"
  /\ agent' = [agent EXCEPT ![d].phase = "ran"]
  /\ ran' = [j \in Jobs |-> IF j \in agent[d].at /\ ran[j][d] < 2
                              THEN [ran[j] EXCEPT ![d] = @ + 1] ELSE ran[j]]
  /\ UNCHANGED <<job, target, thread, upset>>

\* The final report: failed at the platform gate, at the download or by the exit code, or a success.
Finish(t, d) ==
  /\ agent[d].at # {}
  /\ agent[d].phase # "installing"
  /\ \/ Sends(t, d, "failed")
     \/ agent[d].phase = "ran" /\ \E j \in agent[d].at :
          Sends(t, d, IF job[j].action = "install" THEN "success" ELSE "rolled_back")
  /\ agent' = [agent EXCEPT ![d].at = {}, ![d].phase = "idle"]

---------------------------------------------------------------------------
(* The faults *)

\* A report does not reach the service; the agent prints the error and goes on.
LoseReport(t) ==
  /\ thread[t].todo = "report" /\ Hits("lost", {thread[t].id})
  /\ thread' = [thread EXCEPT ![t] = Idle]
  /\ Upset({thread[t].id}, "lost")
  /\ UNCHANGED <<job, target, agent, ran>>

\* The agent stops waiting; the report is handled all the same.
GiveUp(t) ==
  /\ thread[t].awaited # {} /\ Hits("timeout", {thread[t].id})
  /\ thread' = [thread EXCEPT ![t].awaited = {}]
  /\ Upset({thread[t].id}, "timeout")
  /\ UNCHANGED <<job, target, agent, ran>>

\* The agent starts over, after GiveUp if it was waiting.
RestartAgent(d) ==
  /\ Free(d)
  /\ agent[d] # Resting /\ Hits("restart", agent[d].at \union agent[d].polled)
  /\ agent' = [agent EXCEPT ![d] = Resting]
  /\ Upset(agent[d].at \union agent[d].polled, "restart")
  /\ UNCHANGED <<job, target, thread, ran>>

Operators ==
  \/ \E j \in Jobs, devices \in SUBSET Devices, action \in {"install", "remove"} :
       CreateJob(j, devices, action)
  \/ \E t \in Threads, j \in Jobs : StartJob(t, j) \/ CancelJob(t, j)
  \/ \E t \in Threads, j, rb \in Jobs, wanted \in SUBSET Devices : CreateRollback(t, j, rb, wanted)

Handler(t) == ReportTarget(t) \/ Commit(t)

Working(d) ==
  \/ Poll(d)
  \/ Execute(d)
  \/ \E j \in Jobs : Begin(d, j)
  \/ \E t \in Threads : Finish(t, d) \/ \E phase \in {"downloading", "installing"} : Progress(t, d, phase)

Next ==
  \/ Operators
  \/ \E t \in Threads : Handler(t) \/ LoseReport(t) \/ GiveUp(t)
  \/ \E d \in Devices : Working(d) \/ RestartAgent(d)

Spec == Init /\ [][Next]_vars

\* A handler that runs ends, and an agent goes on with its loop: the service takes its
\* requests in the order of their arrival.
Fairness ==
  /\ \A t \in Threads : WF_vars(Handler(t))
  /\ \A d \in Devices : SF_vars(Working(d))

FairSpec == Spec /\ Fairness

---------------------------------------------------------------------------
(* Properties *)

Spared(j, faults) == upset[j] \intersect faults = {}

CountersMatch(j) ==
  job[j].total > 0 =>
    /\ job[j].total = In(target[j], TargetStatus \ {"none"})
    /\ job[j].success = In(target[j], {"success"})
    /\ job[j].failed = In(target[j], {"failed"})
    /\ job[j].pending = In(target[j], Unfinished)

\* Unless two of its handlers overlapped, a job that was counted since its creation shows
\* the numbers of its targets, whatever is lost or comes late, after a cancellation, a
\* restart of the agent or a rollback (_recompute_job_counts).
Counted == \A j \in Jobs : Spared(j, {"race"}) => CountersMatch(j)

\* The verdict of a job says how its targets ended: it is not given while one of them is
\* under way, and "failed" means that some failed and none succeeded.  Lost reports,
\* restarts of agents and rollbacks are not enough to break it.
VerdictHolds ==
  \A j \in Jobs :
    Spared(j, {"race", "timeout", "cancel"}) /\ job[j].status \in {"completed", "failed"} =>
      /\ In(target[j], Unfinished) = 0
      /\ job[j].status = "failed" <=> In(target[j], {"failed"}) > 0 /\ In(target[j], {"success"}) = 0

\* No package is run twice for one target although agents restart, jobs are cancelled and
\* handlers overlap, as long as the agent's reports arrive before it goes on:
\* pending_for_agent hands out pending targets only.
RunOnce ==
  \A j \in Jobs, d \in Devices : Spared(j, {"lost", "timeout"}) => ran[j][d] < 2

\* A job with targets comes to a verdict, and then all its targets have ended: the agent finds
\* each, runs it and reports.  Only the rollback of the rest of the job strands a target that
\* is still pending.  A job with faults is excepted; one without targets stays as it is.
JobEnds ==
  \A j \in Jobs : job[j].status = "queued" /\ In(target[j], {"none"}) < Cardinality(Devices) ~>
    \/ job[j].status \in {"completed", "failed"} /\ In(target[j], Unfinished) = 0
    \/ job[j].status = "rolled_back"
    \/ upset[j] # {}

\* "Aggregates (updated as targets report)" in the job model: once no handler is at work
\* the counters of a job that was counted are those of its targets.
AggregatesFollow ==
  (\A t \in Threads : thread[t] = Idle) => \A j \in Jobs : CountersMatch(j)

\* "Job cancelled", the event of cancel_job, and the job status "cancelled" of the model:
\* a job that cancel_job has just cancelled shows it.
CancelShows ==
  [][\A t \in Threads :
       thread[t].todo = "cancel" /\ thread'[t] = Idle => job'[thread[t].id].status = "cancelled"]_vars
=============================================================================
