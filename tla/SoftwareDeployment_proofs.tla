---------------------- MODULE SoftwareDeployment_proofs ----------------------
(***************************************************************************)
(* Theorems about SoftwareDeployment, for any jobs, finite set of devices, *)
(* number of handlers and faults.                                          *)
(***************************************************************************)
EXTENDS SoftwareDeployment, FiniteSetTheorems, TLAPS

---------------------------------------------------------------------------
(* Types *)

LEMMA InType ==
  ASSUME NEW targets, NEW statuses
  PROVE  /\ In(targets, statuses) \in 0..Cardinality(Devices)
         /\ In(targets, statuses) = 0 <=> \A d \in Devices : targets[d] \notin statuses
<1> DEFINE S == {d \in Devices : targets[d] \in statuses}
<1>1. IsFiniteSet(S) /\ Cardinality(S) <= Cardinality(Devices)
  BY FS_Subset, DevicesAssumption
<1>2. Cardinality(S) \in Nat /\ Cardinality(Devices) \in Nat
  BY <1>1, FS_CardinalityType, DevicesAssumption
<1>3. Cardinality(S) = 0 <=> S = {}
  BY <1>1, FS_EmptySet
<1> QED
  BY <1>1, <1>2, <1>3 DEF In

LEMMA RecomputedType ==
  ASSUME NEW s \in Loaded
  PROVE  /\ Recomputed(s) \in Loaded
         /\ Recomputed(s).target = s.target
         /\ Recomputed(s).job.action = s.job.action
         /\ Recomputed(s).job.total = In(s.target, TargetStatus \ {"none"})
         /\ Recomputed(s).job.success = In(s.target, {"success"})
         /\ Recomputed(s).job.failed = In(s.target, {"failed"})
         /\ Recomputed(s).job.pending = In(s.target, Unfinished)
         /\ Recomputed(s).job.status =
              IF In(s.target, TargetStatus \ {"none"}) > 0 /\ In(s.target, Unfinished) = 0
              THEN Verdict(In(s.target, {"success"}), In(s.target, {"failed"})) ELSE s.job.status
<1> DEFINE success == In(s.target, {"success"})
           failed  == In(s.target, {"failed"})
           pending == In(s.target, Unfinished)
           total   == In(s.target, TargetStatus \ {"none"})
           status  == IF total > 0 /\ pending = 0 THEN Verdict(success, failed) ELSE s.job.status
<1>1. /\ success \in 0..Cardinality(Devices) /\ failed \in 0..Cardinality(Devices)
      /\ pending \in 0..Cardinality(Devices) /\ total \in 0..Cardinality(Devices)
  BY InType
<1>2. s.job \in Job /\ s.target \in [Devices -> TargetStatus]
  BY DEF Loaded
<1>3. status \in JobStatus
  BY <1>2 DEF Verdict, JobStatus, Job
<1>4. Recomputed(s) = [s EXCEPT !.job = [s.job EXCEPT !.total = total, !.success = success, !.failed = failed,
                                                      !.pending = pending, !.status = status]]
  BY <1>2 DEF Recomputed, Loaded, Job
<1> HIDE DEF success, failed, pending, total, status
<1> DEFINE row == [s.job EXCEPT !.total = total, !.success = success, !.failed = failed, !.pending = pending, !.status = status]
<1>5. row \in Job
  BY <1>1, <1>2, <1>3 DEF Job
<1>6. /\ row.status = status /\ row.action = s.job.action /\ row.total = total /\ row.success = success
      /\ row.failed = failed /\ row.pending = pending
  BY <1>2 DEF Job
<1> HIDE DEF row
<1>7. [s EXCEPT !.job = row] \in Loaded /\ [s EXCEPT !.job = row].job = row /\ [s EXCEPT !.job = row].target = s.target
  BY <1>5 DEF Loaded
<1>8. Recomputed(s) = [s EXCEPT !.job = row]
  BY <1>4 DEF row
<1> QED
  BY <1>6, <1>7, <1>8 DEF success, failed, pending, total, status

LEMMA LoadedType == TypeOK => \A j \in Jobs : Load(j) \in Loaded /\ Load(j).job = job[j] /\ Load(j).target = target[j]
BY DEF TypeOK, Loaded, Load

\* What a report makes of a job.
Noted(s, d, status) == [s EXCEPT !.job.status = IF @ = "queued" THEN "running" ELSE @, !.target[d] = status]

LEMMA ReportedType ==
  ASSUME NEW s \in Loaded, NEW d \in Devices, NEW status \in TargetStatus
  PROVE  /\ Noted(s, d, status) \in Loaded
         /\ Reported(s, d, status) = Recomputed(Noted(s, d, status))
         /\ \A e \in Devices : Noted(s, d, status).target[e] = IF e = d THEN status ELSE s.target[e]
         /\ Noted(s, d, status).job.status = IF s.job.status = "queued" THEN "running" ELSE s.job.status
<1> DEFINE r == Noted(s, d, status)
<1>1. s.job \in Job /\ s.target \in [Devices -> TargetStatus]
  BY DEF Loaded
<1> DEFINE row == [s.job EXCEPT !.status = IF s.job.status = "queued" THEN "running" ELSE s.job.status]
<1>2. row \in Job /\ row.status = IF s.job.status = "queued" THEN "running" ELSE s.job.status
  BY <1>1 DEF Job, JobStatus
<1> DEFINE marks == [s.target EXCEPT ![d] = status]
<1>3. r = [s EXCEPT !.job = row, !.target = marks]
  BY DEF Loaded, Noted
<1>4. marks \in [Devices -> TargetStatus] /\ \A e \in Devices : marks[e] = IF e = d THEN status ELSE s.target[e]
  BY <1>1
<1> HIDE DEF row, marks
<1>5. [s EXCEPT !.job = row, !.target = marks] \in Loaded
  BY <1>2, <1>4 DEF Loaded
<1>6. [s EXCEPT !.job = row, !.target = marks].job = row /\ [s EXCEPT !.job = row, !.target = marks].target = marks
  BY DEF Loaded
<1> QED
  BY <1>2, <1>3, <1>4, <1>5, <1>6 DEF Reported, Noted

LEMMA SkippedType ==
  ASSUME NEW s \in Loaded
  PROVE  /\ Skipped(s) \in Loaded /\ Skipped(s).job.status = "cancelled"
         /\ \A d \in Devices : Skipped(s).target[d] = IF s.target[d] \in Unfinished THEN "skipped" ELSE s.target[d]
<1>1. s.job \in Job /\ s.target \in [Devices -> TargetStatus]
  BY DEF Loaded
<1>2. [s.job EXCEPT !.status = "cancelled"] \in Job /\ [s.job EXCEPT !.status = "cancelled"].status = "cancelled"
  BY <1>1 DEF Job, JobStatus
<1>3. [d \in Devices |-> IF s.target[d] \in Unfinished THEN "skipped" ELSE s.target[d]] \in [Devices -> TargetStatus]
  BY <1>1 DEF TargetStatus
<1> QED
  BY <1>2, <1>3 DEF Skipped, Loaded

LEMMA MergedType ==
  /\ \A now, was, new \in Job :
       Merged(now, was, new) \in Job /\ Merged(now, was, new).status = IF new.status = was.status THEN now.status ELSE new.status
  /\ \A now, new \in Job : Merged(now, now, new) = new
  /\ \A now, was, new \in [Devices -> TargetStatus] :
       /\ Merged(now, was, new) \in [Devices -> TargetStatus]
       /\ \A d \in Devices : Merged(now, was, new)[d] = IF new[d] = was[d] THEN now[d] ELSE new[d]
  /\ \A now, new \in [Devices -> TargetStatus] : Merged(now, now, new) = new
<1>1. ASSUME NEW now \in Job, NEW was \in Job, NEW new \in Job
      PROVE  Merged(now, was, new) \in Job /\ Merged(now, was, new).status = IF new.status = was.status THEN now.status ELSE new.status
  BY DEF Job, Merged
<1>2. ASSUME NEW now \in Job, NEW new \in Job PROVE Merged(now, now, new) = new
  BY DEF Job, Merged
<1>3. ASSUME NEW now \in [Devices -> TargetStatus], NEW was \in [Devices -> TargetStatus], NEW new \in [Devices -> TargetStatus]
      PROVE  /\ Merged(now, was, new) \in [Devices -> TargetStatus]
             /\ \A d \in Devices : Merged(now, was, new)[d] = IF new[d] = was[d] THEN now[d] ELSE new[d]
  BY DEF Merged
<1>4. ASSUME NEW now \in [Devices -> TargetStatus], NEW new \in [Devices -> TargetStatus] PROVE Merged(now, now, new) = new
  BY DEF Merged
<1> QED
  BY <1>1, <1>2, <1>3, <1>4

\* What a handler is about.
Report == [todo : {"report"}, id : Jobs, awaited : SUBSET Devices, from : Devices, status : TargetStatus]
Write  == [todo : {"write", "cancel"}, id : Jobs, awaited : SUBSET Devices, was : Loaded, new : Loaded,
           rb : SUBSET Jobs, picked : SUBSET Devices]

LEMMA WorkCases ==
  ASSUME NEW w \in Work
  PROVE  /\ w = Idle \/ w \in Report \/ w \in Write
         /\ w.todo = "report" <=> w \in Report
         /\ w.todo \in {"write", "cancel"} <=> w \in Write
         /\ w.todo = "idle" <=> w = Idle
         /\ w.awaited \subseteq Devices
BY DEF Work, Report, Write, Idle
LEMMA IdleType == Idle \in Work
BY DEF Work

\* A handler that reads a job and is to replace it.
LEMMA WritingType ==
  ASSUME TypeOK, NEW todo \in {"write", "cancel"}, NEW j \in Jobs, NEW awaited \in SUBSET Devices,
         NEW new \in Loaded, NEW rb \in SUBSET Jobs, NEW picked \in SUBSET Devices
  PROVE  Writing(todo, j, awaited, new, rb, picked) \in Work
<1>1. Load(j) \in Loaded
  BY LoadedType
<1>2. Writing(todo, j, awaited, new, rb, picked) \in Write
  BY <1>1 DEF Writing, Write
<1> QED
  BY <1>2 DEF Write, Work

\* StartJob's and CreateRollback's write of a status alone.
LEMMA StatusType ==
  ASSUME NEW s \in Loaded, NEW status \in JobStatus
  PROVE  /\ [s EXCEPT !.job.status = status] \in Loaded
         /\ [s EXCEPT !.job.status = status].target = s.target
         /\ [s EXCEPT !.job.status = status].job \in Job
         /\ [s EXCEPT !.job.status = status].job.status = status
         /\ [s EXCEPT !.job.status = status].job.total = s.job.total
         /\ [s EXCEPT !.job.status = status].job.success = s.job.success
         /\ [s EXCEPT !.job.status = status].job.failed = s.job.failed
         /\ [s EXCEPT !.job.status = status].job.pending = s.job.pending
<1> DEFINE row == [s.job EXCEPT !.status = status]
<1>1. s.job \in Job
  BY DEF Loaded
<1>2. /\ row \in Job /\ row.status = status /\ row.total = s.job.total /\ row.success = s.job.success
      /\ row.failed = s.job.failed /\ row.pending = s.job.pending
  BY <1>1 DEF Job
<1>3. [s EXCEPT !.job.status = status] = [s EXCEPT !.job = row]
  BY DEF Loaded
<1> HIDE DEF row
<1>4. [s EXCEPT !.job = row] \in Loaded /\ [s EXCEPT !.job = row].job = row /\ [s EXCEPT !.job = row].target = s.target
  BY <1>2 DEF Loaded
<1> QED
  BY <1>2, <1>3, <1>4

LEMMA NewJobs ==
  /\ Absent \in Job
  /\ \A a \in {"install", "remove"} : [Absent EXCEPT !.status = "queued", !.action = a] \in Job
  /\ \A a \in {"install", "remove"} : [Absent EXCEPT !.status = "queued", !.action = a].status = "queued"
  /\ \A a \in {"install", "remove"} : [Absent EXCEPT !.status = "queued", !.action = a].total = 0
  /\ \A picked : [d \in Devices |-> IF d \in picked THEN "pending" ELSE "none"] \in [Devices -> TargetStatus]
<1>1. 0 \in 0..Cardinality(Devices)
  BY FS_CardinalityType, DevicesAssumption
<1>2. Absent \in Job
  BY <1>1 DEF Absent, Job, JobStatus
<1>3. ASSUME NEW a \in {"install", "remove"}
      PROVE  /\ [Absent EXCEPT !.status = "queued", !.action = a] \in Job
             /\ [Absent EXCEPT !.status = "queued", !.action = a].status = "queued"
             /\ [Absent EXCEPT !.status = "queued", !.action = a].total = 0
  BY <1>2 DEF Job, JobStatus, Absent
<1>4. ASSUME NEW picked PROVE [d \in Devices |-> IF d \in picked THEN "pending" ELSE "none"] \in [Devices -> TargetStatus]
  BY DEF TargetStatus, Unfinished
<1> QED
  BY <1>2, <1>3, <1>4

LEMMA InitType == Init => TypeOK
<1> SUFFICES ASSUME Init PROVE TypeOK
  OBVIOUS
<1>1. job \in [Jobs -> Job]
  BY NewJobs DEF Init
<1>2. target \in [Jobs -> [Devices -> TargetStatus]]
  BY DEF Init, TargetStatus
<1>3. thread \in [Threads -> Work]
  BY IdleType DEF Init
<1>4. agent \in [Devices -> Agent]
  BY DEF Init, Resting, Agent
<1>5. ran \in [Jobs -> [Devices -> 0..2]] /\ upset \in [Jobs -> SUBSET (Faults \union {"race"})]
  BY DEF Init
<1> QED
  BY <1>1, <1>2, <1>3, <1>4, <1>5 DEF TypeOK

\* What a commit makes of the rows.
LEMMA CommitType ==
  ASSUME TypeOK, NEW t \in Threads, Commit(t)
  PROVE  /\ job' \in [Jobs -> Job] /\ target' \in [Jobs -> [Devices -> TargetStatus]]
         /\ thread[t] \in Write
         /\ thread' = [thread EXCEPT ![t] = Idle]
         /\ UNCHANGED <<agent, ran>>
         /\ \A j \in Jobs :
              LET w == thread[t] IN
              /\ job'[j] = IF j = w.id THEN Merged(job[j], w.was.job, w.new.job)
                           ELSE IF j \in w.rb THEN [Absent EXCEPT !.status = "queued", !.action = "remove"] ELSE job[j]
              /\ target'[j] = IF j = w.id THEN Merged(target[j], w.was.target, w.new.target)
                              ELSE IF j \in w.rb THEN [d \in Devices |-> IF d \in w.picked THEN "pending" ELSE "none"]
                              ELSE target[j]
              /\ upset'[j] = IF j = w.id /\ w.was # Load(j) THEN upset[j] \union {"race"} ELSE upset[j]
<1> DEFINE w == thread[t]
<1>1. w \in Write
  BY WorkCases DEF TypeOK, Commit
<1>2. w.was.job \in Job /\ w.new.job \in Job /\ w.was.target \in [Devices -> TargetStatus] /\ w.new.target \in [Devices -> TargetStatus]
  BY <1>1 DEF Write, Loaded
<1> DEFINE row(j) == IF j = w.id THEN Merged(job[j], w.was.job, w.new.job)
                     ELSE IF j \in w.rb THEN [Absent EXCEPT !.status = "queued", !.action = "remove"] ELSE job[j]
           marks(j) == IF j = w.id THEN Merged(target[j], w.was.target, w.new.target)
                       ELSE IF j \in w.rb THEN [d \in Devices |-> IF d \in w.picked THEN "pending" ELSE "none"]
                       ELSE target[j]
<1>3. \A j \in Jobs : row(j) \in Job /\ marks(j) \in [Devices -> TargetStatus]
  <2> TAKE j \in Jobs
  <2>1. job[j] \in Job /\ target[j] \in [Devices -> TargetStatus]
    BY DEF TypeOK
  <2> DEFINE r == [Absent EXCEPT !.status = "queued", !.action = "remove"]
             m == [d \in Devices |-> IF d \in w.picked THEN "pending" ELSE "none"]
  <2>2. r \in Job /\ m \in [Devices -> TargetStatus]
    BY NewJobs
  <2>3. Merged(job[j], w.was.job, w.new.job) \in Job /\ Merged(target[j], w.was.target, w.new.target) \in [Devices -> TargetStatus]
    BY <1>2, <2>1, MergedType
  <2> HIDE DEF r, m
  <2>4. row(j) = (IF j = w.id THEN Merged(job[j], w.was.job, w.new.job) ELSE IF j \in w.rb THEN r ELSE job[j])
        /\ marks(j) = (IF j = w.id THEN Merged(target[j], w.was.target, w.new.target) ELSE IF j \in w.rb THEN m ELSE target[j])
    BY DEF r, m
  <2> HIDE DEF row, marks
  <2> QED
    BY <2>1, <2>2, <2>3, <2>4
<1>4. job' = [j \in Jobs |-> row(j)] /\ target' = [j \in Jobs |-> marks(j)]
  BY DEF Commit
<1>5. \A j \in Jobs : upset'[j] = IF j = w.id /\ w.was # Load(j) THEN upset[j] \union {"race"} ELSE upset[j]
  BY DEF Commit, Upset, TypeOK
<1>6. \A j \in Jobs : job'[j] = row(j) /\ target'[j] = marks(j)
  BY <1>4
<1> HIDE DEF row, marks
<1>7. job' \in [Jobs -> Job] /\ target' \in [Jobs -> [Devices -> TargetStatus]]
  BY <1>3, <1>4
<1>8. thread' = [thread EXCEPT ![t] = Idle] /\ UNCHANGED <<agent, ran>>
  BY DEF Commit
<1> QED
  BY <1>1, <1>5, <1>6, <1>7, <1>8 DEF row, marks
LEMMA UpsetType ==
  ASSUME TypeOK, NEW jobs, NEW fault \in Faults \union {"race"}, Upset(jobs, fault)
  PROVE  /\ upset' \in [Jobs -> SUBSET (Faults \union {"race"})]
         /\ \A j \in Jobs : upset'[j] = IF j \in jobs THEN upset[j] \union {fault} ELSE upset[j]
<1>1. \A j \in Jobs : upset[j] \in SUBSET (Faults \union {"race"})
  BY DEF TypeOK
<1> QED
  BY <1>1 DEF Upset

\* An agent sends a report about the target at hand.
LEMMA SendsType ==
  ASSUME TypeOK, NEW t \in Threads, NEW d \in Devices, NEW status \in TargetStatus, Sends(t, d, status)
  PROVE  \E j \in agent[d].at :
           LET r == [todo |-> "report", id |-> j, awaited |-> {d}, from |-> d, status |-> status] IN
           /\ j \in Jobs /\ r \in Report /\ thread' = [thread EXCEPT ![t] = r] /\ thread' \in [Threads -> Work]
           /\ Free(d) /\ thread[t] = Idle /\ UNCHANGED <<job, target, ran, upset>>
<1> PICK j \in agent[d].at : thread' = [thread EXCEPT ![t] = [todo |-> "report", id |-> j, awaited |-> {d}, from |-> d, status |-> status]]
  BY DEF Sends
<1> DEFINE r == [todo |-> "report", id |-> j, awaited |-> {d}, from |-> d, status |-> status]
<1>1. agent[d] \in Agent
  BY DEF TypeOK
<1>2. j \in Jobs
  BY <1>1 DEF Agent
<1>3. r \in Report
  BY <1>2 DEF Report
<1>4. r \in Work
  BY <1>3 DEF Report, Work
<1> HIDE DEF r
<1>5. thread' = [thread EXCEPT ![t] = r]
  BY DEF r
<1>6. thread' \in [Threads -> Work]
  BY <1>4, <1>5 DEF TypeOK
<1> QED
  BY <1>2, <1>3, <1>5, <1>6 DEF Sends, r

LEMMA OperatorsType ==
  ASSUME TypeOK, Operators
  PROVE  TypeOK'
<1>1. ASSUME NEW j \in Jobs, NEW devices \in SUBSET Devices, NEW a \in {"install", "remove"}, CreateJob(j, devices, a)
      PROVE  TypeOK'
  <2> DEFINE r == [Absent EXCEPT !.status = "queued", !.action = a]
             m == [d \in Devices |-> IF d \in devices THEN "pending" ELSE "none"]
  <2>1. r \in Job /\ m \in [Devices -> TargetStatus]
    BY NewJobs
  <2>2. job' = [job EXCEPT ![j] = r] /\ target' = [target EXCEPT ![j] = m] /\ UNCHANGED <<thread, agent, ran, upset>>
    BY <1>1 DEF CreateJob
  <2> HIDE DEF r, m
  <2> QED
    BY <2>1, <2>2 DEF TypeOK
<1>2. ASSUME NEW t \in Threads, NEW j \in Jobs, StartJob(t, j)
      PROVE  TypeOK'
  <2> DEFINE w == Writing("write", j, {}, [Load(j) EXCEPT !.job.status = "running"], {}, {})
  <2>1. w \in Work
    <3>1. [Load(j) EXCEPT !.job.status = "running"] \in Loaded
      BY LoadedType, StatusType DEF JobStatus
    <3> QED
      BY <3>1, WritingType
  <2>2. thread' = [thread EXCEPT ![t] = w] /\ UNCHANGED <<job, target, agent, ran, upset>>
    BY <1>2 DEF StartJob
  <2> HIDE DEF w
  <2> QED
    BY <2>1, <2>2 DEF TypeOK
<1>3. ASSUME NEW t \in Threads, NEW j \in Jobs, CancelJob(t, j)
      PROVE  TypeOK'
  <2> DEFINE w == Writing("cancel", j, {}, Recomputed(Skipped(Load(j))), {}, {})
  <2>1. w \in Work
    <3>1. Recomputed(Skipped(Load(j))) \in Loaded
      BY LoadedType, SkippedType, RecomputedType
    <3> QED
      BY <3>1, WritingType
  <2>2. thread' = [thread EXCEPT ![t] = w] /\ UNCHANGED <<job, target, agent, ran>>
    BY <1>3 DEF CancelJob
  <2>3. upset' \in [Jobs -> SUBSET (Faults \union {"race"})]
    BY <1>3, UpsetType DEF CancelJob, Hits
  <2> HIDE DEF w
  <2> QED
    BY <2>1, <2>2, <2>3 DEF TypeOK
<1>4. ASSUME NEW t \in Threads, NEW j \in Jobs, NEW rb \in Jobs, NEW wanted \in SUBSET Devices, CreateRollback(t, j, rb, wanted)
      PROVE  TypeOK'
  <2> DEFINE all == {d \in Devices : target[j][d] = "success"}
             candidates == IF wanted = {} THEN all ELSE all \intersect wanted
             new == IF wanted = {} THEN [Load(j) EXCEPT !.job.status = "rolled_back"] ELSE Load(j)
             w == Writing("write", j, {}, new, {rb}, candidates)
  <2>1. new \in Loaded
    BY LoadedType, StatusType DEF JobStatus
  <2>2. candidates \in SUBSET Devices
    OBVIOUS
  <2> HIDE DEF candidates, new
  <2>3. w \in Work
    BY <2>1, <2>2, WritingType
  <2>4. thread' = [thread EXCEPT ![t] = w] /\ UNCHANGED <<job, target, agent, ran, upset>>
    BY <1>4 DEF CreateRollback, candidates, new
  <2> HIDE DEF w
  <2> QED
    BY <2>3, <2>4 DEF TypeOK
<1> QED
  BY <1>1, <1>2, <1>3, <1>4 DEF Operators

LEMMA ReportTargetType ==
  ASSUME TypeOK, NEW t \in Threads, ReportTarget(t)
  PROVE  /\ thread[t] \in Report
         /\ thread' = [thread EXCEPT ![t] = Writing("write", thread[t].id, thread[t].awaited,
                         Reported(Load(thread[t].id), thread[t].from, thread[t].status), {}, {})]
         /\ thread'[t] \in Write
         /\ thread' \in [Threads -> Work]
         /\ UNCHANGED <<job, target, agent, ran, upset>>
<1> DEFINE w == thread[t]
           new == Reported(Load(w.id), w.from, w.status)
           x == Writing("write", w.id, w.awaited, new, {}, {})
<1>1. w \in Report
  BY WorkCases DEF TypeOK, ReportTarget
<1>2. w.id \in Jobs /\ w.awaited \in SUBSET Devices /\ w.from \in Devices /\ w.status \in TargetStatus
  BY <1>1 DEF Report
<1>3. new \in Loaded
  <2>1. Load(w.id) \in Loaded
    BY <1>2, LoadedType
  <2>2. Noted(Load(w.id), w.from, w.status) \in Loaded /\ new = Recomputed(Noted(Load(w.id), w.from, w.status))
    BY <1>2, <2>1, ReportedType, Zenon
  <2> QED
    BY <2>2, RecomputedType
<1>4. thread' = [thread EXCEPT ![t] = x] /\ UNCHANGED <<job, target, agent, ran, upset>>
  BY DEF ReportTarget
<1> HIDE DEF new
<1>5. x \in Work /\ x.todo = "write"
  BY <1>2, <1>3, WritingType DEF Writing
<1>6. x \in Write
  BY <1>5, WorkCases
<1> HIDE DEF x
<1> QED
  BY <1>1, <1>4, <1>5, <1>6 DEF TypeOK, x, new

LEMMA WorkingType ==
  ASSUME TypeOK, NEW d \in Devices, Working(d)
  PROVE  TypeOK'
<1>0. agent[d] \in Agent
  BY DEF TypeOK
<1>1. CASE Poll(d)
  <2> DEFINE l == {j \in Jobs : Delivers(j, d)}
  <2>1. [agent[d] EXCEPT !.polled = l] \in Agent
    BY <1>0 DEF Agent
  <2>2. agent' = [agent EXCEPT ![d] = [agent[d] EXCEPT !.polled = l]] /\ UNCHANGED <<job, target, thread, ran, upset>>
    BY <1>1 DEF Poll
  <2> QED
    BY <2>1, <2>2 DEF TypeOK
<1>2. CASE Execute(d)
  <2>1. [agent[d] EXCEPT !.phase = "ran"] \in Agent
    BY <1>0 DEF Agent
  <2>2. agent' = [agent EXCEPT ![d] = [agent[d] EXCEPT !.phase = "ran"]] /\ UNCHANGED <<job, target, thread, upset>>
    BY <1>2 DEF Execute
  <2>3. ran' \in [Jobs -> [Devices -> 0..2]]
    <3>1. \A j \in Jobs : (IF j \in agent[d].at /\ ran[j][d] < 2 THEN [ran[j] EXCEPT ![d] = @ + 1] ELSE ran[j]) \in [Devices -> 0..2]
      BY DEF TypeOK
    <3> QED
      BY <1>2, <3>1 DEF Execute
  <2> QED
    BY <2>1, <2>2, <2>3 DEF TypeOK
<1>3. ASSUME NEW j \in Jobs, Begin(d, j) PROVE TypeOK'
  <2>1. [agent[d] EXCEPT !.polled = agent[d].polled \ {j}, !.at = {j}] \in Agent
    BY <1>0 DEF Agent
  <2>2. agent' = [agent EXCEPT ![d] = [agent[d] EXCEPT !.polled = agent[d].polled \ {j}, !.at = {j}]] /\ UNCHANGED <<job, target, thread, ran, upset>>
    BY <1>3 DEF Begin
  <2> QED
    BY <2>1, <2>2 DEF TypeOK
<1>4. ASSUME NEW t \in Threads, NEW phase \in {"downloading", "installing"}, Progress(t, d, phase) PROVE TypeOK'
  <2>1. [agent[d] EXCEPT !.phase = phase] \in Agent
    BY <1>0 DEF Agent
  <2>2. agent' = [agent EXCEPT ![d] = [agent[d] EXCEPT !.phase = phase]]
    BY <1>4 DEF Progress
  <2>3. thread' \in [Threads -> Work] /\ UNCHANGED <<job, target, ran, upset>>
    BY <1>4, SendsType DEF Progress, TargetStatus, Unfinished
  <2> QED
    BY <2>1, <2>2, <2>3 DEF TypeOK
<1>5. ASSUME NEW t \in Threads, Finish(t, d) PROVE TypeOK'
  <2>1. [agent[d] EXCEPT !.at = {}, !.phase = "idle"] \in Agent
    BY <1>0 DEF Agent
  <2>2. agent' = [agent EXCEPT ![d] = [agent[d] EXCEPT !.at = {}, !.phase = "idle"]]
    BY <1>5 DEF Finish
  <2>3. thread' \in [Threads -> Work] /\ UNCHANGED <<job, target, ran, upset>>
    <3>1. \E status \in {"failed", "success", "rolled_back"} : Sends(t, d, status)
      BY <1>5 DEF Finish
    <3> QED
      BY <3>1, SendsType DEF TargetStatus
  <2> QED
    BY <2>1, <2>2, <2>3 DEF TypeOK
<1> QED
  BY <1>1, <1>2, <1>3, <1>4, <1>5 DEF Working

LEMMA TypeKeeps ==
  ASSUME TypeOK, [Next]_vars
  PROVE  TypeOK'
<1>1. CASE UNCHANGED vars
  BY <1>1 DEF vars, TypeOK
<1>2. ASSUME NEW t \in Threads, Handler(t) PROVE TypeOK'
  <2>1. CASE ReportTarget(t)
    BY <2>1, ReportTargetType DEF TypeOK
  <2>2. CASE Commit(t)
    <3>1. upset' \in [Jobs -> SUBSET (Faults \union {"race"})]
      BY <2>2, UpsetType DEF Commit
    <3>2. thread' \in [Threads -> Work]
      BY <2>2, CommitType, IdleType DEF TypeOK
    <3> QED
      BY <2>2, <3>1, <3>2, CommitType DEF TypeOK
  <2> QED
    BY <1>2, <2>1, <2>2 DEF Handler
<1>3. ASSUME NEW t \in Threads, LoseReport(t) PROVE TypeOK'
  <2>1. upset' \in [Jobs -> SUBSET (Faults \union {"race"})]
    BY <1>3, UpsetType DEF LoseReport, Hits
  <2> QED
    BY <1>3, <2>1, IdleType DEF LoseReport, TypeOK
<1>4. ASSUME NEW t \in Threads, GiveUp(t) PROVE TypeOK'
  <2>1. upset' \in [Jobs -> SUBSET (Faults \union {"race"})]
    BY <1>4, UpsetType DEF GiveUp, Hits
  <2>2. [thread[t] EXCEPT !.awaited = {}] \in Work
    <3>1. CASE thread[t] \in Report
      BY <3>1 DEF Report, Work
    <3>2. CASE thread[t] \in Write
      BY <3>2 DEF Write, Work
    <3>3. thread[t] # Idle /\ thread[t] \in Work
      BY <1>4 DEF GiveUp, Idle, TypeOK
    <3> QED
      BY <3>1, <3>2, <3>3, WorkCases
  <2>3. thread' = [thread EXCEPT ![t] = [thread[t] EXCEPT !.awaited = {}]] /\ UNCHANGED <<job, target, agent, ran>>
    BY <1>4 DEF GiveUp
  <2> QED
    BY <2>1, <2>2, <2>3 DEF TypeOK
<1>5. ASSUME NEW d \in Devices, RestartAgent(d) PROVE TypeOK'
  <2>1. upset' \in [Jobs -> SUBSET (Faults \union {"race"})]
    BY <1>5, UpsetType DEF RestartAgent, Hits
  <2>2. Resting \in Agent
    BY DEF Resting, Agent
  <2> QED
    BY <1>5, <2>1, <2>2 DEF RestartAgent, TypeOK
<1> QED
  BY <1>1, <1>2, <1>3, <1>4, <1>5, OperatorsType, WorkingType DEF Next

\* Every state is well typed.
THEOREM TypeCorrect == Spec => []TypeOK
<1> QED
  BY InitType, TypeKeeps, PTL DEF Spec
---------------------------------------------------------------------------
(* The counters *)

Writes(t) == thread[t].todo \in {"write", "cancel"}

\* A loaded job shows the numbers of its targets, if it was counted.
Matches(s) ==
  s.job.total > 0 =>
    /\ s.job.total = In(s.target, TargetStatus \ {"none"})
    /\ s.job.success = In(s.target, {"success"})
    /\ s.job.failed = In(s.target, {"failed"})
    /\ s.job.pending = In(s.target, Unfinished)

\* A handler that read such a job writes one.
CountInv ==
  /\ \A j \in Jobs : Spared(j, {"race"}) => Matches(Load(j))
  /\ \A t \in Threads : Writes(t) => (Matches(thread[t].was) => Matches(thread[t].new))

\* What thread t does with x; the others go on.
LEMMA OneThread ==
  ASSUME TypeOK, NEW t \in Threads, NEW x, thread' = [thread EXCEPT ![t] = x]
  PROVE  \A u \in Threads : thread'[u] = IF u = t THEN x ELSE thread[u]
BY DEF TypeOK

\* A status alone does not count.
LEMMA StatusMatches ==
  ASSUME TypeOK, NEW j \in Jobs, NEW status \in JobStatus
  PROVE  Matches(Load(j)) => Matches([Load(j) EXCEPT !.job.status = status])
<1> DEFINE s == Load(j)
           r == [s EXCEPT !.job.status = status]
<1>1. s \in Loaded
  BY LoadedType
<1> HIDE DEF s
<1>2. /\ r.target = s.target /\ r.job.total = s.job.total /\ r.job.success = s.job.success
      /\ r.job.failed = s.job.failed /\ r.job.pending = s.job.pending
  BY <1>1, StatusType
<1> HIDE DEF r
<1>3. Matches(s) => Matches(r)
  BY <1>2 DEF Matches
<1> QED
  BY <1>3 DEF s, r

LEMMA MergedLoad ==
  ASSUME TypeOK, NEW j \in Jobs, NEW new \in Loaded
  PROVE  Merged(job[j], Load(j).job, new.job) = new.job /\ Merged(target[j], Load(j).target, new.target) = new.target
<1>1. Load(j).job = job[j] /\ Load(j).target = target[j] /\ job[j] \in Job /\ target[j] \in [Devices -> TargetStatus]
      /\ new.job \in Job /\ new.target \in [Devices -> TargetStatus]
  BY LoadedType DEF TypeOK, Loaded
<1>2. Merged(job[j], job[j], new.job) = new.job /\ Merged(target[j], target[j], new.target) = new.target
  BY <1>1, MergedType
<1> QED
  BY <1>1, <1>2

LEMMA RecomputedMatches ==
  ASSUME NEW s \in Loaded
  PROVE  Matches(Recomputed(s))
BY RecomputedType DEF Matches

\* A job that a step leaves alone.
LEMMA CountSame ==
  ASSUME NEW j \in Jobs, TypeOK, TypeOK', job'[j] = job[j], target'[j] = target[j], Matches(Load(j))
  PROVE  Matches(Load(j))'
<1>1. Load(j)' = Load(j)
  BY DEF Load
<1> QED
  BY <1>1 DEF Matches, In

LEMMA CountKeeps ==
  ASSUME TypeOK, CountInv, [Next]_vars
  PROVE  CountInv'
<1>0. TypeOK'
  BY TypeKeeps
<1> DEFINE Rows == \A j \in Jobs : Spared(j, {"race"}) => Matches(Load(j))
           Work_ == \A t \in Threads : Writes(t) => (Matches(thread[t].was) => Matches(thread[t].new))
<1>r. ASSUME UNCHANGED <<job, target>>, \A j \in Jobs : upset[j] \subseteq upset'[j] PROVE Rows'
  <2> SUFFICES ASSUME NEW j \in Jobs, Spared(j, {"race"})' PROVE Matches(Load(j))'
    OBVIOUS
  <2>1. Spared(j, {"race"})
    BY <1>r DEF Spared
  <2>2. job'[j] = job[j] /\ target'[j] = target[j]
    BY <1>r
  <2> QED
    BY <1>0, <2>1, <2>2, CountSame DEF CountInv
<1>w. ASSUME NEW t \in Threads, NEW x, thread' = [thread EXCEPT ![t] = x],
             x.todo \in {"write", "cancel"} => (Matches(x.was) => Matches(x.new))
      PROVE  Work_'
  <2>1. \A u \in Threads : thread'[u] = IF u = t THEN x ELSE thread[u]
    BY <1>w, OneThread
  <2> SUFFICES ASSUME NEW u \in Threads, thread'[u].todo \in {"write", "cancel"}, Matches(thread'[u].was)
               PROVE  Matches(thread'[u].new)
    BY DEF Writes, Matches, In
  <2>2. CASE u = t
    <3>1. thread'[u] = x
      BY <2>1, <2>2
    <3> QED
      BY <1>w, <3>1
  <2>3. CASE u # t
    <3>1. thread'[u] = thread[u]
      BY <2>1, <2>3
    <3> QED
      BY <3>1 DEF CountInv, Writes
  <2> QED
    BY <2>2, <2>3
<1>u. ASSUME UNCHANGED thread PROVE Work_'
  <2> SUFFICES ASSUME NEW u \in Threads, thread'[u].todo \in {"write", "cancel"}, Matches(thread'[u].was)
               PROVE  Matches(thread'[u].new)
    BY DEF Writes, Matches, In
  <2> QED
    BY <1>u DEF CountInv, Writes
<1>q. UNCHANGED upset => \A j \in Jobs : upset[j] \subseteq upset'[j]
  OBVIOUS
<1>f. ASSUME NEW jobs, NEW fault \in Faults \union {"race"}, Upset(jobs, fault) PROVE \A j \in Jobs : upset[j] \subseteq upset'[j]
  <2>1. \A j \in Jobs : upset'[j] = IF j \in jobs THEN upset[j] \union {fault} ELSE upset[j]
    BY <1>f, UpsetType
  <2> QED
    BY <2>1
<1>h. Rows' /\ Work_' => CountInv'
  BY DEF CountInv
<1> HIDE DEF Rows, Work_
<1>1. CASE UNCHANGED vars
  BY <1>1, <1>r, <1>u, <1>q, <1>h DEF vars
<1>2. ASSUME NEW j \in Jobs, NEW devices \in SUBSET Devices, NEW a \in {"install", "remove"}, CreateJob(j, devices, a)
      PROVE  CountInv'
  <2>1. Rows'
    <3> SUFFICES ASSUME NEW k \in Jobs, Spared(k, {"race"})' PROVE Matches(Load(k))'
      BY DEF Rows
    <3>1. Spared(k, {"race"})
      BY <1>2 DEF CreateJob, Spared
    <3>2. CASE k = j
      <4>1. job'[k].total = 0
        BY <1>2, <3>2, NewJobs DEF CreateJob, TypeOK
      <4> QED
        BY <4>1 DEF Matches, Load
    <3>3. CASE k # j
      <4>1. job'[k] = job[k] /\ target'[k] = target[k]
        BY <1>2, <3>3 DEF CreateJob, TypeOK
      <4> QED
        BY <1>0, <3>1, <4>1, CountSame DEF CountInv
    <3> QED
      BY <3>2, <3>3
  <2> QED
    BY <1>2, <2>1, <1>u, <1>h DEF CreateJob
<1>3. ASSUME NEW t \in Threads, NEW j \in Jobs, StartJob(t, j) PROVE CountInv'
  <2> DEFINE new == [Load(j) EXCEPT !.job.status = "running"]
             x == Writing("write", j, {}, new, {}, {})
  <2>1. Matches(Load(j)) => Matches(new)
    BY StatusMatches DEF JobStatus
  <2>2. thread' = [thread EXCEPT ![t] = x]
    BY <1>3 DEF StartJob
  <2> HIDE DEF new
  <2>a. x.was = Load(j) /\ x.new = new
    BY DEF Writing
  <2> HIDE DEF x
  <2>3. Work_'
    BY <1>w, <2>1, <2>2, <2>a
  <2> QED
    BY <1>3, <1>r, <1>q, <1>h, <2>3 DEF StartJob
<1>4. ASSUME NEW t \in Threads, NEW j \in Jobs, CancelJob(t, j) PROVE CountInv'
  <2> DEFINE new == Recomputed(Skipped(Load(j)))
             x == Writing("cancel", j, {}, new, {}, {})
  <2>1. Matches(new)
    BY LoadedType, SkippedType, RecomputedMatches
  <2>2. thread' = [thread EXCEPT ![t] = x]
    BY <1>4 DEF CancelJob
  <2> HIDE DEF new
  <2>a. x.new = new
    BY DEF Writing
  <2> HIDE DEF x
  <2>3. Work_'
    BY <1>w, <2>1, <2>2, <2>a
  <2> QED
    BY <1>4, <1>r, <1>f, <1>h, <2>3 DEF CancelJob, Hits
<1>5. ASSUME NEW t \in Threads, NEW j \in Jobs, NEW rb \in Jobs, NEW wanted \in SUBSET Devices, CreateRollback(t, j, rb, wanted)
      PROVE  CountInv'
  <2> DEFINE new == IF wanted = {} THEN [Load(j) EXCEPT !.job.status = "rolled_back"] ELSE Load(j)
             all == {d \in Devices : target[j][d] = "success"}
             candidates == IF wanted = {} THEN all ELSE all \intersect wanted
             x == Writing("write", j, {}, new, {rb}, candidates)
  <2>1. Matches(Load(j)) => Matches(new)
    BY StatusMatches DEF JobStatus
  <2>2. thread' = [thread EXCEPT ![t] = x]
    BY <1>5 DEF CreateRollback
  <2> HIDE DEF new, candidates
  <2>a. x.was = Load(j) /\ x.new = new
    BY DEF Writing
  <2> HIDE DEF x
  <2>3. Work_'
    BY <1>w, <2>1, <2>2, <2>a
  <2> QED
    BY <1>5, <1>r, <1>q, <1>h, <2>3 DEF CreateRollback
<1>6. ASSUME NEW t \in Threads, ReportTarget(t) PROVE CountInv'
  <2> DEFINE w == thread[t]
             new == Reported(Load(w.id), w.from, w.status)
             x == Writing("write", w.id, w.awaited, new, {}, {})
  <2>1. w.id \in Jobs /\ w.from \in Devices /\ w.status \in TargetStatus
    BY <1>6, ReportTargetType DEF Report
  <2>2. Noted(Load(w.id), w.from, w.status) \in Loaded /\ new = Recomputed(Noted(Load(w.id), w.from, w.status))
    <3>1. Load(w.id) \in Loaded
      BY <2>1, LoadedType
    <3> QED
      BY <2>1, <3>1, ReportedType, Zenon
  <2>3. Matches(new)
    BY <2>2, RecomputedMatches
  <2>4. thread' = [thread EXCEPT ![t] = x]
    BY <1>6, ReportTargetType
  <2> HIDE DEF new
  <2>a. x.new = new
    BY DEF Writing
  <2> HIDE DEF x
  <2>5. Work_'
    BY <1>w, <2>3, <2>4, <2>a
  <2> QED
    BY <1>6, <1>r, <1>q, <1>h, <2>5 DEF ReportTarget
<1>7. ASSUME NEW t \in Threads, Commit(t) PROVE CountInv'
  <2> DEFINE w == thread[t]
  <2>0. w \in Write /\ w.id \in Jobs /\ w.new \in Loaded /\ Writes(t)
    BY <1>7, CommitType DEF Write, Commit, Writes
  <2>1. Rows'
    <3> SUFFICES ASSUME NEW k \in Jobs, Spared(k, {"race"})' PROVE Matches(Load(k))'
      BY DEF Rows
    <3>1. upset'[k] = IF k = w.id /\ w.was # Load(k) THEN upset[k] \union {"race"} ELSE upset[k]
      BY <1>7, CommitType
    <3>2. Spared(k, {"race"}) /\ (k = w.id => w.was = Load(k))
      BY <3>1 DEF Spared
    <3>3. CASE k = w.id
      <4>1. job'[k] = w.new.job /\ target'[k] = w.new.target
        <5>1. /\ job'[k] = Merged(job[k], w.was.job, w.new.job)
              /\ target'[k] = Merged(target[k], w.was.target, w.new.target)
          BY <1>7, <3>3, CommitType
        <5>2. w.was = Load(k)
          BY <3>2, <3>3
        <5> QED
          BY <2>0, <5>1, <5>2, MergedLoad
      <4>2. Matches(w.new)
        BY <2>0, <3>2, <3>3 DEF CountInv
      <4> QED
        BY <4>1, <4>2 DEF Load, Matches, In
    <3>4. CASE k # w.id /\ k \in w.rb
      <4>1. job'[k].total = 0
        BY <1>7, <3>4, CommitType, NewJobs
      <4> QED
        BY <4>1 DEF Matches, Load
    <3>5. CASE k # w.id /\ k \notin w.rb
      <4>1. job'[k] = job[k] /\ target'[k] = target[k]
        BY <1>7, <3>5, CommitType
      <4> QED
        BY <1>0, <3>2, <4>1, CountSame DEF CountInv
    <3> QED
      BY <3>3, <3>4, <3>5
  <2>2. Work_'
    <3>1. thread' = [thread EXCEPT ![t] = Idle]
      BY <1>7, CommitType
    <3>2. Idle.todo \notin {"write", "cancel"}
      BY DEF Idle
    <3> QED
      BY <1>w, <3>1, <3>2
  <2> QED
    BY <2>1, <2>2, <1>h
<1>8. ASSUME NEW t \in Threads, LoseReport(t) \/ GiveUp(t) PROVE CountInv'
  <2>1. UNCHANGED <<job, target>> /\ \A j \in Jobs : upset[j] \subseteq upset'[j]
    BY <1>8, <1>f DEF LoseReport, GiveUp, Hits
  <2>2. CASE LoseReport(t)
    BY <2>1, <2>2, <1>w, <1>r, <1>h DEF LoseReport, Idle
  <2>3. CASE GiveUp(t)
    <3> DEFINE x == [thread[t] EXCEPT !.awaited = {}]
    <3>1. thread' = [thread EXCEPT ![t] = x]
      BY <2>3 DEF GiveUp
    <3>2. thread[t] \in Work
      BY DEF TypeOK
    <3>3. x.todo = thread[t].todo /\ (x.todo \in {"write", "cancel"} => x.was = thread[t].was /\ x.new = thread[t].new)
      <4>1. CASE thread[t] = Idle
        BY <4>1 DEF Idle
      <4>2. CASE thread[t] \in Report
        BY <4>2 DEF Report
      <4>3. CASE thread[t] \in Write
        BY <4>3 DEF Write
      <4> QED
        BY <3>2, <4>1, <4>2, <4>3, WorkCases
    <3> HIDE DEF x
    <3>4. x.todo \in {"write", "cancel"} => (Matches(x.was) => Matches(x.new))
      BY <3>3 DEF CountInv, Writes
    <3> QED
      BY <2>1, <3>1, <3>4, <1>w, <1>r, <1>h
  <2> QED
    BY <1>8, <2>2, <2>3
<1>9. ASSUME NEW d \in Devices, Working(d) \/ RestartAgent(d) PROVE CountInv'
  <2>1. UNCHANGED <<job, target>> /\ \A j \in Jobs : upset[j] \subseteq upset'[j]
    <3>1. CASE RestartAgent(d)
      BY <3>1, <1>f DEF RestartAgent, Hits
    <3>2. CASE Working(d)
      BY <3>2 DEF Working, Poll, Execute, Begin, Progress, Finish, Sends
    <3> QED
      BY <1>9, <3>1, <3>2
  <2>2. Work_'
    <3>1. CASE UNCHANGED thread
      BY <3>1, <1>u
    <3>2. ASSUME NEW t \in Threads, NEW status, Sends(t, d, status) PROVE Work_'
      <4> PICK j \in agent[d].at : thread' = [thread EXCEPT ![t] = [todo |-> "report", id |-> j, awaited |-> {d}, from |-> d, status |-> status]]
        BY <3>2 DEF Sends
      <4> QED
        BY <1>w
    <3> QED
      BY <1>9, <3>1, <3>2 DEF Working, RestartAgent, Poll, Execute, Begin, Progress, Finish
  <2> QED
    BY <2>1, <2>2, <1>r, <1>h
<1> QED
  BY <1>1, <1>2, <1>3, <1>4, <1>5, <1>6, <1>7, <1>8, <1>9 DEF Next, Operators, Handler

\* Unless two of its handlers overlapped, a job that was counted shows the numbers of its targets.
THEOREM CountedCorrect == Spec => []Counted
<1>1. Init => CountInv
  BY DEF Init, CountInv, Matches, Load, Absent, Writes, Idle
<1>2. TypeOK /\ CountInv /\ [Next]_vars => CountInv'
  BY CountKeeps
<1>3. CountInv => Counted
  BY DEF CountInv, Counted, CountersMatch, Matches, Load
<1> QED
  BY <1>1, <1>2, <1>3, TypeCorrect, PTL DEF Spec
---------------------------------------------------------------------------
(* Targets: an agent runs a package once, and a verdict is final *)

Outcomes == {"downloading", "installing", "failed", "success", "rolled_back"}

\* Handlers are about jobs that are there, and rollback jobs about to be made are not.
Settled ==
  \A t \in Threads : thread[t] # Idle =>
    /\ job[thread[t].id].status # "absent"
    /\ thread[t].todo = "report" => thread[t].status \in Outcomes /\ thread[t].awaited \subseteq {thread[t].from}
    /\ Writes(t) => thread[t].was.job.status # "absent" /\ thread[t].new.job.status # "absent"

Reserved ==
  \A t \in Threads : Writes(t) => \A r \in thread[t].rb :
    /\ thread[t].todo = "write" /\ job[r].status = "absent"
    /\ \A u \in Threads \ {t} : Writes(u) => r \notin thread[u].rb

Untouched ==
  \A j \in Jobs : job[j].status = "absent" =>
    /\ job[j] = Absent
    /\ \A d \in Devices : target[j][d] = "none" /\ ran[j][d] = 0 /\ j \notin agent[d].polled /\ j \notin agent[d].at

\* An agent is at one delivery, and waits for one report.
Hands ==
  \A d \in Devices :
    /\ \A j, k \in agent[d].at : j = k
    /\ \A j \in agent[d].at : j \notin agent[d].polled
    /\ agent[d].at = {} => agent[d].phase = "idle"

OneAwaited ==
  \A d \in Devices : \A t, u \in Threads : d \in thread[t].awaited /\ d \in thread[u].awaited => t = u

Struct == Settled /\ Reserved /\ Untouched /\ Hands /\ OneAwaited

\* Nothing makes a target pending again.
Forward ==
  \A t \in Threads : Writes(t) => \A d \in Devices :
    /\ thread[t].new.target[d] = "pending" => thread[t].was.target[d] = "pending"
    /\ thread[t].was.target[d] # "pending" => target[thread[t].id][d] # "pending"

\* The agent of d waits until the target is stored as something else.
Reporting(j, d) ==
  \E t \in Threads :
    /\ thread[t].todo \in {"report", "write"} /\ thread[t].id = j /\ d \in thread[t].awaited
    /\ thread[t].todo = "write" => thread[t].new.target[d] # "pending"

\* While its reports arrive, an agent that has begun to install is past the pending target.
Once(j, d) ==
  /\ ran[j][d] < 2
  /\ j \in agent[d].polled => ran[j][d] = 0
  /\ j \in agent[d].at /\ agent[d].phase # "ran" => ran[j][d] = 0
  /\ j \in agent[d].at /\ agent[d].phase \in {"installing", "ran"} => target[j][d] # "pending" \/ Reporting(j, d)
  /\ ran[j][d] > 0 => target[j][d] # "pending"

OnceInv == Forward /\ \A j \in Jobs, d \in Devices : Spared(j, {"lost", "timeout"}) => Once(j, d)

\* What is at hand, and what a report is on its way about, has not ended.
Judged(s) ==
  s.job.status \in {"completed", "failed"} =>
    /\ In(s.target, Unfinished) = 0
    /\ s.job.status = "failed" <=> In(s.target, {"failed"}) > 0 /\ In(s.target, {"success"}) = 0

Faultless(j) == Spared(j, {"race", "timeout", "cancel"})

Final(status, j, d) == status \notin Unfinished => j \notin agent[d].polled /\ j \notin agent[d].at

VerdictRows == \A j \in Jobs : Faultless(j) =>
  /\ Judged(Load(j))
  /\ \A d \in Devices : j \in agent[d].polled \/ j \in agent[d].at => target[j][d] \in Unfinished

VerdictWork == \A t \in Threads : thread[t] # Idle /\ Faultless(thread[t].id) =>
  /\ thread[t].todo # "cancel"
  /\ \A d \in thread[t].awaited : target[thread[t].id][d] \in Unfinished
  /\ thread[t].todo = "report" => /\ thread[t].from \in thread[t].awaited
                                  /\ Final(thread[t].status, thread[t].id, thread[t].from)
  /\ thread[t].todo = "write" =>
       /\ \A d \in Devices : thread[t].new.target[d] # thread[t].was.target[d] => d \in thread[t].awaited
       /\ \A d \in thread[t].awaited : Final(thread[t].new.target[d], thread[t].id, d)

JudgedWork == \A t \in Threads :
  thread[t].todo = "write" /\ Faultless(thread[t].id) /\ Judged(thread[t].was) => Judged(thread[t].new)

IInv == Struct /\ OnceInv /\ VerdictRows /\ VerdictWork /\ JudgedWork

LEMMA JudgedSame ==
  ASSUME NEW j \in Jobs, job'[j] = job[j], target'[j] = target[j], Judged(Load(j))
  PROVE  Judged(Load(j))'
<1>1. Load(j)' = Load(j)
  BY DEF Load
<1> QED
  BY <1>1 DEF Judged, In

\* A thread that replaces the others' work by none or its own.
LEMMA JudgedOther ==
  ASSUME TypeOK, JudgedWork, NEW t \in Threads, \A u \in Threads \ {t} : thread'[u] = thread[u],
         \A j \in Jobs : upset[j] \subseteq upset'[j],
         thread'[t].todo = "write" /\ Faultless(thread[t].id)' /\ Judged(thread'[t].was) => Judged(thread'[t].new)
  PROVE  JudgedWork'
<1> SUFFICES ASSUME NEW u \in Threads, thread'[u].todo = "write", Faultless(thread[u].id)', Judged(thread'[u].was)
             PROVE  Judged(thread'[u].new)
  BY DEF JudgedWork, Judged, In
<1>1. CASE u = t
  BY <1>1
<1>2. CASE u # t
  <2>1. thread'[u] = thread[u] /\ thread[u].id \in Jobs
    BY <1>2, WorkCases DEF TypeOK, Write
  <2>2. Faultless(thread[u].id)
    BY <2>1 DEF Faultless, Spared
  <2> QED
    BY <2>1, <2>2 DEF JudgedWork
<1> QED
  BY <1>1, <1>2

LEMMA InvSame == IInv /\ UNCHANGED vars => IInv'
<1> SUFFICES ASSUME IInv, UNCHANGED vars PROVE IInv'
  OBVIOUS
<1> USE DEF vars
<1>1. Struct'
  BY DEF IInv, Struct, Settled, Reserved, Untouched, Hands, OneAwaited, Writes
<1>2. OnceInv'
  BY DEF IInv, OnceInv, Forward, Once, Reporting, Spared, Writes
<1>3. VerdictRows'
  BY JudgedSame DEF IInv, VerdictRows, Faultless, Spared
<1>4. VerdictWork'
  BY DEF IInv, VerdictWork, Faultless, Spared, Final
<1>5. JudgedWork'
  <2> SUFFICES ASSUME NEW u \in Threads, thread'[u].todo = "write", Faultless(thread[u].id)', Judged(thread'[u].was)
               PROVE  Judged(thread'[u].new)
    BY DEF JudgedWork, Judged, In
  <2>1. Faultless(thread[u].id) /\ thread'[u] = thread[u]
    BY DEF Faultless, Spared
  <2> QED
    BY <2>1 DEF IInv, JudgedWork
<1> QED
  BY <1>1, <1>2, <1>3, <1>4, <1>5 DEF IInv

LEMMA InvInit == Init => IInv
<1> SUFFICES ASSUME Init PROVE IInv
  OBVIOUS
<1>1. /\ \A t \in Threads : thread[t] = Idle
      /\ \A d \in Devices : agent[d] = Resting
      /\ \A j \in Jobs : job[j] = Absent /\ \A d \in Devices : target[j][d] = "none" /\ ran[j][d] = 0
  BY DEF Init
<1>2. Struct
  BY <1>1 DEF Struct, Settled, Reserved, Untouched, Hands, OneAwaited, Writes, Idle, Resting
<1>3. OnceInv
  BY <1>1 DEF OnceInv, Forward, Once, Writes, Idle, Resting
<1>4. VerdictRows /\ VerdictWork /\ JudgedWork
  BY <1>1 DEF VerdictRows, VerdictWork, JudgedWork, Judged, Load, Absent, Resting, Idle
<1> QED
  BY <1>2, <1>3, <1>4 DEF IInv

\* A new job, which nobody has heard of.
LEMMA CreateKeeps ==
  ASSUME TypeOK, IInv, NEW j \in Jobs, NEW devices \in SUBSET Devices, NEW a \in {"install", "remove"}, CreateJob(j, devices, a)
  PROVE  IInv'
<1>0. UNCHANGED <<thread, agent, ran, upset>>
  BY DEF CreateJob
<1>1. job[j].status = "absent" /\ \A t \in Threads : thread[t] # Idle => thread[t].id # j
  BY DEF CreateJob, Fresh, Absent, IInv, Struct, Settled
<1>2. \A t \in Threads : Writes(t) => j \notin thread[t].rb
  BY DEF CreateJob, Fresh, IInv, Struct, Reserved
<1>3. /\ job'[j].status = "queued"
      /\ \A k \in Jobs : k # j => job'[k] = job[k] /\ target'[k] = target[k]
  BY NewJobs DEF CreateJob, TypeOK
<1>4. \A d \in Devices : ran[j][d] = 0 /\ j \notin agent[d].polled /\ j \notin agent[d].at
  BY <1>1 DEF IInv, Struct, Untouched
<1>5. \A t \in Threads : thread[t] # Idle => thread[t].id \in Jobs /\ job'[thread[t].id] = job[thread[t].id]
                                               /\ target'[thread[t].id] = target[thread[t].id]
  <2>1. \A t \in Threads : thread[t] # Idle => thread[t].id \in Jobs
    BY WorkCases DEF TypeOK, Report, Write
  <2> QED
    BY <1>1, <1>3, <2>1
<1>6. Struct'
  <2>1. Settled'
    BY <1>0, <1>5 DEF IInv, Struct, Settled, Writes
  <2>2. Reserved'
    <3>1. \A t \in Threads : Writes(t) => thread[t].rb \subseteq Jobs
      BY WorkCases DEF Writes, TypeOK, Write
    <3> QED
      BY <1>0, <1>2, <1>3, <3>1 DEF IInv, Struct, Reserved, Writes
  <2>3. Untouched' /\ Hands' /\ OneAwaited'
    BY <1>0, <1>3 DEF IInv, Struct, Untouched, Hands, OneAwaited
  <2> QED
    BY <2>1, <2>2, <2>3 DEF Struct
<1>7. OnceInv'
  <2>1. Forward'
    <3>1. \A t \in Threads : Writes(t) => thread[t] # Idle
      BY DEF Writes, Idle
    <3> QED
      BY <1>0, <1>5, <3>1 DEF IInv, OnceInv, Forward, Writes
  <2>2. ASSUME NEW k \in Jobs, NEW d \in Devices, Spared(k, {"lost", "timeout"})' PROVE Once(k, d)'
    <3>1. CASE k = j
      BY <1>0, <1>4, <3>1 DEF Once
    <3>2. CASE k # j
      <4>1. Spared(k, {"lost", "timeout"}) /\ target'[k] = target[k]
        BY <1>0, <1>3, <2>2, <3>2 DEF Spared
      <4>2. Once(k, d)
        BY <4>1 DEF IInv, OnceInv
      <4> QED
        BY <1>0, <4>1, <4>2 DEF Once, Reporting
    <3> QED
      BY <3>1, <3>2
  <2> QED
    BY <2>1, <2>2 DEF OnceInv
<1>8. VerdictRows'
  <2> SUFFICES ASSUME NEW k \in Jobs, Faultless(k)'
               PROVE  Judged(Load(k))' /\ \A d \in Devices : k \in agent'[d].polled \/ k \in agent'[d].at => target'[k][d] \in Unfinished
    BY DEF VerdictRows
  <2>1. CASE k = j
    BY <1>0, <1>3, <1>4, <2>1 DEF Judged, Load
  <2>2. CASE k # j
    <3>1. Faultless(k) /\ job'[k] = job[k] /\ target'[k] = target[k]
      BY <1>0, <1>3, <2>2 DEF Faultless, Spared
    <3>2. Judged(Load(k))'
      BY <3>1, JudgedSame DEF IInv, VerdictRows
    <3> QED
      BY <1>0, <3>1, <3>2 DEF IInv, VerdictRows
  <2> QED
    BY <2>1, <2>2
<1>9. VerdictWork'
  BY <1>0, <1>5 DEF IInv, VerdictWork, Faultless, Spared, Final
<1>10. JudgedWork'
  <2> SUFFICES ASSUME NEW u \in Threads, thread'[u].todo = "write", Faultless(thread[u].id)', Judged(thread'[u].was)
               PROVE  Judged(thread'[u].new)
    BY DEF JudgedWork, Judged, In
  <2>1. Faultless(thread[u].id) /\ thread'[u] = thread[u]
    BY <1>0 DEF Faultless, Spared
  <2> QED
    BY <2>1 DEF IInv, JudgedWork
<1> QED
  BY <1>6, <1>7, <1>8, <1>9, <1>10 DEF IInv

\* A handler that is to change a job, or to make a rollback of it, and that no agent waits for.
ToWrite(t, j, x) ==
  /\ x \in Write /\ thread[t] = Idle /\ thread' = [thread EXCEPT ![t] = x] /\ UNCHANGED <<job, target, agent, ran>>
  /\ \A k \in Jobs : upset[k] \subseteq upset'[k]
  /\ x.id = j /\ job[j].status # "absent" /\ x.was = Load(j) /\ x.new.job.status # "absent" /\ x.awaited = {}
  /\ \A d \in Devices : x.new.target[d] = "pending" => target[j][d] = "pending"
  /\ \A r \in x.rb : x.todo = "write" /\ job[r].status = "absent" /\ \A u \in Threads : Writes(u) => r \notin thread[u].rb
  /\ x.todo = "cancel" => ~Faultless(j)'
  /\ x.todo = "write" => x.new.target = target[j] /\ (Judged(Load(j)) => Judged(x.new))

LEMMA WriteKeeps ==
  ASSUME TypeOK, IInv, NEW t \in Threads, NEW j \in Jobs, NEW x, ToWrite(t, j, x)
  PROVE  IInv'
<1> USE DEF ToWrite
<1>0. \A u \in Threads : thread'[u] = IF u = t THEN x ELSE thread[u]
  BY DEF TypeOK
<1>1. x # Idle /\ x.todo \in {"write", "cancel"}
  BY DEF Write, Idle
<1>2. Load(j).job = job[j] /\ Load(j).target = target[j]
  BY LoadedType
<1>3. Settled'
  BY <1>0, <1>1, <1>2 DEF IInv, Struct, Settled, Writes
<1>4. Reserved'
  BY <1>0, <1>1 DEF IInv, Struct, Reserved, Writes
<1>5. Untouched' /\ Hands'
  BY DEF IInv, Struct, Untouched, Hands
<1>6. OneAwaited'
  BY <1>0 DEF IInv, Struct, OneAwaited
<1>7. Forward'
  BY <1>0, <1>2 DEF IInv, OnceInv, Forward, Writes
<1>8. ASSUME NEW k \in Jobs, NEW d \in Devices, Spared(k, {"lost", "timeout"})' PROVE Once(k, d)'
  <2>1. Spared(k, {"lost", "timeout"})
    BY <1>8 DEF Spared
  <2>2. Once(k, d)
    BY <2>1 DEF IInv, OnceInv
  <2>3. Reporting(k, d) => Reporting(k, d)'
    <3> SUFFICES ASSUME Reporting(k, d) PROVE Reporting(k, d)'
      OBVIOUS
    <3> PICK u \in Threads : /\ thread[u].todo \in {"report", "write"} /\ thread[u].id = k /\ d \in thread[u].awaited
                             /\ thread[u].todo = "write" => thread[u].new.target[d] # "pending"
      BY DEF Reporting
    <3>1. u # t
      BY DEF Idle
    <3>2. thread'[u] = thread[u]
      BY <1>0, <3>1
    <3> QED
      BY <3>2 DEF Reporting
  <2> QED
    BY <2>2, <2>3 DEF Once
<1>9. VerdictRows'
  <2> SUFFICES ASSUME NEW k \in Jobs, Faultless(k)'
               PROVE  Judged(Load(k))' /\ \A d \in Devices : k \in agent'[d].polled \/ k \in agent'[d].at => target'[k][d] \in Unfinished
    BY DEF VerdictRows
  <2>1. Faultless(k)
    BY DEF Faultless, Spared
  <2>2. Judged(Load(k))'
    BY <2>1, JudgedSame DEF IInv, VerdictRows
  <2> QED
    BY <2>1, <2>2 DEF IInv, VerdictRows
<1>10. VerdictWork'
  <2> SUFFICES ASSUME NEW u \in Threads, thread'[u] # Idle, Faultless(thread[u].id)'
               PROVE  /\ thread'[u].todo # "cancel"
                      /\ \A d \in thread'[u].awaited : target[thread'[u].id][d] \in Unfinished
                      /\ thread'[u].todo = "report" => /\ thread'[u].from \in thread'[u].awaited
                                                       /\ Final(thread'[u].status, thread'[u].id, thread'[u].from)
                      /\ thread'[u].todo = "write" =>
                           /\ \A d \in Devices : thread'[u].new.target[d] # thread'[u].was.target[d] => d \in thread'[u].awaited
                           /\ \A d \in thread'[u].awaited : Final(thread'[u].new.target[d], thread'[u].id, d)
    BY DEF VerdictWork, Final
  <2>1. CASE u = t
    <3>1. thread'[u] = x
      BY <1>0, <2>1
    <3> QED
      BY <1>1, <1>2, <3>1
  <2>2. CASE u # t
    <3>1. thread'[u] = thread[u] /\ thread[u] # Idle /\ thread[u].id \in Jobs
      BY <1>0, <2>2, WorkCases DEF TypeOK, Report, Write
    <3>2. Faultless(thread[u].id)
      BY <3>1 DEF Faultless, Spared
    <3> QED
      BY <3>1, <3>2 DEF IInv, VerdictWork
  <2> QED
    BY <2>1, <2>2
<1>11. JudgedWork'
  <2>1. thread'[t] = x
    BY <1>0
  <2>2. x.todo = "write" /\ Judged(x.was) => Judged(x.new)
    OBVIOUS
  <2> QED
    BY <1>0, <2>1, <2>2, JudgedOther DEF IInv
<1> QED
  BY <1>3, <1>4, <1>5, <1>6, <1>7, <1>8, <1>9, <1>10, <1>11 DEF IInv, Struct, OnceInv
LEMMA StartKeeps ==
  ASSUME TypeOK, IInv, NEW t \in Threads, NEW j \in Jobs, StartJob(t, j)
  PROVE  IInv'
<1> DEFINE s == Load(j)
           new == [s EXCEPT !.job.status = "running"]
           x == Writing("write", j, {}, new, {}, {})
<1>1. s \in Loaded /\ s.job = job[j] /\ s.target = target[j]
  BY LoadedType
<1> HIDE DEF s
<1>2. new \in Loaded /\ new.target = s.target /\ new.job.status = "running"
  BY <1>1, StatusType DEF JobStatus
<1> HIDE DEF new
<1>3. x \in Write
  <2>1. x \in Work
    BY <1>2, WritingType
  <2> QED
    BY <2>1, WorkCases DEF Writing
<1>4. x.id = j /\ x.was = s /\ x.new = new /\ x.awaited = {} /\ x.rb = {} /\ x.todo = "write"
  BY DEF Writing, s
<1>5. thread[t] = Idle /\ thread' = [thread EXCEPT ![t] = x] /\ UNCHANGED <<job, target, agent, ran, upset>> /\ job[j].status = "queued"
  BY DEF StartJob, s, new
<1>6. Judged(new)
  BY <1>2 DEF Judged
<1> HIDE DEF x
<1> QED
  <2>1. ToWrite(t, j, x)
    BY <1>1, <1>2, <1>3, <1>4, <1>5, <1>6 DEF ToWrite, s
  <2> QED
    BY <2>1, WriteKeeps

LEMMA CancelKeeps ==
  ASSUME TypeOK, IInv, NEW t \in Threads, NEW j \in Jobs, CancelJob(t, j)
  PROVE  IInv'
<1> DEFINE s == Load(j)
           new == Recomputed(Skipped(s))
           x == Writing("cancel", j, {}, new, {}, {})
<1>1. s \in Loaded /\ s.job = job[j] /\ s.target = target[j]
  BY LoadedType
<1> HIDE DEF s
<1>2. new \in Loaded /\ new.target = Skipped(s).target /\ new.job.status # "absent"
  BY <1>1, SkippedType, RecomputedType DEF Verdict
<1>3. \A d \in Devices : new.target[d] = "pending" => s.target[d] = "pending"
  <2>1. \A d \in Devices : Skipped(s).target[d] = IF s.target[d] \in Unfinished THEN "skipped" ELSE s.target[d]
    BY <1>1, SkippedType
  <2> QED
    BY <1>2, <2>1
<1>4. thread[t] = Idle /\ thread' = [thread EXCEPT ![t] = x] /\ UNCHANGED <<job, target, agent, ran>> /\ job[j] # Absent
  BY DEF CancelJob, s
<1> HIDE DEF new
<1>5. x \in Write
  <2>1. x \in Work
    BY <1>2, WritingType
  <2> QED
    BY <2>1, WorkCases DEF Writing
<1>6. x.id = j /\ x.was = s /\ x.new = new /\ x.awaited = {} /\ x.rb = {} /\ x.todo = "cancel"
  BY DEF Writing, s
<1>7. job[j].status # "absent"
  BY <1>4 DEF IInv, Struct, Untouched
<1>8. \A k \in Jobs : upset'[k] = IF k \in {j} THEN upset[k] \union {"cancel"} ELSE upset[k]
  BY UpsetType DEF CancelJob, Hits
<1>9. ~Faultless(j)' /\ \A k \in Jobs : upset[k] \subseteq upset'[k]
  BY <1>8 DEF Faultless, Spared
<1> HIDE DEF x
<1> QED
  <2>1. ToWrite(t, j, x)
    BY <1>1, <1>2, <1>3, <1>4, <1>5, <1>6, <1>7, <1>9 DEF ToWrite, s
  <2> QED
    BY <2>1, WriteKeeps

LEMMA RollbackKeeps ==
  ASSUME TypeOK, IInv, NEW t \in Threads, NEW j \in Jobs, NEW rb \in Jobs, NEW wanted \in SUBSET Devices, CreateRollback(t, j, rb, wanted)
  PROVE  IInv'
<1> DEFINE s == Load(j)
           new == IF wanted = {} THEN [s EXCEPT !.job.status = "rolled_back"] ELSE s
           all == {d \in Devices : target[j][d] = "success"}
           candidates == IF wanted = {} THEN all ELSE all \intersect wanted
           x == Writing("write", j, {}, new, {rb}, candidates)
<1>1. s \in Loaded /\ s.job = job[j] /\ s.target = target[j]
  BY LoadedType
<1>2. thread[t] = Idle /\ thread' = [thread EXCEPT ![t] = x] /\ UNCHANGED <<job, target, agent, ran, upset>> /\ candidates # {} /\ Fresh(rb)
  BY DEF CreateRollback
<1>3. job[j].status # "absent"
  <2>1. \E d \in Devices : target[j][d] = "success"
    BY <1>2
  <2> QED
    BY <2>1 DEF IInv, Struct, Untouched
<1>4. candidates \in SUBSET Devices
  OBVIOUS
<1> HIDE DEF s, candidates
<1>5. new \in Loaded /\ new.target = s.target /\ new.job.status # "absent" /\ (Judged(s) => Judged(new))
  <2>1. CASE wanted = {}
    <3>1. new \in Loaded /\ new.target = s.target /\ new.job.status = "rolled_back"
      BY <1>1, <2>1, StatusType DEF JobStatus
    <3> HIDE DEF new
    <3> QED
      BY <3>1 DEF Judged
  <2>2. CASE wanted # {}
    BY <1>1, <1>3, <2>2
  <2> QED
    BY <2>1, <2>2
<1> HIDE DEF new
<1>6. x \in Write
  <2>1. x \in Work
    BY <1>4, <1>5, WritingType
  <2> QED
    BY <2>1, WorkCases DEF Writing
<1>7. x.id = j /\ x.was = s /\ x.new = new /\ x.awaited = {} /\ x.rb = {rb} /\ x.todo = "write"
  BY DEF Writing, s
<1>8. job[rb].status = "absent" /\ \A u \in Threads : Writes(u) => rb \notin thread[u].rb
  BY <1>2 DEF Fresh, Absent, IInv, Struct, Reserved
<1> HIDE DEF x
<1> QED
  <2>1. ToWrite(t, j, x)
    BY <1>1, <1>2, <1>3, <1>5, <1>6, <1>7, <1>8 DEF ToWrite, s
  <2> QED
    BY <2>1, WriteKeeps

\* A report of a target that has not ended gives the verdict.
LEMMA ReportJudged ==
  ASSUME NEW s \in Loaded, NEW d \in Devices, NEW status \in TargetStatus, s.target[d] \in Unfinished, Judged(s)
  PROVE  Judged(Reported(s, d, status))
<1> DEFINE n == Noted(s, d, status)
           r == Reported(s, d, status)
<1>1. /\ n \in Loaded /\ r = Recomputed(n)
      /\ n.job.status = IF s.job.status = "queued" THEN "running" ELSE s.job.status
  BY ReportedType
<1>2. s.job.status \notin {"completed", "failed"}
  BY InType DEF Judged
<1> HIDE DEF n, r
<1>3. /\ r.target = n.target
      /\ r.job.status = IF In(n.target, TargetStatus \ {"none"}) > 0 /\ In(n.target, Unfinished) = 0
                        THEN Verdict(In(n.target, {"success"}), In(n.target, {"failed"})) ELSE n.job.status
  BY <1>1, RecomputedType
<1>4. Judged(r)
  <2>1. CASE In(n.target, TargetStatus \ {"none"}) > 0 /\ In(n.target, Unfinished) = 0
    BY <1>3, <2>1, InType DEF Judged, Verdict
  <2>2. CASE ~(In(n.target, TargetStatus \ {"none"}) > 0 /\ In(n.target, Unfinished) = 0)
    BY <1>1, <1>2, <1>3, <2>2 DEF Judged
  <2> QED
    BY <2>1, <2>2
<1> QED
  BY <1>4 DEF r
LEMMA ReportKeeps ==
  ASSUME TypeOK, IInv, NEW t \in Threads, ReportTarget(t)
  PROVE  IInv'
<1> DEFINE w == thread[t]
           s == Load(w.id)
           new == Reported(s, w.from, w.status)
           x == Writing("write", w.id, w.awaited, new, {}, {})
<1>1. /\ w \in Report /\ thread' = [thread EXCEPT ![t] = x] /\ thread'[t] \in Write
      /\ UNCHANGED <<job, target, agent, ran, upset>>
  BY ReportTargetType
<1>2. w.id \in Jobs /\ w.from \in Devices /\ w.status \in TargetStatus /\ w # Idle /\ w.todo = "report" /\ w.awaited \subseteq Devices
  BY <1>1 DEF Report, Idle
<1>3. s \in Loaded /\ s.job = job[w.id] /\ s.target = target[w.id]
  BY <1>2, LoadedType
<1>4. \A u \in Threads : thread'[u] = IF u = t THEN x ELSE thread[u]
  BY <1>1 DEF TypeOK
<1>5. x.id = w.id /\ x.was = s /\ x.new = new /\ x.awaited = w.awaited /\ x.rb = {} /\ x.todo = "write" /\ x # Idle
  BY DEF Writing, Idle
<1>6. job[w.id].status # "absent" /\ w.status \in Outcomes /\ w.awaited \subseteq {w.from}
  BY <1>2 DEF IInv, Struct, Settled
<1>7. new \in Loaded /\ new.job.status # "absent" /\ \A d \in Devices : new.target[d] = IF d = w.from THEN w.status ELSE s.target[d]
  <2> DEFINE n == Noted(s, w.from, w.status)
  <2> HIDE DEF s
  <2>1. /\ n \in Loaded /\ new = Recomputed(n)
        /\ \A d \in Devices : n.target[d] = IF d = w.from THEN w.status ELSE s.target[d]
        /\ n.job.status = IF s.job.status = "queued" THEN "running" ELSE s.job.status
    <3> DEFINE from == w.from
               status == w.status
    <3>1. from \in Devices /\ status \in TargetStatus
      BY <1>2
    <3> HIDE DEF from, status
    <3>2. /\ Noted(s, from, status) \in Loaded /\ Reported(s, from, status) = Recomputed(Noted(s, from, status))
          /\ \A e \in Devices : Noted(s, from, status).target[e] = IF e = from THEN status ELSE s.target[e]
          /\ Noted(s, from, status).job.status = IF s.job.status = "queued" THEN "running" ELSE s.job.status
      BY <1>3, <3>1, ReportedType
    <3> QED
      BY <3>2 DEF from, status
  <2> HIDE DEF n, new
  <2>2. n.job.status # "absent"
    BY <1>3, <1>6, <2>1
  <2>3. new \in Loaded /\ new.target = n.target /\ new.job.status # "absent"
    BY <2>1, <2>2, RecomputedType DEF Verdict
  <2> QED
    BY <2>1, <2>3
<1>8. Faultless(w.id) => (Judged(s) => Judged(new)) /\ w.from \in w.awaited /\ Final(w.status, w.id, w.from)
  <2> SUFFICES ASSUME Faultless(w.id) PROVE (Judged(s) => Judged(new)) /\ w.from \in w.awaited /\ Final(w.status, w.id, w.from)
    OBVIOUS
  <2>1. w.from \in w.awaited /\ Final(w.status, w.id, w.from) /\ target[w.id][w.from] \in Unfinished
    BY <1>2 DEF IInv, VerdictWork
  <2>2. s.target[w.from] \in Unfinished
    BY <1>3, <2>1
  <2> HIDE DEF s
  <2> QED
    BY <1>2, <1>3, <2>1, <2>2, ReportJudged
<1> HIDE DEF x, new, s
<1>9. Settled'
  BY <1>1, <1>3, <1>4, <1>5, <1>6, <1>7 DEF IInv, Struct, Settled, Writes
<1>10. Reserved' /\ Untouched' /\ Hands' /\ OneAwaited'
  BY <1>1, <1>4, <1>5 DEF IInv, Struct, Reserved, Untouched, Hands, OneAwaited, Writes
<1>11. Forward'
  <2> SUFFICES ASSUME NEW u \in Threads, thread'[u].todo \in {"write", "cancel"}, NEW d \in Devices
               PROVE  /\ thread'[u].new.target[d] = "pending" => thread'[u].was.target[d] = "pending"
                      /\ thread'[u].was.target[d] # "pending" => target[thread'[u].id][d] # "pending"
    BY <1>1 DEF Forward, Writes
  <2>1. CASE u = t
    <3>1. thread'[u] = x
      BY <1>4, <2>1
    <3> QED
      BY <1>3, <1>5, <1>6, <1>7, <3>1 DEF Outcomes
  <2>2. CASE u # t
    BY <1>4, <2>2 DEF IInv, OnceInv, Forward, Writes
  <2> QED
    BY <2>1, <2>2
<1>12. ASSUME NEW k \in Jobs, NEW d \in Devices, Spared(k, {"lost", "timeout"})' PROVE Once(k, d)'
  <2>1. Once(k, d)
    BY <1>1, <1>12 DEF Spared, IInv, OnceInv
  <2>2. Reporting(k, d) => Reporting(k, d)'
    <3> SUFFICES ASSUME Reporting(k, d) PROVE Reporting(k, d)'
      OBVIOUS
    <3> PICK u \in Threads : /\ thread[u].todo \in {"report", "write"} /\ thread[u].id = k /\ d \in thread[u].awaited
                             /\ thread[u].todo = "write" => thread[u].new.target[d] # "pending"
      BY DEF Reporting
    <3>1. CASE u = t
      <4>1. thread'[u] = x
        BY <1>4, <3>1
      <4> QED
        BY <1>5, <1>6, <1>7, <3>1, <4>1 DEF Reporting, Outcomes
    <3>2. CASE u # t
      <4>1. thread'[u] = thread[u]
        BY <1>4, <3>2
      <4> QED
        BY <4>1 DEF Reporting
    <3> QED
      BY <3>1, <3>2
  <2> QED
    BY <1>1, <2>1, <2>2 DEF Once
<1>13. VerdictRows'
  BY <1>1, JudgedSame DEF IInv, VerdictRows, Faultless, Spared
<1>14. VerdictWork'
  <2> SUFFICES ASSUME NEW u \in Threads, thread'[u] # Idle, Faultless(thread[u].id)
               PROVE  /\ thread'[u].todo # "cancel"
                      /\ \A d \in thread'[u].awaited : target[thread'[u].id][d] \in Unfinished
                      /\ thread'[u].todo = "report" => /\ thread'[u].from \in thread'[u].awaited
                                                       /\ Final(thread'[u].status, thread'[u].id, thread'[u].from)
                      /\ thread'[u].todo = "write" =>
                           /\ \A d \in Devices : thread'[u].new.target[d] # thread'[u].was.target[d] => d \in thread'[u].awaited
                           /\ \A d \in thread'[u].awaited : Final(thread'[u].new.target[d], thread'[u].id, d)
    BY <1>1, <1>4, <1>5 DEF VerdictWork, Final, Faultless, Spared
  <2>1. CASE u = t
    <3>1. thread'[u] = x /\ Faultless(w.id)
      BY <1>4, <2>1
    <3>2. \A d \in w.awaited : target[w.id][d] \in Unfinished
      BY <1>2, <3>1 DEF IInv, VerdictWork
    <3>3. \A d \in Devices : new.target[d] # s.target[d] => d \in w.awaited
      BY <1>7, <1>8, <3>1
    <3>4. \A d \in w.awaited : d = w.from /\ new.target[d] = w.status
      BY <1>2, <1>6, <1>7
    <3> QED
      BY <1>5, <1>8, <3>1, <3>2, <3>3, <3>4
  <2>2. CASE u # t
    <3>1. thread'[u] = thread[u] /\ thread[u] # Idle
      BY <1>4, <2>2
    <3> QED
      BY <3>1 DEF IInv, VerdictWork
  <2> QED
    BY <2>1, <2>2
<1>15. JudgedWork'
  <2>1. thread'[t] = x
    BY <1>4
  <2>2. Faultless(w.id)' => Faultless(w.id)
    BY <1>1, <1>5, <2>1 DEF Faultless, Spared
  <2>3. Faultless(w.id)' /\ Judged(x.was) => Judged(x.new)
    BY <1>5, <1>8, <2>2
  <2> QED
    BY <1>1, <1>4, <2>1, <2>3, JudgedOther DEF IInv
<1> QED
  BY <1>9, <1>10, <1>11, <1>12, <1>13, <1>14, <1>15 DEF IInv, Struct, OnceInv

\* A fault of a report: the job is upset.
LEMMA FaultKeeps ==
  ASSUME TypeOK, IInv, NEW t \in Threads, LoseReport(t) \/ GiveUp(t)
  PROVE  IInv'
<1> DEFINE w == thread[t]
           x == thread'[t]
<1>1. /\ UNCHANGED <<job, target, agent, ran>> /\ \A u \in Threads \ {t} : thread'[u] = thread[u]
      /\ x = Idle \/ x = [w EXCEPT !.awaited = {}]
  BY DEF LoseReport, GiveUp, TypeOK
<1>2. w # Idle /\ w.id \in Jobs
  BY WorkCases DEF LoseReport, GiveUp, Idle, TypeOK, Report, Write
<1>3. \E fault \in {"lost", "timeout"} : fault \in Faults /\ Upset({w.id}, fault)
  BY DEF LoseReport, GiveUp, Hits
<1>4. \E fault \in {"lost", "timeout"} : \A k \in Jobs : upset'[k] = IF k \in {w.id} THEN upset[k] \union {fault} ELSE upset[k]
  <2> PICK fault \in {"lost", "timeout"} : fault \in Faults /\ Upset({w.id}, fault)
    BY <1>3
  <2> QED
    BY UpsetType
<1>5. \A k \in Jobs : upset[k] \subseteq upset'[k] /\ (Spared(k, {"lost", "timeout"})' => k # w.id)
  BY <1>4 DEF Spared
<1>6. /\ x.awaited = {}
      /\ x # Idle => x.id = w.id /\ x.todo = w.todo /\ upset'[w.id] \intersect {"timeout"} # {}
                     /\ (w.todo = "report" => x.status = w.status /\ x.from = w.from)
                     /\ (w.todo \in {"write", "cancel"} => x.was = w.was /\ x.new = w.new /\ x.rb = w.rb)
  <2>1. CASE LoseReport(t)
    BY <2>1 DEF LoseReport, Idle, TypeOK
  <2>2. CASE GiveUp(t)
    <3>1. x = [w EXCEPT !.awaited = {}]
      BY <2>2 DEF GiveUp, TypeOK
    <3>2. upset'[w.id] \intersect {"timeout"} # {}
      <4>1. upset'[w.id] = upset[w.id] \union {"timeout"}
        BY <1>2, <2>2, UpsetType DEF GiveUp, Hits
      <4> QED
        BY <4>1
    <3>3. w \in Report \/ w \in Write
      BY <1>2, WorkCases DEF TypeOK
    <3>4. CASE w \in Report
      BY <3>1, <3>2, <3>4 DEF Report
    <3>5. CASE w \in Write
      BY <3>1, <3>2, <3>5 DEF Write
    <3> QED
      BY <3>3, <3>4, <3>5
  <2> QED
    BY <2>1, <2>2
<1>7. x # Idle => ~Faultless(w.id)'
  BY <1>6 DEF Faultless, Spared
<1> HIDE DEF x
<1>8. \A u \in Threads : u # t => thread'[u] = thread[u]
  BY <1>1
<1>9. thread'[t] = x
  BY DEF x
<1>10. Settled'
  BY <1>1, <1>2, <1>6, <1>8, <1>9 DEF IInv, Struct, Settled, Writes
<1>11. Reserved'
  <2>1. \A u \in Threads : Writes(u)' => Writes(u) /\ thread'[u].rb = thread[u].rb /\ thread'[u].todo = thread[u].todo
    BY <1>6, <1>8, <1>9 DEF Writes, Idle
  <2> QED
    BY <1>1, <2>1 DEF IInv, Struct, Reserved
<1>12. Untouched' /\ Hands' /\ OneAwaited'
  BY <1>1, <1>6, <1>8, <1>9 DEF IInv, Struct, Untouched, Hands, OneAwaited
<1>13. Forward'
  <2>1. \A u \in Threads : Writes(u)' => /\ Writes(u) /\ thread'[u].new = thread[u].new /\ thread'[u].was = thread[u].was
                                         /\ thread'[u].id = thread[u].id
    BY <1>6, <1>8, <1>9 DEF Writes, Idle
  <2> QED
    BY <1>1, <2>1 DEF IInv, OnceInv, Forward
<1>14. ASSUME NEW k \in Jobs, NEW d \in Devices, Spared(k, {"lost", "timeout"})' PROVE Once(k, d)'
  <2>1. k # w.id /\ Once(k, d)
    BY <1>5, <1>14 DEF Spared, IInv, OnceInv
  <2>2. Reporting(k, d) => Reporting(k, d)'
    BY <1>8, <2>1 DEF Reporting
  <2> QED
    BY <1>1, <2>1, <2>2 DEF Once
<1>15. VerdictRows'
  BY <1>1, <1>5, JudgedSame DEF IInv, VerdictRows, Faultless, Spared
<1>16. VerdictWork'
  <2> SUFFICES ASSUME NEW u \in Threads, thread'[u] # Idle, Faultless(thread[u].id)', u # t
               PROVE  /\ thread'[u].todo # "cancel"
                      /\ \A d \in thread'[u].awaited : target[thread'[u].id][d] \in Unfinished
                      /\ thread'[u].todo = "report" => /\ thread'[u].from \in thread'[u].awaited
                                                       /\ Final(thread'[u].status, thread'[u].id, thread'[u].from)
                      /\ thread'[u].todo = "write" =>
                           /\ \A d \in Devices : thread'[u].new.target[d] # thread'[u].was.target[d] => d \in thread'[u].awaited
                           /\ \A d \in thread'[u].awaited : Final(thread'[u].new.target[d], thread'[u].id, d)
    BY <1>1, <1>6, <1>7, <1>8, <1>9 DEF VerdictWork, Final, Faultless, Spared
  <2>1. thread'[u] = thread[u] /\ thread[u] # Idle /\ thread[u].id \in Jobs
    BY <1>8, WorkCases DEF TypeOK, Report, Write
  <2>2. Faultless(thread[u].id)
    BY <1>5, <2>1 DEF Faultless, Spared
  <2> QED
    BY <2>1, <2>2 DEF IInv, VerdictWork
<1>17. JudgedWork'
  <2>1. x.todo = "write" => ~Faultless(w.id)'
    BY <1>7 DEF Idle
  <2> QED
    BY <1>5, <1>8, <1>9, <2>1, JudgedOther DEF IInv
<1> QED
  BY <1>10, <1>11, <1>12, <1>13, <1>14, <1>15, <1>16, <1>17 DEF IInv, Struct, OnceInv
\* What was changed is written, and the rollback job is made.
LEMMA CommitKeeps ==
  ASSUME TypeOK, IInv, NEW t \in Threads, Commit(t)
  PROVE  IInv'
<1> DEFINE w == thread[t]
<1>1. /\ w \in Write /\ UNCHANGED <<agent, ran>> /\ Writes(t) /\ w # Idle
      /\ \A u \in Threads : thread'[u] = IF u = t THEN Idle ELSE thread[u]
  <2>1. w \in Write /\ thread' = [thread EXCEPT ![t] = Idle] /\ UNCHANGED <<agent, ran>>
    BY CommitType
  <2>2. Writes(t) /\ w # Idle
    BY DEF Commit, Writes, Idle
  <2>3. \A u \in Threads : thread'[u] = IF u = t THEN Idle ELSE thread[u]
    BY <2>1 DEF TypeOK
  <2> QED
    BY <2>1, <2>2, <2>3
<1>2. w.id \in Jobs /\ w.new \in Loaded /\ w.was \in Loaded /\ w.awaited \subseteq Devices
  BY <1>1 DEF Write
<1>3. \A k \in Jobs : upset'[k] = IF k = w.id /\ w.was # Load(k) THEN upset[k] \union {"race"} ELSE upset[k]
  BY CommitType
<1>4. \A k \in Jobs : upset[k] \subseteq upset'[k]
  BY <1>3
<1>5. \A k \in Jobs : k # w.id /\ k \notin w.rb => job'[k] = job[k] /\ target'[k] = target[k]
  BY CommitType
<1>6. job[w.id].status # "absent" /\ w.was.job.status # "absent" /\ w.new.job.status # "absent"
  BY <1>1 DEF IInv, Struct, Settled
<1>7. \A k \in Jobs : k \in w.rb => /\ k # w.id /\ job[k].status = "absent" /\ job'[k].status = "queued"
                                    /\ \A d \in Devices : k \notin agent[d].polled /\ k \notin agent[d].at /\ ran[k][d] = 0
                                    /\ \A u \in Threads : thread[u] # Idle => thread[u].id # k
                                    /\ \A u \in Threads \ {t} : Writes(u) => k \notin thread[u].rb
  <2> TAKE k \in Jobs
  <2> HAVE k \in w.rb
  <2>1. job[k].status = "absent" /\ \A u \in Threads \ {t} : Writes(u) => k \notin thread[u].rb
    BY <1>1 DEF IInv, Struct, Reserved
  <2>2. k # w.id
    BY <1>6, <2>1
  <2>3. job'[k].status = "queued"
    <3>1. job'[k] = [Absent EXCEPT !.status = "queued", !.action = "remove"]
      BY <2>2, CommitType
    <3> QED
      BY <3>1, NewJobs
  <2>4. \A d \in Devices : k \notin agent[d].polled /\ k \notin agent[d].at /\ ran[k][d] = 0
    BY <2>1 DEF IInv, Struct, Untouched
  <2>5. \A u \in Threads : thread[u] # Idle => thread[u].id # k
    BY <2>1 DEF IInv, Struct, Settled
  <2> QED
    BY <2>1, <2>2, <2>3, <2>4, <2>5
<1>8. /\ job'[w.id].status # "absent"
      /\ \A d \in Devices : target'[w.id][d] = IF w.new.target[d] = w.was.target[d] THEN target[w.id][d] ELSE w.new.target[d]
  <2>1. job'[w.id] = Merged(job[w.id], w.was.job, w.new.job) /\ target'[w.id] = Merged(target[w.id], w.was.target, w.new.target)
    BY <1>2, CommitType
  <2>2. job[w.id] \in Job /\ target[w.id] \in [Devices -> TargetStatus]
    BY <1>2 DEF TypeOK
  <2>3. w.was.job \in Job /\ w.new.job \in Job /\ w.was.target \in [Devices -> TargetStatus] /\ w.new.target \in [Devices -> TargetStatus]
    BY <1>2 DEF Loaded
  <2>4. job'[w.id].status = IF w.new.job.status = w.was.job.status THEN job[w.id].status ELSE w.new.job.status
    <3>1. \A now, was, new \in Job : Merged(now, was, new).status = IF new.status = was.status THEN now.status ELSE new.status
      BY MergedType
    <3>2. Merged(job[w.id], w.was.job, w.new.job).status = IF w.new.job.status = w.was.job.status THEN job[w.id].status ELSE w.new.job.status
      BY <2>2, <2>3, <3>1
    <3> QED
      BY <2>1, <3>2
  <2>5. \A d \in Devices : target'[w.id][d] = IF w.new.target[d] = w.was.target[d] THEN target[w.id][d] ELSE w.new.target[d]
    <3>1. \A now, was, new \in [Devices -> TargetStatus] : \A d \in Devices :
            Merged(now, was, new)[d] = IF new[d] = was[d] THEN now[d] ELSE new[d]
      BY MergedType
    <3>2. \A d \in Devices : Merged(target[w.id], w.was.target, w.new.target)[d]
            = IF w.new.target[d] = w.was.target[d] THEN target[w.id][d] ELSE w.new.target[d]
      BY <2>2, <2>3, <3>1
    <3> QED
      BY <2>1, <3>2
  <2> QED
    BY <1>6, <2>4, <2>5
<1>9. w.was = Load(w.id) => job'[w.id] = w.new.job /\ target'[w.id] = w.new.target
  <2> SUFFICES ASSUME w.was = Load(w.id) PROVE job'[w.id] = w.new.job /\ target'[w.id] = w.new.target
    OBVIOUS
  <2>1. job'[w.id] = Merged(job[w.id], w.was.job, w.new.job) /\ target'[w.id] = Merged(target[w.id], w.was.target, w.new.target)
    BY <1>2, CommitType
  <2> QED
    BY <1>2, <2>1, MergedLoad
<1>10. \A k \in Jobs : k = w.id \/ k \in w.rb \/ (job'[k] = job[k] /\ target'[k] = target[k])
  BY <1>5
<1>11. \A u \in Threads : thread'[u] # Idle => /\ u # t /\ thread'[u] = thread[u] /\ thread[u] # Idle
                                               /\ thread[u].id \in Jobs /\ thread[u].id \notin w.rb
  BY <1>1, <1>7, WorkCases DEF TypeOK, Report, Write
<1>12. \A k \in Jobs : job[k].status # "absent" => job'[k].status # "absent"
  BY <1>7, <1>8, <1>10
\* Nothing becomes pending.
<1>13. \A k \in Jobs, d \in Devices : k \notin w.rb /\ target[k][d] # "pending" => target'[k][d] # "pending"
  <2>1. \A d \in Devices : w.new.target[d] = "pending" => w.was.target[d] = "pending"
    BY <1>1 DEF IInv, OnceInv, Forward
  <2> QED
    BY <1>8, <1>10, <2>1
<1> HIDE DEF w
<1>14. Settled'
  BY <1>11, <1>12 DEF IInv, Struct, Settled, Writes
<1>15. Reserved'
  <2> SUFFICES ASSUME NEW u \in Threads, Writes(u)', NEW r \in thread'[u].rb
               PROVE  /\ thread'[u].todo = "write" /\ job'[r].status = "absent"
                      /\ \A v \in Threads \ {u} : Writes(v)' => r \notin thread'[v].rb
    BY DEF Reserved
  <2>1. u # t /\ thread'[u] = thread[u] /\ Writes(u)
    BY <1>11 DEF Writes, Idle
  <2>2. \A v \in Threads : Writes(v)' => thread'[v] = thread[v] /\ Writes(v)
    BY <1>11 DEF Writes, Idle
  <2>3. thread[u].todo = "write" /\ job[r].status = "absent" /\ \A v \in Threads \ {u} : Writes(v) => r \notin thread[v].rb
    BY <2>1 DEF IInv, Struct, Reserved
  <2>4. r \in Jobs
    BY <2>1, WorkCases DEF Writes, TypeOK, Write
  <2>5. r # w.id /\ r \notin w.rb
    BY <1>1, <1>6, <2>1, <2>3 DEF w
  <2> QED
    BY <1>5, <2>1, <2>2, <2>3, <2>4, <2>5
<1>16. Untouched'
  BY <1>1, <1>7, <1>8, <1>10 DEF IInv, Struct, Untouched
<1>17. Hands' /\ OneAwaited'
  BY <1>1 DEF IInv, Struct, Hands, OneAwaited, Idle
<1>18. Forward'
  <2> SUFFICES ASSUME NEW u \in Threads, Writes(u)', NEW d \in Devices
               PROVE  /\ thread'[u].new.target[d] = "pending" => thread'[u].was.target[d] = "pending"
                      /\ thread'[u].was.target[d] # "pending" => target'[thread'[u].id][d] # "pending"
    BY DEF Forward
  <2>1. thread'[u] = thread[u] /\ Writes(u) /\ thread[u].id \in Jobs /\ thread[u].id \notin w.rb
    BY <1>11 DEF Writes, Idle
  <2> QED
    BY <1>13, <2>1 DEF IInv, OnceInv, Forward
<1>19. ASSUME NEW k \in Jobs, NEW d \in Devices, Spared(k, {"lost", "timeout"})' PROVE Once(k, d)'
  <2>1. CASE k \in w.rb
    BY <1>1, <1>7, <2>1 DEF Once
  <2>2. CASE k \notin w.rb
    <3>1. Once(k, d)
      BY <1>4, <1>19 DEF Spared, IInv, OnceInv
    <3>2. target[k][d] # "pending" => target'[k][d] # "pending"
      BY <1>13, <2>2
    <3>3. Reporting(k, d) => Reporting(k, d)' \/ target'[k][d] # "pending"
      <4> SUFFICES ASSUME Reporting(k, d) PROVE Reporting(k, d)' \/ target'[k][d] # "pending"
        OBVIOUS
      <4> PICK u \in Threads : /\ thread[u].todo \in {"report", "write"} /\ thread[u].id = k /\ d \in thread[u].awaited
                               /\ thread[u].todo = "write" => thread[u].new.target[d] # "pending"
        BY DEF Reporting
      <4>1. CASE u = t
        <5>1. w.id = k /\ w.new.target[d] # "pending"
          BY <1>1, <4>1 DEF w, Write
        <5>2. w.was.target[d] # "pending" => target[k][d] # "pending"
          BY <1>1, <5>1 DEF w, IInv, OnceInv, Forward
        <5> QED
          BY <1>8, <5>1, <5>2
      <4>2. CASE u # t
        <5>1. thread'[u] = thread[u]
          BY <1>1, <4>2
        <5> QED
          BY <5>1 DEF Reporting
      <4> QED
        BY <4>1, <4>2
    <3> QED
      BY <1>1, <3>1, <3>2, <3>3 DEF Once
  <2> QED
    BY <2>1, <2>2
\* A commit that met no other is what the handler computed.
<1>20. ASSUME NEW k \in Jobs, Faultless(k)'
       PROVE  /\ Faultless(k)
              /\ k = w.id => w.was = Load(k) /\ w.todo = "write"
  <2>1. Faultless(k) /\ (k = w.id => w.was = Load(k))
    BY <1>3, <1>20 DEF Faultless, Spared
  <2>2. k = w.id => w.todo = "write"
    BY <1>1, <2>1 DEF w, IInv, VerdictWork, Write
  <2> QED
    BY <2>1, <2>2
\* A target of such a job that an agent is at or waits for has not ended.
<1>21. ASSUME NEW k \in Jobs, Faultless(k)', NEW d \in Devices, k \notin w.rb, target[k][d] \in Unfinished,
              k = w.id /\ d \in w.awaited => w.new.target[d] \in Unfinished
       PROVE  target'[k][d] \in Unfinished
  <2>1. CASE k = w.id
    <3>1. w.new.target[d] # w.was.target[d] => d \in w.awaited
      BY <1>1, <1>20, <1>21, <2>1 DEF w, IInv, VerdictWork
    <3> QED
      BY <1>8, <1>21, <2>1, <3>1
  <2>2. CASE k # w.id
    BY <1>10, <1>21, <2>2
  <2> QED
    BY <2>1, <2>2
<1>22. VerdictRows'
  <2> SUFFICES ASSUME NEW k \in Jobs, Faultless(k)'
               PROVE  /\ Judged(Load(k))'
                      /\ \A d \in Devices : k \in agent[d].polled \/ k \in agent[d].at => target'[k][d] \in Unfinished
    BY <1>1 DEF VerdictRows
  <2>1. Faultless(k) /\ Judged(Load(k)) /\ \A d \in Devices : k \in agent[d].polled \/ k \in agent[d].at => target[k][d] \in Unfinished
    BY <1>20 DEF IInv, VerdictRows
  <2>2. Judged(Load(k))'
    <3>1. CASE k = w.id
      <4>1. Judged(w.was) => Judged(w.new)
        BY <1>20, <2>1, <3>1 DEF w, IInv, JudgedWork
      <4>2. Judged(w.new)
        BY <1>20, <2>1, <3>1, <4>1
      <4>3. job'[k] = w.new.job /\ target'[k] = w.new.target
        BY <1>9, <1>20, <3>1
      <4> QED
        BY <4>2, <4>3 DEF Judged, Load, In
    <3>2. CASE k \in w.rb
      BY <1>7, <3>2 DEF Judged, Load
    <3>3. CASE k # w.id /\ k \notin w.rb
      BY <1>5, <2>1, <3>3, JudgedSame
    <3> QED
      BY <3>1, <3>2, <3>3
  <2>3. ASSUME NEW d \in Devices, k \in agent[d].polled \/ k \in agent[d].at PROVE target'[k][d] \in Unfinished
    <3>1. k \notin w.rb
      BY <1>7, <2>3
    <3>2. k = w.id /\ d \in w.awaited => w.new.target[d] \in Unfinished
      BY <1>1, <1>20, <2>1, <2>3 DEF w, IInv, VerdictWork, Final
    <3> QED
      BY <1>21, <2>1, <2>3, <3>1, <3>2
  <2> QED
    BY <2>2, <2>3
<1>23. VerdictWork'
  <2> SUFFICES ASSUME NEW u \in Threads, thread'[u] # Idle, Faultless(thread[u].id)', thread'[u] = thread[u]
               PROVE  /\ thread[u].todo # "cancel"
                      /\ \A d \in thread[u].awaited : target'[thread[u].id][d] \in Unfinished
                      /\ thread[u].todo = "report" => /\ thread[u].from \in thread[u].awaited
                                                      /\ Final(thread[u].status, thread[u].id, thread[u].from)
                      /\ thread[u].todo = "write" =>
                           /\ \A d \in Devices : thread[u].new.target[d] # thread[u].was.target[d] => d \in thread[u].awaited
                           /\ \A d \in thread[u].awaited : Final(thread[u].new.target[d], thread[u].id, d)
    BY <1>1, <1>11 DEF VerdictWork, Final, Faultless, Spared
  <2> DEFINE k == thread[u].id
  <2>1. u # t /\ thread[u] # Idle /\ k \in Jobs /\ k \notin w.rb
    BY <1>11
  <2>2. Faultless(k)
    BY <1>4, <2>1 DEF Faultless, Spared
  <2>3. /\ thread[u].todo # "cancel"
        /\ \A d \in thread[u].awaited : target[k][d] \in Unfinished
        /\ thread[u].todo = "report" => thread[u].from \in thread[u].awaited /\ Final(thread[u].status, k, thread[u].from)
        /\ thread[u].todo = "write" =>
             /\ \A d \in Devices : thread[u].new.target[d] # thread[u].was.target[d] => d \in thread[u].awaited
             /\ \A d \in thread[u].awaited : Final(thread[u].new.target[d], k, d)
    BY <2>1, <2>2 DEF IInv, VerdictWork
  <2>4. ASSUME NEW d \in thread[u].awaited PROVE target'[k][d] \in Unfinished
    <3>1. d \in Devices
      BY WorkCases DEF TypeOK
    <3>2. d \notin w.awaited
      BY <2>1, <2>4, <3>1 DEF w, IInv, Struct, OneAwaited
    <3> PICK j \in Jobs : j = k
      BY <2>1
    <3>3. Faultless(j)'
      BY DEF Faultless, Spared
    <3>4. j \notin w.rb /\ target[j][d] \in Unfinished
      BY <2>1, <2>3, <2>4
    <3>5. target'[j][d] \in Unfinished
      BY <1>21, <3>1, <3>2, <3>3, <3>4
    <3> QED
      BY <3>5
  <2> QED
    BY <2>3, <2>4
<1>24. JudgedWork'
  <2>1. thread'[t].todo # "write"
    BY <1>1 DEF Idle
  <2> QED
    BY <1>1, <1>4, <2>1, JudgedOther DEF IInv
<1> QED
  BY <1>14, <1>15, <1>16, <1>17, <1>18, <1>19, <1>22, <1>23, <1>24 DEF IInv, Struct, OnceInv
\* A step of an agent that waits for no answer.
ToAct(d, a) ==
  /\ Free(d) /\ agent' = [agent EXCEPT ![d] = a] /\ UNCHANGED <<job, target, thread>>
  /\ \A k \in Jobs : upset[k] \subseteq upset'[k]
  /\ \A k \in Jobs : \A e \in Devices : e # d => ran'[k][e] = ran[k][e]
  /\ \A j, k \in a.at : j = k
  /\ \A j \in a.at : j \notin a.polled
  /\ a.at = {} => a.phase = "idle"
  /\ \A k \in Jobs : k \in a.polled \/ k \in a.at =>
       k \in agent[d].polled \/ k \in agent[d].at \/ target[k][d] = "pending"
  /\ \A k \in Jobs : ran'[k][d] # ran[k][d] => k \in agent[d].at
  /\ \A k \in Jobs : Spared(k, {"lost", "timeout"})' => Once(k, d)'

LEMMA ActKeeps ==
  ASSUME TypeOK, IInv, NEW d \in Devices, NEW a, ToAct(d, a)
  PROVE  IInv'
<1> USE DEF ToAct
<1>0. \A e \in Devices : agent'[e] = IF e = d THEN a ELSE agent[e]
  BY DEF TypeOK
<1>1. Settled' /\ Reserved' /\ OneAwaited'
  BY DEF IInv, Struct, Settled, Reserved, OneAwaited, Writes
<1>2. Untouched'
  <2> SUFFICES ASSUME NEW j \in Jobs, job[j].status = "absent"
               PROVE  /\ job[j] = Absent
                      /\ \A e \in Devices : /\ target[j][e] = "none" /\ ran'[j][e] = 0
                                            /\ j \notin agent'[e].polled /\ j \notin agent'[e].at
    BY DEF Untouched
  <2>1. job[j] = Absent /\ \A e \in Devices : target[j][e] = "none" /\ ran[j][e] = 0 /\ j \notin agent[e].polled /\ j \notin agent[e].at
    BY DEF IInv, Struct, Untouched
  <2> QED
    BY <1>0, <2>1
<1>3. Hands'
  BY <1>0 DEF IInv, Struct, Hands
<1>4. Forward'
  BY DEF IInv, OnceInv, Forward, Writes
<1>5. ASSUME NEW k \in Jobs, NEW e \in Devices, Spared(k, {"lost", "timeout"})' PROVE Once(k, e)'
  <2>1. CASE e = d
    BY <1>5, <2>1
  <2>2. CASE e # d
    <3>1. Once(k, e)
      BY <1>5 DEF Spared, IInv, OnceInv
    <3>2. agent'[e] = agent[e] /\ ran'[k][e] = ran[k][e]
      BY <1>0, <2>2
    <3> QED
      BY <3>1, <3>2 DEF Once, Reporting
  <2> QED
    BY <2>1, <2>2
<1>6. VerdictRows'
  <2> SUFFICES ASSUME NEW k \in Jobs, Faultless(k)'
               PROVE  Judged(Load(k))' /\ \A e \in Devices : k \in agent'[e].polled \/ k \in agent'[e].at => target[k][e] \in Unfinished
    BY DEF VerdictRows
  <2>1. Faultless(k)
    BY DEF Faultless, Spared
  <2>2. Judged(Load(k)) /\ \A e \in Devices : k \in agent[e].polled \/ k \in agent[e].at => target[k][e] \in Unfinished
    BY <2>1 DEF IInv, VerdictRows
  <2> QED
    BY <1>0, <2>2, JudgedSame DEF Unfinished
<1>7. VerdictWork'
  <2> SUFFICES ASSUME NEW u \in Threads, thread[u] # Idle, Faultless(thread[u].id)'
               PROVE  /\ thread[u].todo # "cancel"
                      /\ \A e \in thread[u].awaited : target[thread[u].id][e] \in Unfinished
                      /\ thread[u].todo = "report" => /\ thread[u].from \in thread[u].awaited
                                                      /\ Final(thread[u].status, thread[u].id, thread[u].from)'
                      /\ thread[u].todo = "write" =>
                           /\ \A e \in Devices : thread[u].new.target[e] # thread[u].was.target[e] => e \in thread[u].awaited
                           /\ \A e \in thread[u].awaited : Final(thread[u].new.target[e], thread[u].id, e)'
    BY DEF VerdictWork, Final, Faultless, Spared
  <2>1. Faultless(thread[u].id)
    <3>1. thread[u].id \in Jobs
      BY WorkCases DEF TypeOK, Report, Write
    <3> QED
      BY <3>1 DEF Faultless, Spared
  <2>2. \A e \in thread[u].awaited : e \in Devices /\ agent'[e] = agent[e]
    BY <1>0, WorkCases DEF Free, TypeOK
  <2> QED
    BY <2>1, <2>2 DEF IInv, VerdictWork, Final
<1>8. JudgedWork'
  <2> SUFFICES ASSUME NEW u \in Threads, thread'[u].todo = "write", Faultless(thread[u].id)', Judged(thread'[u].was)
               PROVE  Judged(thread'[u].new)
    BY DEF JudgedWork, Judged, In
  <2>1. Faultless(thread[u].id)
    BY WorkCases DEF Faultless, Spared, TypeOK, Write
  <2> QED
    BY <2>1 DEF IInv, JudgedWork
<1> QED
  BY <1>1, <1>2, <1>3, <1>4, <1>5, <1>6, <1>7, <1>8 DEF IInv, Struct, OnceInv

LEMMA PollKeeps ==
  ASSUME TypeOK, IInv, NEW d \in Devices, Poll(d)
  PROVE  IInv'
<1> DEFINE l == {j \in Jobs : Delivers(j, d)}
           a == [agent[d] EXCEPT !.polled = l]
<1>1. Free(d) /\ agent' = [agent EXCEPT ![d] = a] /\ UNCHANGED <<job, target, thread, ran, upset>> /\ agent[d] = Resting
  BY DEF Poll
<1>2. a.polled = l /\ a.at = {} /\ a.phase = "idle"
  BY <1>1 DEF Resting
<1>3. \A k \in l : target[k][d] = "pending"
  BY DEF Delivers
<1> HIDE DEF l, a
<1>4. agent'[d] = a
  BY <1>1 DEF TypeOK
<1>5. ASSUME NEW k \in Jobs, Spared(k, {"lost", "timeout"})' PROVE Once(k, d)'
  <2>1. Once(k, d)
    BY <1>1, <1>5 DEF Spared, IInv, OnceInv
  <2>2. ran[k][d] \in 0..2
    BY DEF TypeOK
  <2>3. k \in l => ran[k][d] = 0
    BY <1>3, <2>1, <2>2 DEF Once
  <2> QED
    BY <1>1, <1>2, <1>4, <2>1, <2>3 DEF Once, Reporting
<1>6. ToAct(d, a)
  BY <1>1, <1>2, <1>3, <1>5 DEF ToAct
<1> QED
  BY <1>6, ActKeeps

LEMMA BeginKeeps ==
  ASSUME TypeOK, IInv, NEW d \in Devices, NEW j \in Jobs, Begin(d, j)
  PROVE  IInv'
<1> DEFINE a == [agent[d] EXCEPT !.polled = agent[d].polled \ {j}, !.at = {j}]
<1>1. Free(d) /\ agent' = [agent EXCEPT ![d] = a] /\ UNCHANGED <<job, target, thread, ran, upset>> /\ agent[d].at = {} /\ j \in agent[d].polled
  BY DEF Begin
<1>2. a.polled = agent[d].polled \ {j} /\ a.at = {j} /\ a.phase = "idle"
  <2>1. agent[d] \in Agent /\ agent[d].phase = "idle"
    BY <1>1 DEF TypeOK, IInv, Struct, Hands
  <2> QED
    BY <2>1 DEF Agent
<1> HIDE DEF a
<1>4. agent'[d] = a
  BY <1>1 DEF TypeOK
<1>5. ASSUME NEW k \in Jobs, Spared(k, {"lost", "timeout"})' PROVE Once(k, d)'
  <2>1. Once(k, d)
    BY <1>1, <1>5 DEF Spared, IInv, OnceInv
  <2> QED
    BY <1>1, <1>2, <1>4, <2>1 DEF Once, Reporting
<1>6. ToAct(d, a)
  BY <1>1, <1>2, <1>5 DEF ToAct
<1> QED
  BY <1>6, ActKeeps

LEMMA ExecuteKeeps ==
  ASSUME TypeOK, IInv, NEW d \in Devices, Execute(d)
  PROVE  IInv'
<1> DEFINE a == [agent[d] EXCEPT !.phase = "ran"]
<1>1. Free(d) /\ agent' = [agent EXCEPT ![d] = a] /\ UNCHANGED <<job, target, thread, upset>> /\ agent[d].phase = "installing"
  BY DEF Execute
<1>2. a.polled = agent[d].polled /\ a.at = agent[d].at /\ a.phase = "ran" /\ agent[d].at # {}
  <2>1. agent[d] \in Agent /\ agent[d].at # {}
    BY <1>1 DEF TypeOK, IInv, Struct, Hands
  <2> QED
    BY <2>1 DEF Agent
<1> HIDE DEF a
<1>3. \A k \in Jobs, e \in Devices : ran[k][e] \in 0..2 /\
        ran'[k][e] = IF k \in agent[d].at /\ e = d /\ ran[k][d] < 2 THEN ran[k][e] + 1 ELSE ran[k][e]
  BY DEF Execute, TypeOK
<1>4. agent'[d] = a
  BY <1>1 DEF TypeOK
<1>5. ASSUME NEW k \in Jobs, Spared(k, {"lost", "timeout"})' PROVE Once(k, d)'
  <2>1. Once(k, d)
    BY <1>1, <1>5 DEF Spared, IInv, OnceInv
  <2>2. ~Reporting(k, d)
    BY <1>1 DEF Reporting, Free
  <2>3. CASE k \in agent[d].at
    <3>1. ran[k][d] = 0 /\ target[k][d] # "pending" /\ k \notin agent[d].polled
      BY <1>1, <2>1, <2>2, <2>3 DEF Once, IInv, Struct, Hands
    <3>2. ran'[k][d] = 1
      BY <1>3, <2>3, <3>1
    <3> QED
      BY <1>1, <1>2, <1>4, <3>1, <3>2 DEF Once
  <2>4. CASE k \notin agent[d].at
    <3>1. ran'[k][d] = ran[k][d]
      BY <1>3, <2>4
    <3> QED
      BY <1>1, <1>2, <1>4, <2>1, <2>4, <3>1 DEF Once
  <2> QED
    BY <2>3, <2>4
<1>6. ToAct(d, a)
  <2>1. \A k \in Jobs : ran'[k][d] # ran[k][d] => k \in agent[d].at
    BY <1>3
  <2>2. \A k \in Jobs : \A e \in Devices : e # d => ran'[k][e] = ran[k][e]
    BY <1>3
  <2> QED
    BY <1>1, <1>2, <1>5, <2>1, <2>2 DEF ToAct, IInv, Struct, Hands
<1> QED
  BY <1>6, ActKeeps

LEMMA RestartKeeps ==
  ASSUME TypeOK, IInv, NEW d \in Devices, RestartAgent(d)
  PROVE  IInv'
<1>1. Free(d) /\ agent' = [agent EXCEPT ![d] = Resting] /\ UNCHANGED <<job, target, thread, ran>>
  BY DEF RestartAgent
<1>2. \A k \in Jobs : upset[k] \subseteq upset'[k]
  <2> DEFINE jobs == agent[d].at \union agent[d].polled
  <2>1. Upset(jobs, "restart")
    BY DEF RestartAgent
  <2> HIDE DEF jobs
  <2>2. \A k \in Jobs : upset'[k] = IF k \in jobs THEN upset[k] \union {"restart"} ELSE upset[k]
    BY <2>1 DEF Upset
  <2> QED
    BY <2>2
<1>4. agent'[d] = Resting
  BY <1>1 DEF TypeOK
<1>5. ASSUME NEW k \in Jobs, Spared(k, {"lost", "timeout"})' PROVE Once(k, d)'
  <2>1. Once(k, d)
    BY <1>2, <1>5 DEF Spared, IInv, OnceInv
  <2> QED
    BY <1>1, <1>4, <2>1 DEF Once, Reporting, Resting
<1>6. ToAct(d, Resting)
  BY <1>1, <1>2, <1>5 DEF ToAct, Resting
<1> QED
  BY <1>6, ActKeeps
\* A step of an agent that sends a report about the delivery at hand, and goes on with it or is done.
ToSend(t, d, status, a) ==
  /\ Sends(t, d, status) /\ status \in Outcomes /\ agent' = [agent EXCEPT ![d] = a] /\ a.polled = agent[d].polled
  /\ \/ a.at = agent[d].at /\ status \in Unfinished /\ agent[d].phase # "ran" /\ a.phase # "idle"
     \/ a.at = {} /\ a.phase = "idle"

LEMMA SendKeeps ==
  ASSUME TypeOK, IInv, NEW t \in Threads, NEW d \in Devices, NEW status \in TargetStatus, NEW a,
         ToSend(t, d, status, a), UNCHANGED ran
  PROVE  IInv'
<1> PICK j \in agent[d].at :
      LET r == [todo |-> "report", id |-> j, awaited |-> {d}, from |-> d, status |-> status] IN
      /\ j \in Jobs /\ r \in Report /\ thread' = [thread EXCEPT ![t] = r] /\ thread' \in [Threads -> Work]
      /\ Free(d) /\ thread[t] = Idle /\ UNCHANGED <<job, target, ran, upset>>
  BY SendsType DEF ToSend
<1> DEFINE x == [todo |-> "report", id |-> j, awaited |-> {d}, from |-> d, status |-> status]
<1>1. x.todo = "report" /\ x.id = j /\ x.awaited = {d} /\ x.from = d /\ x.status = status /\ x # Idle
  BY DEF Idle
<1> HIDE DEF x
<1>2. thread' = [thread EXCEPT ![t] = x]
  BY DEF x
<1>3. \A u \in Threads : thread'[u] = IF u = t THEN x ELSE thread[u]
  BY <1>2 DEF TypeOK
<1>4. \A e \in Devices : agent'[e] = IF e = d THEN a ELSE agent[e]
  BY DEF ToSend, TypeOK
<1>5. job[j].status # "absent" /\ j \notin agent[d].polled /\ \A k \in agent[d].at : k = j
  BY DEF IInv, Struct, Untouched, Hands
<1>6. /\ a.polled = agent[d].polled /\ status \in Outcomes
      /\ \/ a.at = agent[d].at /\ status \in Unfinished /\ agent[d].phase # "ran" /\ a.phase # "idle"
         \/ a.at = {} /\ a.phase = "idle"
  BY DEF ToSend
<1>7. thread[t].todo = "idle" /\ thread[t].awaited = {}
  BY DEF Idle
<1>8. Settled'
  BY <1>1, <1>3, <1>5, <1>6 DEF IInv, Struct, Settled, Writes
<1>9. Reserved'
  BY <1>1, <1>3 DEF IInv, Struct, Reserved, Writes
<1>10. Untouched'
  <2> SUFFICES ASSUME NEW k \in Jobs, job[k].status = "absent"
               PROVE  /\ job[k] = Absent
                      /\ \A e \in Devices : /\ target[k][e] = "none" /\ ran[k][e] = 0
                                            /\ k \notin agent'[e].polled /\ k \notin agent'[e].at
    BY DEF Untouched
  <2>1. job[k] = Absent /\ \A e \in Devices : target[k][e] = "none" /\ ran[k][e] = 0 /\ k \notin agent[e].polled /\ k \notin agent[e].at
    BY DEF IInv, Struct, Untouched
  <2> QED
    BY <1>4, <1>6, <2>1
<1>11. Hands'
  BY <1>4, <1>6 DEF IInv, Struct, Hands
<1>12. OneAwaited'
  BY <1>1, <1>3 DEF IInv, Struct, OneAwaited, Free
<1>13. Forward'
  BY <1>1, <1>3 DEF IInv, OnceInv, Forward, Writes
<1>14. ASSUME NEW k \in Jobs, NEW e \in Devices, Spared(k, {"lost", "timeout"})' PROVE Once(k, e)'
  <2>1. Once(k, e)
    BY <1>14 DEF Spared, IInv, OnceInv
  <2>2. Reporting(k, e) => Reporting(k, e)'
    <3> SUFFICES ASSUME Reporting(k, e) PROVE Reporting(k, e)'
      OBVIOUS
    <3> PICK u \in Threads : /\ thread[u].todo \in {"report", "write"} /\ thread[u].id = k /\ e \in thread[u].awaited
                             /\ thread[u].todo = "write" => thread[u].new.target[e] # "pending"
      BY DEF Reporting
    <3>1. thread'[u] = thread[u]
      BY <1>3, <1>7
    <3> QED
      BY <3>1 DEF Reporting
  <2>3. CASE e # d
    <3>1. agent'[e] = agent[e]
      BY <1>4, <2>3
    <3> QED
      BY <2>1, <2>2, <3>1 DEF Once
  <2>4. CASE e = d
    <3>1. agent'[e] = a
      BY <1>4, <2>4
    <3>2. CASE k \in a.at
      <4>1. k = j /\ agent[d].phase # "ran" /\ k \in agent[d].at
        BY <1>5, <1>6, <3>2
      <4>2. Reporting(k, e)'
        <5>1. thread'[t] = x
          BY <1>3
        <5> QED
          BY <1>1, <2>4, <4>1, <5>1 DEF Reporting
      <4> QED
        BY <1>6, <2>1, <2>4, <3>1, <4>1, <4>2 DEF Once
    <3>3. CASE k \notin a.at
      BY <1>6, <2>1, <2>4, <3>1, <3>3 DEF Once
    <3> QED
      BY <3>2, <3>3
  <2> QED
    BY <2>3, <2>4
<1>15. VerdictRows'
  <2> SUFFICES ASSUME NEW k \in Jobs, Faultless(k)'
               PROVE  Judged(Load(k))' /\ \A e \in Devices : k \in agent'[e].polled \/ k \in agent'[e].at => target[k][e] \in Unfinished
    BY DEF VerdictRows
  <2>1. Faultless(k)
    BY DEF Faultless, Spared
  <2>2. Judged(Load(k)) /\ \A e \in Devices : k \in agent[e].polled \/ k \in agent[e].at => target[k][e] \in Unfinished
    BY <2>1 DEF IInv, VerdictRows
  <2> QED
    BY <1>4, <1>6, <2>2, JudgedSame DEF Unfinished
<1>16. VerdictWork'
  <2> SUFFICES ASSUME NEW u \in Threads, thread'[u] # Idle, Faultless(thread'[u].id)
               PROVE  /\ thread'[u].todo # "cancel"
                      /\ \A e \in thread'[u].awaited : target[thread'[u].id][e] \in Unfinished
                      /\ thread'[u].todo = "report" => /\ thread'[u].from \in thread'[u].awaited
                                                       /\ Final(thread[u].status, thread[u].id, thread[u].from)'
                      /\ thread'[u].todo = "write" =>
                           /\ \A e \in Devices : thread'[u].new.target[e] # thread'[u].was.target[e] => e \in thread'[u].awaited
                           /\ \A e \in thread'[u].awaited : Final(thread[u].new.target[e], thread[u].id, e)'
    BY DEF VerdictWork, Final, Faultless, Spared
  <2>1. CASE u = t
    <3>1. thread'[u] = x /\ Faultless(j)
      BY <1>1, <1>3, <2>1
    <3>2. target[j][d] \in Unfinished
      BY <3>1 DEF IInv, VerdictRows
    <3>3. status \notin Unfinished => j \notin agent'[d].polled /\ j \notin agent'[d].at
      BY <1>4, <1>5, <1>6
    <3> QED
      BY <1>1, <3>1, <3>2, <3>3 DEF Final
  <2>2. CASE u # t
    <3>1. thread'[u] = thread[u] /\ thread[u] # Idle
      BY <1>3, <2>2
    <3>2. \A e \in thread[u].awaited : e \in Devices /\ agent'[e] = agent[e]
      BY <1>4, WorkCases, <3>1 DEF Free, TypeOK
    <3> QED
      BY <3>1, <3>2 DEF IInv, VerdictWork, Final
  <2> QED
    BY <2>1, <2>2
<1>17. JudgedWork'
  <2>1. thread'[t].todo # "write"
    BY <1>1, <1>3
  <2> QED
    BY <1>3, <2>1, JudgedOther DEF IInv
<1> QED
  BY <1>8, <1>9, <1>10, <1>11, <1>12, <1>13, <1>14, <1>15, <1>16, <1>17 DEF IInv, Struct, OnceInv

LEMMA ProgressKeeps ==
  ASSUME TypeOK, IInv, NEW t \in Threads, NEW d \in Devices, NEW phase \in {"downloading", "installing"}, Progress(t, d, phase)
  PROVE  IInv'
<1> DEFINE a == [agent[d] EXCEPT !.phase = phase]
<1>1. agent[d] \in Agent
  BY DEF TypeOK
<1>2. a.polled = agent[d].polled /\ a.at = agent[d].at /\ a.phase = phase
  BY <1>1 DEF Agent
<1>3. agent' = [agent EXCEPT ![d] = a] /\ Sends(t, d, phase) /\ agent[d].phase # "ran" /\ UNCHANGED ran
  BY DEF Progress, Sends
<1> HIDE DEF a
<1>4. phase \in TargetStatus /\ ToSend(t, d, phase, a)
  BY <1>2, <1>3 DEF ToSend, Outcomes, Unfinished, TargetStatus
<1> QED
  BY <1>3, <1>4, SendKeeps

LEMMA FinishKeeps ==
  ASSUME TypeOK, IInv, NEW t \in Threads, NEW d \in Devices, Finish(t, d)
  PROVE  IInv'
<1> DEFINE a == [agent[d] EXCEPT !.at = {}, !.phase = "idle"]
<1>1. agent[d] \in Agent
  BY DEF TypeOK
<1>2. a.polled = agent[d].polled /\ a.at = {} /\ a.phase = "idle"
  BY <1>1 DEF Agent
<1>3. agent' = [agent EXCEPT ![d] = a]
  BY DEF Finish
<1> HIDE DEF a
<1>4. PICK status \in {"failed", "success", "rolled_back"} : Sends(t, d, status)
  BY DEF Finish
<1>5. status \in TargetStatus /\ ToSend(t, d, status, a) /\ UNCHANGED ran
  BY <1>2, <1>3, <1>4 DEF ToSend, Outcomes, TargetStatus, Sends
<1> QED
  BY <1>5, SendKeeps

LEMMA IInvKeeps == TypeOK /\ IInv /\ [Next]_vars => IInv'
<1> SUFFICES ASSUME TypeOK, IInv, [Next]_vars PROVE IInv'
  OBVIOUS
<1>1. CASE Operators
  <2>1. ASSUME NEW j \in Jobs, NEW devices \in SUBSET Devices, NEW action \in {"install", "remove"}, CreateJob(j, devices, action)
        PROVE  IInv'
    BY <2>1, CreateKeeps
  <2>2. ASSUME NEW t \in Threads, NEW j \in Jobs, StartJob(t, j) \/ CancelJob(t, j)
        PROVE  IInv'
    BY <2>2, StartKeeps, CancelKeeps
  <2>3. ASSUME NEW t \in Threads, NEW j \in Jobs, NEW rb \in Jobs, NEW wanted \in SUBSET Devices, CreateRollback(t, j, rb, wanted)
        PROVE  IInv'
    BY <2>3, RollbackKeeps
  <2> QED
    BY <1>1, <2>1, <2>2, <2>3 DEF Operators
<1>2. ASSUME NEW t \in Threads, Handler(t) \/ LoseReport(t) \/ GiveUp(t)
      PROVE  IInv'
  BY <1>2, ReportKeeps, CommitKeeps, FaultKeeps DEF Handler
<1>3. ASSUME NEW d \in Devices, Working(d)
      PROVE  IInv'
  BY <1>3, PollKeeps, ExecuteKeeps, BeginKeeps, FinishKeeps, ProgressKeeps DEF Working
<1>4. ASSUME NEW d \in Devices, RestartAgent(d)
      PROVE  IInv'
  BY <1>4, RestartKeeps
<1>5. CASE UNCHANGED vars
  BY <1>5, InvSame
<1> QED
  BY <1>1, <1>2, <1>3, <1>4, <1>5 DEF Next

LEMMA IInvCorrect == Spec => []IInv
<1>1. Init => IInv
  BY InvInit
<1>2. TypeOK /\ IInv /\ [Next]_vars => IInv'
  BY IInvKeeps
<1> QED
  BY <1>1, <1>2, TypeCorrect, PTL DEF Spec

\* No package is run twice for one target, as long as the agent's reports arrive before it goes
\* on: what is delivered is pending (pending_for_agent), a pending target has never been run, and
\* the report of the agent makes it something else before the package runs (report_target).
THEOREM RunOnceCorrect == Spec => []RunOnce
<1>1. IInv => RunOnce
  BY DEF IInv, OnceInv, Once, RunOnce
<1> QED
  BY <1>1, IInvCorrect, PTL

\* The verdict of _recompute_job_counts holds: without a race, a timeout or a cancellation a
\* target that has ended is no longer with its agent, so that nothing under way changes a job
\* that has come to its verdict.
THEOREM VerdictHoldsCorrect == Spec => []VerdictHolds
<1>1. IInv => VerdictHolds
  <2> SUFFICES ASSUME IInv, NEW j \in Jobs, Spared(j, {"race", "timeout", "cancel"}), job[j].status \in {"completed", "failed"}
               PROVE  /\ In(target[j], Unfinished) = 0
                      /\ job[j].status = "failed" <=> In(target[j], {"failed"}) > 0 /\ In(target[j], {"success"}) = 0
    BY DEF VerdictHolds
  <2>1. Judged(Load(j))
    BY DEF IInv, VerdictRows, Faultless
  <2> QED
    BY <2>1 DEF Judged, Load
<1> QED
  BY <1>1, IInvCorrect, PTL
=============================================================================
