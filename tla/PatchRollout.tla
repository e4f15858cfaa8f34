------------------------------ MODULE PatchRollout ------------------------------
(***************************************************************************)
(* One patch rollout: execution, rollback and the commands it leaves behind *)
(* (services/device_management_service.py, endpoints/patch_management.py).  *)
(*                                                                          *)
(* An execution reads the rollout, queues a command per device, each in a   *)
(* commit of its own, and writes the rollout's status last, if it differs   *)
(* from the status it read.  Nothing follows what becomes of the commands.  *)
(***************************************************************************)
EXTENDS Integers, FiniteSets

CONSTANTS Hosts,      \* the devices that agents exist for
          Requests    \* requests that execute

VARIABLES rollout,    \* status
          devices,    \* its device_ids; "unknown" resolves to no agent
          enabled,    \* the enabled agents
          run,        \* what each execution has read and has left to do
          ordered,    \* the agents with agent_commands of the rollout (a scan, an install or both)
          repeated    \* history: executed again, executed while rolled back, or cut off

rolloutVars == <<rollout, devices, enabled, run, ordered, repeated>>

Status == {"planned", "in_progress", "failed", "completed", "rolled_back"}
Unrun  == [open |-> FALSE, read |-> "planned", left |-> {}, queued |-> FALSE, skipped |-> FALSE]

TypeOK ==
  /\ rollout \in Status /\ devices \subseteq Hosts \union {"unknown"} /\ enabled \subseteq Hosts
  /\ ordered \subseteq Hosts /\ repeated \in BOOLEAN
  /\ run \in [Requests -> [open : BOOLEAN, read : Status, left : SUBSET devices, queued : BOOLEAN, skipped : BOOLEAN]]

\* create_rollout, after the policy "Critical Only" has been asked about the ring.
Init ==
  /\ rollout = "planned" /\ devices \in SUBSET (Hosts \union {"unknown"}) /\ enabled \in SUBSET Hosts
  /\ run = [r \in Requests |-> Unrun] /\ ordered = {} /\ repeated = FALSE

Execute(r) ==
  /\ ~run[r].open
  /\ run' = [run EXCEPT ![r] = [Unrun EXCEPT !.open = TRUE, !.read = rollout, !.left = devices]]
  /\ repeated' = (repeated \/ rollout # "planned" \/ \E q \in Requests : run[q].open)
  /\ UNCHANGED <<rollout, devices, enabled, ordered>>

\* queue_command for one device: each command is committed.
QueueOne(r, d) ==
  /\ d \in run[r].left /\ d \in enabled
  /\ run' = [run EXCEPT ![r].left = @ \ {d}, ![r].queued = TRUE]
  /\ ordered' = ordered \union {d}
  /\ UNCHANGED <<rollout, devices, enabled, repeated>>

\* agent_not_found, agent_disabled
SkipOne(r, d) ==
  /\ d \in run[r].left \ enabled
  /\ run' = [run EXCEPT ![r].left = @ \ {d}, ![r].skipped = TRUE]
  /\ UNCHANGED <<rollout, devices, enabled, ordered, repeated>>

\* Mutant: one skipped device fails the rollout.
Verdict_Skipped(w) == IF w.skipped THEN "failed" ELSE IF w.queued THEN "in_progress" ELSE "completed"
Verdict(w) == IF w.queued THEN "in_progress" ELSE IF w.skipped THEN "failed" ELSE "completed"

Finish(r) ==
  LET w == run[r] IN
  /\ w.open /\ w.left = {}
  /\ rollout' = IF Verdict(w) = w.read THEN rollout ELSE Verdict(w)
  /\ run' = [run EXCEPT ![r] = Unrun]
  /\ UNCHANGED <<devices, enabled, ordered, repeated>>

\* A database error or a restart: what was queued stays queued.
Abort(r) ==
  /\ run[r].open
  /\ run' = [run EXCEPT ![r] = Unrun] /\ repeated' = TRUE
  /\ UNCHANGED <<rollout, devices, enabled, ordered>>

\* rollback_rollout: the status alone.
Rollback ==
  /\ rollout' = "rolled_back"
  /\ repeated' = (repeated \/ \E r \in Requests : run[r].open)
  /\ UNCHANGED <<devices, enabled, run, ordered>>

SetEnabled(h) ==
  /\ enabled' = (enabled \union {h}) \ (enabled \intersect {h})
  /\ UNCHANGED <<rollout, devices, run, ordered, repeated>>

Next ==
  \/ \E r \in Requests : Execute(r) \/ Finish(r) \/ Abort(r) \/ \E d \in run[r].left : QueueOne(r, d) \/ SkipOne(r, d)
  \/ Rollback
  \/ \E h \in Hosts : SetEnabled(h)

Spec == Init /\ [][Next]_rolloutVars

---------------------------------------------------------------------------
(* Properties *)

\* Unless it was executed more than once or cut off, a rollout that reads failed, or completed, or
\* still planned with no execution open, ordered nothing; and one in progress ordered something.
StatusTellsOrders ==
  ~repeated =>
    /\ rollout = "in_progress" => ordered # {}
    /\ rollout \in {"failed", "completed"} => ordered = {}
    /\ rollout = "planned" /\ ordered # {} => \E r \in Requests : run[r].open
\* Why: until then one execution at a time is open, of a rollout that is still planned, and it
\* knows whether it has ordered.
OneExecution ==
  /\ \A r \in Requests : ~run[r].open => run[r] = Unrun
  /\ ~repeated => \A r \in Requests : run[r].open =>
       /\ rollout = "planned" /\ run[r].read = "planned" /\ (run[r].queued <=> ordered # {})
       /\ \A q \in Requests : run[q].open => q = r
Inv == TypeOK /\ OneExecution /\ StatusTellsOrders
=================================================================================
