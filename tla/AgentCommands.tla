--------------------------- MODULE AgentCommands ---------------------------
(***************************************************************************)
(* The command pipeline of one endpoint: the durable SQL queue (table      *)
(* agent_commands), the in-memory runtime queue (_commands), the HTTP      *)
(* handlers the agent calls, the ExecutorWorker thread that retries failed *)
(* commands, and the loop of the native Go agent.                          *)
(*                                                                         *)
(* A step is one database transaction, one handler section without I/O, or *)
(* one action of the agent.  Between them anything may interleave: the     *)
(* agent's HTTP client gives up after 30 s while its request goes on being *)
(* served, either side may crash, and a posted result may never arrive.    *)
(***************************************************************************)
EXTENDS Naturals, FiniteSets

CONSTANTS
  Cmds,        \* ids of rows of agent_commands queued for this agent
  Legacy,      \* ids of runtime-only commands
  Handlers,    \* server threads able to serve polls of this agent at once
  Workers,     \* ExecutorWorker threads, one per server process
  MaxRetries,  \* AgentCommand.max_retries, 3 unless the row says otherwise
  PollLimit,   \* LIMIT of get_pending_commands, 50 in the code
  MaxFaults,   \* bound on crashes, timeouts, losses and database errors
  DbFaults,    \* whether mark_sent may raise in the middle of a poll
  NoHandler    \* the agent is not waiting for a poll

ASSUME CommandsAssumption   == Cmds \intersect Legacy = {}
ASSUME RetriesAssumption    == MaxRetries \in Nat
ASSUME LimitAssumption      == PollLimit \in Nat \ {0}
ASSUME FaultsAssumption     == MaxFaults \in Nat /\ DbFaults \in BOOLEAN
ASSUME NoHandlerAssumption  == NoHandler \notin Handlers

VARIABLES
  status,      \* agent_commands.status, "absent" before queue_command
  retries,     \* agent_commands.retry_count
  legacy,      \* status of a runtime command, "lost" when the process died
  known,       \* the agent is in _agents, so its token is accepted
  handler,     \* per thread: phase of the poll, rows still to mark, rows listed
  picked,      \* per worker: rows and retry_counts read by _retry_candidates
  waiting,     \* the poll the agent waits for
  batch,       \* commands of the last response the agent has yet to execute
  results,     \* result posts in flight
  faults,      \* faults so far
  raced,       \* history: commands an UPDATE hit after their row had changed
  runs,        \* history: executions, counted until the command is raced
  succeeded    \* history: commands of which some execution exited with 0

vars == <<status, retries, legacy, known, handler, picked, waiting, batch,
          results, faults, raced, runs, succeeded>>
queueVars   == <<status, retries>>
agentVars   == <<waiting, batch>>
historyVars == <<raced, runs, succeeded>>

Status       == {"absent", "pending", "dispatched", "completed", "failed"}
LegacyStatus == {"absent", "pending", "dispatched", "completed", "lost"}
Result       == [cmd : Cmds \union Legacy, exit : {0, 1}]
Free         == [phase |-> "free", todo |-> {}, listed |-> {}]
Marking(rows, done) == [phase |-> "marking", todo |-> rows, listed |-> done]
Nothing      == [rows |-> {}, seen |-> [c \in Cmds |-> 0]]
Poll         == [phase : {"free", "received", "marking"},
                 todo : SUBSET Cmds, listed : SUBSET Cmds]

TypeOK ==
  /\ status \in [Cmds -> Status]
  /\ retries \in [Cmds -> Nat]
  /\ legacy \in [Legacy -> LegacyStatus]
  /\ known \in BOOLEAN
  /\ handler \in [Handlers -> Poll]
  /\ picked \in [Workers -> [rows : SUBSET Cmds, seen : [Cmds -> Nat]]]
  /\ waiting \in Handlers \union {NoHandler}
  /\ batch \subseteq Cmds \union Legacy
  /\ results \subseteq Result
  /\ faults \in 0..MaxFaults
  /\ raced \subseteq Cmds
  /\ runs \in [Cmds -> Nat]
  /\ succeeded \subseteq Cmds

Init ==
  /\ status = [c \in Cmds |-> "absent"]
  /\ retries = [c \in Cmds |-> 0]
  /\ legacy = [l \in Legacy |-> "absent"]
  /\ known = TRUE
  /\ handler = [h \in Handlers |-> Free]
  /\ picked = [w \in Workers |-> Nothing]
  /\ waiting = NoHandler
  /\ batch = {}
  /\ results = {}
  /\ faults = 0
  /\ raced = {}
  /\ runs = [c \in Cmds |-> 0]
  /\ succeeded = {}

Fault == faults < MaxFaults /\ faults' = faults + 1

---------------------------------------------------------------------------
(* Queueing *)

\* AgentDispatcher.queue_command: one committed INSERT.
QueueCommand(c) ==
  /\ status[c] = "absent"
  /\ status' = [status EXCEPT ![c] = "pending"]
  /\ UNCHANGED <<retries, legacy, known, handler, picked, agentVars, results, faults, historyVars>>

\* The portal's create_command and remote_* and queue_patch_commands append to
\* _commands when the agent is in _agents.
CreateCommand(l) ==
  /\ known
  /\ legacy[l] = "absent"
  /\ legacy' = [legacy EXCEPT ![l] = "pending"]
  /\ UNCHANGED <<queueVars, known, handler, picked, agentVars, results, faults, historyVars>>

---------------------------------------------------------------------------
(* The poll: agent_pending_commands *)

\* The agent, between two cycles and accepted by the heartbeat, sends a poll.
AgentPoll(h) ==
  /\ known
  /\ waiting = NoHandler
  /\ batch = {}
  /\ handler[h] = Free
  /\ handler' = [handler EXCEPT ![h].phase = "received"]
  /\ waiting' = h
  /\ UNCHANGED <<queueVars, legacy, known, picked, batch, results, faults, historyVars>>

Pending == {c \in Cmds : status[c] = "pending"}

\* The SELECT of get_pending_commands.  Priority and age decide which rows come
\* first; any choice within the limit stands for them.
PollSelect(h) ==
  /\ handler[h].phase = "received"
  /\ \E rows \in SUBSET Pending :
       /\ Cardinality(rows) <= PollLimit
       /\ rows = Pending \/ Cardinality(rows) = PollLimit
       /\ handler' = [handler EXCEPT ![h] = Marking(rows, {})]
  /\ UNCHANGED <<queueVars, legacy, known, picked, agentVars, results, faults, historyVars>>

\* Mutant: the UPDATE of mark_sent is never committed.
PollMark_NotCommitted(h, c) ==
  /\ c \in handler[h].todo
  /\ handler' = [handler EXCEPT ![h] =
                    Marking(@.todo \ {c}, @.listed \union {c})]
  /\ UNCHANGED <<queueVars, legacy, known, picked, agentVars, results, faults, historyVars>>

\* The loop body: append the row to the answer, then mark_sent, whose UPDATE is
\* committed at once and does not look at the status the row has by now.
PollMark(h, c) ==
  /\ c \in handler[h].todo
  /\ handler' = [handler EXCEPT ![h] =
                    Marking(@.todo \ {c}, @.listed \union {c})]
  /\ status' = [status EXCEPT ![c] = "dispatched"]
  /\ raced' = IF status[c] = "pending" THEN raced ELSE raced \union {c}
  /\ UNCHANGED <<retries, legacy, known, picked, agentVars, results, faults, runs, succeeded>>

\* mark_sent raises: rollback, the loop ends, but the row it was about is
\* already in the answer.
PollMarkFails(h, c) ==
  /\ DbFaults
  /\ Fault
  /\ c \in handler[h].todo
  /\ handler' = [handler EXCEPT ![h] = Marking({}, @.listed \union {c})]
  /\ raced' = raced \union {c}
  /\ UNCHANGED <<queueVars, legacy, known, picked, agentVars, results, runs, succeeded>>

LegacyPending == {l \in Legacy : legacy[l] = "pending"}

\* The tail of the handler: drain the runtime queue and answer.  An agent that
\* has given up on this poll gets nothing.
PollFinish(h) ==
  /\ handler[h].phase = "marking"
  /\ handler[h].todo = {}
  /\ legacy' = [l \in Legacy |-> IF l \in LegacyPending THEN "dispatched" ELSE legacy[l]]
  /\ handler' = [handler EXCEPT ![h] = Free]
  /\ IF waiting = h
       THEN /\ batch' = handler[h].listed \union LegacyPending
            /\ waiting' = NoHandler
       ELSE UNCHANGED agentVars
  /\ UNCHANGED <<queueVars, known, picked, results, faults, historyVars>>

---------------------------------------------------------------------------
(* The native agent *)

\* client.Get times out or the connection breaks: cycle returns the error and
\* the next poll may overlap the one still being served.
AgentTimeout ==
  /\ Fault
  /\ waiting # NoHandler
  /\ waiting' = NoHandler
  /\ UNCHANGED <<queueVars, legacy, known, handler, picked, batch, results, historyVars>>

\* executeEnterpriseCommand and postResult for one command of the batch.  The
\* agent ignores the fate of the post, so it is in flight from here on.
AgentRun(c, code) ==
  /\ c \in batch
  /\ batch' = batch \ {c}
  /\ results' = results \union {[cmd |-> c, exit |-> code]}
  /\ runs' = [d \in Cmds |-> IF d = c /\ c \notin raced THEN runs[d] + 1 ELSE runs[d]]
  /\ succeeded' = IF code = 0 THEN succeeded \union (Cmds \intersect {c}) ELSE succeeded
  /\ UNCHANGED <<queueVars, legacy, known, handler, picked, waiting, faults, raced>>

\* The process dies with what it had not executed yet.
AgentCrash ==
  /\ Fault
  /\ waiting' = NoHandler
  /\ batch' = {}
  /\ UNCHANGED <<queueVars, legacy, known, handler, picked, results, historyVars>>

\* A heartbeat answered "Invalid agent credentials" makes the agent enroll again
\* with its bootstrap secret; secure_enroll finds the row by machine_guid.
Enroll ==
  /\ ~known
  /\ waiting = NoHandler
  /\ batch = {}
  /\ known' = TRUE
  /\ UNCHANGED <<queueVars, legacy, handler, picked, agentVars, results, faults, historyVars>>

---------------------------------------------------------------------------
(* The result post: command_result *)

LoseResult(m) ==
  /\ Fault
  /\ m \in results
  /\ results' = results \ {m}
  /\ UNCHANGED <<queueVars, legacy, known, handler, picked, agentVars, historyVars>>

\* 401 while the agent is unknown.
ResultRefused(m) ==
  /\ ~known
  /\ m \in results
  /\ results' = results \ {m}
  /\ UNCHANGED <<queueVars, legacy, known, handler, picked, agentVars, faults, historyVars>>

\* A runtime command: success completes it, anything else queues it again with
\* no limit.  One the process no longer remembers ends in a 404.
LegacyResult(m) ==
  /\ known
  /\ m \in results
  /\ m.cmd \in Legacy
  /\ results' = results \ {m}
  /\ legacy' = [legacy EXCEPT ![m.cmd] =
                  IF @ = "lost" THEN @ ELSE IF m.exit = 0 THEN "completed" ELSE "pending"]
  /\ UNCHANGED <<queueVars, known, handler, picked, agentVars, faults, historyVars>>

\* Mutant: any answer completes the command, whatever its exit code.
CommandResult_ExitIgnored(m) ==
  /\ known
  /\ m \in results
  /\ m.cmd \in Cmds
  /\ results' = results \ {m}
  /\ status' = [status EXCEPT ![m.cmd] = "completed"]
  /\ UNCHANGED <<retries, legacy, known, handler, picked, agentVars, faults, historyVars>>

\* Mutant: a failure is queued again on the spot, as the runtime queue does.
CommandResult_Requeued(m) ==
  /\ known
  /\ m \in results
  /\ m.cmd \in Cmds
  /\ results' = results \ {m}
  /\ status' = [status EXCEPT ![m.cmd] = IF m.exit = 0 THEN "completed" ELSE "pending"]
  /\ UNCHANGED <<retries, legacy, known, handler, picked, agentVars, faults, historyVars>>

\* AgentDispatcher.mark_completed: RUNNING and the outcome are written in one
\* transaction, whatever the status is.
CommandResult(m) ==
  /\ known
  /\ m \in results
  /\ m.cmd \in Cmds
  /\ results' = results \ {m}
  /\ status' = [status EXCEPT ![m.cmd] = IF m.exit = 0 THEN "completed" ELSE "failed"]
  /\ UNCHANGED <<retries, legacy, known, handler, picked, agentVars, faults, historyVars>>

---------------------------------------------------------------------------
(* ExecutorWorker.execute_cycle *)

\* Mutant: the limit is off by one.
RetryCandidates_OneTooFew == {c \in Cmds : status[c] = "failed" /\ retries[c] + 1 < MaxRetries}

\* _retry_candidates: failed rows with retries left.
RetryCandidates == {c \in Cmds : status[c] = "failed" /\ retries[c] < MaxRetries}

WorkerSelect(w) ==
  /\ picked[w].rows = {}
  /\ RetryCandidates # {}
  /\ picked' = [picked EXCEPT ![w] =
                  [rows |-> RetryCandidates,
                   seen |-> [c \in Cmds |-> IF c \in RetryCandidates THEN retries[c] ELSE 0]]]
  /\ UNCHANGED <<queueVars, legacy, known, handler, agentVars, results, faults, historyVars>>

\* Mutant: the row is queued again but retry_count is not written.
WorkerCommit_NotCounted(w) ==
  LET rows == picked[w].rows
  IN /\ rows # {}
     /\ status'  = [c \in Cmds |-> IF c \in rows THEN "pending" ELSE status[c]]
     /\ raced'   = raced \union {c \in rows : status[c] # "failed"}
     /\ picked'  = [picked EXCEPT ![w] = Nothing]
     /\ UNCHANGED <<retries, legacy, known, handler, agentVars, results, faults, runs, succeeded>>

\* repository.retry for every candidate, and the commit.  retry_count is computed
\* from the object the SELECT loaded and the UPDATE does not look at the status.
WorkerCommit(w) ==
  LET rows == picked[w].rows
      seen == picked[w].seen
  IN /\ rows # {}
     /\ status'  = [c \in Cmds |-> IF c \in rows THEN "pending" ELSE status[c]]
     /\ retries' = [c \in Cmds |-> IF c \in rows THEN seen[c] + 1 ELSE retries[c]]
     /\ raced'   = raced \union {c \in rows : status[c] # "failed" \/ retries[c] # seen[c]}
     /\ picked'  = [picked EXCEPT ![w] = Nothing]
     /\ UNCHANGED <<legacy, known, handler, agentVars, results, faults, runs, succeeded>>

---------------------------------------------------------------------------
(* A crash of the server process: handlers and uncommitted work are gone and so *)
(* is _commands; _restore_agents brings _agents back if the store survived.     *)

ServerCrash(storeSurvives) ==
  /\ Fault
  /\ handler' = [h \in Handlers |-> Free]
  /\ picked' = [w \in Workers |-> Nothing]
  /\ waiting' = NoHandler
  /\ legacy' = [l \in Legacy |-> IF legacy[l] = "absent" THEN "absent" ELSE "lost"]
  /\ known' = (known /\ storeSurvives)
  /\ UNCHANGED <<queueVars, batch, results, historyVars>>

---------------------------------------------------------------------------
(* Specification *)

Handle(m) == ResultRefused(m) \/ LegacyResult(m) \/ CommandResult(m)

ServePoll(h) == PollSelect(h) \/ (\E c \in Cmds : PollMark(h, c)) \/ PollFinish(h)

RunBatch == \E c \in Cmds \union Legacy, code \in {0, 1} : AgentRun(c, code)

Faulty ==
  \/ \E h \in Handlers, c \in Cmds : PollMarkFails(h, c)
  \/ AgentTimeout
  \/ AgentCrash
  \/ \E m \in results : LoseResult(m)
  \/ \E survives \in BOOLEAN : ServerCrash(survives)

Next ==
  \/ \E c \in Cmds : QueueCommand(c)
  \/ \E l \in Legacy : CreateCommand(l)
  \/ \E h \in Handlers : AgentPoll(h) \/ ServePoll(h)
  \/ RunBatch
  \/ Enroll
  \/ \E m \in results : Handle(m)
  \/ \E w \in Workers : WorkerSelect(w) \/ WorkerCommit(w)
  \/ Faulty

Spec == Init /\ [][Next]_vars

\* The agent's loop, the server's threads and the worker's loop never stop;
\* nobody has to queue a command and no fault has to happen.
Fairness ==
  /\ WF_vars(\E h \in Handlers : AgentPoll(h))
  /\ \A h \in Handlers : WF_vars(ServePoll(h))
  /\ WF_vars(RunBatch)
  /\ WF_vars(Enroll)
  /\ \A m \in Result : WF_vars(Handle(m))
  /\ \A w \in Workers : WF_vars(WorkerSelect(w) \/ WorkerCommit(w))

FairSpec == Spec /\ Fairness

---------------------------------------------------------------------------
(* Safety *)

\* The command is somewhere between mark_sent and the end of command_result.
Listed(h, c) == c \in handler[h].listed
Reported(c)  == \E m \in results : m.cmd = c

\* A poll answer being built, the agent's batch or a post holds the command; no two
\* of them do, and the row is DISPATCHED all the while.
CarriedOnce(c) ==
  /\ \A h \in Handlers : Listed(h, c) =>
       /\ status[c] = "dispatched"
       /\ c \notin batch
       /\ ~Reported(c)
       /\ \A g \in Handlers : Listed(g, c) => g = h
  /\ c \in batch => status[c] = "dispatched" /\ ~Reported(c)
  /\ Reported(c) => status[c] = "dispatched"
  /\ \A m, n \in results : m.cmd = c /\ n.cmd = c => m = n

\* No command of the SQL queue is worked on in two places at once or while its row
\* says something else: not pending (it would be handed out again), not failed (the
\* worker would queue it again), not completed (the outcome would be overwritten).
\* The UPDATEs of the dispatcher check none of this; it holds for every command
\* on which none of them hit a row changed since it was read.
OneCarrier == \A c \in Cmds \ raced : CarriedOnce(c)

\* An endpoint executes a command at most once per retry the worker granted,
\* plus the first time, however many polls, posts and processes were lost.
AttemptBound == \A c \in Cmds \ raced : runs[c] <= retries[c] + 1

\* What AttemptBound needs to be inductive: before the agent executes the command
\* again, the last retry is still unspent.
AttemptsLeft(c) ==
  /\ runs[c] <= retries[c] + 1
  /\ \/ status[c] \in {"absent", "pending"}
     \/ c \in batch
     \/ \E h \in Handlers : Listed(h, c)
     => runs[c] <= retries[c]

CarrierInv == OneCarrier /\ \A c \in Cmds \ raced : AttemptsLeft(c)

\* retry_count never passes max_retries, with any number of workers and also for
\* raced commands: each worker computes it from a count it saw below the limit.
RetryBudget == \A c \in Cmds : retries[c] <= MaxRetries

\* What an operator who sets max_retries relies on: an endpoint runs a command on which
\* no UPDATE raced at most MaxRetries + 1 times.
ExecutionBudget == AttemptBound /\ RetryBudget

\* COMPLETED is only ever shown for a command some execution of which ended with
\* exit code 0, whatever races, crashes and late posts came before.
CompletedRan == \A c \in Cmds : status[c] = "completed" => c \in succeeded

\* A COMPLETED command stays so: no late result, retry or dispatch undoes it
\* unless the step itself is one of the races above.
CompletedFinal ==
  [][\A c \in Cmds : status[c] = "completed" /\ c \notin raced' => status'[c] = "completed"]_vars

\* The runtime queue hands a command to one place at a time too, with no help
\* from a database: what the agent holds is dispatched, or forgotten in a crash,
\* and never waits in the queue as well.
LegacyOneCarrier ==
  \A l \in Legacy : l \in batch \/ Reported(l) =>
    /\ legacy[l] \in {"dispatched", "lost"}
    /\ ~(l \in batch /\ Reported(l))
    /\ \A m, n \in results : m.cmd = l /\ n.cmd = l => m = n

\* A completed runtime command is not queued again by a later answer.
LegacyCompletedFinal ==
  [][\A l \in Legacy : legacy[l] = "completed" => legacy'[l] \in {"completed", "lost"}]_vars

\* One poll served at a time, one worker process, and no mark_sent that raises.
Sequential ==
  /\ \A g, h \in Handlers : g = h
  /\ \A v, w \in Workers : v = w
  /\ ~DbFaults

\* Then none of the unguarded UPDATEs ever meets a row that changed since it was
\* read, whatever is lost and whoever crashes: overlapping polls, overlapping
\* workers and a failing mark_sent are the only sources of races.
NoRace == Sequential => raced = {}

---------------------------------------------------------------------------
(* Liveness *)

\* DISPATCHED, but no poll answer, batch or post that could still resolve it.
Stranded(c) ==
  /\ status[c] = "dispatched"
  /\ \A h \in Handlers : ~Listed(h, c) /\ c \notin handler[h].todo
  /\ c \notin batch
  /\ ~Reported(c)

Settled(c) == status[c] = "completed" \/ (status[c] = "failed" /\ retries[c] = MaxRetries)

\* Once faults stop, a command is completed, has used up its retries, or is
\* stranded by a fault of the past: those are the only ends.
SettledOrStranded == \A c \in Cmds : status[c] = "pending" ~> Settled(c) \/ Stranded(c)

\* executor_worker.py says the worker detects timeouts and expires stale work: a
\* DISPATCHED command should not stay so for ever.
StaleWorkIsResolved == \A c \in Cmds : status[c] = "dispatched" ~> status[c] # "dispatched"

---------------------------------------------------------------------------
(* Refinement: where the token of a command is *)

Place(c) ==
  CASE c \in raced -> "raced"
    [] c \notin raced /\ status[c] = "absent"    -> "new"
    [] c \notin raced /\ status[c] = "pending"   -> "queued"
    [] c \notin raced /\ status[c] = "completed" -> "done"
    [] c \notin raced /\ status[c] = "failed"    -> "failed"
    [] OTHER ->
         IF \E h \in Handlers : Listed(h, c) THEN "agent"
         ELSE IF c \in batch THEN "agent"
         ELSE IF [cmd |-> c, exit |-> 0] \in results THEN "success"
         ELSE IF [cmd |-> c, exit |-> 1] \in results THEN "failure"
         ELSE "lost"

Lifecycle == INSTANCE CommandLifecycle
  WITH place <- [c \in Cmds |-> Place(c)], tries <- retries, runs <- runs

LifecycleSpec == Lifecycle!Spec
===========================================================================
