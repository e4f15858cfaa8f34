----------------------- MODULE AgentCommands_proofs -----------------------
(***************************************************************************)
(* Theorems about AgentCommands, for every set of commands, handlers and   *)
(* workers and every value of the limits.                                  *)
(***************************************************************************)
EXTENDS AgentCommands, TLAPS

\* Every variable keeps its type in every step of the pipeline.
THEOREM TypeCorrect == Spec => []TypeOK
<1>1. Init => TypeOK
  BY FaultsAssumption DEF Init, TypeOK, Status, LegacyStatus, Free, Nothing, Poll
<1>2. TypeOK /\ [Next]_vars => TypeOK'
  <2> SUFFICES ASSUME TypeOK, [Next]_vars PROVE TypeOK'
    OBVIOUS
  <2> USE DEF TypeOK, queueVars, agentVars, historyVars
  <2>1. ASSUME NEW c \in Cmds, QueueCommand(c) PROVE TypeOK'
    BY <2>1 DEF QueueCommand, Status
  <2>2. ASSUME NEW l \in Legacy, CreateCommand(l) PROVE TypeOK'
    BY <2>2 DEF CreateCommand, LegacyStatus
  <2>3. ASSUME NEW h \in Handlers, AgentPoll(h) PROVE TypeOK'
    BY <2>3 DEF AgentPoll, Poll, Free
  <2>4. ASSUME NEW h \in Handlers, PollSelect(h) PROVE TypeOK'
    BY <2>4 DEF PollSelect, Poll, Marking, Pending
  <2>5. ASSUME NEW h \in Handlers, NEW c \in Cmds, PollMark(h, c) PROVE TypeOK'
    <3>1. handler' \in [Handlers -> Poll]
      BY <2>5, handler[h] \in Poll DEF PollMark, Poll, Marking
    <3>2. status' \in [Cmds -> Status] /\ raced' \subseteq Cmds
      BY <2>5 DEF PollMark, Status
    <3> QED
      BY <2>5, <3>1, <3>2 DEF PollMark
  <2>6. ASSUME NEW h \in Handlers, NEW c \in Cmds, PollMarkFails(h, c) PROVE TypeOK'
    <3>1. handler' \in [Handlers -> Poll]
      BY <2>6, handler[h] \in Poll DEF PollMarkFails, Poll, Marking
    <3> QED
      BY <2>6, <3>1, FaultsAssumption DEF PollMarkFails, Fault
  <2>7. ASSUME NEW h \in Handlers, PollFinish(h) PROVE TypeOK'
    BY <2>7 DEF PollFinish, Poll, Free, LegacyPending, LegacyStatus
  <2>8. ASSUME AgentTimeout PROVE TypeOK'
    BY <2>8, FaultsAssumption DEF AgentTimeout, Fault
  <2>9. ASSUME NEW c \in Cmds \union Legacy, NEW code \in {0, 1}, AgentRun(c, code) PROVE TypeOK'
    BY <2>9 DEF AgentRun, Result
  <2>10. ASSUME AgentCrash PROVE TypeOK'
    BY <2>10, FaultsAssumption DEF AgentCrash, Fault
  <2>11. ASSUME Enroll PROVE TypeOK'
    BY <2>11 DEF Enroll
  <2>12. ASSUME NEW m \in results, LoseResult(m) PROVE TypeOK'
    BY <2>12, FaultsAssumption DEF LoseResult, Fault
  <2>13. ASSUME NEW m \in results, ResultRefused(m) PROVE TypeOK'
    BY <2>13 DEF ResultRefused
  <2>14. ASSUME NEW m \in results, LegacyResult(m) PROVE TypeOK'
    BY <2>14 DEF LegacyResult, LegacyStatus
  <2>15. ASSUME NEW m \in results, CommandResult(m) PROVE TypeOK'
    BY <2>15 DEF CommandResult, Status
  <2>16. ASSUME NEW w \in Workers, WorkerSelect(w) PROVE TypeOK'
    BY <2>16 DEF WorkerSelect, RetryCandidates
  <2>17. ASSUME NEW w \in Workers, WorkerCommit(w) PROVE TypeOK'
    BY <2>17 DEF WorkerCommit, Nothing, Status
  <2>18. ASSUME NEW s \in BOOLEAN, ServerCrash(s) PROVE TypeOK'
    BY <2>18, FaultsAssumption DEF ServerCrash, Fault, Free, Nothing, Poll, LegacyStatus
  <2>19. CASE UNCHANGED vars
    BY <2>19 DEF vars
  <2> QED
    BY <2>1, <2>2, <2>3, <2>4, <2>5, <2>6, <2>7, <2>8, <2>9, <2>10, <2>11, <2>12, <2>13,
       <2>14, <2>15, <2>16, <2>17, <2>18, <2>19
    DEF Next, ServePoll, RunBatch, Handle, Faulty
<1> QED
  BY <1>1, <1>2, PTL DEF Spec

---------------------------------------------------------------------------
(* One carrier per command, and at most one execution per granted retry *)

\* History only grows, so a command unraced after a step was unraced before it.
LEMMA RacedGrows == ASSUME [Next]_vars PROVE raced \subseteq raced'
BY DEF Next, QueueCommand, CreateCommand, AgentPoll, ServePoll, PollSelect, PollMark, PollFinish,
       RunBatch, AgentRun, Enroll, Handle, ResultRefused, LegacyResult, CommandResult,
       WorkerSelect, WorkerCommit, Faulty, PollMarkFails, AgentTimeout, AgentCrash, LoseResult,
       ServerCrash, vars, historyVars

\* CarrierInv is inductive: no step of mark_sent, the agent, command_result or retry
\* breaks it for a command that the step does not make raced.
LEMMA CarrierStep == ASSUME TypeOK, CarrierInv, [Next]_vars PROVE CarrierInv'
<1> SUFFICES ASSUME NEW c \in Cmds, c \notin raced'
             PROVE  CarriedOnce(c)' /\ AttemptsLeft(c)'
  BY DEF CarrierInv, OneCarrier
<1> c \notin raced /\ CarriedOnce(c) /\ AttemptsLeft(c)
  BY RacedGrows DEF CarrierInv, OneCarrier
<1> USE DEF TypeOK, CarriedOnce, AttemptsLeft, Listed, Reported, queueVars, agentVars, historyVars
<1>1. ASSUME NEW d \in Cmds, QueueCommand(d) PROVE CarriedOnce(c)' /\ AttemptsLeft(c)'
  BY <1>1 DEF QueueCommand
<1>2. ASSUME NEW l \in Legacy, CreateCommand(l) PROVE CarriedOnce(c)' /\ AttemptsLeft(c)'
  BY <1>2 DEF CreateCommand
<1>3. ASSUME NEW h \in Handlers, AgentPoll(h) PROVE CarriedOnce(c)' /\ AttemptsLeft(c)'
  BY <1>3 DEF AgentPoll, Free
<1>4. ASSUME NEW h \in Handlers, PollSelect(h) PROVE CarriedOnce(c)' /\ AttemptsLeft(c)'
  BY <1>4 DEF PollSelect, Marking
<1>5. ASSUME NEW h \in Handlers, NEW d \in Cmds, PollMark(h, d) PROVE CarriedOnce(c)' /\ AttemptsLeft(c)'
  BY <1>5 DEF PollMark, Marking
<1>6. ASSUME NEW h \in Handlers, NEW d \in Cmds, PollMarkFails(h, d) PROVE CarriedOnce(c)' /\ AttemptsLeft(c)'
  BY <1>6 DEF PollMarkFails, Marking
<1>7. ASSUME NEW h \in Handlers, PollFinish(h) PROVE CarriedOnce(c)' /\ AttemptsLeft(c)'
  BY <1>7, CommandsAssumption DEF PollFinish, Free, LegacyPending
<1>8. ASSUME AgentTimeout PROVE CarriedOnce(c)' /\ AttemptsLeft(c)'
  BY <1>8 DEF AgentTimeout
<1>9. ASSUME NEW d \in Cmds \union Legacy, NEW code \in {0, 1}, AgentRun(d, code)
      PROVE  CarriedOnce(c)' /\ AttemptsLeft(c)'
  BY <1>9 DEF AgentRun
<1>10. ASSUME AgentCrash PROVE CarriedOnce(c)' /\ AttemptsLeft(c)'
  BY <1>10 DEF AgentCrash
<1>11. ASSUME Enroll PROVE CarriedOnce(c)' /\ AttemptsLeft(c)'
  BY <1>11 DEF Enroll
<1>12. ASSUME NEW m \in results, LoseResult(m) PROVE CarriedOnce(c)' /\ AttemptsLeft(c)'
  BY <1>12 DEF LoseResult
<1>13. ASSUME NEW m \in results, ResultRefused(m) PROVE CarriedOnce(c)' /\ AttemptsLeft(c)'
  BY <1>13 DEF ResultRefused
<1>14. ASSUME NEW m \in results, LegacyResult(m) PROVE CarriedOnce(c)' /\ AttemptsLeft(c)'
  BY <1>14 DEF LegacyResult
<1>15. ASSUME NEW m \in results, CommandResult(m) PROVE CarriedOnce(c)' /\ AttemptsLeft(c)'
  BY <1>15 DEF CommandResult
<1>16. ASSUME NEW w \in Workers, WorkerSelect(w) PROVE CarriedOnce(c)' /\ AttemptsLeft(c)'
  BY <1>16 DEF WorkerSelect
<1>17. ASSUME NEW w \in Workers, WorkerCommit(w) PROVE CarriedOnce(c)' /\ AttemptsLeft(c)'
  BY <1>17 DEF WorkerCommit
<1>18. ASSUME NEW s \in BOOLEAN, ServerCrash(s) PROVE CarriedOnce(c)' /\ AttemptsLeft(c)'
  BY <1>18 DEF ServerCrash, Free
<1>19. CASE UNCHANGED vars
  BY <1>19 DEF vars
<1> QED
  BY <1>1, <1>2, <1>3, <1>4, <1>5, <1>6, <1>7, <1>8, <1>9, <1>10, <1>11, <1>12, <1>13,
     <1>14, <1>15, <1>16, <1>17, <1>18, <1>19
  DEF Next, ServePoll, RunBatch, Handle, Faulty

\* Hence CarrierInv holds in every state of the pipeline.
THEOREM CarrierCorrect == Spec => []CarrierInv
<1>1. Init => CarrierInv
  BY DEF Init, CarrierInv, OneCarrier, CarriedOnce, AttemptsLeft, Listed, Reported, Free
<1>2. TypeOK /\ CarrierInv /\ [Next]_vars => CarrierInv'
  BY CarrierStep
<1> QED
  BY <1>1, <1>2, TypeCorrect, PTL DEF Spec

\* No unraced command is worked on in two places, or while its row is not DISPATCHED.
THEOREM OneCarrierCorrect == Spec => []OneCarrier
<1>1. CarrierInv => OneCarrier
  BY DEF CarrierInv
<1> QED
  BY <1>1, CarrierCorrect, PTL

\* An endpoint runs an unraced command at most once per granted retry and once more.
THEOREM AttemptBoundCorrect == Spec => []AttemptBound
<1>1. CarrierInv => AttemptBound
  BY DEF CarrierInv, AttemptBound, AttemptsLeft
<1> QED
  BY <1>1, CarrierCorrect, PTL

\* An unraced COMPLETED row stays COMPLETED: a post for it cannot be in flight, and
\* any other UPDATE that hits it makes it raced.
THEOREM CompletedStays == Spec => CompletedFinal
<1> DEFINE Final == \A c \in Cmds : status[c] = "completed" /\ c \notin raced' => status'[c] = "completed"
<1>1. TypeOK /\ CarrierInv /\ [Next]_vars => [Final]_vars
  <2> SUFFICES ASSUME TypeOK, CarrierInv, Next,
                      NEW c \in Cmds, status[c] = "completed", c \notin raced'
               PROVE  status'[c] = "completed"
    OBVIOUS
  <2>1. c \notin raced /\ CarriedOnce(c)
    BY RacedGrows DEF CarrierInv, OneCarrier
  <2>2. ASSUME NEW d \in Cmds, QueueCommand(d) PROVE status'[c] = "completed"
    BY <2>2 DEF QueueCommand, TypeOK
  <2>3. ASSUME NEW h \in Handlers, NEW d \in Cmds, PollMark(h, d) PROVE status'[c] = "completed"
    BY <2>1, <2>3 DEF PollMark, TypeOK
  <2>4. ASSUME NEW m \in results, CommandResult(m) PROVE status'[c] = "completed"
    BY <2>1, <2>4 DEF CommandResult, TypeOK, CarriedOnce, Reported
  <2>5. ASSUME NEW w \in Workers, WorkerCommit(w) PROVE status'[c] = "completed"
    BY <2>1, <2>5 DEF WorkerCommit, TypeOK
  <2>6. CASE UNCHANGED status
    BY <2>6
  <2> QED
    BY <2>2, <2>3, <2>4, <2>5, <2>6
    DEF Next, CreateCommand, AgentPoll, ServePoll, PollSelect, PollFinish, RunBatch, AgentRun,
        Enroll, Handle, ResultRefused, LegacyResult, WorkerSelect, Faulty, PollMarkFails,
        AgentTimeout, AgentCrash, LoseResult, ServerCrash, queueVars
<1> QED
  BY <1>1, TypeCorrect, CarrierCorrect, PTL DEF Spec, CompletedFinal

---------------------------------------------------------------------------
(* The retry budget, and what COMPLETED means *)

\* A worker holds only counts it read below the limit.
BudgetInv ==
  /\ RetryBudget
  /\ \A w \in Workers, c \in Cmds : c \in picked[w].rows => picked[w].seen[c] < MaxRetries

\* Every count a worker holds or has written respects max_retries.
THEOREM BudgetCorrect == Spec => []BudgetInv
<1>1. Init => BudgetInv
  BY RetriesAssumption DEF Init, BudgetInv, RetryBudget, Nothing
<1>2. TypeOK /\ BudgetInv /\ [Next]_vars => BudgetInv'
  <2> SUFFICES ASSUME TypeOK, BudgetInv, [Next]_vars PROVE BudgetInv'
    OBVIOUS
  <2>1. ASSUME NEW w \in Workers, WorkerSelect(w) PROVE BudgetInv'
    BY <2>1 DEF WorkerSelect, RetryCandidates, BudgetInv, RetryBudget, queueVars, TypeOK
  <2>2. ASSUME NEW w \in Workers, WorkerCommit(w) PROVE BudgetInv'
    <3>1. \A c \in Cmds : retries'[c] = IF c \in picked[w].rows THEN picked[w].seen[c] + 1 ELSE retries[c]
      BY <2>2 DEF WorkerCommit
    <3>2. RetryBudget'
      BY <3>1, RetriesAssumption DEF BudgetInv, RetryBudget, TypeOK
    <3>3. \A v \in Workers : picked'[v] = IF v = w THEN Nothing ELSE picked[v]
      BY <2>2 DEF WorkerCommit, TypeOK
    <3> QED
      BY <3>2, <3>3 DEF BudgetInv, Nothing
  <2>3. ASSUME NEW s \in BOOLEAN, ServerCrash(s) PROVE BudgetInv'
    BY <2>3 DEF ServerCrash, BudgetInv, RetryBudget, queueVars, Nothing
  <2>4. CASE UNCHANGED <<retries, picked>>
    BY <2>4 DEF BudgetInv, RetryBudget
  <2> QED
    BY <2>1, <2>2, <2>3, <2>4
    DEF Next, QueueCommand, CreateCommand, AgentPoll, ServePoll, PollSelect, PollMark, PollFinish,
        RunBatch, AgentRun, Enroll, Handle, ResultRefused, LegacyResult, CommandResult,
        Faulty, PollMarkFails, AgentTimeout, AgentCrash, LoseResult, vars, queueVars
<1> QED
  BY <1>1, <1>2, TypeCorrect, PTL DEF Spec

\* However many workers retry the same row, retry_count stays within max_retries.
THEOREM RetryBudgetCorrect == Spec => []RetryBudget
<1>1. BudgetInv => RetryBudget
  BY DEF BudgetInv
<1> QED
  BY <1>1, BudgetCorrect, PTL

\* Executions are within the retries, and the retries within max_retries: together they
\* bound how often an endpoint runs an unraced command.
THEOREM ExecutionBudgetCorrect == Spec => []ExecutionBudget
<1>1. AttemptBound /\ RetryBudget => ExecutionBudget
  BY DEF ExecutionBudget
<1> QED
  BY <1>1, AttemptBoundCorrect, RetryBudgetCorrect, PTL

\* A post that reports success comes from an execution that succeeded.
RanInv ==
  /\ CompletedRan
  /\ \A m \in results : m.cmd \in Cmds /\ m.exit = 0 => m.cmd \in succeeded

\* COMPLETED is written only on the word of an execution that exited with 0.
THEOREM CompletedRanCorrect == Spec => []CompletedRan
<1>1. Init => RanInv
  BY DEF Init, RanInv, CompletedRan
<1>2. TypeOK /\ RanInv /\ [Next]_vars => RanInv'
  <2> SUFFICES ASSUME TypeOK, RanInv, [Next]_vars PROVE RanInv'
    OBVIOUS
  <2> USE DEF RanInv, CompletedRan, TypeOK, queueVars, historyVars
  <2>1. ASSUME NEW c \in Cmds, QueueCommand(c) PROVE RanInv'
    BY <2>1 DEF QueueCommand
  <2>2. ASSUME NEW h \in Handlers, NEW c \in Cmds, PollMark(h, c) PROVE RanInv'
    BY <2>2 DEF PollMark
  <2>3. ASSUME NEW c \in Cmds \union Legacy, NEW code \in {0, 1}, AgentRun(c, code) PROVE RanInv'
    BY <2>3 DEF AgentRun
  <2>4. ASSUME NEW m \in results, CommandResult(m) PROVE RanInv'
    BY <2>4 DEF CommandResult
  <2>5. ASSUME NEW m \in results, \/ LoseResult(m) \/ ResultRefused(m) \/ LegacyResult(m) PROVE RanInv'
    BY <2>5 DEF LoseResult, ResultRefused, LegacyResult
  <2>6. ASSUME NEW w \in Workers, WorkerCommit(w) PROVE RanInv'
    BY <2>6 DEF WorkerCommit
  <2>7. CASE UNCHANGED <<status, results, succeeded>>
    BY <2>7
  <2> QED
    BY <2>1, <2>2, <2>3, <2>4, <2>5, <2>6, <2>7
    DEF Next, CreateCommand, AgentPoll, ServePoll, PollSelect, PollFinish, RunBatch, Enroll,
        Handle, WorkerSelect, Faulty, PollMarkFails, AgentTimeout, AgentCrash, ServerCrash, vars
<1>3. RanInv => CompletedRan
  BY DEF RanInv
<1> QED
  BY <1>1, <1>2, <1>3, TypeCorrect, PTL DEF Spec

---------------------------------------------------------------------------
(* The runtime queue *)

\* A runtime command is in one place at a time, whatever crashes and overlaps.
THEOREM LegacyOneCarrierCorrect == Spec => []LegacyOneCarrier
<1>1. Init => LegacyOneCarrier
  BY DEF Init, LegacyOneCarrier, Reported
<1>2. TypeOK /\ LegacyOneCarrier /\ [Next]_vars => LegacyOneCarrier'
  <2> SUFFICES ASSUME TypeOK, LegacyOneCarrier, [Next]_vars PROVE LegacyOneCarrier'
    OBVIOUS
  <2> USE DEF LegacyOneCarrier, Reported, TypeOK, agentVars
  <2>1. ASSUME NEW l \in Legacy, CreateCommand(l) PROVE LegacyOneCarrier'
    BY <2>1 DEF CreateCommand
  <2>2. ASSUME NEW h \in Handlers, PollFinish(h) PROVE LegacyOneCarrier'
    <3>1. CASE waiting = h
      <4>1. \A l \in Legacy : l \in batch' => l \in LegacyPending
        BY <2>2, <3>1, CommandsAssumption DEF PollFinish, Poll
      <4> QED
        BY <2>2, <4>1 DEF PollFinish, LegacyPending
    <3>2. CASE waiting # h
      BY <2>2, <3>2 DEF PollFinish, LegacyPending
    <3> QED
      BY <3>1, <3>2
  <2>3. ASSUME NEW c \in Cmds \union Legacy, NEW code \in {0, 1}, AgentRun(c, code)
        PROVE  LegacyOneCarrier'
    BY <2>3 DEF AgentRun
  <2>4. ASSUME AgentCrash PROVE LegacyOneCarrier'
    BY <2>4 DEF AgentCrash
  <2>5. ASSUME NEW m \in results, LegacyResult(m) PROVE LegacyOneCarrier'
    BY <2>5 DEF LegacyResult
  <2>6. ASSUME NEW m \in results, \/ LoseResult(m) \/ ResultRefused(m) \/ CommandResult(m)
        PROVE  LegacyOneCarrier'
    BY <2>6 DEF LoseResult, ResultRefused, CommandResult
  <2>7. ASSUME NEW s \in BOOLEAN, ServerCrash(s) PROVE LegacyOneCarrier'
    BY <2>7 DEF ServerCrash
  <2>8. CASE UNCHANGED <<legacy, batch, results>>
    BY <2>8
  <2> QED
    BY <2>1, <2>2, <2>3, <2>4, <2>5, <2>6, <2>7, <2>8
    DEF Next, QueueCommand, AgentPoll, ServePoll, PollSelect, PollMark, RunBatch, Enroll, Handle,
        WorkerSelect, WorkerCommit, Faulty, PollMarkFails, AgentTimeout, vars
<1> QED
  BY <1>1, <1>2, TypeCorrect, PTL DEF Spec

\* A completed runtime command is never queued again.
THEOREM LegacyCompletedStays == Spec => LegacyCompletedFinal
<1> DEFINE Final == \A l \in Legacy : legacy[l] = "completed" => legacy'[l] \in {"completed", "lost"}
<1>1. TypeOK /\ LegacyOneCarrier /\ [Next]_vars => [Final]_vars
  <2> SUFFICES ASSUME TypeOK, LegacyOneCarrier, Next, NEW l \in Legacy, legacy[l] = "completed"
               PROVE  legacy'[l] \in {"completed", "lost"}
    OBVIOUS
  <2> USE DEF TypeOK
  <2>1. ASSUME NEW k \in Legacy, CreateCommand(k) PROVE legacy'[l] \in {"completed", "lost"}
    BY <2>1 DEF CreateCommand
  <2>2. ASSUME NEW h \in Handlers, PollFinish(h) PROVE legacy'[l] \in {"completed", "lost"}
    BY <2>2 DEF PollFinish, LegacyPending
  <2>3. ASSUME NEW m \in results, LegacyResult(m) PROVE legacy'[l] \in {"completed", "lost"}
    BY <2>3 DEF LegacyResult, LegacyOneCarrier, Reported
  <2>4. ASSUME NEW s \in BOOLEAN, ServerCrash(s) PROVE legacy'[l] \in {"completed", "lost"}
    BY <2>4 DEF ServerCrash
  <2>5. CASE UNCHANGED legacy
    BY <2>5
  <2> QED
    BY <2>1, <2>2, <2>3, <2>4, <2>5
    DEF Next, QueueCommand, AgentPoll, ServePoll, PollSelect, PollMark, RunBatch, AgentRun, Enroll,
        Handle, ResultRefused, CommandResult, WorkerSelect, WorkerCommit, Faulty, PollMarkFails,
        AgentTimeout, AgentCrash, LoseResult
<1> QED
  BY <1>1, TypeCorrect, LegacyOneCarrierCorrect, PTL DEF Spec, LegacyCompletedFinal

---------------------------------------------------------------------------
(* Where no UPDATE ever races *)

\* What a lone handler and a lone worker hold is what the rows still say.
FreshInv ==
  Sequential =>
    /\ raced = {}
    /\ \A h \in Handlers, c \in Cmds : c \in handler[h].todo => status[c] = "pending"
    /\ \A w \in Workers, c \in Cmds : c \in picked[w].rows =>
         status[c] = "failed" /\ retries[c] = picked[w].seen[c]

\* One poll at a time, one worker and no failing mark_sent: no UPDATE meets a row that
\* changed since it was read.
THEOREM NoRaceCorrect == Spec => []NoRace
<1>1. Init => FreshInv
  BY DEF Init, FreshInv, Free, Nothing
<1>2. TypeOK /\ CarrierInv /\ FreshInv /\ [Next]_vars => FreshInv'
  <2> SUFFICES ASSUME TypeOK, CarrierInv, FreshInv, [Next]_vars, Sequential PROVE FreshInv'
    BY DEF FreshInv, Sequential
  <2>0. raced = {} /\ \A c \in Cmds : CarriedOnce(c)
    BY DEF FreshInv, CarrierInv, OneCarrier
  <2>h. \A g, h \in Handlers : g = h
    BY DEF Sequential
  <2>w. \A v, w \in Workers : v = w
    BY DEF Sequential
  <2> USE DEF FreshInv, TypeOK, queueVars, agentVars, historyVars
  <2>1. ASSUME NEW c \in Cmds, QueueCommand(c) PROVE FreshInv'
    BY <2>1 DEF QueueCommand
  <2>2. ASSUME NEW h \in Handlers, AgentPoll(h) PROVE FreshInv'
    BY <2>2 DEF AgentPoll, Free
  <2>3. ASSUME NEW h \in Handlers, PollSelect(h) PROVE FreshInv'
    BY <2>3 DEF PollSelect, Marking, Pending
  <2>4. ASSUME NEW h \in Handlers, NEW c \in Cmds, PollMark(h, c) PROVE FreshInv'
    BY <2>4, <2>h DEF PollMark, Marking
  <2>5. ASSUME NEW h \in Handlers, PollFinish(h) PROVE FreshInv'
    BY <2>5 DEF PollFinish, Free
  <2>6. ASSUME NEW m \in results, CommandResult(m) PROVE FreshInv'
    <3>1. status[m.cmd] = "dispatched" /\ m.cmd \in Cmds
      BY <2>0, <2>6 DEF CommandResult, CarriedOnce, Reported
    <3> QED
      BY <2>6, <3>1 DEF CommandResult
  <2>7. ASSUME NEW w \in Workers, WorkerSelect(w) PROVE FreshInv'
    BY <2>7 DEF WorkerSelect, RetryCandidates
  <2>8. ASSUME NEW w \in Workers, WorkerCommit(w) PROVE FreshInv'
    BY <2>8, <2>w DEF WorkerCommit, Nothing
  <2>9. ASSUME NEW s \in BOOLEAN, ServerCrash(s) PROVE FreshInv'
    BY <2>9 DEF ServerCrash, Free, Nothing
  <2>10. ASSUME NEW h \in Handlers, NEW c \in Cmds, PollMarkFails(h, c) PROVE FreshInv'
    BY <2>10 DEF PollMarkFails, Sequential
  <2>11. CASE UNCHANGED <<status, retries, handler, picked, raced>>
    BY <2>11
  <2> QED
    BY <2>1, <2>2, <2>3, <2>4, <2>5, <2>6, <2>7, <2>8, <2>9, <2>10, <2>11
    DEF Next, CreateCommand, ServePoll, RunBatch, AgentRun, Enroll, Handle, ResultRefused,
        LegacyResult, Faulty, AgentTimeout, AgentCrash, LoseResult, vars
<1>3. FreshInv => NoRace
  BY DEF FreshInv, NoRace
<1> QED
  BY <1>1, <1>2, <1>3, TypeCorrect, CarrierCorrect, PTL DEF Spec

---------------------------------------------------------------------------
(* Refinement of CommandLifecycle *)

\* What one step does to the token of one command.
Moves(c) ==
  LET from(P) == Place(c) \in P
      tried == retries'[c] = retries[c]
      ran   == runs'[c] = runs[c]
  IN \/ from({"new"}) /\ Place(c)' = "queued" /\ tried /\ ran
     \/ from({"queued"}) /\ Place(c)' = "agent" /\ tried /\ ran
     \/ from({"agent"}) /\ Place(c)' \in {"success", "failure"} /\ tried /\ runs'[c] = runs[c] + 1
     \/ from({"success"}) /\ Place(c)' = "done" /\ tried /\ ran
     \/ from({"failure"}) /\ Place(c)' = "failed" /\ tried /\ ran
     \/ /\ retries[c] < MaxRetries /\ from({"failed"}) /\ Place(c)' = "queued"
        /\ retries'[c] = retries[c] + 1 /\ ran
     \/ from({"agent", "success", "failure"}) /\ Place(c)' = "lost" /\ tried /\ ran
     \/ Place(c)' = "raced"
     \/ Place(c)' = Place(c) /\ tried /\ ran

\* Every step of the pipeline moves the token of a command in one of these ways.
LEMMA TokenStep == ASSUME TypeOK, CarrierInv, BudgetInv, [Next]_vars, NEW c \in Cmds PROVE Moves(c)
<1>1. CASE c \in raced'
  BY <1>1 DEF Moves, Place
<1>2. CASE c \notin raced'
  <2>1. c \notin raced /\ CarriedOnce(c)
    BY <1>2, RacedGrows DEF CarrierInv, OneCarrier
  <2> USE <1>2, <2>1 DEF TypeOK, CarriedOnce, Listed, Reported, Moves, Place, queueVars, agentVars, historyVars
  <2>2. ASSUME NEW d \in Cmds, QueueCommand(d) PROVE Moves(c)
    BY <2>2 DEF QueueCommand
  <2>3. ASSUME NEW h \in Handlers, AgentPoll(h) PROVE Moves(c)
    BY <2>3 DEF AgentPoll, Free
  <2>4. ASSUME NEW h \in Handlers, PollSelect(h) PROVE Moves(c)
    BY <2>4 DEF PollSelect, Marking
  <2>5. ASSUME NEW h \in Handlers, NEW d \in Cmds, PollMark(h, d) PROVE Moves(c)
    BY <2>5 DEF PollMark, Marking
  <2>6. ASSUME NEW h \in Handlers, NEW d \in Cmds, PollMarkFails(h, d) PROVE Moves(c)
    BY <2>6 DEF PollMarkFails, Marking
  <2>7. ASSUME NEW h \in Handlers, PollFinish(h) PROVE Moves(c)
    BY <2>7, CommandsAssumption DEF PollFinish, Free, LegacyPending
  <2>8. ASSUME NEW d \in Cmds \union Legacy, NEW code \in {0, 1}, AgentRun(d, code) PROVE Moves(c)
    BY <2>8 DEF AgentRun
  <2>9. ASSUME AgentCrash PROVE Moves(c)
    BY <2>9 DEF AgentCrash
  <2>10. ASSUME NEW m \in results, \/ LoseResult(m) \/ ResultRefused(m) PROVE Moves(c)
    BY <2>10 DEF LoseResult, ResultRefused, Result
  <2>11. ASSUME NEW m \in results, LegacyResult(m) PROVE Moves(c)
    BY <2>11, CommandsAssumption DEF LegacyResult
  <2>12. ASSUME NEW m \in results, CommandResult(m) PROVE Moves(c)
    BY <2>12 DEF CommandResult, Result
  <2>13. ASSUME NEW w \in Workers, WorkerCommit(w) PROVE Moves(c)
    BY <2>13 DEF WorkerCommit, BudgetInv
  <2>14. ASSUME NEW s \in BOOLEAN, ServerCrash(s) PROVE Moves(c)
    BY <2>14 DEF ServerCrash, Free
  <2>15. CASE UNCHANGED <<status, retries, handler, batch, results, raced, runs>>
    BY <2>15
  <2> QED
    BY <2>2, <2>3, <2>4, <2>5, <2>6, <2>7, <2>8, <2>9, <2>10, <2>11, <2>12, <2>13, <2>14, <2>15
    DEF Next, CreateCommand, ServePoll, RunBatch, Enroll, Handle, WorkerSelect, Faulty,
        AgentTimeout, vars
<1> QED
  BY <1>1, <1>2

\* Seen through Place, the pipeline is CommandLifecycle: each token is queued, handed
\* out, executed, reported and accepted in this order, retried within the budget, and
\* disappears only while in transit.
THEOREM LifecycleCorrect == Spec => LifecycleSpec
<1>1. Init => Lifecycle!Init
  BY DEF Init, Lifecycle!Init, Place
<1>2. TypeOK /\ TypeOK' /\ CarrierInv /\ BudgetInv /\ [Next]_vars => [Lifecycle!Next]_(Lifecycle!vars)
  <2> SUFFICES ASSUME TypeOK, TypeOK', CarrierInv, BudgetInv, [Next]_vars PROVE Lifecycle!Next
    OBVIOUS
  <2>1. \A c \in Cmds : Place(c)' \in Lifecycle!Places
    BY DEF Place, Lifecycle!Places
  <2>2. \A c \in Cmds : Moves(c)
    BY TokenStep
  <2>3. ASSUME NEW c \in Cmds
        PROVE  \/ Lifecycle!Submit(c) \/ Lifecycle!HandOut(c) \/ Lifecycle!Run(c) \/ Lifecycle!Accept(c)
               \/ Lifecycle!Requeue(c) \/ Lifecycle!Lose(c) \/ Lifecycle!Race(c) \/ Lifecycle!Stay(c)
    <3>1. Moves(c)
      BY <2>2
    <3> QED
      BY <3>1 DEF Moves, Lifecycle!Submit, Lifecycle!HandOut, Lifecycle!Run, Lifecycle!Accept,
         Lifecycle!Requeue, Lifecycle!Lose, Lifecycle!Race, Lifecycle!Stay, Lifecycle!Goes
  <2> QED
    BY <2>1, <2>3 DEF Lifecycle!Next, TypeOK
<1> QED
  BY <1>1, <1>2, TypeCorrect, CarrierCorrect, BudgetCorrect, PTL DEF Spec, LifecycleSpec, Lifecycle!Spec
===========================================================================
