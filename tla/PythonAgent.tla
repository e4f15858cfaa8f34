------------------------------ MODULE PythonAgent ------------------------------
(***************************************************************************)
(* The loop of the Python agent (agent/bhudi_agent.py) against the durable  *)
(* rows of endpoints/agent_commands.py and the runtime queue of             *)
(* endpoints/agent_runtime.py.                                              *)
(*                                                                          *)
(* One process runs one cycle after another, each request with a timeout:   *)
(* the server may not get it, or serve it after the agent has gone on.      *)
(* Seen through Place it implements CommandLifecycle (MCConsole).           *)
(***************************************************************************)
EXTENDS Integers, FiniteSets

CONSTANTS Cmds,        \* ids of agent_commands
          Runtime,     \* ids of runtime commands
          MaxRetries, MaxFaults,
          SensorEvery, ScanEvery   \* BHUDI_HARDWARE_SENSOR_EVERY, BHUDI_SECURITY_SCAN_EVERY

VARIABLES row,       \* agent_commands: status, retry_count and type
          queue,     \* _commands: status
          own,       \* the commands queued for the agent_id in use
          known,     \* the server accepts the token
          agent,     \* the point of run_once, the commands left and the one at hand
          late,      \* requests the agent gave up that are served later
          cycle,     \* _hardware_cycle, _security_cycle and _cached_smart_status
          crossed,   \* history: rows that had ended when a late /sent made them dispatched again
          faults,
          runs,      \* history: executions of each row's command
          stranded   \* history: rows whose command was given up after the row said dispatched

agentVars == <<row, queue, own, known, agent, late, cycle, crossed, faults, runs, stranded>>

Raised == 2   \* the handler raised: there is no result
Codes  == {0, 1, Raised}   \* 1 stands for every other exit code, 124 (timeout) and 127 among them

\* What the handlers of executor.py and command_framework.py may return.
RemoteDesktop  == {0}
RemoteTerminal == {0}
FileBrowser    == Codes        \* mkdir, rmdir, b64decode and the like raise
Registry       == Codes        \* a value of the wrong type raises
TaskManager    == Codes        \* no systemctl on the machine: None is returned
Shells         == {0, 1}       \* powershell, cmd, event viewer: _run_subprocess catches everything
Power          == Codes        \* a MAC address of other digits raises
Named          == Codes        \* the inventories
Unsupported    == {1}
Streaming      == {0, 1}       \* starts a thread, or finds it alive; 1 without a session_id
Outcomes == [desktop |-> Streaming \union RemoteDesktop, terminal |-> Streaming \union RemoteTerminal,
             tool |-> FileBrowser \union Registry \union TaskManager \union Power,
             shell |-> Shells, named |-> Named, other |-> Unsupported]
Types == {"tool"}   \* the type queued here, whose outcomes include the others'

Row   == [status : {"absent", "pending", "dispatched", "completed", "failed"}, retries : 0..MaxRetries,
          type : Types]
Agent == [at : {"sleep", "poll", "mark", "run", "report", "execute", "post"},
          todo : SUBSET (Cmds \union Runtime), cur : SUBSET (Cmds \union Runtime), exit : Codes]
Smart == {"none", "ok", "unknown", "warning", "failing"}

TypeOK ==
  /\ row \in [Cmds -> Row] /\ queue \in [Runtime -> {"absent", "pending", "dispatched", "completed"}]
  /\ own \subseteq Cmds /\ known \in BOOLEAN /\ agent \in Agent
  /\ late \subseteq {"sent", "completed", "failed"} \X (Cmds \union Runtime)
  /\ cycle \in [sensors : 0..SensorEvery, scan : 0..ScanEvery, smart : Smart]
  /\ faults \in 0..MaxFaults /\ runs \in [Cmds -> Nat] /\ stranded \subseteq Cmds /\ crossed \subseteq Cmds

Idle(at) == [at |-> at, todo |-> {}, cur |-> {}, exit |-> 0]

Init ==
  /\ \E type \in [Cmds -> Types] : row = [c \in Cmds |-> [status |-> "absent", retries |-> 0, type |-> type[c]]]
  /\ queue = [l \in Runtime |-> "absent"] /\ own = {} /\ known = TRUE
  /\ agent = Idle("sleep") /\ late = {} /\ cycle = [sensors |-> 0, scan |-> 0, smart |-> "none"]
  /\ faults = 0 /\ runs = [c \in Cmds |-> 0] /\ stranded = {} /\ crossed = {}

Fault == faults < MaxFaults /\ faults' = faults + 1

---------------------------------------------------------------------------
(* The server *)

QueueCommand(c) ==
  /\ row[c].status = "absent"
  /\ row' = [row EXCEPT ![c].status = "pending"] /\ own' = own \union {c}
  /\ UNCHANGED <<queue, known, agent, late, cycle, crossed, faults, runs, stranded>>

CreateCommand(l) ==
  /\ known /\ queue[l] = "absent" /\ queue' = [queue EXCEPT ![l] = "pending"]
  /\ UNCHANGED <<row, own, known, agent, late, cycle, crossed, faults, runs, stranded>>

\* ExecutorWorker
Retry(c) ==
  /\ row[c].status = "failed" /\ row[c].retries < MaxRetries
  /\ row' = [row EXCEPT ![c].status = "pending", ![c].retries = @ + 1]
  /\ UNCHANGED <<queue, own, known, agent, late, cycle, crossed, faults, runs, stranded>>

\* Mutant: a failed row is queued again on the spot, as a failed runtime command is.
Served_Requeued(what, c) ==
  IF c \in Cmds
    THEN row' = [row EXCEPT ![c].status = IF what = "sent" THEN "dispatched" ELSE IF what = "failed" THEN "pending" ELSE what]
         /\ UNCHANGED queue
    ELSE queue' = [queue EXCEPT ![c] = IF what = "completed" THEN "completed" ELSE "pending"] /\ UNCHANGED row

\* mark_sent, mark_completed, mark_failed and command_result
Served(what, c) ==
  IF c \in Cmds
    THEN row' = [row EXCEPT ![c].status = IF what = "sent" THEN "dispatched" ELSE what] /\ UNCHANGED queue
    ELSE queue' = [queue EXCEPT ![c] = IF what = "completed" THEN "completed" ELSE "pending"] /\ UNCHANGED row

ServeLate(m) ==
  /\ m \in late /\ late' = late \ {m} /\ Served(m[1], m[2])
  /\ crossed' = crossed \union {c \in Cmds : m = <<"sent", c>> /\ row[c].status \in {"completed", "failed"}}
  /\ UNCHANGED <<own, known, agent, cycle, faults, runs, stranded>>

\* A restart without the store of the agents.
ServerForgets ==
  /\ Fault /\ known' = FALSE /\ queue' = [l \in Runtime |-> IF queue[l] = "absent" THEN "absent" ELSE "completed"]
  /\ late' = {}
  /\ UNCHANGED <<row, own, agent, cycle, crossed, runs, stranded>>

---------------------------------------------------------------------------
(* metrics: sensors and SMART *)

\* _parse_smartctl_json for one disk: the verdict, a critical attribute, a line that failed
\* once, media errors (0, some, more than ten).
Parsed(d) ==
  IF d.media > 1 /\ d.passed # "unknown" THEN "failing"
  ELSE IF d.passed = "ok" /\ (d.critical \/ d.failed \/ d.media > 0) THEN "warning"
  ELSE IF d.passed = "failing" /\ d.media = 1 THEN "warning" ELSE d.passed

Rank == [ok |-> 0, unknown |-> 1, warning |-> 2, failing |-> 3]

\* _collect_smart_linux: the worst disk; none without smartctl or disks
Collected(disks) ==
  IF disks = {} THEN "none"
  ELSE CHOOSE s \in {Parsed(d) : d \in disks} \union {"ok"} :
         \A d \in disks : Rank[Parsed(d)] <= Rank[s]

Disk  == [passed : {"ok", "failing"}, critical : {TRUE}, failed : {FALSE}, media : {0}]
Disks == {{}, Disk}

---------------------------------------------------------------------------
(* run_once *)

\* The sensors are read before the heartbeat and kept; with a 401 the agent enrols, as a new
\* one: it sends no machine_guid.  Any other failure ends the cycle.
Heartbeat(disks, answer) ==
  LET due  == cycle.sensors + 1 >= SensorEvery
      read == IF due /\ Collected(disks) # "none" THEN Collected(disks) ELSE cycle.smart IN
  /\ agent.at = "sleep" /\ (due \/ disks = {})
  /\ cycle' = [cycle EXCEPT !.sensors = IF due THEN 0 ELSE @ + 1, !.smart = read]
  /\ IF answer
       THEN /\ known' = TRUE /\ own' = IF known THEN own ELSE {}
            /\ agent' = Idle("poll") /\ UNCHANGED faults
       ELSE Fault /\ UNCHANGED <<known, own, agent>>
  /\ UNCHANGED <<row, queue, late, crossed, runs, stranded>>

\* poll_enterprise_commands: a 401, 404 or 5xx counts as an empty list.
PollEnterprise(answer) ==
  /\ agent.at = "poll"
  /\ IF answer THEN UNCHANGED faults ELSE Fault
  /\ agent' = [Idle("mark") EXCEPT !.todo = IF answer /\ known THEN {c \in own : row[c].status = "pending"} ELSE {}]
  /\ UNCHANGED <<row, queue, own, known, late, cycle, crossed, runs, stranded>>

\* Mutant: a failure of /sent is logged and the command executed all the same.
MarkSent_Ignored(c) ==
  /\ agent.at = "mark" /\ c \in agent.todo
  /\ \/ known /\ Served("sent", c) /\ UNCHANGED faults
     \/ Fault /\ UNCHANGED <<row, queue>>
  /\ agent' = [agent EXCEPT !.at = "run", !.todo = @ \ {c}, !.cur = {c}]
  /\ UNCHANGED <<own, known, late, cycle, crossed, runs, stranded>>

\* A /sent without an answer skips the command; it may be served later.
MarkSent(c) ==
  /\ agent.at = "mark" /\ c \in agent.todo
  /\ \/ /\ known /\ Served("sent", c) /\ agent' = [agent EXCEPT !.at = "run", !.todo = @ \ {c}, !.cur = {c}]
        /\ UNCHANGED <<late, faults, stranded>>
     \/ /\ Fault /\ agent' = [agent EXCEPT !.todo = @ \ {c}]
        /\ \/ UNCHANGED <<late, stranded>>
           \/ late' = late \union {<<"sent", c>>} /\ stranded' = stranded \union {c}
        /\ UNCHANGED <<row, queue>>
     \/ ~known /\ agent' = [agent EXCEPT !.todo = @ \ {c}] /\ UNCHANGED <<row, queue, late, faults, stranded>>
  /\ UNCHANGED <<own, known, cycle, crossed, runs>>

\* execute_enterprise_command
Execute(c, exit) ==
  /\ agent.at = "run" /\ c \in agent.cur /\ exit \in Outcomes[row[c].type]
  /\ runs' = [runs EXCEPT ![c] = @ + 1]
  /\ IF exit = Raised
       THEN agent' = [agent EXCEPT !.at = "mark", !.cur = {}] /\ stranded' = stranded \union {c}
       ELSE agent' = [agent EXCEPT !.at = "report", !.exit = exit] /\ UNCHANGED stranded
  /\ UNCHANGED <<row, queue, own, known, late, cycle, crossed, faults>>

Verdict == IF agent.exit = 0 THEN "completed" ELSE "failed"

\* post_enterprise_result and post_result; a failure of the latter ends the runtime loop.
Report(c) ==
  /\ agent.at \in {"report", "post"} /\ c \in agent.cur
  /\ LET runtime == agent.at = "post"
         on(ok)  == [agent EXCEPT !.at = IF runtime THEN "execute" ELSE "mark", !.cur = {},
                                  !.todo = IF ok \/ ~runtime THEN @ ELSE {}]
         left    == {c} \union (IF runtime THEN agent.todo ELSE {}) IN
     \/ known /\ Served(Verdict, c) /\ agent' = on(TRUE) /\ UNCHANGED <<late, faults, stranded>>
     \/ /\ (Fault \/ (~known /\ UNCHANGED faults)) /\ agent' = on(FALSE)
        /\ stranded' = stranded \union (left \intersect Cmds)
        /\ (UNCHANGED late \/ (known /\ late' = late \union {<<Verdict, c>>}))
        /\ UNCHANGED <<row, queue>>
  /\ UNCHANGED <<own, known, cycle, crossed, runs>>

\* poll_commands, which lists and marks pending rows too; an error is the end of the list.
PollRuntime(answer) ==
  /\ agent.at = "mark" /\ agent.todo = {}
  /\ LET rows == {c \in own : row[c].status = "pending"} ls == {l \in Runtime : queue[l] = "pending"} IN
     IF known
       THEN /\ row' = [c \in Cmds |-> IF c \in rows THEN [row[c] EXCEPT !.status = "dispatched"] ELSE row[c]]
            /\ queue' = [l \in Runtime |-> IF l \in ls THEN "dispatched" ELSE queue[l]]
            /\ IF answer THEN UNCHANGED <<faults, stranded>> ELSE Fault /\ stranded' = stranded \union rows
            /\ agent' = [Idle("execute") EXCEPT !.todo = IF answer THEN rows \union ls ELSE {}]
       ELSE agent' = Idle("execute") /\ UNCHANGED <<row, queue, faults, stranded>>
  /\ UNCHANGED <<own, known, late, cycle, crossed, runs>>

\* execute: a row comes with an empty command, which fails.
ExecuteRuntime(c, exit) ==
  /\ agent.at = "execute" /\ c \in agent.todo /\ exit \in (IF c \in Cmds THEN {1} ELSE {0, 1})
  /\ agent' = [at |-> "post", todo |-> agent.todo \ {c}, cur |-> {c}, exit |-> exit]
  /\ UNCHANGED <<row, queue, own, known, late, cycle, crossed, faults, runs, stranded>>

\* After the deployments (module SoftwareDeployment) and the scan.
EndCycle ==
  /\ agent.at = "execute" /\ agent.todo = {} /\ agent' = Idle("sleep")
  /\ cycle' = [cycle EXCEPT !.scan = IF @ + 1 >= ScanEvery THEN 0 ELSE @ + 1]
  /\ UNCHANGED <<row, queue, own, known, late, crossed, faults, runs, stranded>>

\* The process ends and is started again: its sensors are not kept.
Crash ==
  /\ Fault /\ agent.at # "sleep" /\ agent' = Idle("sleep")
  /\ stranded' = stranded \union ((agent.cur \union (IF agent.at \in {"execute", "post"} THEN agent.todo ELSE {})) \intersect Cmds)
  /\ cycle' = [sensors |-> 0, scan |-> 0, smart |-> "none"]
  /\ UNCHANGED <<row, queue, own, known, late, crossed, runs>>

Next ==
  \/ \E c \in Cmds : QueueCommand(c) \/ Retry(c) \/ MarkSent(c) \/ (\E exit \in Codes : Execute(c, exit))
  \/ \E l \in Runtime : CreateCommand(l)
  \/ \E m \in late : ServeLate(m)
  \/ ServerForgets \/ EndCycle \/ Crash
  \/ \E answer \in BOOLEAN : PollEnterprise(answer) \/ PollRuntime(answer) \/ (\E disks \in Disks : Heartbeat(disks, answer))
  \/ \E c \in Cmds \union Runtime : Report(c) \/ (\E exit \in {0, 1} : ExecuteRuntime(c, exit))

Spec == Init /\ [][Next]_agentVars

---------------------------------------------------------------------------
(* Where the token of a command is, in the terms of CommandLifecycle *)

AtRest == [absent |-> "new", pending |-> "queued", completed |-> "done", failed |-> "failed"]

\* A dispatched row whose command is neither in the agent's hands nor told of by a request that
\* is still on its way was swallowed: by a request that got lost, a crash, a handler that raised.
Carried(c) ==
  IF agent.at \in {"report", "post"} /\ c \in agent.cur
    THEN IF agent.exit = 0 THEN "success" ELSE "failure"
    ELSE IF c \in agent.cur \union agent.todo THEN "agent"
    ELSE IF <<"completed", c>> \in late THEN "success"
    ELSE IF <<"failed", c>> \in late THEN "failure" ELSE "lost"

Place(c) ==
  IF c \in crossed THEN "raced"
  ELSE IF row[c].status = "dispatched" THEN Carried(c) ELSE AtRest[row[c].status]

---------------------------------------------------------------------------
(* Properties *)

\* However requests get lost or come late, a command is executed at most once for each time
\* its row was made pending.
RunPerAttempt == \A c \in Cmds : runs[c] <= 1 + row[c].retries

\* A row that stays dispatched has its command in the hands of the agent, unless a request got
\* lost or late, the process died or a handler raised while it had it.
DispatchedIsHeld ==
  \A c \in own : row[c].status = "dispatched" /\ c \notin stranded =>
                   c \in agent.cur \union agent.todo

\* Both: no attempt is executed twice and none is lost by the agent's own steps.
CommandsAreKept == RunPerAttempt /\ DispatchedIsHeld
\* Why: a row that is pending has an execution left, and what the agent has in hand was pending.
Sending == agent.at \in {"mark", "run", "report"}
AtHand ==
  /\ \A a, b \in agent.cur : a = b
  /\ agent.at \in {"sleep", "poll", "mark", "execute"} => agent.cur = {}
  /\ agent.at \in {"sleep", "poll"} => agent.todo = {}
  /\ agent.cur \intersect agent.todo = {}
  /\ Sending => agent.cur \union agent.todo \subseteq Cmds
ExecutionsLeft ==
  \A c \in Cmds :
    /\ row[c].status = "absent" => runs[c] = 0 /\ c \notin agent.cur \union agent.todo
    /\ row[c].status = "pending" \/ (Sending /\ c \in agent.todo) => runs[c] <= row[c].retries
    /\ agent.at = "run" /\ c \in agent.cur =>
         runs[c] + (IF row[c].status = "pending" THEN 1 ELSE 0) <= row[c].retries
GivenUp ==
  /\ \A c \in Cmds : <<"sent", c>> \in late => c \in stranded
  /\ Sending => \A c \in Cmds \intersect agent.todo : row[c].status = "dispatched" => c \in stranded
\* A row whose command is in hand was dispatched for it, and the end of one is told once, after
\* the agent has left it.
ToldOnce ==
  \A c \in Cmds :
    /\ c \in agent.cur \/ (~Sending /\ c \in agent.todo) => row[c].status = "dispatched"
    /\ Sending /\ c \in agent.todo => row[c].status \in {"pending", "dispatched"}
    /\ <<"sent", c>> \in late => row[c].status # "absent"
    /\ {<<"completed", c>>, <<"failed", c>>} \intersect late # {} =>
         row[c].status = "dispatched" /\ c \notin agent.cur \union agent.todo
    /\ ~({<<"completed", c>>, <<"failed", c>>} \subseteq late)
Inv == TypeOK /\ AtHand /\ ExecutionsLeft /\ GivenUp /\ CommandsAreKept /\ ToldOnce
=============================================================================
