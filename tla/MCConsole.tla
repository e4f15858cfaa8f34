-------------------------------- MODULE MCConsole --------------------------------
(***************************************************************************)
(* Connections of the server and its agents, in parts that share no state,  *)
(* checked one beside the other: the run starts in one component and stays  *)
(* with it. The INSTANCE says which variable of Gallery is which of the     *)
(* component's. CircuitCalls is the extended module, whose assumptions      *)
(* TLC evaluates, and keeps its own variables.                              *)
(***************************************************************************)
EXTENDS CircuitCalls, Gallery

CONSTANTS
  Conns, Dashboards, NoConn, MaxMessages, Capacity,   \* RemoteSession
  Raisers, Sockets, NoTimer, BatchSize,               \* EventFanOut
  Cmds, Runtime, MaxFaults, SensorEvery, ScanEvery    \* PythonAgent

ASSUME ConnsAssumption  == NoConn \notin Conns /\ {MaxMessages, Capacity} \subseteq Nat /\ Capacity > 0
\* Rows of agent_commands and commands of the runtime both have random uuids.
ASSUME IdsAssumption == Cmds \intersect Runtime = {}

Remote == INSTANCE RemoteSession WITH
  status <- v1, agent <- v2, pending <- v3, listed <- v4, served <- v5, conn <- v6,
  count <- v7, received <- v8, overtook <- v9, misled <- v10
Events == INSTANCE EventFanOut WITH
  MaxEvents <- 5, queue <- v1, timer <- v2, raiser <- v3, raised <- v4, sent <- v5, lost <- v6,
  general <- v7, open <- v8
Desktop == INSTANCE DesktopSession WITH
  video <- v1, broken <- v2, deadline <- v3, stop <- v4, main <- v5, pinger <- v6,
  reader <- v7, input <- v8
Terminal == INSTANCE TerminalSession WITH
  connected <- v1, shell <- v2, stdin <- v3, main <- v4, reader <- v5, pump <- v6, dead <- v7
Client == INSTANCE PythonAgent WITH
  MaxRetries <- 1, row <- v1, queue <- v2, own <- v3, known <- v4, agent <- v5, late <- v6,
  cycle <- v7, crossed <- v8, faults <- v9, runs <- v10, stranded <- v11

ConsoleInit ==
  /\ Init
  /\ \/ focus = "circuit"  /\ Blank(0)
     \/ focus = "remote"   /\ Remote!Init /\ Blank(10)
     \/ focus = "events"   /\ Events!Init /\ Blank(8)
     \/ focus = "desktop"  /\ Desktop!Init /\ Blank(8)
     \/ focus = "terminal" /\ Terminal!Init /\ Blank(7)
     \/ focus = "agent"    /\ Client!Init

ConsoleNext ==
  /\ UNCHANGED focus
  /\ \/ focus = "circuit"  /\ Next /\ Rest(0)
     \/ focus = "remote"   /\ Remote!Next /\ UNCHANGED vars /\ Rest(10)
     \/ focus = "events"   /\ Events!Next /\ UNCHANGED vars /\ Rest(8)
     \/ focus = "desktop"  /\ Desktop!Next /\ UNCHANGED vars /\ Rest(8)
     \/ focus = "terminal" /\ Terminal!Next /\ UNCHANGED vars /\ Rest(7)
     \/ focus = "agent"    /\ Client!Next /\ UNCHANGED vars

ConsoleVars == <<focus, vars, slots>>

Turn(step) == focus = "circuit" /\ step /\ UNCHANGED <<focus, slots>>
OnDesktop(step)  == focus = "desktop" /\ step /\ UNCHANGED <<focus, vars>> /\ Rest(8)
OnTerminal(step) == focus = "terminal" /\ step /\ UNCHANGED <<focus, vars>> /\ Rest(7)

\* Time passes and calls return; goroutines go on, and a select takes each of its ready channels
\* some time; a shell ends with its input. Networks, peers and commands in a shell owe nothing.
ConsoleSpec ==
  /\ ConsoleInit /\ [][ConsoleNext]_ConsoleVars
  /\ WF_ConsoleVars(Turn(Cool))
  /\ \A c \in Callers : WF_ConsoleVars(Turn(Return(c) \/ Raise(c)))
  /\ WF_ConsoleVars(OnDesktop(Desktop!MainRuns))
  /\ SF_ConsoleVars(OnDesktop(Desktop!Stops))
  /\ WF_ConsoleVars(OnDesktop(Desktop!PingerRuns))
  /\ WF_ConsoleVars(OnDesktop(Desktop!Disconnected))
  /\ WF_ConsoleVars(OnTerminal(Terminal!MainRuns))
  /\ \A s \in Terminal!Stream : WF_ConsoleVars(OnTerminal(Terminal!PumpRuns(s)))
  /\ WF_ConsoleVars(OnTerminal(Terminal!ShellEnds))

---------------------------------------------------------------------------
(* The properties of each, stated in its module. *)

DeliveredOnceInOrder == focus = "remote" => Remote!DeliveredOnceInOrder
StatusTellsAgent     == focus = "remote" => Remote!StatusTellsAgent
EveryAlertOnce       == focus = "events" => Events!EveryAlertOnce
CommandsAreKept      == focus = "agent" => Client!CommandsAreKept

\* The queue of CommandLifecycle; while another component is in focus no command is submitted.
Unsent  == [c \in Cmds |-> "new"]
Untried == [c \in Cmds |-> 0]
Promise == INSTANCE CommandLifecycle WITH
  MaxRetries <- 1,
  place <- IF focus = "agent" THEN [c \in Cmds |-> Client!Place(c)] ELSE Unsent,
  tries <- IF focus = "agent" THEN [c \in Cmds |-> v1[c].retries] ELSE Untried,
  runs <- IF focus = "agent" THEN [c \in Cmds |-> v10[c]] ELSE Untried
\* With the Python agent at its end too, the queue of commands keeps the promise of CommandLifecycle.
AgentKeepsPromise == Promise!Spec

\* An agent's remote session that loses its socket, can write no more, or is told to close comes
\* to its end, goroutines and shell included, but for the cases that the modules name Held.
SessionsWindDown ==
  /\ (focus = "desktop" /\ Desktop!Frozen) ~> (focus = "desktop" /\ Desktop!Ending)
  /\ (focus = "desktop" /\ Desktop!Ending) ~> (focus = "desktop" /\ (Desktop!Ended \/ Desktop!Held))
  /\ (focus = "terminal" /\ Terminal!Gone) ~> (focus = "terminal" /\ (Terminal!Ended \/ Terminal!Held))
===============================================================================
