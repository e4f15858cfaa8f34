------------------------- MODULE CommandLifecycle -------------------------
(***************************************************************************)
(* What the SQL command queue promises for each command, without handlers, *)
(* transactions, messages or processes, whichever agent is at the other    *)
(* end.                                                                    *)
(*                                                                         *)
(* A command is one token.  It is queued, held by the agent, on its way    *)
(* back as a report, accepted as done or failed, and possibly queued again *)
(* while its retry budget lasts.  A token that a crash or a lost message   *)
(* swallowed is "lost".  A command on which two unguarded UPDATEs of the   *)
(* server met is "raced": nothing more is promised about it.               *)
(***************************************************************************)
EXTENDS Naturals

CONSTANTS Cmds,        \* identifiers of queued commands
          MaxRetries   \* AgentCommand.max_retries

VARIABLES place,       \* where the token of each command is
          tries,       \* retries granted so far
          runs         \* executions of the command on the endpoint so far

vars == <<place, tries, runs>>

Places == {"new", "queued", "agent", "success", "failure",
           "done", "failed", "lost", "raced"}

Init ==
  /\ place = [c \in Cmds |-> "new"]
  /\ tries = [c \in Cmds |-> 0]
  /\ runs  = [c \in Cmds |-> 0]

Goes(c, from, to) == place[c] \in from /\ place'[c] = to

Submit(c)  == Goes(c, {"new"}, "queued") /\ UNCHANGED <<tries[c], runs[c]>>

\* The answer that hands it out may not arrive.
HandOut(c) ==
  /\ Goes(c, {"queued"}, "agent") \/ Goes(c, {"queued"}, "lost")
  /\ UNCHANGED <<tries[c], runs[c]>>

\* The only step that executes the command; its token leaves the agent with it, or is lost with
\* the result.
Run(c) ==
  /\ Goes(c, {"agent"}, "success") \/ Goes(c, {"agent"}, "failure") \/ Goes(c, {"agent"}, "lost")
  /\ runs'[c] = runs[c] + 1
  /\ UNCHANGED tries[c]

\* An agent that cannot execute a command says that it failed.
Refuse(c) == Goes(c, {"agent"}, "failure") /\ UNCHANGED <<tries[c], runs[c]>>

Accept(c) ==
  /\ Goes(c, {"success"}, "done") \/ Goes(c, {"failure"}, "failed")
  /\ UNCHANGED <<tries[c], runs[c]>>

Requeue(c) ==
  /\ tries[c] < MaxRetries
  /\ Goes(c, {"failed"}, "queued")
  /\ tries'[c] = tries[c] + 1
  /\ UNCHANGED runs[c]

\* A token in transit can disappear; one at rest in the database cannot.
Lose(c) ==
  /\ Goes(c, {"agent", "success", "failure"}, "lost")
  /\ UNCHANGED <<tries[c], runs[c]>>

Race(c) == place'[c] = "raced"

Stay(c) == UNCHANGED <<place[c], tries[c], runs[c]>>

\* One concrete step may move several tokens: a poll hands out a list, a worker
\* transaction requeues every candidate, a crash loses everything in memory.
Next ==
  /\ place' \in [Cmds -> Places]
  /\ tries' \in [Cmds -> Nat]
  /\ runs' \in [Cmds -> Nat]
  /\ \A c \in Cmds :
       Stay(c) \/ Submit(c) \/ HandOut(c) \/ Run(c) \/ Refuse(c) \/ Accept(c) \/ Requeue(c) \/ Lose(c) \/ Race(c)

Spec == Init /\ [][Next]_vars
===========================================================================
