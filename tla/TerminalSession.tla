----------------------------- MODULE TerminalSession -----------------------------
(***************************************************************************)
(* A remote terminal on the managed machine, agent/native/remote_terminal:  *)
(* a shell, two goroutines that pump its output to the websocket, one that  *)
(* reads the websocket, and runTerminalSession, which waits for that one    *)
(* only. The websocket library allows one writer at a time; here three      *)
(* goroutines write, and a second writer makes it panic, unless they miss   *)
(* each other by chance. A panic ends the agent.                            *)
(***************************************************************************)
VARIABLES connected,   \* the websocket
          shell,       \* "none", "idle" (it reads its input), "busy" (a command runs), "exited"
          stdin,       \* its input is open
          main,        \* runTerminalSession: "dial", "stop", "wait" (cmd.Wait), "pumps", "over"
          reader,      \* "none", "reading", "feeding", "acking", "closing", "over"
          pump,        \* stream -> "none", "reading", "writing", "over"
          dead         \* the agent has panicked

vars == <<connected, shell, stdin, main, reader, pump, dead>>

Stream == {"stdout", "stderr"}

TypeOK ==
  /\ shell \in {"none", "idle", "busy", "exited"}
  /\ main \in {"dial", "stop", "wait", "pumps", "over"}
  /\ reader \in {"none", "reading", "feeding", "acking", "closing", "over"}
  /\ pump \in [Stream -> {"none", "reading", "writing", "over"}]
  /\ {connected, stdin, dead} \subseteq BOOLEAN

Init ==
  /\ connected = TRUE /\ shell = "none" /\ stdin = TRUE
  /\ main = "dial" /\ reader = "none" /\ pump = [s \in Stream |-> "none"]
  /\ dead = FALSE

---------------------------------------------------------------------------
(* runTerminalSession *)

\* No connection, no attach message, no pipe, or no shell.
GivesUp ==
  /\ main = "dial" /\ main' = "over"
  /\ UNCHANGED <<connected, shell, stdin, reader, pump, dead>>

Starts ==
  /\ main = "dial" /\ main' = "stop"
  /\ shell' = "idle" /\ reader' = "reading" /\ pump' = [s \in Stream |-> "reading"]
  /\ UNCHANGED <<connected, stdin, dead>>

\* Only the reader closes `stop`: a shell that exits does not end the session.
ReaderGone ==
  /\ main = "stop" /\ reader = "over"
  /\ main' = "wait" /\ stdin' = FALSE
  /\ UNCHANGED <<connected, shell, reader, pump, dead>>

\* cmd.Wait closes the read ends of the shell's output; wg.Wait follows.
ShellReaped ==
  /\ main = "wait" /\ shell = "exited"
  /\ main' = "pumps"
  /\ UNCHANGED <<connected, shell, stdin, reader, pump, dead>>

PumpsGone ==
  /\ main = "pumps" /\ \A s \in Stream : pump[s] = "over"
  /\ main' = "over"
  /\ UNCHANGED <<connected, shell, stdin, reader, pump, dead>>

---------------------------------------------------------------------------
(* pump and the reader *)

\* A writer that comes beside another one: what happens depends on where they are.
Writing == reader \in {"acking", "closing"} \/ \E s \in Stream : pump[s] = "writing"
WriteStarts == dead' \in (IF Writing THEN BOOLEAN ELSE {FALSE})

Output(s) ==
  /\ pump[s] = "reading" /\ shell \in {"idle", "busy", "exited"} /\ main /= "pumps"
  /\ pump' = [pump EXCEPT ![s] = "writing"]
  /\ WriteStarts
  /\ UNCHANGED <<connected, shell, stdin, main, reader>>

\* An error is ignored; a write that takes 15 seconds ends with one.
OutputSent(s) ==
  /\ pump[s] = "writing"
  /\ pump' = [pump EXCEPT ![s] = "reading"]
  /\ UNCHANGED <<connected, shell, stdin, main, reader, dead>>

\* The end of the output: also processes the shell started may hold it open until it is reaped.
OutputEnds(s) ==
  /\ pump[s] = "reading" /\ shell = "exited"
  /\ pump' = [pump EXCEPT ![s] = "over"]
  /\ UNCHANGED <<connected, shell, stdin, main, reader, dead>>

\* Input, a resize that is acknowledged, or a close, which the dashboard gets an answer to.
Message ==
  /\ reader = "reading" /\ connected
  /\ \/ reader' = "feeding" /\ UNCHANGED dead
     \/ reader' \in {"acking", "closing"} /\ WriteStarts
  /\ UNCHANGED <<connected, shell, stdin, main, pump>>

\* The pipe has room or the shell reads it; a write to a shell that is gone fails, unnoticed.
Fed ==
  /\ reader = "feeding"
  /\ reader' = "reading"
  /\ shell' \in (IF shell = "idle" THEN {"idle", "busy"} ELSE {shell})
  /\ UNCHANGED <<connected, stdin, main, pump, dead>>

Acked ==
  /\ reader = "acking"
  /\ reader' = "reading"
  /\ UNCHANGED <<connected, shell, stdin, main, pump, dead>>

Kill ==
  /\ reader' = "over" /\ stdin' = FALSE /\ shell' = "exited"
  /\ UNCHANGED <<connected, main, pump, dead>>

\* Closed by the dashboard, after the answer, or by the server.
Closes ==
  \/ reader = "closing" /\ Kill
  \/ reader = "reading" /\ connected /\ Kill

Disconnected ==
  /\ reader = "reading" /\ ~connected
  /\ reader' = "over"
  /\ UNCHANGED <<connected, shell, stdin, main, pump, dead>>

---------------------------------------------------------------------------
(* The shell and the network *)

CommandEnds ==
  /\ shell = "busy" /\ shell' = "idle"
  /\ UNCHANGED <<connected, stdin, main, reader, pump, dead>>

\* At the end of its input.
ShellEnds ==
  /\ shell = "idle" /\ ~stdin /\ shell' = "exited"
  /\ UNCHANGED <<connected, stdin, main, reader, pump, dead>>

\* By itself: the operator types exit, or it crashes.
ShellExits ==
  /\ shell \in {"idle", "busy"} /\ shell' = "exited"
  /\ UNCHANGED <<connected, stdin, main, reader, pump, dead>>

Network ==
  /\ connected /\ connected' = FALSE
  /\ UNCHANGED <<shell, stdin, main, reader, pump, dead>>

PumpRuns(s) == OutputSent(s) \/ OutputEnds(s)
MainRuns == GivesUp \/ Starts \/ ReaderGone \/ ShellReaped \/ PumpsGone
ReaderRuns == Acked \/ Closes \/ Disconnected

Next ==
  /\ ~dead
  /\ \/ MainRuns \/ ReaderRuns \/ Message \/ Fed
     \/ \E s \in Stream : Output(s) \/ PumpRuns(s)
     \/ CommandEnds \/ ShellEnds \/ ShellExits
     \/ Network

---------------------------------------------------------------------------
(* A session whose websocket ends, or that is told to close, comes to its   *)
(* end and leaves no shell: the shell was killed, or ends with its input,   *)
(* unless a command runs in it on and on. The agent may panic before.       *)

Gone  == reader = "over"
Ended == main = "over" /\ shell \in {"none", "exited"}
Held  == shell = "busy" \/ dead
===============================================================================
