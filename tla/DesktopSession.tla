----------------------------- MODULE DesktopSession -----------------------------
(***************************************************************************)
(* A remote desktop on the managed machine, agent/native/remote_desktop.go: *)
(* four goroutines over two websockets. runDesktopSession writes frames to  *)
(* the video socket; a reader and a pinger share that socket with it, and   *)
(* the channel `stop` that any of them may close; runDesktopInputChannel    *)
(* has a socket of its own and only closes `stop`, it never looks at it.    *)
(*                                                                          *)
(* The websocket library keeps the first error of a write and returns it to *)
(* every later one, lets one write run at a time, and gives a write the     *)
(* deadline that was set last, by whichever goroutine.                      *)
(***************************************************************************)

VARIABLES video,      \* the video socket: "open", "full" (the other side takes nothing), "cut"
          broken,     \* the write error the library keeps: "none", "timeout", "other"
          deadline,   \* a write deadline is set on the video socket
          stop,       \* the channel is closed
          main,       \* runDesktopSession; "armed" has set the deadline of a frame, "writing" is
                      \* in its write, "exposed" too but without a deadline
          pinger, reader,
          input       \* runDesktopInputChannel

vars == <<video, broken, deadline, stop, main, pinger, reader, input>>

TypeOK ==
  /\ video \in {"open", "full", "cut"} /\ broken \in {"none", "timeout", "other"}
  /\ main \in {"dial", "select", "armed", "writing", "exposed", "over"}
  /\ pinger \in {"none", "select", "pinging", "over"}
  /\ reader \in {"none", "reading", "over"}
  /\ input \in {"none", "dial", "reading", "acking", "over"}
  /\ {deadline, stop} \subseteq BOOLEAN

Init ==
  /\ video = "open" /\ broken = "none" /\ deadline = FALSE /\ stop = FALSE
  /\ main = "dial" /\ pinger = "none" /\ reader = "none" /\ input = "none"

---------------------------------------------------------------------------
(* runDesktopSession *)

\* How a write with a deadline ends.
WriteError == CASE video = "open" -> "none" [] video = "full" -> "timeout" [] OTHER -> "other"

\* The dial, the attach message, the desktop or its monitor may fail: nothing was started yet.
GivesUp ==
  /\ main = "dial" /\ main' = "over"
  /\ UNCHANGED <<video, broken, deadline, stop, pinger, reader, input>>

\* desktop_ready is written, whose error is ignored. A session that only views has no input channel.
Starts ==
  /\ main = "dial" /\ main' = "select"
  /\ broken' = WriteError
  /\ pinger' = "select" /\ reader' = "reading"
  /\ input' \in {"none", "dial"}
  /\ UNCHANGED <<video, deadline, stop>>

\* A tick: the screen is captured, and writeJSON sets the deadline of the frame.
Tick ==
  /\ main = "select" /\ main' = "armed"
  /\ deadline' = TRUE
  /\ UNCHANGED <<video, broken, stop, pinger, reader, input>>

\* The write takes the deadline as it is now, which the pinger may have cleared.
WriteFrame ==
  /\ main = "armed" /\ broken = "none"
  /\ main' = (IF deadline THEN "writing" ELSE "exposed")
  /\ UNCHANGED <<video, broken, deadline, stop, pinger, reader, input>>

\* The frame is out, or its error is a timeout: the loop goes on at a lower rate.
GoesOn(error) ==
  /\ main' = "select" /\ broken' = error /\ deadline' = FALSE
  /\ UNCHANGED <<video, stop, pinger, reader, input>>

\* Any other error closes `stop` and returns, which closes the socket.
GoesAway ==
  /\ main' = "over" /\ broken' = "other" /\ deadline' = FALSE /\ stop' = TRUE
  /\ UNCHANGED <<video, pinger, reader, input>>

FrameDone ==
  \/ main \in {"writing", "exposed"} /\ video = "open" /\ GoesOn(broken)
  \/ main = "writing" /\ video = "full" /\ GoesOn("timeout")
  \/ main \in {"writing", "exposed"} /\ video = "cut" /\ GoesAway
  \/ main = "armed" /\ broken = "timeout" /\ GoesOn("timeout")
  \/ main = "armed" /\ broken = "other" /\ GoesAway

\* select takes either of two ready channels, so a tick may come first, even again.
Stops ==
  /\ main = "select" /\ stop
  /\ main' = "over"
  /\ UNCHANGED <<video, broken, deadline, stop, pinger, reader, input>>

---------------------------------------------------------------------------
(* The goroutines beside it. *)

Ping ==
  /\ pinger = "select" /\ pinger' = "pinging"
  /\ deadline' = TRUE
  /\ UNCHANGED <<video, broken, stop, main, reader, input>>

Writing == main \in {"writing", "exposed"}

\* An earlier error, five seconds behind the write of a frame, or an error of its own.
PingError ==
  CASE broken /= "none" \/ Writing -> broken
    [] main = "over" -> "other"
    [] OTHER -> WriteError

PingCannot == pinger = "pinging" /\ (broken /= "none" \/ video /= "open" \/ main = "over")

\* Mutant: an error of the ping is only logged.
PingFails_Logged ==
  /\ PingCannot /\ pinger' = "select"
  /\ broken' = PingError /\ deadline' = FALSE
  /\ UNCHANGED <<video, stop, main, reader, input>>

PingFails ==
  /\ PingCannot /\ pinger' = "over" /\ stop' = TRUE
  /\ broken' = PingError /\ deadline' = FALSE
  /\ UNCHANGED <<video, main, reader, input>>

PingDone ==
  /\ pinger = "pinging" /\ broken = "none" /\ video = "open" /\ ~Writing /\ main /= "over"
  /\ pinger' = "select" /\ deadline' = FALSE
  /\ UNCHANGED <<video, broken, stop, main, reader, input>>

PingerStops ==
  /\ pinger = "select" /\ stop
  /\ pinger' = "over"
  /\ UNCHANGED <<video, broken, deadline, stop, main, reader, input>>

ReaderEnds ==
  /\ reader = "reading" /\ reader' = "over" /\ stop' = TRUE
  /\ UNCHANGED <<video, broken, deadline, main, pinger, input>>

\* The server says close, or no pong came for a minute.
Closed == ReaderEnds

\* The connection is lost, or the main goroutine has closed it.
Disconnected == (video = "cut" \/ main = "over") /\ ReaderEnds

InputAttaches ==
  /\ input = "dial" /\ input' = "reading"
  /\ UNCHANGED <<video, broken, deadline, stop, main, pinger, reader>>

\* An event is applied to the desktop, then acknowledged, also after `stop` was closed.
InputEvent ==
  /\ \/ input = "reading" /\ input' = "acking"
     \/ input = "acking" /\ input' = "reading"
  /\ UNCHANGED <<video, broken, deadline, stop, main, pinger, reader>>

\* No connection, no desktop, a close, or an error of its own socket.
InputEnds ==
  /\ input \in {"dial", "reading", "acking"}
  /\ input' = "over" /\ stop' = TRUE
  /\ UNCHANGED <<video, broken, deadline, main, pinger, reader>>

Network ==
  /\ video /= "cut"
  /\ video' \in {"open", "full", "cut"} \ {video}
  /\ UNCHANGED <<broken, deadline, stop, main, pinger, reader, input>>

MainRuns   == Starts \/ GivesUp \/ Tick \/ WriteFrame \/ FrameDone
PingerRuns == Ping \/ PingFails \/ PingDone \/ PingerStops

Next ==
  \/ MainRuns \/ Stops
  \/ PingerRuns
  \/ Closed \/ Disconnected
  \/ InputAttaches \/ InputEvent \/ InputEnds
  \/ Network

---------------------------------------------------------------------------
(* A stream whose socket takes no more frames is not left frozen, since     *)
(* every later frame fails like the first: the pinger ends the session.     *)
(* Once `stop` is closed, the three goroutines of the video socket end,     *)
(* unless a frame is being written for which the pinger cleared the         *)
(* deadline. What the input channel does is not part of it.                 *)

Frozen == broken = "timeout"
Ending == stop
Ended  == main = "over" /\ pinger = "over" /\ reader = "over"
Held   == main = "exposed"
===============================================================================
