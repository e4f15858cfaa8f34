----------------------------- MODULE RemoteSession -----------------------------
(***************************************************************************)
(* One remote session: the sockets of dashboards and of the agent that     *)
(* meet in services/remote_session_manager.py, and the handlers of         *)
(* endpoints/remote_access.py that serve them.                             *)
(*                                                                         *)
(* All handlers run on one event loop and give way only where they await a *)
(* socket.  connect_agent awaits between its assignments and after every   *)
(* buffered message, so a connection has a program counter; relaying a     *)
(* message is one step.  A session has two channels with a buffer each:    *)
(* "main" for dashboard_message envelopes, "input" for mouse and keyboard. *)
(***************************************************************************)
EXTENDS Integers, Sequences, SequencesExt

CONSTANTS
  Conns,        \* connections an agent opens to the session
  Dashboards,   \* dashboard sockets
  NoConn,
  MaxMessages,  \* bound on the messages dashboards send
  Capacity      \* maxlen of the deques of pending messages

VARIABLES status,    \* RemoteSessionState.status
          agent,     \* channel -> agent_connection, agent_input_connection
          pending,   \* channel -> pending messages
          listed,    \* dashboard_connections
          served,    \* dashboards whose handler runs
          conn,      \* what each agent connection's handler does
          count,     \* messages dashboards have sent so far
          received,  \* conn -> messages the agent got on it, in order
          overtook,  \* history: messages sent past a buffer that was not empty
          misled     \* history: a handler of a replaced connection set status

vars == <<status, agent, pending, listed, served, conn, count, received, overtook, misled>>

Channel == {"main", "input"}
Status  == {"pending", "active", "idle", "waiting_for_agent", "closed"}

\* pc: what the handler awaits; "open" is the receive loop.  open: the socket can be written.
Conn == [pc : {"absent", "replacing", "draining", "open", "gone"}, channel : Channel, open : BOOLEAN]

TypeOK ==
  /\ status \in Status
  /\ agent \in [Channel -> Conns \union {NoConn}]
  /\ pending \in [Channel -> Seq(1..MaxMessages)] /\ \A ch \in Channel : Len(pending[ch]) <= Capacity
  /\ listed \subseteq Dashboards /\ served \subseteq Dashboards
  /\ conn \in [Conns -> Conn]
  /\ count \in 0..MaxMessages
  /\ received \in [Conns -> Seq(1..MaxMessages)]
  /\ overtook \subseteq 1..MaxMessages
  /\ misled \in BOOLEAN

\* create_session
Init ==
  /\ status = "pending"
  /\ agent = [ch \in Channel |-> NoConn]
  /\ pending = [ch \in Channel |-> <<>>]
  /\ listed = {} /\ served = {}
  /\ conn = [c \in Conns |-> [pc |-> "absent", channel |-> "main", open |-> FALSE]]
  /\ count = 0
  /\ received = [c \in Conns |-> <<>>]
  /\ overtook = {} /\ misled = FALSE

---------------------------------------------------------------------------
(* Dashboards *)

\* The sockets that turn out to be broken leave the list; their handlers notice later.
Broadcast == \E broken \in SUBSET listed : listed' = listed \ broken

ConnectDashboard(d) ==
  /\ d \notin listed \union served
  /\ listed' = listed \union {d} /\ served' = served \union {d}
  /\ UNCHANGED <<status, agent, pending, conn, count, received, overtook, misled>>

\* A dashboard that leaves an unattended session makes it idle, a closed one too.
DisconnectDashboard(d) ==
  /\ d \in served
  /\ served' = served \ {d}
  /\ listed' = listed \ {d}
  /\ status' = IF listed' = {} /\ agent["main"] = NoConn THEN "idle" ELSE status
  /\ UNCHANGED <<agent, pending, conn, count, received, overtook, misled>>

\* A deque with maxlen drops its oldest entry.
Buffered(queue, m) ==
  IF Len(queue) = Capacity THEN Append(Tail(queue), m) ELSE Append(queue, m)

\* Mutant: a message is buffered whether or not it can be sent.
RelayDashboardMessage_Twice(d, ch, close) ==
  /\ d \in served /\ count < MaxMessages
  /\ count' = count + 1
  /\ status' = IF close THEN "closed" ELSE status
  /\ pending' = [pending EXCEPT ![ch] = Buffered(@, count')]
  /\ received' = IF agent[ch] # NoConn THEN [received EXCEPT ![agent[ch]] = Append(@, count')] ELSE received
  /\ UNCHANGED <<agent, conn, overtook, misled, served, listed>>

\* A message goes to the agent's socket, or to the buffer if there is none.  A write to a
\* broken socket raises and ends the dashboard's handler, with or without disconnect_dashboard.
RelayDashboardMessage(d, ch, close) ==
  LET c == agent[ch] IN
  /\ d \in served /\ count < MaxMessages
  /\ close => ch = "main"
  /\ count' = count + 1
  /\ status' = IF close THEN "closed" ELSE status
  /\ \/ /\ c = NoConn
        /\ pending' = [pending EXCEPT ![ch] = Buffered(@, count')]
        /\ UNCHANGED <<received, overtook, served, listed>>
     \/ /\ c # NoConn /\ conn[c].open
        /\ received' = [received EXCEPT ![c] = Append(@, count')]
        /\ overtook' = IF pending[ch] # <<>> THEN overtook \union {count'} ELSE overtook
        /\ UNCHANGED <<pending, served, listed>>
     \/ /\ c # NoConn /\ ~conn[c].open
        /\ served' = served \ {d}
        /\ listed' \in {listed, listed \ {d}}
        /\ UNCHANGED <<pending, received, overtook>>
  /\ UNCHANGED <<agent, conn, misled>>

\* POST .../close.  A broken agent socket makes it fail before the dashboards are told.
CloseSession ==
  LET c == agent["main"] IN
  /\ status' = "closed"
  /\ IF c # NoConn /\ ~conn[c].open THEN UNCHANGED listed ELSE Broadcast
  /\ UNCHANGED <<agent, pending, served, conn, count, received, overtook, misled>>

---------------------------------------------------------------------------
(* Agent connections *)

\* The handler assigns the socket, and "active" whatever the status was, then awaits.
Assigned(c, ch) ==
  /\ agent' = [agent EXCEPT ![ch] = c]
  /\ status' = IF ch = "main" THEN "active" ELSE status
  /\ IF ch = "main" THEN Broadcast ELSE UNCHANGED listed

\* An earlier connection of the channel is closed with 1012, which the handler awaits.
ConnectAgent(c, ch) ==
  LET old == agent[ch] IN
  /\ conn[c].pc = "absent"
  /\ \/ /\ old = NoConn
        /\ conn' = [conn EXCEPT ![c] = [pc |-> "draining", channel |-> ch, open |-> TRUE]]
        /\ Assigned(c, ch)
     \/ /\ old # NoConn
        /\ conn' = [conn EXCEPT ![c] = [pc |-> "replacing", channel |-> ch, open |-> TRUE],
                                ![old].open = FALSE]
        /\ UNCHANGED <<status, agent, listed>>
  /\ UNCHANGED <<pending, served, count, received, overtook, misled>>

Replace(c) ==
  /\ conn[c].pc = "replacing"
  /\ conn' = [conn EXCEPT ![c].pc = "draining"]
  /\ Assigned(c, conn[c].channel)
  /\ UNCHANGED <<pending, served, count, received, overtook, misled>>

\* One message per await, whoever the channel belongs to by now; a broken socket ends the
\* handler outside the endpoint's try, so disconnect_agent is not called.
Drain(c) ==
  LET ch == conn[c].channel IN
  /\ conn[c].pc = "draining" /\ pending[ch] # <<>>
  /\ pending' = [pending EXCEPT ![ch] = Tail(@)]
  /\ IF conn[c].open
     THEN received' = [received EXCEPT ![c] = Append(@, Head(pending[ch]))] /\ UNCHANGED conn
     ELSE conn' = [conn EXCEPT ![c].pc = "gone"] /\ UNCHANGED received
  /\ UNCHANGED <<status, agent, listed, served, count, overtook, misled>>

Drained(c) ==
  /\ conn[c].pc = "draining" /\ pending[conn[c].channel] = <<>>
  /\ conn' = [conn EXCEPT ![c].pc = "open"]
  /\ UNCHANGED <<status, agent, pending, listed, served, count, received, overtook, misled>>

\* A (desktop_)ready makes the session active, session_closed closes it; anything else is only
\* broadcast.
RelayAgentMessage(c, type) ==
  /\ conn[c].pc = "open"
  /\ status' = CASE type = "ready" -> "active" [] type = "session_closed" -> "closed" [] OTHER -> status
  /\ Broadcast
  /\ misled' = (misled \/ (type # "frame" /\ agent["main"] # c))
  /\ UNCHANGED <<agent, pending, served, conn, count, received, overtook>>

\* The connection is lost, or the agent ends it.
Break(c) ==
  /\ conn[c].open
  /\ conn' = [conn EXCEPT ![c].open = FALSE]
  /\ UNCHANGED <<status, agent, pending, listed, served, count, received, overtook, misled>>

\* Mutant: whichever connection ends, the session has no agent any more.
DisconnectAgent_Always(c) ==
  /\ conn[c].pc = "open" /\ ~conn[c].open
  /\ conn' = [conn EXCEPT ![c].pc = "gone"]
  /\ agent' = [agent EXCEPT ![conn[c].channel] = NoConn]
  /\ UNCHANGED <<status, pending, served, listed, count, received, overtook, misled>>

\* The socket that ends is compared with the attached ones; one that was replaced is neither,
\* and still announces that the agent has gone.
DisconnectAgent(c) ==
  LET wasInput == agent["input"] = c
      wasMain  == agent["main"] = c IN
  /\ conn[c].pc = "open" /\ ~conn[c].open
  /\ conn' = [conn EXCEPT ![c].pc = "gone"]
  /\ agent' = [ch \in Channel |-> IF agent[ch] = c THEN NoConn ELSE agent[ch]]
  /\ IF wasInput /\ ~wasMain
     THEN UNCHANGED <<status, listed, misled>>
     ELSE /\ status' = IF status = "closed" THEN "closed" ELSE "waiting_for_agent"
          /\ Broadcast
          /\ misled' = (misled \/ ~wasMain)
  /\ UNCHANGED <<pending, served, count, received, overtook>>

---------------------------------------------------------------------------

Next ==
  \/ \E d \in Dashboards : ConnectDashboard(d) \/ DisconnectDashboard(d)
  \/ \E d \in Dashboards, ch \in Channel, close \in BOOLEAN : RelayDashboardMessage(d, ch, close)
  \/ CloseSession
  \/ \E c \in Conns, ch \in Channel : ConnectAgent(c, ch)
  \/ \E c \in Conns : Replace(c) \/ Drain(c) \/ Drained(c) \/ Break(c) \/ DisconnectAgent(c)
  \/ \E c \in Conns, type \in {"ready", "session_closed", "frame"} : RelayAgentMessage(c, type)

Spec == Init /\ [][Next]_vars

---------------------------------------------------------------------------
(* Properties *)

\* Whatever connections come and go, and even when two of them drain one buffer, the agent
\* gets a message on one connection only and once, and on a connection a message comes before
\* an older one only if it was relayed while older ones still waited in the buffer.
DeliveredOnceInOrder ==
  \A c, b \in Conns : \A i \in 1..Len(received[c]), j \in 1..Len(received[b]) :
    /\ received[c][i] = received[b][j] => c = b /\ i = j
    /\ c = b /\ i < j => received[c][i] < received[c][j] \/ received[c][i] \in overtook

\* Unless the handler of a connection that had been replaced interfered, a session that waits
\* for its agent has none attached, and an active one has an agent attached.
StatusTellsAgent ==
  ~misled => /\ status = "waiting_for_agent" => agent["main"] = NoConn
             /\ status = "active" => agent["main"] # NoConn
\* Why: messages are numbered as they are sent, each is in one place, and what waits in a buffer
\* is younger than what was delivered on the connections of its channel but for what overtook it.
Attached ==
  /\ \A ch \in Channel : agent[ch] # NoConn => conn[agent[ch]].pc # "absent" /\ conn[agent[ch]].channel = ch
  /\ \A c \in Conns : conn[c].pc = "absent" => received[c] = <<>>
Numbered ==
  /\ \A ch \in Channel : \A i \in 1..Len(pending[ch]) :
       pending[ch][i] <= count /\ \A j \in 1..Len(pending[ch]) : i < j => pending[ch][i] < pending[ch][j]
  /\ \A c \in Conns : \A i \in 1..Len(received[c]) : received[c][i] <= count
Apart ==
  /\ \A i \in 1..Len(pending["main"]), j \in 1..Len(pending["input"]) : pending["main"][i] # pending["input"][j]
  /\ \A ch \in Channel, c \in Conns : \A i \in 1..Len(pending[ch]), j \in 1..Len(received[c]) :
       /\ pending[ch][i] # received[c][j]
       /\ conn[c].channel = ch => received[c][j] < pending[ch][i] \/ received[c][j] \in overtook
Inv == TypeOK /\ Attached /\ Numbered /\ Apart /\ DeliveredOnceInOrder
==================================================================================
