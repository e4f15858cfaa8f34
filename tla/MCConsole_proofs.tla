---------------------------- MODULE MCConsole_proofs ----------------------------
(***************************************************************************)
(* Theorems about the connections of the server and its agents, for every  *)
(* value of the constants. The invariant of each component, on the slots of*)
(* Gallery, is inductive; the run stays in its component, so that          *)
(* ConsoleSpec keeps it.                                                   *)
(***************************************************************************)
EXTENDS MCConsole, SequenceTheorems, FiniteSetTheorems, TLAPS

\* A step of the console is one of the component in focus.
LEMMA Focused ==
  ASSUME [ConsoleNext]_ConsoleVars
  PROVE  /\ focus' = focus
         /\ focus = "remote" => Remote!Next \/ UNCHANGED slots
         /\ focus = "events" => Events!Next \/ UNCHANGED slots
         /\ focus = "agent" => Client!Next \/ UNCHANGED slots
BY DEF ConsoleNext, ConsoleVars

---------------------------------------------------------------------------
(* RemoteSession: the status *)

Attachments == v2 \in [Remote!Channel -> Conns \union {NoConn}]
StatusInv == Attachments /\ Remote!StatusTellsAgent

\* What a handler that attaches its connection does.
LEMMA AssignedStatus ==
  ASSUME StatusInv, NEW c \in Conns, NEW ch, Remote!Assigned(c, ch), v10' = v10
  PROVE  StatusInv'
<1>1. v2' = [v2 EXCEPT ![ch] = c] /\ v1' = IF ch = "main" THEN "active" ELSE v1
  BY DEF Remote!Assigned
<1>2. v2 \in [Remote!Channel -> Conns \union {NoConn}] /\ "main" \in Remote!Channel
  BY DEF StatusInv, Attachments, Remote!Channel
<1>3. v2' \in [Remote!Channel -> Conns \union {NoConn}] /\ v2'["main"] = IF ch = "main" THEN c ELSE v2["main"]
  BY <1>1, <1>2
<1> QED
  BY <1>1, <1>3, ConnsAssumption DEF StatusInv, Attachments, Remote!StatusTellsAgent

LEMMA StatusKeeps ==
  ASSUME StatusInv, Remote!Next
  PROVE  StatusInv'
<1>0. v2 \in [Remote!Channel -> Conns \union {NoConn}] /\ "main" \in Remote!Channel /\ NoConn \notin Conns
  BY ConnsAssumption DEF StatusInv, Attachments, Remote!Channel
<1>1. ASSUME v2' = v2, v10' = v10, v1' = v1 \/ v1' \in {"closed", "idle"} PROVE StatusInv'
  BY <1>1 DEF StatusInv, Attachments, Remote!StatusTellsAgent
<1>2. ASSUME NEW d \in Dashboards, Remote!ConnectDashboard(d) \/ Remote!DisconnectDashboard(d) PROVE StatusInv'
  BY <1>1, <1>2 DEF Remote!ConnectDashboard, Remote!DisconnectDashboard
<1>3. ASSUME NEW d \in Dashboards, NEW ch \in Remote!Channel, NEW close \in BOOLEAN, Remote!RelayDashboardMessage(d, ch, close)
      PROVE  StatusInv'
  <2>1. UNCHANGED <<v2, v6, v10>> /\ (v1' = v1 \/ v1' = "closed")
    BY <1>3 DEF Remote!RelayDashboardMessage
  <2> QED
    BY <1>1, <2>1
<1>4. ASSUME Remote!CloseSession PROVE StatusInv'
  BY <1>1, <1>4 DEF Remote!CloseSession
<1>5. ASSUME NEW c \in Conns, NEW ch \in Remote!Channel, Remote!ConnectAgent(c, ch) PROVE StatusInv'
  <2>1. v10' = v10 /\ (Remote!Assigned(c, ch) \/ UNCHANGED <<v1, v2>>)
    BY <1>5 DEF Remote!ConnectAgent
  <2> QED
    BY <1>1, <2>1, AssignedStatus
<1>6. ASSUME NEW c \in Conns, Remote!Replace(c) PROVE StatusInv'
  <2>1. v10' = v10 /\ Remote!Assigned(c, v6[c].channel)
    BY <1>6 DEF Remote!Replace
  <2> QED
    BY <2>1, AssignedStatus
<1>7. ASSUME NEW c \in Conns, Remote!Drain(c) \/ Remote!Drained(c) \/ Remote!Break(c) PROVE StatusInv'
  <2>1. UNCHANGED <<v1, v2, v10>>
    BY <1>7 DEF Remote!Drain, Remote!Drained, Remote!Break
  <2> QED
    BY <1>1, <2>1
<1>8. ASSUME NEW c \in Conns, Remote!DisconnectAgent(c) PROVE StatusInv'
  <2>1. v2' = [ch \in Remote!Channel |-> IF v2[ch] = c THEN NoConn ELSE v2[ch]]
    BY <1>8 DEF Remote!DisconnectAgent
  <2>2. \/ v1' = v1 /\ v10' = v10 /\ v2["main"] # c
        \/ v1' = (IF v1 = "closed" THEN "closed" ELSE "waiting_for_agent") /\ v10' = (v10 \/ v2["main"] # c)
    BY <1>8 DEF Remote!DisconnectAgent
  <2>3. v2' \in [Remote!Channel -> Conns \union {NoConn}] /\ v2'["main"] = IF v2["main"] = c THEN NoConn ELSE v2["main"]
    BY <1>0, <2>1
  <2> QED
    BY <2>2, <2>3 DEF StatusInv, Attachments, Remote!StatusTellsAgent
<1>9. ASSUME NEW c \in Conns, NEW type \in {"ready", "session_closed", "frame"}, Remote!RelayAgentMessage(c, type) PROVE StatusInv'
  <2>1. /\ v2' = v2 /\ v10' = (v10 \/ (type # "frame" /\ v2["main"] # c))
        /\ v1' = CASE type = "ready" -> "active" [] type = "session_closed" -> "closed" [] OTHER -> v1
    BY <1>9 DEF Remote!RelayAgentMessage
  <2> QED
    BY <1>0, <2>1 DEF StatusInv, Attachments, Remote!StatusTellsAgent
<1> QED
  BY <1>2, <1>3, <1>4, <1>5, <1>6, <1>7, <1>8, <1>9 DEF Remote!Next

\* Unless the handler of a replaced connection interfered, a session that waits for its agent has
\* none attached and an active one has an agent attached (connect_agent, disconnect_agent), for
\* any number of connections.
THEOREM StatusTellsAgentCorrect == ConsoleSpec => []StatusTellsAgent
<1> DEFINE I == focus = "remote" => StatusInv
<1>1. ConsoleInit => I
  <2> SUFFICES ASSUME Remote!Init PROVE StatusInv
    BY DEF ConsoleInit
  <2> QED
    BY DEF Remote!Init, StatusInv, Attachments, Remote!StatusTellsAgent
<1>2. I /\ [ConsoleNext]_ConsoleVars => I'
  <2> SUFFICES ASSUME StatusInv, [ConsoleNext]_ConsoleVars, focus = "remote" PROVE StatusInv'
    BY Focused
  <2>1. CASE UNCHANGED slots
    BY <2>1 DEF slots, StatusInv, Attachments, Remote!StatusTellsAgent
  <2> QED
    BY <2>1, Focused, StatusKeeps
<1>3. I => StatusTellsAgent
  BY DEF StatusTellsAgent, StatusInv
<1> QED
  BY <1>1, <1>2, <1>3, PTL DEF ConsoleSpec
---------------------------------------------------------------------------
(* RemoteSession: the messages *)

RemoteTypes ==
  /\ v2 \in [Remote!Channel -> Conns \union {NoConn}] /\ v3 \in [Remote!Channel -> Seq(1..MaxMessages)]
  /\ v6 \in [Conns -> Remote!Conn] /\ v7 \in 0..MaxMessages /\ v8 \in [Conns -> Seq(1..MaxMessages)]
RemoteInv == RemoteTypes /\ Remote!Attached /\ Remote!Numbered /\ Remote!Apart /\ Remote!DeliveredOnceInOrder

LEMMA RemoteTyped ==
  ASSUME RemoteTypes
  PROVE  /\ v7 \in Nat /\ v7 <= MaxMessages /\ MaxMessages \in Nat
         /\ \A ch \in Remote!Channel : v3[ch] \in Seq(1..MaxMessages) /\ Len(v3[ch]) \in Nat
                /\ \A i \in 1..Len(v3[ch]) : v3[ch][i] \in 1..MaxMessages
         /\ \A c \in Conns : v8[c] \in Seq(1..MaxMessages) /\ Len(v8[c]) \in Nat
                /\ \A i \in 1..Len(v8[c]) : v8[c][i] \in 1..MaxMessages
         /\ \A c \in Conns : v6[c].channel \in Remote!Channel /\ v6[c] \in Remote!Conn
<1>1. /\ v7 \in Nat /\ v7 <= MaxMessages /\ MaxMessages \in Nat
      /\ \A ch \in Remote!Channel : v3[ch] \in Seq(1..MaxMessages)
      /\ \A c \in Conns : v8[c] \in Seq(1..MaxMessages)
      /\ \A c \in Conns : v6[c] \in Remote!Conn
  BY ConnsAssumption DEF RemoteTypes
<1>2. \A c \in Conns : v6[c].channel \in Remote!Channel
  BY <1>1 DEF Remote!Conn
<1>3. \A s \in Seq(1..MaxMessages) : Len(s) \in Nat /\ \A i \in 1..Len(s) : s[i] \in 1..MaxMessages
  BY LenProperties, ElementOfSeq
<1> QED
  BY <1>1, <1>2, <1>3

\* Connections change, no message moves.
LEMMA RemoteStands ==
  ASSUME RemoteInv, RemoteTypes', Remote!Attached', UNCHANGED <<v3, v8, v9>>, v7' >= v7,
         \A c \in Conns : v6'[c].channel = v6[c].channel \/ v8[c] = <<>>
  PROVE  RemoteInv'
<1>0. RemoteTypes /\ Remote!Attached /\ Remote!Numbered /\ Remote!Apart /\ Remote!DeliveredOnceInOrder
  BY DEF RemoteInv
<1>1. Remote!Numbered'
  <2>1. v7 \in Nat /\ v7' \in Nat /\ \A ch \in Remote!Channel : \A i \in 1..Len(v3[ch]) : v3[ch][i] \in Nat
    BY <1>0, RemoteTyped, ConnsAssumption DEF RemoteTypes
  <2>2. \A c \in Conns : \A i \in 1..Len(v8[c]) : v8[c][i] \in Nat
    BY <1>0, RemoteTyped
  <2> QED
    BY <1>0, <2>1, <2>2 DEF Remote!Numbered
<1>2. Remote!Apart'
  <2>1. \A c \in Conns : v8[c] = <<>> => Len(v8[c]) = 0
    OBVIOUS
  <2> QED
    BY <1>0, <2>1 DEF Remote!Apart
<1>3. Remote!DeliveredOnceInOrder'
  BY <1>0 DEF Remote!DeliveredOnceInOrder
<1> QED
  BY <1>1, <1>2, <1>3 DEF RemoteInv

\* A full buffer gives up its oldest message for the new one.
LEMMA RemoteBuffered ==
  ASSUME NEW q \in Seq(1..MaxMessages), NEW m \in 1..MaxMessages
  PROVE  LET r == Remote!Buffered(q, m) IN
           /\ r \in Seq(1..MaxMessages)
           /\ \E off \in {0, 1} : /\ Len(r) = Len(q) + 1 - off /\ r[Len(r)] = m
                                 /\ \A i \in 1..Len(r) : i < Len(r) => i + off \in 1..Len(q) /\ r[i] = q[i + off]
<1> DEFINE r == Remote!Buffered(q, m)
<1>0. Len(q) \in Nat
  BY LenProperties
<1>1. CASE Len(q) = Capacity
  <2> DEFINE t == Tail(q)
  <2>1. q # <<>>
    BY <1>1, ConnsAssumption
  <2>2. t \in Seq(1..MaxMessages) /\ Len(t) = Len(q) - 1 /\ \A i \in 1..Len(t) : t[i] = q[i + 1]
    BY <2>1, HeadTailProperties
  <2>3. r = Append(t, m)
    BY <1>1 DEF Remote!Buffered
  <2> HIDE DEF t, r
  <2>4. r \in Seq(1..MaxMessages) /\ Len(r) = Len(t) + 1 /\ r[Len(t) + 1] = m /\ \A i \in 1..Len(t) : r[i] = t[i]
    BY <2>2, <2>3, AppendProperties
  <2>5. \A i \in 1..Len(r) : i < Len(r) => i + 1 \in 1..Len(q) /\ r[i] = q[i + 1]
    BY <1>0, <2>2, <2>4
  <2>6. Len(r) = Len(q) + 1 - 1 /\ r[Len(r)] = m
    BY <1>0, <2>2, <2>4
  <2> QED
    BY <2>4, <2>5, <2>6 DEF r
<1>2. CASE Len(q) # Capacity
  <2>1. r = Append(q, m)
    BY <1>2 DEF Remote!Buffered
  <2> HIDE DEF r
  <2>2. r \in Seq(1..MaxMessages) /\ Len(r) = Len(q) + 1 /\ r[Len(q) + 1] = m /\ \A i \in 1..Len(q) : r[i] = q[i]
    BY <2>1, AppendProperties
  <2>3. \A i \in 1..Len(r) : i < Len(r) => i + 0 \in 1..Len(q) /\ r[i] = q[i + 0]
    BY <1>0, <2>2
  <2>4. Len(r) = Len(q) + 1 - 0 /\ r[Len(r)] = m
    BY <1>0, <2>2
  <2> QED
    BY <2>2, <2>3, <2>4 DEF r
<1> QED
  BY <1>1, <1>2

\* A dashboard's message is kept for later.
LEMMA RemoteKept ==
  ASSUME RemoteInv, NEW ch \in Remote!Channel, v7 < MaxMessages, v7' = v7 + 1, UNCHANGED <<v2, v6, v8, v9>>,
         v3' = [v3 EXCEPT ![ch] = Remote!Buffered(v3[ch], v7 + 1)]
  PROVE  RemoteInv'
<1>0. RemoteTypes /\ Remote!Attached /\ Remote!Numbered /\ Remote!Apart /\ Remote!DeliveredOnceInOrder
  BY DEF RemoteInv
<1> DEFINE q == v3[ch]
           m == v7 + 1
           r == Remote!Buffered(q, m)
<1>1. q \in Seq(1..MaxMessages) /\ m \in 1..MaxMessages /\ Len(q) \in Nat /\ m > v7 /\ m \in Nat /\ v7 \in Nat
  BY <1>0, RemoteTyped
<1>2. v3 \in [Remote!Channel -> Seq(1..MaxMessages)] /\ v3' = [v3 EXCEPT ![ch] = r] /\ v7' = m
  BY <1>0 DEF RemoteTypes
<1>3. \A k \in Remote!Channel : \A i \in 1..Len(v3[k]) : v3[k][i] \in Nat /\ v3[k][i] <= v7
  BY <1>0, RemoteTyped DEF Remote!Numbered
<1>4. \A c \in Conns : \A i \in 1..Len(v8[c]) : v8[c][i] \in Nat /\ v8[c][i] <= v7
  BY <1>0, RemoteTyped DEF Remote!Numbered
<1> HIDE DEF m
<1>5. r \in Seq(1..MaxMessages)
  BY <1>1, RemoteBuffered
<1>6. PICK off \in {0, 1} : /\ Len(r) = Len(q) + 1 - off /\ r[Len(r)] = m
                          /\ \A i \in 1..Len(r) : i < Len(r) => i + off \in 1..Len(q) /\ r[i] = q[i + off]
  BY <1>1, RemoteBuffered
<1> HIDE DEF r
<1>7. v3' \in [Remote!Channel -> Seq(1..MaxMessages)] /\ v3'[ch] = r /\ \A k \in Remote!Channel : k # ch => v3'[k] = v3[k]
  BY <1>2, <1>5
<1>8. \A i \in 1..Len(r) : r[i] = m \/ (i < Len(r) /\ i + off \in 1..Len(q) /\ r[i] = q[i + off])
  BY <1>1, <1>6
<1>9. RemoteTypes'
  BY <1>0, <1>1, <1>2, <1>7 DEF RemoteTypes
<1>10. Remote!Numbered'
  <2>1. ASSUME NEW i \in 1..Len(r) PROVE r[i] <= m /\ \A j \in 1..Len(r) : i < j => r[i] < r[j]
    <3>1. r[i] <= m
      BY <1>1, <1>3, <1>8
    <3>2. ASSUME NEW j \in 1..Len(r), i < j PROVE r[i] < r[j]
      <4>1. i < Len(r) /\ r[i] = q[i + off] /\ i + off \in 1..Len(q)
        BY <1>1, <1>6, <3>2
      <4>2. CASE r[j] = m
        BY <1>1, <1>3, <4>1, <4>2
      <4>3. CASE j + off \in 1..Len(q) /\ r[j] = q[j + off]
        <5>1. i + off < j + off
          BY <3>2
        <5> QED
          BY <1>0, <4>1, <4>3, <5>1 DEF Remote!Numbered
      <4> QED
        BY <1>8, <4>2, <4>3
    <3> QED
      BY <3>1, <3>2
  <2>2. \A k \in Remote!Channel : k # ch => \A i \in 1..Len(v3'[k]) :
          v3'[k][i] <= m /\ \A j \in 1..Len(v3'[k]) : i < j => v3'[k][i] < v3'[k][j]
    BY <1>0, <1>1, <1>3, <1>7 DEF Remote!Numbered
  <2>3. \A c \in Conns : \A i \in 1..Len(v8'[c]) : v8'[c][i] <= m
    BY <1>1, <1>4
  <2> QED
    BY <1>2, <1>7, <2>1, <2>2, <2>3 DEF Remote!Numbered
<1>11. Remote!Apart'
  <2>1. ASSUME NEW k \in Remote!Channel, k # ch PROVE \A i \in 1..Len(r), j \in 1..Len(v3[k]) : r[i] # v3[k][j]
    <3>1. (k = "main" /\ ch = "input") \/ (k = "input" /\ ch = "main")
      BY <2>1 DEF Remote!Channel
    <3>2. \A i \in 1..Len(q), j \in 1..Len(v3[k]) : q[i] # v3[k][j]
      BY <1>0, <3>1 DEF Remote!Apart
    <3> QED
      BY <1>1, <1>3, <1>8, <3>2
  <2>2. \A i \in 1..Len(v3'["main"]), j \in 1..Len(v3'["input"]) : v3'["main"][i] # v3'["input"][j]
    <3>1. "main" \in Remote!Channel /\ "input" \in Remote!Channel /\ (ch = "main" \/ ch = "input")
      BY DEF Remote!Channel
    <3>2. CASE ch = "main"
      BY <1>7, <2>1, <3>1, <3>2
    <3>3. CASE ch = "input"
      BY <1>7, <2>1, <3>1, <3>3
    <3> QED
      BY <3>1, <3>2, <3>3
  <2>3. ASSUME NEW c \in Conns, NEW i \in 1..Len(r), NEW j \in 1..Len(v8[c])
        PROVE  r[i] # v8[c][j] /\ (v6[c].channel = ch => v8[c][j] < r[i] \/ v8[c][j] \in v9)
    <3>1. CASE r[i] = m
      BY <1>1, <1>4, <3>1
    <3>2. CASE i + off \in 1..Len(q) /\ r[i] = q[i + off]
      BY <1>0, <3>2 DEF Remote!Apart
    <3> QED
      BY <1>8, <3>1, <3>2
  <2>4. ASSUME NEW k \in Remote!Channel, k # ch, NEW c \in Conns, NEW i \in 1..Len(v3[k]), NEW j \in 1..Len(v8[c])
        PROVE  v3[k][i] # v8[c][j] /\ (v6[c].channel = k => v8[c][j] < v3[k][i] \/ v8[c][j] \in v9)
    BY <1>0 DEF Remote!Apart
  <2>5. \A k \in Remote!Channel, c \in Conns : \A i \in 1..Len(v3'[k]), j \in 1..Len(v8[c]) :
          v3'[k][i] # v8[c][j] /\ (v6[c].channel = k => v8[c][j] < v3'[k][i] \/ v8[c][j] \in v9)
    BY <1>7, <2>3, <2>4
  <2> QED
    BY <2>2, <2>5 DEF Remote!Apart
<1>12. Remote!Attached' /\ Remote!DeliveredOnceInOrder'
  BY <1>0 DEF Remote!Attached, Remote!DeliveredOnceInOrder
<1> QED
  BY <1>9, <1>10, <1>11, <1>12 DEF RemoteInv
\* A dashboard's message goes to the agent's connection, past the buffer.
LEMMA RemoteSent ==
  ASSUME RemoteInv, NEW ch \in Remote!Channel, v2[ch] # NoConn, v7 < MaxMessages, v7' = v7 + 1, UNCHANGED <<v2, v3, v6>>,
         v8' = [v8 EXCEPT ![v2[ch]] = Append(v8[v2[ch]], v7 + 1)],
         v9' = IF v3[ch] # <<>> THEN v9 \union {v7 + 1} ELSE v9
  PROVE  RemoteInv'
<1>0. RemoteTypes /\ Remote!Attached /\ Remote!Numbered /\ Remote!Apart /\ Remote!DeliveredOnceInOrder
  BY DEF RemoteInv
<1> DEFINE a == v2[ch]
           m == v7 + 1
           r == Append(v8[a], m)
<1>1. m \in 1..MaxMessages /\ m > v7 /\ m \in Nat /\ v7 \in Nat
  BY <1>0, RemoteTyped
<1>2. a \in Conns /\ v6[a].channel = ch
  <2>1. a \in Conns
    BY <1>0 DEF RemoteTypes
  <2> QED
    BY <1>0, <2>1 DEF Remote!Attached
<1>3. v8 \in [Conns -> Seq(1..MaxMessages)] /\ v8' = [v8 EXCEPT ![a] = r] /\ v7' = m
      /\ v9' = (IF v3[ch] # <<>> THEN v9 \union {m} ELSE v9) /\ UNCHANGED <<v2, v3, v6>>
  BY <1>0 DEF RemoteTypes
<1>4. \A k \in Remote!Channel : \A i \in 1..Len(v3[k]) : v3[k][i] \in Nat /\ v3[k][i] <= v7
  BY <1>0, RemoteTyped DEF Remote!Numbered
<1>5. \A c \in Conns : \A i \in 1..Len(v8[c]) : v8[c][i] \in Nat /\ v8[c][i] <= v7
  BY <1>0, RemoteTyped DEF Remote!Numbered
<1>6. v8[a] \in Seq(1..MaxMessages) /\ Len(v8[a]) \in Nat
  BY <1>0, <1>2, RemoteTyped
<1> HIDE DEF m
<1>7. r \in Seq(1..MaxMessages) /\ Len(r) = Len(v8[a]) + 1 /\ r[Len(v8[a]) + 1] = m /\ \A i \in 1..Len(v8[a]) : r[i] = v8[a][i]
  BY <1>1, <1>6, AppendProperties
<1> HIDE DEF r
<1>8. v8' \in [Conns -> Seq(1..MaxMessages)] /\ v8'[a] = r /\ \A c \in Conns : c # a => v8'[c] = v8[c]
  BY <1>2, <1>3, <1>7
<1>9. \A c \in Conns : \A i \in 1..Len(v8'[c]) :
        \/ i \in 1..Len(v8[c]) /\ v8'[c][i] = v8[c][i] /\ v8'[c][i] < m
        \/ c = a /\ i = Len(v8[a]) + 1 /\ v8'[c][i] = m
  <2> SUFFICES ASSUME NEW c \in Conns, NEW i \in 1..Len(v8'[c])
               PROVE  \/ i \in 1..Len(v8[c]) /\ v8'[c][i] = v8[c][i] /\ v8'[c][i] < m
                      \/ c = a /\ i = Len(v8[a]) + 1 /\ v8'[c][i] = m
    OBVIOUS
  <2>1. CASE c # a
    BY <1>1, <1>5, <1>8, <2>1
  <2>2. CASE c = a
    <3>1. i \in 1..Len(v8[a]) \/ i = Len(v8[a]) + 1
      BY <1>6, <1>7, <1>8, <2>2
    <3> QED
      BY <1>1, <1>5, <1>7, <1>8, <2>2, <3>1
  <2> QED
    BY <2>1, <2>2
<1>10. RemoteTypes'
  BY <1>0, <1>1, <1>3, <1>8 DEF RemoteTypes
<1>11. Remote!Attached'
  BY <1>0, <1>2, <1>3, <1>8 DEF Remote!Attached, RemoteTypes
<1>12. Remote!Numbered'
  <2>1. \A k \in Remote!Channel : \A i \in 1..Len(v3'[k]) :
          v3'[k][i] <= m /\ \A j \in 1..Len(v3'[k]) : i < j => v3'[k][i] < v3'[k][j]
    BY <1>0, <1>1, <1>3, <1>4 DEF Remote!Numbered
  <2>2. \A c \in Conns : \A i \in 1..Len(v8'[c]) : v8'[c][i] <= m
    BY <1>1, <1>5, <1>9
  <2> QED
    BY <1>3, <2>1, <2>2 DEF Remote!Numbered
<1>13. Remote!Apart'
  <2>1. \A i \in 1..Len(v3'["main"]), j \in 1..Len(v3'["input"]) : v3'["main"][i] # v3'["input"][j]
    BY <1>0, <1>3 DEF Remote!Apart
  <2>2. ASSUME NEW k \in Remote!Channel, NEW c \in Conns, NEW i \in 1..Len(v3[k]), NEW j \in 1..Len(v8'[c])
        PROVE  v3[k][i] # v8'[c][j] /\ (v6[c].channel = k => v8'[c][j] < v3[k][i] \/ v8'[c][j] \in v9')
    <3>1. CASE j \in 1..Len(v8[c]) /\ v8'[c][j] = v8[c][j]
      BY <1>0, <1>3, <3>1 DEF Remote!Apart
    <3>2. CASE c = a /\ v8'[c][j] = m
      <4>1. v3[k][i] # m
        BY <1>1, <1>4
      <4>2. k = ch => v3[ch] # <<>>
        OBVIOUS
      <4>3. k = ch => m \in v9'
        BY <1>3, <4>2
      <4> QED
        BY <1>2, <3>2, <4>1, <4>3
    <3> QED
      BY <1>9, <3>1, <3>2
  <2>3. \A k \in Remote!Channel, c \in Conns : \A i \in 1..Len(v3'[k]), j \in 1..Len(v8'[c]) :
          v3'[k][i] # v8'[c][j] /\ (v6'[c].channel = k => v8'[c][j] < v3'[k][i] \/ v8'[c][j] \in v9')
    <3> SUFFICES ASSUME NEW k \in Remote!Channel, NEW c \in Conns, NEW i \in 1..Len(v3'[k]), NEW j \in 1..Len(v8'[c])
                 PROVE  v3'[k][i] # v8'[c][j] /\ (v6'[c].channel = k => v8'[c][j] < v3'[k][i] \/ v8'[c][j] \in v9')
      OBVIOUS
    <3>1. v3' = v3 /\ v6' = v6
      BY <1>3
    <3>2. i \in 1..Len(v3[k])
      BY <3>1
    <3> QED
      BY <2>2, <3>1, <3>2
  <2> QED
    BY <2>1, <2>3 DEF Remote!Apart
<1>14. Remote!DeliveredOnceInOrder'
  <2> SUFFICES ASSUME NEW c \in Conns, NEW b \in Conns, NEW i \in 1..Len(v8'[c]), NEW j \in 1..Len(v8'[b])
               PROVE  /\ v8'[c][i] = v8'[b][j] => c = b /\ i = j
                      /\ c = b /\ i < j => v8'[c][i] < v8'[c][j] \/ v8'[c][i] \in v9'
    BY DEF Remote!DeliveredOnceInOrder
  <2>1. CASE i \in 1..Len(v8[c]) /\ v8'[c][i] = v8[c][i] /\ j \in 1..Len(v8[b]) /\ v8'[b][j] = v8[b][j]
    BY <1>0, <1>3, <2>1 DEF Remote!DeliveredOnceInOrder
  <2>2. CASE v8'[c][i] < m /\ b = a /\ j = Len(v8[a]) + 1 /\ v8'[b][j] = m
    BY <1>1, <2>2
  <2>3. CASE c = a /\ i = Len(v8[a]) + 1 /\ v8'[c][i] = m /\ j \in 1..Len(v8[b]) /\ v8'[b][j] < m
    BY <1>1, <1>6, <2>3
  <2>4. CASE c = a /\ i = Len(v8[a]) + 1 /\ b = a /\ j = Len(v8[a]) + 1
    BY <1>6, <2>4
  <2> QED
    BY <1>9, <2>1, <2>2, <2>3, <2>4
<1> QED
  BY <1>10, <1>11, <1>12, <1>13, <1>14 DEF RemoteInv

\* The oldest buffered message is taken: lost, or the agent's on a connection of its channel.
LEMMA RemoteTaken ==
  ASSUME RemoteInv, NEW ch \in Remote!Channel, v3[ch] # <<>>, v3' = [v3 EXCEPT ![ch] = Tail(v3[ch])],
         UNCHANGED <<v2, v7, v9>>, RemoteTypes', Remote!Attached', \A d \in Conns : v6'[d].channel = v6[d].channel,
         \/ v8' = v8
         \/ \E c \in Conns : v6[c].channel = ch /\ v8' = [v8 EXCEPT ![c] = Append(v8[c], Head(v3[ch]))]
  PROVE  RemoteInv'
<1>0. RemoteTypes /\ Remote!Attached /\ Remote!Numbered /\ Remote!Apart /\ Remote!DeliveredOnceInOrder
  BY DEF RemoteInv
<1> DEFINE q == v3[ch]
           t == Tail(q)
           h == Head(q)
<1>1. q \in Seq(1..MaxMessages) /\ Len(q) \in Nat /\ v7 \in Nat
  BY <1>0, RemoteTyped
<1>2. v3 \in [Remote!Channel -> Seq(1..MaxMessages)] /\ v3' = [v3 EXCEPT ![ch] = t]
  BY <1>0 DEF RemoteTypes
<1>3. t \in Seq(1..MaxMessages) /\ Len(t) = Len(q) - 1 /\ \A i \in 1..Len(t) : t[i] = q[i + 1]
  BY <1>1, HeadTailProperties
<1>4. h = q[1] /\ 1 \in 1..Len(q) /\ h \in 1..MaxMessages
  <2>1. Len(q) # 0
    BY <1>1, EmptySeq
  <2>2. 1 \in 1..Len(q) /\ h = q[1]
    BY <1>1, <2>1
  <2> QED
    BY <1>0, <2>2, RemoteTyped
<1> HIDE DEF t, h
<1>5. v3'[ch] = t /\ \A k \in Remote!Channel : k # ch => v3'[k] = v3[k]
  BY <1>2
<1>6. \A i \in 1..Len(t) : i + 1 \in 1..Len(q) /\ t[i] = q[i + 1] /\ h < t[i]
  <2>1. \A i \in 1..Len(t) : i + 1 \in 1..Len(q) /\ 1 < i + 1
    BY <1>1, <1>3
  <2> QED
    BY <1>0, <1>3, <1>4, <2>1 DEF Remote!Numbered
<1>7. \A c \in Conns : \A j \in 1..Len(v8[c]) : v8[c][j] # h /\ (v6[c].channel = ch => v8[c][j] < h \/ v8[c][j] \in v9)
  BY <1>0, <1>4 DEF Remote!Apart
<1>8. h <= v7 /\ h \in Nat
  BY <1>0, <1>4 DEF Remote!Numbered
<1>9. \A k \in Remote!Channel : \A i \in 1..Len(v3'[k]) :
        \E j \in 1..Len(v3[k]) : v3'[k][i] = v3[k][j] /\ (k = ch => j = i + 1)
  BY <1>5, <1>6
\* What is new on a connection is h.
<1>10. PICK c : \/ v8' = v8
                \/ /\ c \in Conns /\ v6[c].channel = ch /\ Len(v8'[c]) = Len(v8[c]) + 1 /\ v8'[c][Len(v8[c]) + 1] = h
                   /\ \A i \in 1..Len(v8[c]) : v8'[c][i] = v8[c][i]
                   /\ \A d \in Conns : d # c => v8'[d] = v8[d]
  <2>1. CASE v8' = v8
    BY <2>1
  <2>2. ASSUME NEW c \in Conns, v6[c].channel = ch, v8' = [v8 EXCEPT ![c] = Append(v8[c], Head(v3[ch]))]
        PROVE  /\ Len(v8'[c]) = Len(v8[c]) + 1 /\ v8'[c][Len(v8[c]) + 1] = h
               /\ \A i \in 1..Len(v8[c]) : v8'[c][i] = v8[c][i]
               /\ \A d \in Conns : d # c => v8'[d] = v8[d]
    <3> DEFINE r == Append(v8[c], h)
    <3>1. v8 \in [Conns -> Seq(1..MaxMessages)] /\ v8[c] \in Seq(1..MaxMessages) /\ v8' = [v8 EXCEPT ![c] = r]
      BY <1>0, <2>2 DEF RemoteTypes, h
    <3>2. Len(r) = Len(v8[c]) + 1 /\ r[Len(v8[c]) + 1] = h /\ \A i \in 1..Len(v8[c]) : r[i] = v8[c][i]
      BY <1>4, <3>1, AppendProperties
    <3> HIDE DEF r
    <3> QED
      BY <3>1, <3>2
  <2> QED
    BY <2>1, <2>2
<1>11. \A d \in Conns : \A i \in 1..Len(v8'[d]) :
         \/ i \in 1..Len(v8[d]) /\ v8'[d][i] = v8[d][i]
         \/ d = c /\ i = Len(v8[d]) + 1 /\ v8'[d][i] = h /\ v6[d].channel = ch
  <2>1. \A d \in Conns : Len(v8[d]) \in Nat
    BY <1>0, RemoteTyped
  <2> QED
    BY <1>10, <2>1
<1>12. Remote!Numbered'
  <2>1. \A k \in Remote!Channel : \A i \in 1..Len(v3'[k]) : v3'[k][i] <= v7
    BY <1>0, <1>9 DEF Remote!Numbered
  <2>2. \A k \in Remote!Channel : \A i, j \in 1..Len(v3'[k]) : i < j => v3'[k][i] < v3'[k][j]
    <3>1. \A i, j \in 1..Len(t) : i < j => t[i] < t[j]
      <4> SUFFICES ASSUME NEW i \in 1..Len(t), NEW j \in 1..Len(t), i < j PROVE t[i] < t[j]
        OBVIOUS
      <4>1. i + 1 < j + 1
        BY <1>1, <1>3
      <4> QED
        BY <1>0, <1>6, <4>1 DEF Remote!Numbered
    <3> QED
      BY <1>0, <1>5, <3>1 DEF Remote!Numbered
  <2>3. \A d \in Conns : \A i \in 1..Len(v8'[d]) : v8'[d][i] <= v7
    BY <1>0, <1>8, <1>11 DEF Remote!Numbered
  <2> QED
    BY <2>1, <2>2, <2>3 DEF Remote!Numbered
<1>13. Remote!Apart'
  <2>1. \A i \in 1..Len(v3'["main"]), j \in 1..Len(v3'["input"]) : v3'["main"][i] # v3'["input"][j]
    <3>1. "main" \in Remote!Channel /\ "input" \in Remote!Channel
      BY DEF Remote!Channel
    <3>2. /\ \A i \in 1..Len(v3'["main"]) : \E k \in 1..Len(v3["main"]) : v3'["main"][i] = v3["main"][k]
          /\ \A j \in 1..Len(v3'["input"]) : \E k \in 1..Len(v3["input"]) : v3'["input"][j] = v3["input"][k]
      BY <1>9, <3>1
    <3>3. \A i \in 1..Len(v3["main"]), j \in 1..Len(v3["input"]) : v3["main"][i] # v3["input"][j]
      BY <1>0 DEF Remote!Apart
    <3> SUFFICES ASSUME NEW i \in 1..Len(v3'["main"]), NEW j \in 1..Len(v3'["input"]) PROVE v3'["main"][i] # v3'["input"][j]
      OBVIOUS
    <3>4. PICK k \in 1..Len(v3["main"]) : v3'["main"][i] = v3["main"][k]
      BY <3>2
    <3>5. PICK l \in 1..Len(v3["input"]) : v3'["input"][j] = v3["input"][l]
      BY <3>2
    <3> QED
      BY <3>3, <3>4, <3>5
  <2>2. ASSUME NEW k \in Remote!Channel, NEW d \in Conns, NEW i \in 1..Len(v3'[k]), NEW j \in 1..Len(v8'[d])
        PROVE  v3'[k][i] # v8'[d][j] /\ (v6[d].channel = k => v8'[d][j] < v3'[k][i] \/ v8'[d][j] \in v9)
    <3>1. PICK l \in 1..Len(v3[k]) : v3'[k][i] = v3[k][l]
      BY <1>9
    <3>2. CASE j \in 1..Len(v8[d]) /\ v8'[d][j] = v8[d][j]
      BY <1>0, <3>1, <3>2 DEF Remote!Apart
    <3>3. CASE v8'[d][j] = h /\ v6[d].channel = ch
      <4>1. CASE k = ch
        <5>1. h < v3'[k][i]
          BY <1>5, <1>6, <4>1
        <5>2. v3'[k][i] \in Nat
          <6>1. v3[k][l] \in 1..MaxMessages /\ MaxMessages \in Nat
            BY <1>0, RemoteTyped
          <6> QED
            BY <3>1, <6>1
        <5> QED
          BY <1>8, <3>3, <5>1, <5>2
      <4>2. CASE k # ch
        <5>1. v3[k][l] # h
          <6>1. (k = "main" /\ ch = "input") \/ (k = "input" /\ ch = "main")
            BY <4>2 DEF Remote!Channel
          <6> QED
            BY <1>0, <1>4, <6>1 DEF Remote!Apart
        <5> QED
          BY <3>1, <3>3, <4>2, <5>1
      <4> QED
        BY <4>1, <4>2
    <3> QED
      BY <1>11, <3>2, <3>3
  <2>3. \A k \in Remote!Channel, d \in Conns : \A i \in 1..Len(v3'[k]), j \in 1..Len(v8'[d]) :
          v3'[k][i] # v8'[d][j] /\ (v6'[d].channel = k => v8'[d][j] < v3'[k][i] \/ v8'[d][j] \in v9')
    <3> SUFFICES ASSUME NEW k \in Remote!Channel, NEW d \in Conns, NEW i \in 1..Len(v3'[k]), NEW j \in 1..Len(v8'[d])
                 PROVE  v3'[k][i] # v8'[d][j] /\ (v6'[d].channel = k => v8'[d][j] < v3'[k][i] \/ v8'[d][j] \in v9')
      OBVIOUS
    <3>1. v9' = v9 /\ v6'[d].channel = v6[d].channel
      OBVIOUS
    <3>2. v3'[k][i] # v8'[d][j] /\ (v6[d].channel = k => v8'[d][j] < v3'[k][i] \/ v8'[d][j] \in v9)
      BY <2>2
    <3>3. v8'[d][j] \in v9' <=> v8'[d][j] \in v9
      BY <3>1
    <3> QED
      BY <3>1, <3>2, <3>3
  <2> QED
    BY <2>1, <2>3 DEF Remote!Apart
<1>14. Remote!DeliveredOnceInOrder'
  <2> SUFFICES ASSUME NEW d \in Conns, NEW b \in Conns, NEW i \in 1..Len(v8'[d]), NEW j \in 1..Len(v8'[b])
               PROVE  /\ v8'[d][i] = v8'[b][j] => d = b /\ i = j
                      /\ d = b /\ i < j => v8'[d][i] < v8'[d][j] \/ v8'[d][i] \in v9
    BY DEF Remote!DeliveredOnceInOrder
  <2>0. Len(v8[d]) \in Nat /\ Len(v8[b]) \in Nat
    BY <1>0, RemoteTyped
  <2>1. CASE i \in 1..Len(v8[d]) /\ v8'[d][i] = v8[d][i] /\ j \in 1..Len(v8[b]) /\ v8'[b][j] = v8[b][j]
    BY <1>0, <2>1 DEF Remote!DeliveredOnceInOrder
  <2>2. CASE i \in 1..Len(v8[d]) /\ v8'[d][i] = v8[d][i] /\ j = Len(v8[b]) + 1 /\ v8'[b][j] = h /\ v6[b].channel = ch
    BY <1>7, <2>0, <2>2
  <2>3. CASE i = Len(v8[d]) + 1 /\ v8'[d][i] = h /\ j \in 1..Len(v8[b]) /\ v8'[b][j] = v8[b][j]
    BY <1>7, <2>0, <2>3
  <2>4. CASE d = b /\ i = Len(v8[d]) + 1 /\ j = Len(v8[b]) + 1
    BY <2>0, <2>4
  <2> QED
    BY <1>11, <2>1, <2>2, <2>3, <2>4
<1> QED
  BY <1>12, <1>13, <1>14 DEF RemoteInv
LEMMA RemoteKeeps ==
  ASSUME RemoteInv, Remote!Next
  PROVE  RemoteInv'
<1>0. RemoteTypes /\ Remote!Attached
  BY DEF RemoteInv
<1>1. /\ v2 \in [Remote!Channel -> Conns \union {NoConn}] /\ v3 \in [Remote!Channel -> Seq(1..MaxMessages)]
      /\ v6 \in [Conns -> Remote!Conn] /\ v7 \in 0..MaxMessages /\ v8 \in [Conns -> Seq(1..MaxMessages)] /\ v7 \in Nat
  BY <1>0, RemoteTyped DEF RemoteTypes
\* What a step that touches connections only must say.
<1>2. ASSUME UNCHANGED <<v3, v7, v8, v9>>, v2' \in [Remote!Channel -> Conns \union {NoConn}], v6' \in [Conns -> Remote!Conn],
             \A ch \in Remote!Channel : v2'[ch] \in Conns => v6'[v2'[ch]].pc # "absent" /\ v6'[v2'[ch]].channel = ch,
             \A c \in Conns : /\ v6'[c].channel = v6[c].channel \/ v6[c].pc = "absent"
                              /\ v6'[c].pc = "absent" => v6[c].pc = "absent"
      PROVE  RemoteInv'
  <2>1. RemoteTypes'
    BY <1>1, <1>2 DEF RemoteTypes
  <2>2. \A c \in Conns : v6[c].pc = "absent" => v8[c] = <<>>
    BY <1>0 DEF Remote!Attached
  <2>3. \A ch \in Remote!Channel : v2'[ch] # NoConn => v2'[ch] \in Conns
    BY <1>2
  <2>4. Remote!Attached'
    BY <1>2, <2>2, <2>3 DEF Remote!Attached
  <2>5. v7' >= v7 /\ \A c \in Conns : v6'[c].channel = v6[c].channel \/ v8[c] = <<>>
    BY <1>1, <1>2, <2>2
  <2> QED
    BY <1>2, <2>1, <2>4, <2>5, RemoteStands
<1>3. \A ch \in Remote!Channel : v2[ch] \in Conns => v6[v2[ch]].pc # "absent" /\ v6[v2[ch]].channel = ch
  BY <1>0, ConnsAssumption DEF Remote!Attached
<1>4. ASSUME NEW d \in Dashboards, Remote!ConnectDashboard(d) \/ Remote!DisconnectDashboard(d) PROVE RemoteInv'
  <2>1. UNCHANGED <<v2, v3, v6, v7, v8, v9>>
    BY <1>4 DEF Remote!ConnectDashboard, Remote!DisconnectDashboard
  <2> QED
    BY <1>1, <1>2, <1>3, <2>1
<1>5. ASSUME NEW d \in Dashboards, NEW ch \in Remote!Channel, NEW close \in BOOLEAN, Remote!RelayDashboardMessage(d, ch, close)
      PROVE  RemoteInv'
  <2> DEFINE c == v2[ch]
  <2>1. v7 < MaxMessages /\ v7' = v7 + 1 /\ UNCHANGED <<v2, v6>>
    BY <1>5 DEF Remote!RelayDashboardMessage
  <2>2. \/ v3' = [v3 EXCEPT ![ch] = Remote!Buffered(v3[ch], v7')] /\ UNCHANGED <<v8, v9>>
        \/ /\ v2[ch] # NoConn /\ v8' = [v8 EXCEPT ![v2[ch]] = Append(v8[v2[ch]], v7')]
           /\ v9' = (IF v3[ch] # <<>> THEN v9 \union {v7'} ELSE v9) /\ v3' = v3
        \/ UNCHANGED <<v3, v8, v9>>
    BY <1>5 DEF Remote!RelayDashboardMessage
  <2>3. CASE v3' = [v3 EXCEPT ![ch] = Remote!Buffered(v3[ch], v7')] /\ UNCHANGED <<v8, v9>>
    BY <2>1, <2>3, RemoteKept
  <2>4. CASE /\ v2[ch] # NoConn /\ v8' = [v8 EXCEPT ![v2[ch]] = Append(v8[v2[ch]], v7')]
             /\ v9' = (IF v3[ch] # <<>> THEN v9 \union {v7'} ELSE v9) /\ v3' = v3
    BY <2>1, <2>4, RemoteSent
  <2>5. CASE UNCHANGED <<v3, v8, v9>>
    <3>0. v7' \in 0..MaxMessages /\ v7' >= v7 /\ UNCHANGED <<v2, v3, v6, v8, v9>>
      BY <1>1, <2>1, <2>5, RemoteTyped, <1>0
    <3>1. RemoteTypes'
      BY <1>0, <3>0 DEF RemoteTypes
    <3>2. Remote!Attached'
      BY <1>0, <3>0 DEF Remote!Attached
    <3> QED
      BY <2>1, <2>5, <3>0, <3>1, <3>2, RemoteStands
  <2> QED
    BY <2>2, <2>3, <2>4, <2>5
<1>6. ASSUME Remote!CloseSession PROVE RemoteInv'
  <2>1. UNCHANGED <<v2, v3, v6, v7, v8, v9>>
    BY <1>6 DEF Remote!CloseSession
  <2> QED
    BY <1>1, <1>2, <1>3, <2>1
<1>7. ASSUME NEW c \in Conns, NEW ch \in Remote!Channel, Remote!ConnectAgent(c, ch) PROVE RemoteInv'
  <2> DEFINE x == [pc |-> "draining", channel |-> ch, open |-> TRUE]
             y == [pc |-> "replacing", channel |-> ch, open |-> TRUE]
             old == v2[ch]
  <2>1. v6[c].pc = "absent" /\ UNCHANGED <<v3, v7, v8, v9>>
    BY <1>7 DEF Remote!ConnectAgent
  <2>2. x \in Remote!Conn /\ x.pc = "draining" /\ x.channel = ch /\ y \in Remote!Conn /\ y.pc = "replacing" /\ y.channel = ch
    BY DEF Remote!Conn
  <2> HIDE DEF x, y
  <2>3. \/ v6' = [v6 EXCEPT ![c] = x] /\ v2' = [v2 EXCEPT ![ch] = c]
        \/ v6' = [v6 EXCEPT ![c] = y, ![old].open = FALSE] /\ v2' = v2 /\ old # NoConn
    BY <1>7 DEF Remote!ConnectAgent, Remote!Assigned, x, y
  <2>4. CASE v6' = [v6 EXCEPT ![c] = x] /\ v2' = [v2 EXCEPT ![ch] = c]
    <3>1. /\ v6' \in [Conns -> Remote!Conn] /\ \A d \in Conns : v6'[d] = IF d = c THEN x ELSE v6[d]
          /\ v2' \in [Remote!Channel -> Conns \union {NoConn}] /\ \A k \in Remote!Channel : v2'[k] = IF k = ch THEN c ELSE v2[k]
      BY <1>1, <2>2, <2>4
    <3> QED
      BY <1>2, <1>3, <2>1, <2>2, <3>1
  <2>5. CASE v6' = [v6 EXCEPT ![c] = y, ![old].open = FALSE] /\ v2' = v2 /\ old # NoConn
    <3> DEFINE z == [v6[old] EXCEPT !.open = FALSE]
    <3>1. old \in Conns /\ old # c
      BY <1>1, <1>3, <2>1, <2>5
    <3>2. z \in Remote!Conn /\ z.pc = v6[old].pc /\ z.channel = v6[old].channel
      <4>1. v6[old] \in Remote!Conn
        BY <1>1, <3>1
      <4> HIDE DEF old
      <4> QED
        BY <4>1 DEF Remote!Conn
    <3> HIDE DEF old
    <3>3. /\ v6' \in [Conns -> Remote!Conn] /\ v6'[old] = z /\ v6'[c] = y
          /\ \A d \in Conns : d # c /\ d # old => v6'[d] = v6[d]
      BY <1>1, <2>2, <2>5, <3>1, <3>2
    <3>4. \A d \in Conns : d # c => v6'[d].pc = v6[d].pc /\ v6'[d].channel = v6[d].channel
      BY <3>2, <3>3
    <3>5. /\ \A d \in Conns : v6'[d].channel = v6[d].channel \/ v6[d].pc = "absent"
          /\ \A d \in Conns : v6'[d].pc = "absent" => v6[d].pc = "absent"
      BY <2>1, <2>2, <3>3, <3>4
    <3>6. v2' \in [Remote!Channel -> Conns \union {NoConn}]
      BY <1>1, <2>5
    <3>7. ASSUME NEW k \in Remote!Channel, v2'[k] \in Conns
          PROVE  v6'[v2'[k]].pc # "absent" /\ v6'[v2'[k]].channel = k
      <4>1. v2'[k] = v2[k]
        BY <2>5
      <4>2. v2[k] \in Conns /\ v6[v2[k]].pc # "absent" /\ v6[v2[k]].channel = k
        BY <1>3, <3>7, <4>1
      <4>3. v2[k] # c
        BY <2>1, <4>2
      <4> QED
        BY <3>4, <4>1, <4>2, <4>3
    <3> QED
      BY <1>2, <2>1, <3>3, <3>5, <3>6, <3>7
  <2> QED
    BY <2>3, <2>4, <2>5
<1>8. ASSUME NEW c \in Conns, Remote!Replace(c) PROVE RemoteInv'
  <2> DEFINE x == [v6[c] EXCEPT !.pc = "draining"]
             ch == v6[c].channel
  <2>1. /\ v6[c].pc = "replacing" /\ UNCHANGED <<v3, v7, v8, v9>> /\ v6' = [v6 EXCEPT ![c] = x] /\ v2' = [v2 EXCEPT ![ch] = c]
    BY <1>8 DEF Remote!Replace, Remote!Assigned
  <2>2. x \in Remote!Conn /\ x.pc = "draining" /\ x.channel = ch /\ ch \in Remote!Channel
    <3>1. v6[c] \in Remote!Conn
      BY <1>1
    <3> QED
      BY <3>1 DEF Remote!Conn
  <2> HIDE DEF x, ch
  <2>3. /\ v6' \in [Conns -> Remote!Conn] /\ \A d \in Conns : v6'[d] = IF d = c THEN x ELSE v6[d]
        /\ v2' \in [Remote!Channel -> Conns \union {NoConn}] /\ \A k \in Remote!Channel : v2'[k] = IF k = ch THEN c ELSE v2[k]
    BY <1>1, <2>1, <2>2
  <2>4. \A d \in Conns : v6'[d].channel = v6[d].channel
    BY <2>2, <2>3 DEF ch
  <2> QED
    BY <1>2, <1>3, <2>1, <2>2, <2>3, <2>4
<1>9. ASSUME NEW c \in Conns, Remote!Drain(c) PROVE RemoteInv'
  <2> DEFINE ch == v6[c].channel
             x == [v6[c] EXCEPT !.pc = "gone"]
             r == Append(v8[c], Head(v3[ch]))
  <2>1. /\ v6[c].pc = "draining" /\ v3[ch] # <<>> /\ v3' = [v3 EXCEPT ![ch] = Tail(v3[ch])] /\ UNCHANGED <<v2, v7, v9>>
        /\ \/ v8' = [v8 EXCEPT ![c] = r] /\ v6' = v6
           \/ v8' = v8 /\ v6' = [v6 EXCEPT ![c] = x]
    BY <1>9 DEF Remote!Drain
  <2>2. ch \in Remote!Channel /\ v3[ch] \in Seq(1..MaxMessages) /\ v8[c] \in Seq(1..MaxMessages)
    BY <1>0, RemoteTyped
  <2>3. x \in Remote!Conn /\ x.pc = "gone" /\ x.channel = v6[c].channel
    <3>1. v6[c] \in Remote!Conn
      BY <1>1
    <3> QED
      BY <3>1 DEF Remote!Conn
  <2>4. Tail(v3[ch]) \in Seq(1..MaxMessages) /\ Head(v3[ch]) \in 1..MaxMessages
    BY <2>1, <2>2, HeadTailProperties
  <2>5. r \in Seq(1..MaxMessages)
    BY <2>2, <2>4, AppendProperties
  <2> HIDE DEF x
  <2>6. /\ v6' \in [Conns -> Remote!Conn]
        /\ \A d \in Conns : v6'[d].channel = v6[d].channel /\ (v6'[d].pc = "absent" => v6[d].pc = "absent")
        /\ \A d \in Conns : v6[d].pc # "absent" => v6'[d].pc # "absent"
    BY <1>1, <2>1, <2>3
  <2>7. /\ v3' \in [Remote!Channel -> Seq(1..MaxMessages)] /\ v8' \in [Conns -> Seq(1..MaxMessages)]
        /\ \A d \in Conns : d # c => v8'[d] = v8[d]
    <3> HIDE DEF r, ch
    <3> QED
      BY <1>1, <2>1, <2>2, <2>4, <2>5
  <2>8. RemoteTypes'
    BY <1>1, <2>1, <2>6, <2>7 DEF RemoteTypes
  <2>9. Remote!Attached'
    <3>1. \A k \in Remote!Channel : v2[k] # NoConn => v2[k] \in Conns
      BY <1>1
    <3>2. \A k \in Remote!Channel : v2[k] # NoConn => v6[v2[k]].pc # "absent" /\ v6[v2[k]].channel = k
      BY <1>0 DEF Remote!Attached
    <3>3. \A d \in Conns : v6[d].pc = "absent" => v8[d] = <<>> /\ d # c
      BY <1>0, <2>1 DEF Remote!Attached
    <3>4. v2' = v2
      BY <2>1
    <3>5. \A k \in Remote!Channel : v2'[k] # NoConn => v6'[v2'[k]].pc # "absent" /\ v6'[v2'[k]].channel = k
      BY <2>6, <3>1, <3>2, <3>4
    <3>6. \A d \in Conns : v6'[d].pc = "absent" => v8'[d] = <<>>
      BY <2>6, <2>7, <3>3
    <3> QED
      BY <3>5, <3>6 DEF Remote!Attached
  <2> HIDE DEF ch
  <2>10. v8' = v8 \/ \E d \in Conns : v6[d].channel = ch /\ v8' = [v8 EXCEPT ![d] = Append(v8[d], Head(v3[ch]))]
    BY <2>1 DEF ch
  <2> QED
    BY <2>1, <2>2, <2>6, <2>8, <2>9, <2>10, RemoteTaken
<1>10. ASSUME NEW c \in Conns, Remote!Drained(c) \/ Remote!Break(c) PROVE RemoteInv'
  <2>1. PICK x : /\ x \in Remote!Conn /\ x.channel = v6[c].channel /\ (x.pc = v6[c].pc \/ (x.pc = "open" /\ v6[c].pc = "draining"))
                 /\ v6' = [v6 EXCEPT ![c] = x]
    <3>0. v6[c] \in Remote!Conn
      BY <1>1
    <3>1. CASE Remote!Drained(c)
      <4> DEFINE x == [v6[c] EXCEPT !.pc = "open"]
      <4>1. x \in Remote!Conn /\ x.channel = v6[c].channel /\ x.pc = "open"
        BY <3>0 DEF Remote!Conn
      <4>2. v6' = [v6 EXCEPT ![c] = x] /\ v6[c].pc = "draining"
        BY <3>1 DEF Remote!Drained
      <4> QED
        BY <4>1, <4>2
    <3>2. CASE Remote!Break(c)
      <4> DEFINE x == [v6[c] EXCEPT !.open = FALSE]
      <4>1. x \in Remote!Conn /\ x.channel = v6[c].channel /\ x.pc = v6[c].pc
        BY <3>0 DEF Remote!Conn
      <4>2. v6' = [v6 EXCEPT ![c] = x]
        BY <3>2 DEF Remote!Break
      <4> QED
        BY <4>1, <4>2
    <3> QED
      BY <1>10, <3>1, <3>2
  <2>2. UNCHANGED <<v2, v3, v7, v8, v9>>
    BY <1>10 DEF Remote!Drained, Remote!Break
  <2>3. v6' \in [Conns -> Remote!Conn] /\ \A d \in Conns : v6'[d] = IF d = c THEN x ELSE v6[d]
    BY <1>1, <2>1
  <2>4. \A d \in Conns : v6'[d].channel = v6[d].channel /\ (v6'[d].pc = "absent" <=> v6[d].pc = "absent")
    BY <2>1, <2>3
  <2> QED
    BY <1>1, <1>2, <1>3, <2>2, <2>3, <2>4
<1>11. ASSUME NEW c \in Conns, Remote!DisconnectAgent(c) PROVE RemoteInv'
  <2> DEFINE x == [v6[c] EXCEPT !.pc = "gone"]
  <2>1. /\ v6[c].pc = "open" /\ UNCHANGED <<v3, v7, v8, v9>> /\ v6' = [v6 EXCEPT ![c] = x]
        /\ v2' = [ch \in Remote!Channel |-> IF v2[ch] = c THEN NoConn ELSE v2[ch]]
    BY <1>11 DEF Remote!DisconnectAgent
  <2>2. x \in Remote!Conn /\ x.pc = "gone" /\ x.channel = v6[c].channel
    <3>1. v6[c] \in Remote!Conn
      BY <1>1
    <3> QED
      BY <3>1 DEF Remote!Conn
  <2> HIDE DEF x
  <2>3. /\ v6' \in [Conns -> Remote!Conn] /\ \A d \in Conns : v6'[d] = IF d = c THEN x ELSE v6[d]
        /\ v2' \in [Remote!Channel -> Conns \union {NoConn}]
        /\ \A k \in Remote!Channel : v2'[k] \in Conns => v2'[k] = v2[k]
    BY <1>1, <2>1, <2>2, ConnsAssumption
  <2>4. \A d \in Conns : v6'[d].channel = v6[d].channel /\ (v6'[d].pc = "absent" <=> v6[d].pc = "absent")
    BY <2>1, <2>2, <2>3
  <2> QED
    BY <1>2, <1>3, <2>1, <2>3, <2>4
<1>12. ASSUME NEW c \in Conns, NEW type \in {"ready", "session_closed", "frame"}, Remote!RelayAgentMessage(c, type) PROVE RemoteInv'
  <2>1. UNCHANGED <<v2, v3, v6, v7, v8, v9>>
    BY <1>12 DEF Remote!RelayAgentMessage
  <2> QED
    BY <1>1, <1>2, <1>3, <2>1
<1> QED
  BY <1>4, <1>5, <1>6, <1>7, <1>8, <1>9, <1>10, <1>11, <1>12 DEF Remote!Next

\* However connections come, go, break and drain the buffer, the agent gets a message once, on
\* one connection, and out of order only past a buffer that was not empty (relay_dashboard_message,
\* connect_agent), for any number of connections and messages and any capacity.
THEOREM DeliveredOnceInOrderCorrect == ConsoleSpec => []DeliveredOnceInOrder
<1> DEFINE I == focus = "remote" => RemoteInv
<1>1. ConsoleInit => I
  <2> SUFFICES ASSUME Remote!Init PROVE RemoteInv
    BY DEF ConsoleInit
  <2>1. /\ v2 = [ch \in Remote!Channel |-> NoConn] /\ v3 = [ch \in Remote!Channel |-> <<>>] /\ v7 = 0
        /\ v6 = [c \in Conns |-> [pc |-> "absent", channel |-> "main", open |-> FALSE]] /\ v8 = [c \in Conns |-> <<>>]
    BY DEF Remote!Init
  <2>2. [pc |-> "absent", channel |-> "main", open |-> FALSE] \in Remote!Conn
    BY DEF Remote!Conn, Remote!Channel
  <2>3. RemoteTypes
    BY <2>1, <2>2, ConnsAssumption DEF RemoteTypes
  <2>4. (\A ch \in Remote!Channel : v2[ch] = NoConn /\ v3[ch] = <<>>) /\ \A c \in Conns : v8[c] = <<>>
    BY <2>1
  <2>5. "main" \in Remote!Channel
    BY DEF Remote!Channel
  <2> QED
    BY <2>3, <2>4, <2>5 DEF RemoteInv, Remote!Attached, Remote!Numbered, Remote!Apart, Remote!DeliveredOnceInOrder
<1>2. I /\ [ConsoleNext]_ConsoleVars => I'
  <2> SUFFICES ASSUME RemoteInv, [ConsoleNext]_ConsoleVars, focus = "remote" PROVE RemoteInv'
    BY Focused
  <2>1. CASE UNCHANGED slots
    BY <2>1 DEF slots, RemoteInv, RemoteTypes, Remote!Attached, Remote!Numbered, Remote!Apart, Remote!DeliveredOnceInOrder
  <2> QED
    BY <2>1, Focused, RemoteKeeps
<1>3. I => DeliveredOnceInOrder
  BY DEF DeliveredOnceInOrder, RemoteInv
<1> QED
  BY <1>1, <1>2, <1>3, PTL DEF ConsoleSpec
---------------------------------------------------------------------------
(* EventFanOut *)

EventTypes ==
  /\ v1 \in Seq(1..5) /\ v3 \in [Raisers -> Events!Raiser] /\ v4 \in 0..5
  /\ v5 \in Seq(Seq(1..5)) /\ v6 \subseteq 1..5
EventInv == EventTypes /\ Events!Held /\ Events!Raised /\ \A e \in 1..v4 : Events!InOnePlace(e)

\* An alert at the end of a sequence is in it besides what was there.
LEMMA ContainsAppend ==
  ASSUME NEW S, NEW s \in Seq(S), NEW x \in S, NEW e
  PROVE  Events!Contains(Append(s, x), e) <=> Events!Contains(s, e) \/ e = x
<1> DEFINE r == Append(s, x)
<1>1. Len(s) \in Nat /\ Len(r) = Len(s) + 1 /\ r[Len(s) + 1] = x /\ \A i \in 1..Len(s) : r[i] = s[i]
  BY AppendProperties
<1> HIDE DEF r
<1>2. \A i : i \in 1..Len(r) <=> i \in 1..Len(s) \/ i = Len(s) + 1
  BY <1>1
<1>3. Events!Contains(r, e) <=> Events!Contains(s, e) \/ e = x
  BY <1>1, <1>2 DEF Events!Contains
<1> QED
  BY <1>3 DEF r

\* What the places of an alert are in a state that differs by where its thread holds it.
LEMMA OneStays ==
  ASSUME EventInv, EventTypes', Events!Held', v4' \in 0..5, v6' \subseteq 1..v4', v4 <= v4',
         \A e \in 1..v4 : Events!InOnePlace(e)',
         \A e \in 1..5 : e > v4 =>
           \/ ~Events!Queued(e)' /\ Events!HeldBy(e)' = {} /\ Events!SentIn(e)' = {} /\ (e <= v4' <=> e \in v6')
           \/ Events!Queued(e)' /\ Events!HeldBy(e)' = {} /\ Events!SentIn(e)' = {} /\ e \notin v6' /\ e <= v4'
  PROVE  EventInv'
<1>1. v4 \in 0..5 /\ v4' \in 0..5
  BY DEF EventInv, EventTypes
<1>2. Events!Raised'
  BY <1>1 DEF Events!Raised
<1>3. ASSUME NEW e \in 1..v4' PROVE Events!InOnePlace(e)'
  <2>1. e \in 1..v4 \/ (e \in 1..5 /\ e > v4 /\ e <= v4')
    BY <1>1
  <2> QED
    BY <2>1 DEF Events!InOnePlace
<1>4. \A e \in (1..v4)' : Events!InOnePlace(e)'
  BY <1>3
<1> QED
  BY <1>2, <1>4 DEF EventInv

LEMMA EventKeeps ==
  ASSUME EventInv, Events!Next
  PROVE  EventInv'
<1>1. /\ v1 \in Seq(1..5) /\ v3 \in [Raisers -> Events!Raiser] /\ v4 \in 0..5
      /\ v5 \in Seq(Seq(1..5)) /\ v6 \subseteq 1..5 /\ v6 \subseteq 1..v4
  BY DEF EventInv, EventTypes, Events!Raised
<1>2. \A t \in Raisers : v3[t] \in Events!Raiser /\ (v3[t].pc # "sending" => v3[t].batch = <<>>)
  BY <1>1 DEF EventInv, Events!Held
<1>3. \A e \in 1..5 : e > v4 => ~Events!Queued(e) /\ Events!HeldBy(e) = {} /\ Events!SentIn(e) = {} /\ e \notin v6
  BY <1>1 DEF EventInv, Events!Raised
<1>4. \A e \in 1..v4 : Events!InOnePlace(e)
  BY DEF EventInv
\* A step that moves no alert.
<1>5. ASSUME UNCHANGED <<v1, v4, v5, v6>>, v3' \in [Raisers -> Events!Raiser],
             \A t \in Raisers : v3'[t].batch = v3[t].batch /\ (v3'[t].pc # "sending" => v3[t].pc # "sending")
      PROVE  EventInv'
  <2>1. EventTypes' /\ Events!Held'
    BY <1>1, <1>2, <1>5 DEF EventTypes, Events!Held
  <2>2. \A e \in 1..5 : Events!HeldBy(e)' = Events!HeldBy(e)
    BY <1>5 DEF Events!HeldBy
  <2>3. \A e : (Events!Queued(e)' <=> Events!Queued(e)) /\ Events!SentIn(e)' = Events!SentIn(e)
    BY <1>5 DEF Events!Queued, Events!SentIn
  <2>4. \A e \in 1..v4 : e \in 1..5
    BY <1>1
  <2>5. \A e \in 1..v4 : Events!InOnePlace(e)'
    BY <1>4, <1>5, <2>2, <2>3, <2>4 DEF Events!InOnePlace
  <2> QED
    BY <1>1, <1>3, <1>5, <2>1, <2>2, <2>3, <2>5, OneStays
<1>6. ASSUME NEW t \in Raisers, Events!Enqueue(t) PROVE EventInv'
  <2> DEFINE m == v4 + 1
             x == [v3[t] EXCEPT !.pc = "flush"]
             y == [v3[t] EXCEPT !.pc = "returning"]
  <2>1. /\ v3[t].pc = "idle" /\ v4 < 5 /\ v4' = m /\ v1' = Append(v1, m) /\ UNCHANGED <<v5, v6>>
        /\ v3' = [v3 EXCEPT ![t] = x] \/ v3' = [v3 EXCEPT ![t] = y]
    BY <1>6 DEF Events!Enqueue
  <2>2. /\ x \in Events!Raiser /\ x.pc = "flush" /\ x.batch = v3[t].batch
        /\ y \in Events!Raiser /\ y.pc = "returning" /\ y.batch = v3[t].batch
    BY <1>2 DEF Events!Raiser
  <2>3. m \in 1..5 /\ m > v4
    BY <1>1, <2>1
  <2> HIDE DEF m, x, y
  <2>4. v3' \in [Raisers -> Events!Raiser] /\ \A u \in Raisers : v3'[u].batch = v3[u].batch /\ (v3'[u].pc = v3[u].pc \/ u = t)
    BY <1>1, <2>1, <2>2
  <2>5. v1' \in Seq(1..5) /\ \A e : Events!Contains(v1', e) <=> Events!Contains(v1, e) \/ e = m
    BY <1>1, <2>1, <2>3, ContainsAppend, AppendProperties
  <2>6. EventTypes' /\ Events!Held'
    <3>1. v4' \in 0..5 /\ v5' \in Seq(Seq(1..5)) /\ v6' \subseteq 1..5
      BY <1>1, <2>1, <2>3
    <3>2. EventTypes'
      BY <2>4, <2>5, <3>1 DEF EventTypes
    <3>3. \A u \in Raisers : v3'[u].pc # "sending" => v3'[u].batch = <<>>
      BY <1>2, <2>1, <2>4
    <3> QED
      BY <3>2, <3>3 DEF Events!Held
  <2>7. \A e : (Events!Queued(e)' <=> Events!Queued(e) \/ e = m)
    BY <2>5 DEF Events!Queued
  <2>8. \A e : Events!HeldBy(e)' = Events!HeldBy(e) /\ Events!SentIn(e)' = Events!SentIn(e)
    BY <2>1, <2>4 DEF Events!HeldBy, Events!SentIn
  <2>9. \A e \in 1..v4 : e # m /\ e \in 1..5
    BY <1>1, <2>3
  <2>10. \A e \in 1..v4 : Events!InOnePlace(e)'
    BY <1>4, <2>1, <2>7, <2>8, <2>9 DEF Events!InOnePlace
  <2>11. \A e \in 1..5 : e > v4 => (e <= v4' <=> e = m)
    BY <1>1, <2>1 DEF m
  <2>12. v6' \subseteq 1..v4' /\ v4 <= v4' /\ v4' \in 0..5
    BY <1>1, <2>1, <2>3
  <2>13. \A e \in 1..5 : e > v4 =>
           \/ ~Events!Queued(e)' /\ Events!HeldBy(e)' = {} /\ Events!SentIn(e)' = {} /\ (e <= v4' <=> e \in v6')
           \/ Events!Queued(e)' /\ Events!HeldBy(e)' = {} /\ Events!SentIn(e)' = {} /\ e \notin v6' /\ e <= v4'
    BY <1>3, <2>1, <2>7, <2>8, <2>11
  <2> QED
    BY <2>6, <2>10, <2>12, <2>13, OneStays
<1>7. ASSUME NEW t \in Raisers, Events!Contend(t) PROVE EventInv'
  <2> DEFINE m == v4 + 1
  <2>1. v4 < 5 /\ v4' = m /\ v6' = v6 \union {m} /\ UNCHANGED <<v1, v3, v5>>
    BY <1>7 DEF Events!Contend
  <2>2. m \in 1..5 /\ m > v4 /\ v6' \subseteq 1..v4' /\ v4 <= v4' /\ v4' \in 0..5 /\ \A e \in 1..5 : e > v4 => (e <= v4' <=> e = m)
    BY <1>1, <2>1
  <2> HIDE DEF m
  <2>3. EventTypes' /\ Events!Held'
    BY <1>1, <1>2, <2>1, <2>2 DEF EventTypes, Events!Held
  <2>4. \A e : (Events!Queued(e)' <=> Events!Queued(e)) /\ Events!HeldBy(e)' = Events!HeldBy(e) /\ Events!SentIn(e)' = Events!SentIn(e)
    BY <2>1 DEF Events!Queued, Events!HeldBy, Events!SentIn
  <2>5. \A e \in 1..v4 : e # m
    BY <1>1, <2>2
  <2>6. \A e \in 1..v4 : Events!InOnePlace(e)'
    BY <1>4, <2>1, <2>4, <2>5 DEF Events!InOnePlace
  <2> QED
    BY <1>3, <2>1, <2>2, <2>3, <2>4, <2>6, OneStays
<1>8. ASSUME NEW t \in Raisers, Events!Return(t) PROVE EventInv'
  <2> DEFINE x == [v3[t] EXCEPT !.pc = "idle"]
  <2>1. v3[t].pc = "returning" /\ v3' = [v3 EXCEPT ![t] = x] /\ UNCHANGED <<v1, v4, v5, v6>>
    BY <1>8 DEF Events!Return
  <2>2. x \in Events!Raiser /\ x.pc = "idle" /\ x.batch = v3[t].batch
    BY <1>2 DEF Events!Raiser
  <2> HIDE DEF x
  <2> QED
    BY <1>1, <1>5, <2>1, <2>2
<1>9. ASSUME NEW t \in Raisers, Events!Flush(t) PROVE EventInv'
  <2> DEFINE x == [pc |-> IF v1 = <<>> THEN "returning" ELSE "sending", batch |-> v1]
  <2>1. v3[t].pc = "flush" /\ v3' = [v3 EXCEPT ![t] = x] /\ v1' = <<>> /\ UNCHANGED <<v4, v5, v6>>
    BY <1>9 DEF Events!Flush
  <2>2. x \in Events!Raiser /\ x.batch = v1 /\ (x.pc # "sending" => v1 = <<>>)
    BY <1>1 DEF Events!Raiser
  <2> HIDE DEF x
  <2>3. v3' \in [Raisers -> Events!Raiser] /\ \A u \in Raisers : v3'[u] = IF u = t THEN x ELSE v3[u]
    BY <1>1, <2>1, <2>2
  <2>4. EventTypes' /\ Events!Held'
    BY <1>1, <1>2, <2>1, <2>2, <2>3 DEF EventTypes, Events!Held
  <2>5. \A e : ~Events!Contains(<<>>, e)
    BY DEF Events!Contains
  <2>6. v3[t].batch = <<>>
    BY <1>2, <2>1
  <2>7. \A e : ~Events!Queued(e)' /\ Events!SentIn(e)' = Events!SentIn(e)
    BY <2>1, <2>5 DEF Events!Queued, Events!SentIn
  <2>8. \A e : Events!HeldBy(e)' = IF Events!Queued(e) THEN Events!HeldBy(e) \union {t} ELSE Events!HeldBy(e)
    BY <2>2, <2>3, <2>5, <2>6 DEF Events!Queued, Events!HeldBy
  <2>9. ASSUME NEW e \in 1..v4 PROVE Events!InOnePlace(e)'
    <3>1. CASE Events!Queued(e)
      <4>1. e \notin v6 /\ Events!HeldBy(e) = {} /\ Events!SentIn(e) = {}
        BY <1>4, <3>1 DEF Events!InOnePlace
      <4>2. Events!HeldBy(e)' = {t} /\ Events!SentIn(e)' = {}
        BY <2>7, <2>8, <3>1, <4>1
      <4> QED
        BY <2>1, <2>7, <4>1, <4>2 DEF Events!InOnePlace
    <3>2. CASE ~Events!Queued(e)
      <4>1. Events!HeldBy(e)' = Events!HeldBy(e)
        BY <2>8, <3>2
      <4> QED
        BY <1>4, <2>1, <2>7, <3>2, <4>1 DEF Events!InOnePlace
    <3> QED
      BY <3>1, <3>2
  <2> QED
    BY <1>1, <1>3, <2>1, <2>4, <2>7, <2>8, <2>9, OneStays
<1>10. ASSUME NEW t \in Raisers, Events!Send(t) PROVE EventInv'
  <2> DEFINE x == [pc |-> "returning", batch |-> <<>>]
             b == v3[t].batch
             r == Append(v5, b)
  <2>1. v3[t].pc = "sending" /\ v3' = [v3 EXCEPT ![t] = x] /\ v5' = r /\ UNCHANGED <<v1, v4, v6>>
    BY <1>10 DEF Events!Send
  <2>2. x \in Events!Raiser /\ x.batch = <<>>
    BY DEF Events!Raiser
  <2>3. b \in Seq(1..5)
    BY <1>2 DEF Events!Raiser
  <2> HIDE DEF b, x
  <2>4. r \in Seq(Seq(1..5)) /\ Len(v5) \in Nat /\ Len(r) = Len(v5) + 1 /\ r[Len(v5) + 1] = b /\ \A i \in 1..Len(v5) : r[i] = v5[i]
    BY <1>1, <2>3, AppendProperties
  <2> HIDE DEF r
  <2>5. v3' \in [Raisers -> Events!Raiser] /\ \A u \in Raisers : v3'[u] = IF u = t THEN x ELSE v3[u]
    BY <1>1, <2>1, <2>2
  <2>6. EventTypes' /\ Events!Held'
    BY <1>1, <1>2, <2>1, <2>2, <2>4, <2>5 DEF EventTypes, Events!Held
  <2>7. \A e : ~Events!Contains(<<>>, e)
    BY DEF Events!Contains
  <2>8. \A e : Events!Queued(e)' <=> Events!Queued(e)
    BY <2>1 DEF Events!Queued
  <2>9. \A e : /\ Events!HeldBy(e)' = Events!HeldBy(e) \ {t}
               /\ Events!Contains(b, e) <=> t \in Events!HeldBy(e)
    BY <2>2, <2>5, <2>7 DEF Events!HeldBy, b
  <2>10. \A e : Events!SentIn(e)' = IF Events!Contains(b, e) THEN Events!SentIn(e) \union {Len(v5) + 1} ELSE Events!SentIn(e)
    <3>1. \A i : i \in 1..Len(r) <=> i \in 1..Len(v5) \/ i = Len(v5) + 1
      BY <2>4
    <3> QED
      BY <2>1, <2>4, <3>1 DEF Events!SentIn
  <2>11. Len(v5) + 1 \in 1..Len(v5') /\ \A i \in 1..Len(v5) : i \in 1..Len(v5')
    BY <2>1, <2>4
  <2>12. ASSUME NEW e \in 1..v4 PROVE Events!InOnePlace(e)'
    <3>1. CASE t \in Events!HeldBy(e)
      <4>1. e \notin v6 /\ ~Events!Queued(e) /\ Events!HeldBy(e) = {t} /\ Events!SentIn(e) = {}
        BY <1>4, <3>1 DEF Events!InOnePlace
      <4>2. Events!HeldBy(e)' = {} /\ Events!SentIn(e)' = {Len(v5) + 1}
        BY <2>9, <2>10, <3>1, <4>1
      <4> QED
        BY <2>1, <2>8, <2>11, <4>1, <4>2 DEF Events!InOnePlace
    <3>2. CASE t \notin Events!HeldBy(e)
      <4>1. Events!HeldBy(e)' = Events!HeldBy(e) /\ Events!SentIn(e)' = Events!SentIn(e)
        BY <2>9, <2>10, <3>2
      <4> QED
        BY <1>4, <2>1, <2>8, <2>11, <4>1 DEF Events!InOnePlace
    <3> QED
      BY <3>1, <3>2
  <2>13. v4 <= v4' /\ v4' \in 0..5 /\ v6' \subseteq 1..v4' /\ \A e \in 1..5 : e > v4 => ~(e <= v4')
    BY <1>1, <2>1
  <2>14. \A e \in 1..5 : e > v4 =>
           ~Events!Queued(e)' /\ Events!HeldBy(e)' = {} /\ Events!SentIn(e)' = {} /\ (e <= v4' <=> e \in v6')
    BY <1>3, <2>1, <2>8, <2>9, <2>10, <2>13
  <2> QED
    BY <2>6, <2>12, <2>13, <2>14, OneStays
<1>11. ASSUME Events!Broadcast \/ \E s \in Sockets : Events!Connect(s) \/ Events!Disconnect(s) PROVE EventInv'
  <2>1. UNCHANGED <<v1, v3, v4, v5, v6>>
    BY <1>11 DEF Events!Broadcast, Events!Connect, Events!Disconnect
  <2> QED
    BY <1>1, <1>5, <2>1
<1> QED
  BY <1>6, <1>7, <1>8, <1>9, <1>10, <1>11 DEF Events!Next, Events!Raise, Events!Finish

\* However the flushes of threads and timers overlap, an alert is lost to a contended lock, in the
\* queue or in one batch, never twice (enqueue, flush_channel, broadcast_sync), for any number of
\* threads and any batch size.
THEOREM EveryAlertOnceCorrect == ConsoleSpec => []EveryAlertOnce
<1> DEFINE I == focus = "events" => EventInv
<1>1. ConsoleInit => I
  <2> SUFFICES ASSUME Events!Init PROVE EventInv
    BY DEF ConsoleInit
  <2>1. /\ v1 = <<>> /\ v3 = [t \in Raisers |-> [pc |-> "idle", batch |-> <<>>]] /\ v4 = 0 /\ v5 = <<>> /\ v6 = {}
    BY DEF Events!Init
  <2>2. [pc |-> "idle", batch |-> <<>>] \in Events!Raiser
    BY DEF Events!Raiser
  <2>3. EventTypes /\ Events!Held
    BY <2>1, <2>2 DEF EventTypes, Events!Held
  <2>4. \A e : ~Events!Queued(e) /\ Events!HeldBy(e) = {} /\ Events!SentIn(e) = {}
    BY <2>1 DEF Events!Queued, Events!HeldBy, Events!SentIn, Events!Contains
  <2> QED
    BY <2>1, <2>3, <2>4 DEF EventInv, Events!Raised
<1>2. I /\ [ConsoleNext]_ConsoleVars => I'
  <2> SUFFICES ASSUME EventInv, [ConsoleNext]_ConsoleVars, focus = "events" PROVE EventInv'
    BY Focused
  <2>1. CASE UNCHANGED slots
    BY <2>1 DEF slots, EventInv, EventTypes, Events!Held, Events!Raised, Events!InOnePlace, Events!Queued, Events!HeldBy, Events!SentIn
  <2> QED
    BY <2>1, Focused, EventKeeps
<1>3. I => EveryAlertOnce
  <2> SUFFICES ASSUME EventInv, focus = "events", NEW e \in 1..v4
               PROVE  Events!Cardinality(Events!HeldBy(e)) + Events!Cardinality(Events!SentIn(e)) + (IF Events!Queued(e) THEN 1 ELSE 0)
                        = IF e \in v6 THEN 0 ELSE 1
    BY DEF EveryAlertOnce, Events!EveryAlertOnce
  <2>0. \A S : Events!Cardinality(S) = Cardinality(S)
    BY DEF Cardinality, Events!Cardinality
  <2>1. Events!Cardinality({}) = 0
    BY <2>0, FS_EmptySet
  <2>2. \A x : Events!Cardinality({x}) = 1
    BY <2>0, FS_Singleton
  <2>3. Events!InOnePlace(e)
    BY DEF EventInv
  <2>4. CASE (e \in v6 <=> ~Events!Queued(e)) /\ Events!HeldBy(e) = {} /\ Events!SentIn(e) = {}
    BY <2>1, <2>4
  <2>5. CASE e \notin v6 /\ ~Events!Queued(e) /\ (\E t \in Raisers : Events!HeldBy(e) = {t}) /\ Events!SentIn(e) = {}
    <3>1. PICK t \in Raisers : Events!HeldBy(e) = {t}
      BY <2>5
    <3>2. Events!Cardinality(Events!HeldBy(e)) = 1 /\ Events!Cardinality(Events!SentIn(e)) = 0
      BY <2>1, <2>2, <2>5, <3>1
    <3> QED
      BY <2>5, <3>2
  <2>6. CASE e \notin v6 /\ ~Events!Queued(e) /\ Events!HeldBy(e) = {} /\ (\E i \in 1..Len(v5) : Events!SentIn(e) = {i})
    <3>1. PICK i \in 1..Len(v5) : Events!SentIn(e) = {i}
      BY <2>6
    <3>2. Events!Cardinality(Events!HeldBy(e)) = 0 /\ Events!Cardinality(Events!SentIn(e)) = 1
      BY <2>1, <2>2, <2>6, <3>1
    <3> QED
      BY <2>6, <3>2
  <2> QED
    BY <2>3, <2>4, <2>5, <2>6 DEF Events!InOnePlace
<1> QED
  BY <1>1, <1>2, <1>3, PTL DEF ConsoleSpec

---------------------------------------------------------------------------
(* PythonAgent *)

Ids == Cmds \union Runtime
Points == {"sleep", "poll", "mark", "run", "report", "execute", "post"}
Requested == {"sent", "completed", "failed"} \X Ids

ClientTypes ==
  /\ v1 \in [Cmds -> Client!Row] /\ v3 \subseteq Cmds /\ v6 \subseteq Requested /\ v10 \in [Cmds -> Nat]
  /\ v5 \in [at : Points, todo : SUBSET Ids, cur : SUBSET Ids, exit : Client!Codes]

ClientInv == ClientTypes /\ Client!AtHand /\ Client!ExecutionsLeft /\ Client!GivenUp /\ Client!CommandsAreKept

LEMMA ClientTyped ==
  ASSUME ClientTypes
  PROVE  /\ \A c \in Cmds : /\ v1[c].status \in {"absent", "pending", "dispatched", "completed", "failed"}
                            /\ v1[c].retries \in Nat /\ v10[c] \in Nat
         /\ v5.at \in Points /\ v5.todo \subseteq Ids /\ v5.cur \subseteq Ids /\ v5.exit \in Client!Codes
<1>1. \A c \in Cmds : v1[c] \in Client!Row /\ v10[c] \in Nat
  BY DEF ClientTypes
<1> QED
  BY <1>1 DEF ClientTypes, Client!Row

LEMMA ClientIdle ==
  ASSUME NEW at \in Points
  PROVE  /\ Client!Idle(at) \in [at : Points, todo : SUBSET Ids, cur : SUBSET Ids, exit : Client!Codes]
         /\ Client!Idle(at).at = at /\ Client!Idle(at).todo = {} /\ Client!Idle(at).cur = {}
BY DEF Client!Idle, Client!Codes

\* What a served request does to the rows: it never makes one pending.
LEMMA ClientServed ==
  ASSUME ClientTypes, NEW what \in {"sent", "completed", "failed"}, NEW c, Client!Served(what, c)
  PROVE  /\ v1' \in [Cmds -> Client!Row]
         /\ \A d \in Cmds : d # c => v1'[d] = v1[d]
         /\ c \in Cmds => /\ v1'[c].retries = v1[c].retries
                         /\ v1'[c].status = IF what = "sent" THEN "dispatched" ELSE what
<1> DEFINE status == IF what = "sent" THEN "dispatched" ELSE what
<1>1. CASE c \in Cmds
  <2> DEFINE x == [v1[c] EXCEPT !.status = status]
  <2>1. x \in Client!Row /\ x.status = status /\ x.retries = v1[c].retries
    <3>1. v1[c] \in Client!Row
      BY <1>1 DEF ClientTypes
    <3> QED
      BY <3>1 DEF Client!Row
  <2>2. v1' = [v1 EXCEPT ![c] = x]
    BY <1>1 DEF Client!Served
  <2> HIDE DEF x, status
  <2>3. v1 \in [Cmds -> Client!Row]
    BY DEF ClientTypes
  <2>4. /\ v1' \in [Cmds -> Client!Row] /\ \A d \in Cmds : d # c => v1'[d] = v1[d]
        /\ v1'[c].retries = v1[c].retries /\ v1'[c].status = status
    BY <1>1, <2>1, <2>2, <2>3
  <2> QED
    BY <2>4 DEF status
<1>2. CASE c \notin Cmds
  BY <1>2 DEF Client!Served, ClientTypes
<1> QED
  BY <1>1, <1>2

\* What the properties look at, when the agent does not move and only one row does.
LEMMA ClientKeepsRow ==
  ASSUME ClientInv, UNCHANGED <<v5, v10>>, v1' \in [Cmds -> Client!Row], v3' \subseteq Cmds, v6' \subseteq Requested,
         \A c \in Cmds : /\ v1'[c].status # "absent" \/ v1[c].status = "absent"
                         /\ v1'[c].retries \in Nat /\ v1'[c].retries >= v1[c].retries
                         /\ v1'[c].status = "pending" => \/ v1[c].status = "pending"
                                                        \/ v1[c].status = "absent"
                                                        \/ v1'[c].retries > v1[c].retries
                         /\ v1'[c].status = "dispatched" =>
                              \/ c \in v11'
                              \/ v1[c].status = "dispatched" /\ (c \in v3' => c \in v3)
                         /\ (<<"sent", c>> \in v6' => c \in v11') /\ (c \in v11 => c \in v11')
  PROVE  ClientInv'
<1>0. /\ ClientTypes /\ Client!AtHand /\ Client!ExecutionsLeft /\ Client!GivenUp /\ Client!CommandsAreKept
  BY DEF ClientInv
<1>1. \A c \in Cmds : /\ v1[c].status \in {"absent", "pending", "dispatched", "completed", "failed"}
                      /\ v1[c].retries \in Nat /\ v10[c] \in Nat
  BY <1>0, ClientTyped
<1>2. ClientTypes'
  BY <1>0 DEF ClientTypes
<1>3. Client!AtHand'
  BY <1>0 DEF Client!AtHand, Client!Sending
<1>4. Client!ExecutionsLeft'
  <2> SUFFICES ASSUME NEW c \in Cmds
               PROVE  /\ v1'[c].status = "absent" => v10[c] = 0 /\ c \notin v5.cur \union v5.todo
                      /\ v1'[c].status = "pending" \/ (Client!Sending /\ c \in v5.todo) => v10[c] <= v1'[c].retries
                      /\ v5.at = "run" /\ c \in v5.cur =>
                           v10[c] + (IF v1'[c].status = "pending" THEN 1 ELSE 0) <= v1'[c].retries
    BY DEF Client!ExecutionsLeft, Client!Sending
  <2>1. /\ v1[c].status = "absent" => v10[c] = 0 /\ c \notin v5.cur \union v5.todo
        /\ v1[c].status = "pending" \/ (Client!Sending /\ c \in v5.todo) => v10[c] <= v1[c].retries
        /\ v5.at = "run" /\ c \in v5.cur =>
             v10[c] + (IF v1[c].status = "pending" THEN 1 ELSE 0) <= v1[c].retries
        /\ v10[c] <= 1 + v1[c].retries
    BY <1>0 DEF Client!ExecutionsLeft, Client!CommandsAreKept, Client!RunPerAttempt
  <2> DEFINE n == v10[c]
             r == v1[c].retries
             s == v1'[c].retries
  <2>2. n \in Nat /\ r \in Nat /\ s \in Nat /\ s >= r
    BY <1>1
  <2>3. CASE v1'[c].status = "absent"
    BY <2>1, <2>3
  <2>4. CASE v1'[c].status = "pending"
    <3>1. \/ n <= r /\ (v5.at = "run" /\ c \in v5.cur => n + 1 <= r)
          \/ n = 0 /\ c \notin v5.cur
          \/ s > r /\ n <= 1 + r /\ (v5.at = "run" /\ c \in v5.cur => n <= r)
      <4>1. CASE v1[c].status = "pending"
        BY <2>1, <4>1
      <4>2. CASE v1[c].status = "absent"
        BY <2>1, <4>2
      <4>3. CASE v1[c].status \notin {"pending", "absent"}
        <5>1. s > r
          BY <2>4, <4>3
        <5>2. v5.at = "run" /\ c \in v5.cur => n <= r
          BY <2>1, <2>2, <4>3
        <5> QED
          BY <2>1, <5>1, <5>2
      <4> QED
        BY <4>1, <4>2, <4>3
    <3> HIDE DEF n, r, s
    <3>2. n <= s
      BY <2>2, <3>1
    <3>3. v5.at = "run" /\ c \in v5.cur => n + 1 <= s
      BY <2>2, <3>1
    <3> QED
      BY <2>4, <3>2, <3>3 DEF n, s
  <2>5. CASE v1'[c].status \notin {"absent", "pending"}
    <3>1. (Client!Sending /\ c \in v5.todo) \/ (v5.at = "run" /\ c \in v5.cur) => n <= r
      BY <2>1, <2>2
    <3> HIDE DEF n, r, s
    <3>2. n <= r => n <= s /\ n + 0 <= s
      BY <2>2
    <3> QED
      BY <2>5, <3>1, <3>2 DEF n, s
  <2> QED
    BY <2>3, <2>4, <2>5
<1>5. Client!GivenUp'
  BY <1>0 DEF Client!GivenUp, Client!Sending
<1>6. Client!CommandsAreKept'
  <2>1. \A c \in Cmds : v10[c] <= 1 + v1[c].retries
    BY <1>0 DEF Client!CommandsAreKept, Client!RunPerAttempt
  <2>2. \A c \in Cmds : v10'[c] <= 1 + v1'[c].retries
    <3> SUFFICES ASSUME NEW c \in Cmds PROVE v10'[c] <= 1 + v1'[c].retries
      OBVIOUS
    <3> DEFINE n == v10[c]
               r == v1[c].retries
               s == v1'[c].retries
    <3>1. n \in Nat /\ r \in Nat /\ s \in Nat /\ s >= r /\ n <= 1 + r /\ v10'[c] = n
      BY <1>1, <2>1
    <3> HIDE DEF n, r, s
    <3>2. n <= 1 + s
      BY <3>1
    <3> QED
      BY <3>1, <3>2 DEF s
  <2>3. Client!DispatchedIsHeld'
    BY <1>0 DEF Client!CommandsAreKept, Client!DispatchedIsHeld
  <2> QED
    BY <2>2, <2>3 DEF Client!CommandsAreKept, Client!RunPerAttempt
<1> QED
  BY <1>2, <1>3, <1>4, <1>5, <1>6 DEF ClientInv
\* The server's steps.
LEMMA ServerKeeps ==
  ASSUME ClientInv,
         \/ \E c \in Cmds : Client!QueueCommand(c) \/ Client!Retry(c)
         \/ \E l \in Runtime : Client!CreateCommand(l)
         \/ \E m \in v6 : Client!ServeLate(m)
         \/ Client!ServerForgets
  PROVE  ClientInv'
<1>0. /\ ClientTypes /\ Client!AtHand /\ Client!ExecutionsLeft /\ Client!GivenUp /\ Client!CommandsAreKept
  BY DEF ClientInv
<1>1. /\ v1 \in [Cmds -> Client!Row] /\ v3 \subseteq Cmds /\ v6 \subseteq Requested
  BY <1>0 DEF ClientTypes
<1>2. \A c \in Cmds : /\ v1[c] \in Client!Row /\ v1[c].status \in {"absent", "pending", "dispatched", "completed", "failed"}
                      /\ v1[c].retries \in Nat
  BY <1>0, <1>1, ClientTyped
<1>3. \A c \in Cmds : <<"sent", c>> \in v6 => c \in v11
  BY <1>0 DEF Client!GivenUp
<1>4. ASSUME NEW c \in Cmds, Client!QueueCommand(c) PROVE ClientInv'
  <2> DEFINE x == [v1[c] EXCEPT !.status = "pending"]
  <2>1. x \in Client!Row /\ x.status = "pending" /\ x.retries = v1[c].retries
    BY <1>2 DEF Client!Row
  <2>2. v1' = [v1 EXCEPT ![c] = x] /\ v3' = v3 \union {c} /\ UNCHANGED <<v5, v6, v10, v11>> /\ v1[c].status = "absent"
    BY <1>4 DEF Client!QueueCommand
  <2> HIDE DEF x
  <2>3. v1' \in [Cmds -> Client!Row] /\ \A d \in Cmds : v1'[d] = IF d = c THEN x ELSE v1[d]
    BY <1>1, <2>1, <2>2
  <2>4. \A d \in Cmds : v1'[d].retries = v1[d].retries
    BY <2>1, <2>3
  <2> QED
    BY <1>1, <1>2, <1>3, <2>1, <2>2, <2>3, <2>4, ClientKeepsRow
<1>5. ASSUME NEW c \in Cmds, Client!Retry(c) PROVE ClientInv'
  <2> DEFINE n == v1[c].retries + 1
             x == [v1[c] EXCEPT !.status = "pending", !.retries = n]
  <2>1. n \in 0..1 /\ n > v1[c].retries
    <3>1. v1[c].retries < 1
      BY <1>5 DEF Client!Retry
    <3> QED
      BY <1>2, <3>1
  <2>2. v1' = [v1 EXCEPT ![c].status = "pending", ![c].retries = n] /\ UNCHANGED <<v3, v5, v6, v10, v11>>
        /\ v1[c].status = "failed"
    BY <1>5 DEF Client!Retry
  <2> HIDE DEF n
  <2>3. x \in Client!Row /\ x.status = "pending" /\ x.retries = n
    BY <1>2, <2>1 DEF Client!Row
  <2>4. v1' = [v1 EXCEPT ![c] = x]
    BY <1>1, <2>2
  <2> HIDE DEF x
  <2>5. v1' \in [Cmds -> Client!Row] /\ \A d \in Cmds : v1'[d] = IF d = c THEN x ELSE v1[d]
    BY <1>1, <2>3, <2>4
  <2>6. \A d \in Cmds : v1'[d].retries \in Nat /\ v1'[d].retries >= v1[d].retries /\ (d = c => v1'[d].retries > v1[d].retries)
    BY <1>2, <2>1, <2>3, <2>5
  <2> QED
    BY <1>1, <1>2, <1>3, <2>2, <2>3, <2>5, <2>6, ClientKeepsRow
<1>6. ASSUME NEW l \in Runtime, Client!CreateCommand(l) PROVE ClientInv'
  <2>1. UNCHANGED <<v1, v3, v5, v6, v10, v11>>
    BY <1>6 DEF Client!CreateCommand
  <2> QED
    BY <1>1, <1>2, <1>3, <2>1, ClientKeepsRow
<1>7. ASSUME NEW m \in v6, Client!ServeLate(m) PROVE ClientInv'
  <2> DEFINE what == m[1]
             c == m[2]
  <2>1. what \in {"sent", "completed", "failed"} /\ m = <<what, c>>
    BY <1>1 DEF Requested
  <2>2. Client!Served(what, c) /\ v6' = v6 \ {m} /\ UNCHANGED <<v3, v5, v10, v11>>
    BY <1>7 DEF Client!ServeLate
  <2> HIDE DEF what, c
  <2>3. /\ v1' \in [Cmds -> Client!Row]
        /\ \A d \in Cmds : d # c => v1'[d] = v1[d]
        /\ c \in Cmds => /\ v1'[c].retries = v1[c].retries
                        /\ v1'[c].status = IF what = "sent" THEN "dispatched" ELSE what
    BY <1>0, <2>1, <2>2, ClientServed
  <2>4. \A d \in Cmds : v1'[d].retries = v1[d].retries
    BY <2>3
  <2>5. \A d \in Cmds : /\ v1'[d].status # "absent" \/ v1[d].status = "absent"
                        /\ v1'[d].status = "pending" => v1[d].status = "pending"
                        /\ v1'[d].status = "dispatched" => d \in v11 \/ v1[d].status = "dispatched"
    BY <1>3, <2>1, <2>3
  <2> QED
    BY <1>1, <1>2, <1>3, <2>2, <2>3, <2>4, <2>5, ClientKeepsRow
<1>8. ASSUME Client!ServerForgets PROVE ClientInv'
  <2>1. UNCHANGED <<v1, v3, v5, v10, v11>> /\ v6' = {}
    BY <1>8 DEF Client!ServerForgets
  <2> QED
    BY <1>1, <1>2, <2>1, ClientKeepsRow
<1> QED
  BY <1>4, <1>5, <1>6, <1>7, <1>8
\* What is left of the properties when the agent moves without executing anything.
LEMMA ClientKeepsHand ==
  ASSUME ClientInv, v10' = v10, ClientTypes', Client!AtHand', Client!GivenUp', Client!DispatchedIsHeld',
         \A c \in Cmds : /\ v1'[c].retries = v1[c].retries
                         /\ v1'[c].status = "absent" => v1[c].status = "absent" /\ c \notin v5'.cur \union v5'.todo
                         /\ v1'[c].status = "pending" => v1[c].status = "pending"
                         /\ Client!Sending' /\ c \in v5'.todo =>
                              v1[c].status = "pending" \/ (Client!Sending /\ c \in v5.todo)
                         /\ v5'.at = "run" /\ c \in v5'.cur =>
                              v1'[c].status # "pending" /\ Client!Sending /\ c \in v5.todo
  PROVE  ClientInv'
<1>0. ClientTypes /\ Client!ExecutionsLeft /\ Client!CommandsAreKept
  BY DEF ClientInv
<1>1. ASSUME NEW c \in Cmds
      PROVE  /\ v1'[c].status = "absent" => v10'[c] = 0 /\ c \notin v5'.cur \union v5'.todo
             /\ v1'[c].status = "pending" \/ (Client!Sending' /\ c \in v5'.todo) => v10'[c] <= v1'[c].retries
             /\ v5'.at = "run" /\ c \in v5'.cur =>
                  v10'[c] + (IF v1'[c].status = "pending" THEN 1 ELSE 0) <= v1'[c].retries
             /\ v10'[c] <= 1 + v1'[c].retries
  <2> DEFINE n == v10[c]
             r == v1[c].retries
  <2>1. n \in Nat /\ r \in Nat /\ v10'[c] = n /\ v1'[c].retries = r
    BY <1>0, ClientTyped
  <2>2. /\ v1[c].status = "absent" => n = 0
        /\ v1[c].status = "pending" \/ (Client!Sending /\ c \in v5.todo) => n <= r
        /\ n <= 1 + r
    BY <1>0 DEF Client!ExecutionsLeft, Client!CommandsAreKept, Client!RunPerAttempt
  <2> HIDE DEF n, r
  <2>3. n <= r => n + 0 <= r
    BY <2>1
  <2> QED
    BY <2>1, <2>2, <2>3
<1>2. Client!ExecutionsLeft' /\ Client!CommandsAreKept'
  BY <1>1 DEF Client!ExecutionsLeft, Client!CommandsAreKept, Client!RunPerAttempt
<1> QED
  BY <1>2 DEF ClientInv

\* The agent's steps.
LEMMA AgentKeeps ==
  ASSUME ClientInv,
         \/ \E c \in Cmds : Client!MarkSent(c) \/ (\E exit \in Client!Codes : Client!Execute(c, exit))
         \/ Client!EndCycle \/ Client!Crash
         \/ \E answer \in BOOLEAN : \/ Client!PollEnterprise(answer) \/ Client!PollRuntime(answer)
                                   \/ \E disks \in Client!Disks : Client!Heartbeat(disks, answer)
         \/ \E c \in Ids : Client!Report(c) \/ (\E exit \in {0, 1} : Client!ExecuteRuntime(c, exit))
  PROVE  ClientInv'
<1> DEFINE Goal == /\ v10' = v10 /\ ClientTypes' /\ Client!AtHand' /\ Client!GivenUp' /\ Client!DispatchedIsHeld'
                   /\ \A c \in Cmds :
                        /\ v1'[c].retries = v1[c].retries
                        /\ v1'[c].status = "absent" => v1[c].status = "absent" /\ c \notin v5'.cur \union v5'.todo
                        /\ v1'[c].status = "pending" => v1[c].status = "pending"
                        /\ Client!Sending' /\ c \in v5'.todo => v1[c].status = "pending" \/ (Client!Sending /\ c \in v5.todo)
                        /\ v5'.at = "run" /\ c \in v5'.cur => v1'[c].status # "pending" /\ Client!Sending /\ c \in v5.todo
           Hand == [at : Points, todo : SUBSET Ids, cur : SUBSET Ids, exit : Client!Codes]
<1> USE IdsAssumption DEF Client!Sending
<1>0. /\ ClientTypes /\ Client!AtHand /\ Client!ExecutionsLeft /\ Client!GivenUp /\ Client!CommandsAreKept
      /\ Client!DispatchedIsHeld
  BY DEF ClientInv, Client!CommandsAreKept
<1>1. /\ v1 \in [Cmds -> Client!Row] /\ v3 \subseteq Cmds /\ v6 \subseteq Requested /\ v10 \in [Cmds -> Nat] /\ v5 \in Hand
      /\ v5.at \in Points /\ v5.todo \subseteq Ids /\ v5.cur \subseteq Ids /\ v5.exit \in Client!Codes
  BY <1>0, ClientTyped DEF ClientTypes
<1>2. \A c \in Cmds :
        /\ v1[c].status = "absent" => c \notin v5.cur \union v5.todo
        /\ <<"sent", c>> \in v6 => c \in v11
        /\ v5.at \in {"mark", "run", "report"} /\ c \in v5.todo /\ v1[c].status = "dispatched" => c \in v11
        /\ c \in v3 /\ v1[c].status = "dispatched" /\ c \notin v11 => c \in v5.cur \union v5.todo
  BY <1>0 DEF Client!ExecutionsLeft, Client!GivenUp, Client!DispatchedIsHeld
<1>3. /\ \A a, b \in v5.cur : a = b
      /\ v5.at \in {"sleep", "poll", "mark", "execute"} => v5.cur = {}
      /\ v5.at \in {"sleep", "poll"} => v5.todo = {}
      /\ v5.cur \intersect v5.todo = {}
      /\ v5.at \in {"mark", "run", "report"} => v5.cur \union v5.todo \subseteq Cmds
  BY <1>0 DEF Client!AtHand
<1>4. ASSUME NEW answer \in BOOLEAN, NEW disks \in Client!Disks, Client!Heartbeat(disks, answer) PROVE Goal
  <2>1. UNCHANGED <<v1, v6, v10, v11>> /\ v5.at = "sleep" /\ (v5' = Client!Idle("poll") \/ v5' = v5) /\ v3' \subseteq v3
    BY <1>4 DEF Client!Heartbeat
  <2>2. v5' \in Hand /\ v5'.at \in {"sleep", "poll"} /\ v5'.todo = {} /\ v5'.cur = {}
    <3>1. "poll" \in Points
      BY DEF Points
    <3> QED
      BY <1>1, <1>3, <2>1, <3>1, ClientIdle
  <2> HIDE DEF Hand
  <2>3. ClientTypes'
    BY <1>1, <2>1, <2>2 DEF ClientTypes, Hand
  <2>4. Client!AtHand' /\ Client!GivenUp' /\ Client!DispatchedIsHeld'
    BY <1>1, <1>2, <1>3, <2>1, <2>2 DEF Client!AtHand, Client!GivenUp, Client!DispatchedIsHeld
  <2> QED
    BY <1>2, <2>1, <2>2, <2>3, <2>4
<1>5. ASSUME NEW answer \in BOOLEAN, Client!PollEnterprise(answer) PROVE Goal
  <2> DEFINE todo == IF answer /\ v4 THEN {c \in v3 : v1[c].status = "pending"} ELSE {}
  <2>1. UNCHANGED <<v1, v3, v6, v10, v11>> /\ v5.at = "poll" /\ v5' = [Client!Idle("mark") EXCEPT !.todo = todo]
    BY <1>5 DEF Client!PollEnterprise
  <2>2. todo \subseteq Cmds /\ \A c \in todo : v1[c].status = "pending"
    BY <1>1
  <2> HIDE DEF todo
  <2>3. v5' \in Hand /\ v5'.at = "mark" /\ v5'.todo = todo /\ v5'.cur = {}
    <3>1. "mark" \in Points /\ todo \in SUBSET Ids
      BY <2>2 DEF Points, Ids
    <3> QED
      BY <2>1, <3>1, ClientIdle
  <2> HIDE DEF Hand
  <2>4. ClientTypes'
    BY <1>1, <2>1, <2>3 DEF ClientTypes, Hand
  <2>5. Client!AtHand' /\ Client!GivenUp' /\ Client!DispatchedIsHeld'
    BY <1>1, <1>2, <1>3, <2>1, <2>2, <2>3 DEF Client!AtHand, Client!GivenUp, Client!DispatchedIsHeld
  <2> QED
    BY <1>2, <2>1, <2>2, <2>3, <2>4, <2>5
<1>6. ASSUME NEW c \in Cmds, Client!MarkSent(c) PROVE Goal
  <2>1. v5.at = "mark" /\ c \in v5.todo /\ UNCHANGED <<v3, v10>>
    BY <1>6 DEF Client!MarkSent
  <2>2. CASE /\ Client!Served("sent", c) /\ v5' = [v5 EXCEPT !.at = "run", !.todo = v5.todo \ {c}, !.cur = {c}]
             /\ UNCHANGED <<v6, v11>>
    <3>1. /\ v1' \in [Cmds -> Client!Row] /\ \A d \in Cmds : d # c => v1'[d] = v1[d]
          /\ v1'[c].retries = v1[c].retries /\ v1'[c].status = "dispatched"
      BY <1>0, <2>2, ClientServed
    <3>2. v5' \in Hand /\ v5'.at = "run" /\ v5'.todo = v5.todo \ {c} /\ v5'.cur = {c}
      <4>1. "run" \in Points /\ c \in Ids
        BY DEF Points, Ids
      <4> QED
        BY <1>1, <2>2, <4>1
    <3> HIDE DEF Hand
    <3>3. ClientTypes'
      BY <1>1, <2>1, <2>2, <3>1, <3>2 DEF ClientTypes, Hand
    <3>4. Client!AtHand' /\ Client!GivenUp' /\ Client!DispatchedIsHeld'
      BY <1>1, <1>2, <1>3, <2>1, <2>2, <3>1, <3>2 DEF Client!AtHand, Client!GivenUp, Client!DispatchedIsHeld
    <3> QED
      BY <1>2, <2>1, <2>2, <3>1, <3>2, <3>3, <3>4
  <2>3. CASE /\ v1' = v1 /\ v5' = [v5 EXCEPT !.todo = v5.todo \ {c}]
             /\ UNCHANGED <<v6, v11>> \/ (v6' = v6 \union {<<"sent", c>>} /\ v11' = v11 \union {c})
    <3>1. v5' \in Hand /\ v5'.at = "mark" /\ v5'.todo = v5.todo \ {c} /\ v5'.cur = {}
      BY <1>1, <1>3, <2>1, <2>3
    <3>2. v6' \subseteq Requested
      BY <1>1, <2>3 DEF Requested, Ids
    <3>3. \A d \in Cmds : (<<"sent", d>> \in v6' => d \in v11') /\ (d \in v11 => d \in v11')
      <4>1. CASE UNCHANGED <<v6, v11>>
        BY <1>2, <4>1
      <4>2. CASE v6' = v6 \union {<<"sent", c>>} /\ v11' = v11 \union {c}
        <5>1. \A d : <<"sent", d>> = <<"sent", c>> => d = c
          OBVIOUS
        <5>2. \A d : <<"sent", d>> \in v6' => <<"sent", d>> \in v6 \/ <<"sent", d>> = <<"sent", c>>
          BY <4>2
        <5> QED
          BY <1>2, <4>2, <5>1, <5>2
      <4> QED
        BY <2>3, <4>1, <4>2
    <3> HIDE DEF Hand
    <3>4. ClientTypes'
      BY <1>1, <2>1, <2>3, <3>1, <3>2 DEF ClientTypes, Hand
    <3>5. Client!AtHand' /\ Client!GivenUp' /\ Client!DispatchedIsHeld'
      BY <1>1, <1>2, <1>3, <2>1, <2>3, <3>1, <3>3 DEF Client!AtHand, Client!GivenUp, Client!DispatchedIsHeld
    <3> QED
      BY <1>2, <2>1, <2>3, <3>1, <3>4, <3>5
  <2> QED
    BY <1>6, <2>2, <2>3, Zenon DEF Client!MarkSent
<1>7. ASSUME NEW c \in Ids, Client!Report(c) PROVE Goal
  <2> DEFINE runtime == v5.at = "post"
             verdict == Client!Verdict
             at == IF v5.at = "post" THEN "execute" ELSE "mark"
  <2>1. v5.at \in {"report", "post"} /\ c \in v5.cur /\ UNCHANGED <<v3, v10>>
    BY <1>7 DEF Client!Report
  <2>2. verdict \in {"completed", "failed"}
    BY DEF Client!Verdict
  <2>3. at \in {"execute", "mark"} /\ at \in Points
    BY DEF Points
  <2>4. v5.cur = {c}
    BY <1>3, <2>1
  <2>5. CASE /\ Client!Served(verdict, c) /\ v5' = [v5 EXCEPT !.at = at, !.cur = {}, !.todo = v5.todo]
             /\ UNCHANGED <<v6, v11>>
    <3> HIDE DEF verdict, at
    <3>1. /\ v1' \in [Cmds -> Client!Row] /\ \A d \in Cmds : d # c => v1'[d] = v1[d]
          /\ c \in Cmds => v1'[c].retries = v1[c].retries /\ v1'[c].status = verdict
      BY <1>0, <2>2, <2>5, ClientServed
    <3>2. v5' \in Hand /\ v5'.at = at /\ v5'.todo = v5.todo /\ v5'.cur = {}
      BY <1>1, <2>3, <2>5
    <3> HIDE DEF Hand
    <3>3. ClientTypes'
      BY <1>1, <2>1, <2>5, <3>1, <3>2 DEF ClientTypes, Hand
    <3>4. at = "mark" => v5.at = "report"
      BY <2>1 DEF at
    <3>5. Client!AtHand'
      BY <1>3, <2>3, <3>2, <3>4 DEF Client!AtHand
    <3>6. \A d \in Cmds : (d # c /\ v1'[d].status = v1[d].status) \/ (d = c /\ v1'[d].status \in {"completed", "failed"})
      BY <2>2, <3>1
    <3>7. \A d \in Cmds : v1'[d].retries = v1[d].retries
      BY <3>1
    <3>9. v3' = v3 /\ v6' = v6 /\ v11' = v11
      BY <2>1, <2>5
    <3>10. Client!GivenUp'
      BY <1>2, <2>3, <3>2, <3>4, <3>6, <3>9 DEF Client!GivenUp
    <3>11. Client!DispatchedIsHeld'
      BY <1>1, <1>2, <2>4, <3>2, <3>6, <3>9 DEF Client!DispatchedIsHeld
    <3>8. Client!GivenUp' /\ Client!DispatchedIsHeld'
      BY <3>10, <3>11
    <3> QED
      BY <1>2, <2>1, <2>3, <2>5, <3>2, <3>3, <3>4, <3>5, <3>6, <3>7, <3>8
  <2>6. CASE /\ v1' = v1 /\ v5' = [v5 EXCEPT !.at = at, !.cur = {}, !.todo = IF runtime THEN {} ELSE v5.todo]
             /\ v11' = v11 \union (({c} \union (IF runtime THEN v5.todo ELSE {})) \intersect Cmds)
             /\ v6' = v6 \/ v6' = v6 \union {<<verdict, c>>}
    <3> HIDE DEF verdict
    <3>1. v5' \in Hand /\ v5'.at = at /\ v5'.cur = {} /\ v5'.todo = (IF runtime THEN {} ELSE v5.todo)
      BY <1>1, <2>3, <2>6
    <3>2. v6' \subseteq Requested
      BY <1>1, <2>2, <2>6 DEF Requested
    <3>3. \A d \in Cmds : (<<"sent", d>> \in v6' => d \in v11') /\ (d \in v11 => d \in v11')
      <4>1. v6' = v6 \/ v6' = v6 \union {<<verdict, c>>}
        BY <2>6
      <4>2. \A d : <<"sent", d>> # <<verdict, c>>
        BY <2>2
      <4>3. \A d : <<"sent", d>> \in v6' => <<"sent", d>> \in v6
        BY <4>1, <4>2
      <4>4. \A d : d \in v11 => d \in v11'
        BY <2>6
      <4> QED
        BY <1>2, <4>3, <4>4
    <3> HIDE DEF Hand
    <3>4. ClientTypes'
      BY <1>1, <2>1, <2>6, <3>1, <3>2 DEF ClientTypes, Hand
    <3>5. (at = "mark" => v5.at = "report") /\ (runtime => at = "execute")
      BY <2>1
    <3>6. Client!AtHand'
      BY <1>3, <2>3, <3>1, <3>5 DEF Client!AtHand
    <3>7. \A d \in Cmds : d \in v5.cur \union v5.todo => d \in v11' \/ d \in v5'.todo
      BY <2>4, <2>6, <3>1
    <3>8. Client!GivenUp' /\ Client!DispatchedIsHeld'
      BY <1>1, <1>2, <2>1, <2>3, <2>6, <3>1, <3>3, <3>5, <3>7 DEF Client!GivenUp, Client!DispatchedIsHeld
    <3> QED
      BY <1>2, <2>1, <2>3, <2>6, <3>1, <3>4, <3>5, <3>6, <3>8
  <2>7. \/ /\ Client!Served(verdict, c) /\ v5' = [v5 EXCEPT !.at = at, !.cur = {}, !.todo = v5.todo]
           /\ UNCHANGED <<v6, v11>>
        \/ /\ v1' = v1 /\ v5' = [v5 EXCEPT !.at = at, !.cur = {}, !.todo = IF runtime THEN {} ELSE v5.todo]
           /\ v11' = v11 \union (({c} \union (IF runtime THEN v5.todo ELSE {})) \intersect Cmds)
           /\ v6' = v6 \/ v6' = v6 \union {<<verdict, c>>}
    BY <1>7 DEF Client!Report
  <2> QED
    BY <2>5, <2>6, <2>7
<1>8. ASSUME NEW answer \in BOOLEAN, Client!PollRuntime(answer) PROVE Goal
  <2> DEFINE rows == {c \in v3 : v1[c].status = "pending"}
             ls == {l \in Runtime : v2[l] = "pending"}
             marked == [c \in Cmds |-> IF c \in rows THEN [v1[c] EXCEPT !.status = "dispatched"] ELSE v1[c]]
  <2>1. v5.at = "mark" /\ v5.todo = {} /\ UNCHANGED <<v3, v6, v10>>
    BY <1>8 DEF Client!PollRuntime
  <2>2. rows \subseteq Cmds /\ ls \subseteq Runtime /\ \A c \in rows : v1[c].status = "pending"
    BY <1>1
  <2>3. /\ marked \in [Cmds -> Client!Row]
        /\ \A c \in Cmds : /\ marked[c].retries = v1[c].retries
                           /\ marked[c].status = IF c \in rows THEN "dispatched" ELSE v1[c].status
    <3>1. ASSUME NEW c \in Cmds
          PROVE  LET x == IF c \in rows THEN [v1[c] EXCEPT !.status = "dispatched"] ELSE v1[c] IN
                   x \in Client!Row /\ x.retries = v1[c].retries /\ x.status = IF c \in rows THEN "dispatched" ELSE v1[c].status
      <4>1. v1[c] \in Client!Row
        BY <1>1
      <4> HIDE DEF rows
      <4> QED
        BY <4>1 DEF Client!Row
    <3> HIDE DEF rows
    <3> QED
      BY <3>1
  <2>4. CASE /\ v1' = marked /\ v5' = [Client!Idle("execute") EXCEPT !.todo = rows \union ls] /\ v11' = v11
    <3> HIDE DEF rows, ls, marked
    <3>1. v5' \in Hand /\ v5'.at = "execute" /\ v5'.todo = rows \union ls /\ v5'.cur = {}
      <4>1. "execute" \in Points /\ rows \union ls \in SUBSET Ids
        BY <2>2 DEF Points, Ids
      <4> QED
        BY <2>4, <4>1, ClientIdle
    <3> HIDE DEF Hand
    <3>2. ClientTypes'
      BY <1>1, <2>1, <2>3, <2>4, <3>1 DEF ClientTypes, Hand
    <3>3. Client!AtHand' /\ Client!GivenUp' /\ Client!DispatchedIsHeld'
      BY <1>1, <1>2, <1>3, <2>1, <2>2, <2>3, <2>4, <3>1 DEF Client!AtHand, Client!GivenUp, Client!DispatchedIsHeld
    <3> QED
      BY <1>2, <2>1, <2>2, <2>3, <2>4, <3>1, <3>2, <3>3
  <2>5. CASE /\ v5' = Client!Idle("execute")
             /\ (v1' = marked /\ v11' = v11 \union rows) \/ (v1' = v1 /\ v11' = v11)
    <3> HIDE DEF rows, ls, marked
    <3>1. v5' \in Hand /\ v5'.at = "execute" /\ v5'.todo = {} /\ v5'.cur = {}
      <4>1. "execute" \in Points
        BY DEF Points
      <4> QED
        BY <2>5, <4>1, ClientIdle
    <3>2. /\ v1' \in [Cmds -> Client!Row]
          /\ \A c \in Cmds : /\ v1'[c].retries = v1[c].retries /\ (c \in v11 => c \in v11')
                             /\ v1'[c].status = v1[c].status \/ (c \in v11' /\ v1'[c].status = "dispatched" /\ v1[c].status = "pending")
      BY <1>1, <2>2, <2>3, <2>5
    <3> HIDE DEF Hand
    <3>3. ClientTypes'
      BY <1>1, <2>1, <3>1, <3>2 DEF ClientTypes, Hand
    <3>4. Client!AtHand' /\ Client!GivenUp' /\ Client!DispatchedIsHeld'
      BY <1>1, <1>2, <1>3, <2>1, <3>1, <3>2 DEF Client!AtHand, Client!GivenUp, Client!DispatchedIsHeld
    <3> QED
      BY <1>2, <2>1, <3>1, <3>2, <3>3, <3>4
  <2>6. \/ v1' = marked /\ v5' = [Client!Idle("execute") EXCEPT !.todo = rows \union ls] /\ v11' = v11
        \/ /\ v5' = Client!Idle("execute")
           /\ (v1' = marked /\ v11' = v11 \union rows) \/ (v1' = v1 /\ v11' = v11)
    <3>1. [Client!Idle("execute") EXCEPT !.todo = {}] = Client!Idle("execute")
      BY DEF Client!Idle
    <3> QED
      BY <1>8, <3>1 DEF Client!PollRuntime
  <2> QED
    BY <2>4, <2>5, <2>6
<1>9. ASSUME NEW c \in Ids, NEW exit \in {0, 1}, Client!ExecuteRuntime(c, exit) PROVE Goal
  <2>1. /\ UNCHANGED <<v1, v3, v6, v10, v11>> /\ v5.at = "execute" /\ c \in v5.todo
        /\ v5' = [at |-> "post", todo |-> v5.todo \ {c}, cur |-> {c}, exit |-> exit]
    BY <1>9 DEF Client!ExecuteRuntime
  <2>2. v5' \in Hand /\ v5'.at = "post" /\ v5'.todo = v5.todo \ {c} /\ v5'.cur = {c}
    <3>1. "post" \in Points /\ exit \in Client!Codes
      BY DEF Points, Client!Codes
    <3> QED
      BY <1>1, <2>1, <3>1
  <2> HIDE DEF Hand
  <2>3. ClientTypes'
    BY <1>1, <2>1, <2>2 DEF ClientTypes, Hand
  <2>4. Client!AtHand' /\ Client!GivenUp' /\ Client!DispatchedIsHeld'
    BY <1>1, <1>2, <1>3, <2>1, <2>2 DEF Client!AtHand, Client!GivenUp, Client!DispatchedIsHeld
  <2> QED
    BY <1>2, <2>1, <2>2, <2>3, <2>4
<1>10. ASSUME Client!EndCycle \/ Client!Crash PROVE Goal
  <2>1. /\ UNCHANGED <<v1, v3, v6, v10>> /\ v5' = Client!Idle("sleep")
        /\ \/ v5.at = "execute" /\ v5.todo = {} /\ v11' = v11
           \/ v11' = v11 \union ((v5.cur \union (IF v5.at \in {"execute", "post"} THEN v5.todo ELSE {})) \intersect Cmds)
    BY <1>10 DEF Client!EndCycle, Client!Crash
  <2>2. v5' \in Hand /\ v5'.at = "sleep" /\ v5'.todo = {} /\ v5'.cur = {}
    <3>1. "sleep" \in Points
      BY DEF Points
    <3> QED
      BY <2>1, <3>1, ClientIdle
  <2>3. \A c \in Cmds : (c \in v11 => c \in v11') /\ (v1[c].status = "dispatched" /\ c \in v5.cur \union v5.todo => c \in v11')
    BY <1>1, <1>2, <1>3, <2>1 DEF Points
  <2> HIDE DEF Hand
  <2>4. ClientTypes'
    BY <1>1, <2>1, <2>2 DEF ClientTypes, Hand
  <2>5. Client!AtHand' /\ Client!GivenUp' /\ Client!DispatchedIsHeld'
    BY <1>1, <1>2, <1>3, <2>1, <2>2, <2>3 DEF Client!AtHand, Client!GivenUp, Client!DispatchedIsHeld
  <2> QED
    BY <1>2, <2>1, <2>2, <2>4, <2>5
<1>11. Goal => ClientInv'
  BY ClientKeepsHand
<1>12. ASSUME NEW c \in Cmds, NEW exit \in Client!Codes, Client!Execute(c, exit) PROVE ClientInv'
  <2>1. v5.at = "run" /\ c \in v5.cur /\ v10' = [v10 EXCEPT ![c] = v10[c] + 1] /\ UNCHANGED <<v1, v3, v6>>
        /\ \/ v5' = [v5 EXCEPT !.at = "mark", !.cur = {}] /\ v11' = v11 \union {c}
           \/ v5' = [v5 EXCEPT !.at = "report", !.exit = exit] /\ v11' = v11
    BY <1>12 DEF Client!Execute
  <2>2. v5.cur = {c} /\ c \notin v5.todo
    BY <1>3, <2>1
  <2>3. v5' \in Hand /\ v5'.todo = v5.todo
        /\ \/ v5'.at = "mark" /\ v5'.cur = {} /\ v11' = v11 \union {c}
           \/ v5'.at = "report" /\ v5'.cur = v5.cur /\ v11' = v11
    <3>1. "mark" \in Points /\ "report" \in Points
      BY DEF Points
    <3> QED
      BY <1>1, <2>1, <3>1
  <2>4. v10' \in [Cmds -> Nat] /\ v10'[c] = v10[c] + 1 /\ \A d \in Cmds \ {c} : v10'[d] = v10[d]
    BY <1>1, <2>1
  <2>5. ClientTypes'
    BY <1>1, <2>1, <2>3, <2>4 DEF ClientTypes
  <2> HIDE DEF Hand
  <2>6. Client!AtHand' /\ Client!GivenUp' /\ Client!DispatchedIsHeld'
    BY <1>1, <1>2, <1>3, <2>1, <2>2, <2>3 DEF Client!AtHand, Client!GivenUp, Client!DispatchedIsHeld
  <2>7. /\ v10[c] + (IF v1[c].status = "pending" THEN 1 ELSE 0) <= v1[c].retries
        /\ \A d \in Cmds : /\ v1[d].status = "absent" => v10[d] = 0 /\ d \notin v5.cur \union v5.todo
                           /\ v1[d].status = "pending" \/ d \in v5.todo => v10[d] <= v1[d].retries
                           /\ v10[d] <= 1 + v1[d].retries
    BY <1>0, <2>1 DEF Client!ExecutionsLeft, Client!CommandsAreKept, Client!RunPerAttempt
  <2>8. v1[c].retries \in Nat /\ v10[c] \in Nat
    BY <1>0, ClientTyped
  <2>9. v10'[c] <= 1 + v1[c].retries /\ (v1[c].status = "pending" => v10'[c] <= v1[c].retries)
    <3> DEFINE n == v10[c]
               r == v1[c].retries
    <3>1. n + (IF v1[c].status = "pending" THEN 1 ELSE 0) <= r /\ n \in Nat /\ r \in Nat
      BY <2>7, <2>8
    <3> HIDE DEF n, r
    <3>2. n + 1 <= 1 + r /\ (v1[c].status = "pending" => n + 1 <= r)
      BY <3>1
    <3> QED
      BY <2>4, <3>2 DEF n, r
  <2>10. Client!ExecutionsLeft'
    <3> SUFFICES ASSUME NEW d \in Cmds
                 PROVE  /\ v1[d].status = "absent" => v10'[d] = 0 /\ d \notin v5'.cur \union v5'.todo
                        /\ v1[d].status = "pending" \/ d \in v5'.todo => v10'[d] <= v1[d].retries
      BY <2>1, <2>3 DEF Client!ExecutionsLeft
    <3>1. CASE d = c
      BY <2>1, <2>2, <2>3, <2>7, <2>9, <3>1
    <3>2. CASE d # c
      BY <2>2, <2>3, <2>4, <2>7, <3>2
    <3> QED
      BY <3>1, <3>2
  <2>11. Client!CommandsAreKept'
    <3>1. \A d \in Cmds : v10'[d] <= 1 + v1'[d].retries
      BY <2>1, <2>4, <2>7, <2>9
    <3> QED
      BY <2>6, <3>1 DEF Client!CommandsAreKept, Client!RunPerAttempt
  <2> QED
    BY <2>5, <2>6, <2>10, <2>11 DEF ClientInv
<1> QED
  <2> HIDE DEF Goal
  <2> QED
    BY <1>4, <1>5, <1>6, <1>7, <1>8, <1>9, <1>10, <1>11, <1>12

LEMMA ClientCorrect == ConsoleSpec => [](focus = "agent" => ClientInv)
<1> DEFINE I == focus = "agent" => ClientInv
<1>1. ConsoleInit => I
  <2> SUFFICES ASSUME Client!Init PROVE ClientInv
    BY DEF ConsoleInit
  <2>1. PICK type \in [Cmds -> Client!Types] : v1 = [c \in Cmds |-> [status |-> "absent", retries |-> 0, type |-> type[c]]]
    BY DEF Client!Init
  <2>2. v1 \in [Cmds -> Client!Row] /\ \A c \in Cmds : v1[c].status = "absent" /\ v1[c].retries = 0
    BY <2>1 DEF Client!Row
  <2>3. v3 = {} /\ v5 = Client!Idle("sleep") /\ v6 = {} /\ v10 = [c \in Cmds |-> 0] /\ v11 = {}
    BY DEF Client!Init
  <2>4. /\ v5 \in [at : Points, todo : SUBSET Ids, cur : SUBSET Ids, exit : Client!Codes]
        /\ v5.at = "sleep" /\ v5.todo = {} /\ v5.cur = {}
    <3>1. "sleep" \in Points
      BY DEF Points
    <3> QED
      BY <2>3, <3>1, ClientIdle
  <2>5. ClientTypes
    BY <2>2, <2>3, <2>4 DEF ClientTypes
  <2>6. \A c \in Cmds : v10[c] = 0 /\ v10[c] <= 1 + v1[c].retries
    BY <2>2, <2>3
  <2> QED
    BY <2>2, <2>3, <2>4, <2>5, <2>6 DEF ClientInv, Client!AtHand, Client!ExecutionsLeft, Client!GivenUp, Client!Sending,
       Client!CommandsAreKept, Client!RunPerAttempt, Client!DispatchedIsHeld
<1>2. I /\ [ConsoleNext]_ConsoleVars => I'
  <2> SUFFICES ASSUME ClientInv, [ConsoleNext]_ConsoleVars, focus = "agent" PROVE ClientInv'
    BY Focused
  <2>1. CASE UNCHANGED slots
    BY <2>1 DEF slots, ClientInv, ClientTypes, Client!AtHand, Client!ExecutionsLeft, Client!GivenUp, Client!Sending,
       Client!CommandsAreKept, Client!RunPerAttempt, Client!DispatchedIsHeld
  <2>2. CASE Client!Next
    BY <2>2, ServerKeeps, AgentKeeps DEF Client!Next, Ids
  <2> QED
    BY <2>1, <2>2, Focused
<1> QED
  BY <1>1, <1>2, PTL DEF ConsoleSpec

\* An attempt of a command is executed at most once, and a row that stays dispatched has its
\* command in the hands of the agent, unless a request got lost or late, the process died or a
\* handler raised (run_once, execute_enterprise_command), for any number of commands and failures.
THEOREM CommandsAreKeptCorrect == ConsoleSpec => []CommandsAreKept
<1>1. (focus = "agent" => ClientInv) => CommandsAreKept
  BY DEF CommandsAreKept, ClientInv
<1> QED
  BY <1>1, ClientCorrect, PTL

\* What one step does to the token of one command, in the terms of CommandLifecycle.
ClientMoves(c) ==
  LET from(P) == Client!Place(c) \in P
      to(p)   == Client!Place(c)' = p
      kept    == v1'[c].retries = v1[c].retries
      unrun   == v10'[c] = v10[c]
  IN \/ from({"new"}) /\ to("queued") /\ kept /\ unrun
     \/ from({"queued"}) /\ (to("agent") \/ to("lost")) /\ kept /\ unrun
     \/ from({"agent"}) /\ (to("success") \/ to("failure") \/ to("lost")) /\ kept /\ v10'[c] = v10[c] + 1
     \/ from({"agent"}) /\ to("failure") /\ kept /\ unrun
     \/ from({"success"}) /\ to("done") /\ kept /\ unrun
     \/ from({"failure"}) /\ to("failed") /\ kept /\ unrun
     \/ from({"failed"}) /\ to("queued") /\ v1[c].retries < 1 /\ v1'[c].retries = v1[c].retries + 1 /\ unrun
     \/ from({"agent", "success", "failure"}) /\ to("lost") /\ kept /\ unrun
     \/ to("raced")
     \/ to(Client!Place(c)) /\ kept /\ unrun

\* ToldOnce, of one command.
ClientTold(c) ==
  /\ c \in v5.cur \/ (~Client!Sending /\ c \in v5.todo) => v1[c].status = "dispatched"
  /\ Client!Sending /\ c \in v5.todo => v1[c].status \in {"pending", "dispatched"}
  /\ <<"sent", c>> \in v6 => v1[c].status # "absent"
  /\ <<"completed", c>> \in v6 \/ <<"failed", c>> \in v6 =>
       v1[c].status = "dispatched" /\ c \notin v5.cur /\ c \notin v5.todo
  /\ <<"completed", c>> \notin v6 \/ <<"failed", c>> \notin v6

LEMMA ClientAtRest ==
  /\ Client!AtRest["absent"] = "new" /\ Client!AtRest["pending"] = "queued"
  /\ Client!AtRest["completed"] = "done" /\ Client!AtRest["failed"] = "failed"
BY DEF Client!AtRest

\* The server's steps move the token of a command in one of these ways.
LEMMA ServerMoves ==
  ASSUME ClientInv, NEW c \in Cmds, ClientTold(c),
         \/ \E d \in Cmds : Client!QueueCommand(d) \/ Client!Retry(d)
         \/ \E l \in Runtime : Client!CreateCommand(l)
         \/ \E m \in v6 : Client!ServeLate(m)
         \/ Client!ServerForgets
  PROVE  ClientMoves(c) /\ ClientTold(c)'
<1> USE ClientAtRest DEF ClientMoves, ClientTold, Client!Place, Client!Carried, Client!Sending
<1>0. /\ ClientTypes /\ Client!AtHand /\ Client!ExecutionsLeft
  BY DEF ClientInv
<1>1. /\ v1 \in [Cmds -> Client!Row] /\ v1[c] \in Client!Row /\ v6 \subseteq Requested
      /\ v1[c].status \in {"absent", "pending", "dispatched", "completed", "failed"} /\ v1[c].retries \in Nat
      /\ v1[c].status = "absent" => c \notin v5.cur \union v5.todo
  BY <1>0, ClientTyped DEF ClientTypes, Client!ExecutionsLeft
<1>2. ASSUME NEW d \in Cmds, Client!QueueCommand(d) PROVE ClientMoves(c) /\ ClientTold(c)'
  <2>1. v1[d].status = "absent" /\ v1' = [v1 EXCEPT ![d].status = "pending"] /\ UNCHANGED <<v5, v6, v8, v10>>
    BY <1>2 DEF Client!QueueCommand
  <2>2. v1'[c].status = (IF c = d THEN "pending" ELSE v1[c].status) /\ v1'[c].retries = v1[c].retries
    BY <1>1, <2>1 DEF Client!Row
  <2> QED
    BY <1>1, <2>1, <2>2
<1>3. ASSUME NEW d \in Cmds, Client!Retry(d) PROVE ClientMoves(c) /\ ClientTold(c)'
  <2>1. /\ v1[d].status = "failed" /\ v1[d].retries < 1 /\ UNCHANGED <<v5, v6, v8, v10>>
        /\ v1' = [v1 EXCEPT ![d].status = "pending", ![d].retries = @ + 1]
    BY <1>3 DEF Client!Retry
  <2>2. /\ v1'[c].status = IF c = d THEN "pending" ELSE v1[c].status
        /\ v1'[c].retries = IF c = d THEN v1[c].retries + 1 ELSE v1[c].retries
    BY <1>1, <2>1 DEF Client!Row
  <2> QED
    BY <1>1, <2>1, <2>2
<1>4. ASSUME NEW l \in Runtime, Client!CreateCommand(l) PROVE ClientMoves(c) /\ ClientTold(c)'
  BY <1>4 DEF Client!CreateCommand
<1>5. ASSUME NEW m \in v6, Client!ServeLate(m) PROVE ClientMoves(c) /\ ClientTold(c)'
  <2> DEFINE what == m[1]
             d == m[2]
  <2>1. what \in {"sent", "completed", "failed"} /\ m = <<what, d>>
    BY <1>1 DEF Requested
  <2>2. Client!Served(what, d) /\ v6' = v6 \ {m} /\ UNCHANGED <<v5, v10>>
        /\ v8' = v8 \union {e \in Cmds : m = <<"sent", e>> /\ v1[e].status \in {"completed", "failed"}}
    BY <1>5 DEF Client!ServeLate
  <2> HIDE DEF what, d
  <2>3. v1'[c].retries = v1[c].retries
        /\ v1'[c].status = IF c # d THEN v1[c].status ELSE IF what = "sent" THEN "dispatched" ELSE what
    BY <1>0, <2>1, <2>2, ClientServed
  <2>4. CASE c # d
    <3>1. \A w : <<w, c>> # m
      BY <2>1, <2>4
    <3>2. c \in v8' <=> c \in v8
      BY <2>2, <3>1
    <3>3. \A w : <<w, c>> \in v6' <=> <<w, c>> \in v6
      BY <2>2, <3>1
    <3> QED
      BY <1>1, <2>2, <2>3, <2>4, <3>2, <3>3
  <2>5. CASE c = d /\ what = "sent"
    <3>1. /\ c \in v8' <=> c \in v8 \/ v1[c].status \in {"completed", "failed"}
          /\ \A w : w # "sent" => (<<w, c>> \in v6' <=> <<w, c>> \in v6)
          /\ <<"sent", c>> \in v6
      BY <2>1, <2>2, <2>5
    <3> QED
      BY <1>1, <2>2, <2>3, <2>5, <3>1
  <2>6. CASE c = d /\ what # "sent"
    <3>1. /\ c \in v8' <=> c \in v8
          /\ \A w : <<w, c>> \in v6' <=> <<w, c>> \in v6 /\ w # what
          /\ <<what, c>> \in v6
      BY <2>1, <2>2, <2>6
    <3> QED
      BY <1>1, <2>1, <2>2, <2>3, <2>6, <3>1
  <2> QED
    BY <2>4, <2>5, <2>6
<1>6. ASSUME Client!ServerForgets PROVE ClientMoves(c) /\ ClientTold(c)'
  BY <1>1, <1>6 DEF Client!ServerForgets
<1> QED
  BY <1>2, <1>3, <1>4, <1>5, <1>6

\* And so do the agent's.
LEMMA AgentMoves ==
  ASSUME ClientInv, NEW c \in Cmds, ClientTold(c),
         \/ \E d \in Cmds : Client!MarkSent(d) \/ (\E exit \in Client!Codes : Client!Execute(d, exit))
         \/ Client!EndCycle \/ Client!Crash
         \/ \E answer \in BOOLEAN : \/ Client!PollEnterprise(answer) \/ Client!PollRuntime(answer)
                                   \/ \E disks \in Client!Disks : Client!Heartbeat(disks, answer)
         \/ \E d \in Ids : Client!Report(d) \/ (\E exit \in {0, 1} : Client!ExecuteRuntime(d, exit))
  PROVE  ClientMoves(c) /\ ClientTold(c)'
<1> USE ClientAtRest DEF ClientMoves, ClientTold, Client!Place, Client!Carried, Client!Sending
<1>0. /\ ClientTypes /\ Client!AtHand /\ Client!ExecutionsLeft
  BY DEF ClientInv
<1>1. /\ v1 \in [Cmds -> Client!Row] /\ v1[c] \in Client!Row /\ v3 \subseteq Cmds /\ v10 \in [Cmds -> Nat]
      /\ v5 \in [at : Points, todo : SUBSET Ids, cur : SUBSET Ids, exit : Client!Codes]
      /\ v1[c].status \in {"absent", "pending", "dispatched", "completed", "failed"} /\ v1[c].retries \in Nat
      /\ v1[c].status = "absent" => c \notin v5.cur /\ c \notin v5.todo
  BY <1>0, ClientTyped DEF ClientTypes, Client!ExecutionsLeft
<1>2. /\ \A a, b \in v5.cur : a = b
      /\ v5.at \in {"sleep", "poll", "mark", "execute"} => v5.cur = {}
      /\ v5.at \in {"sleep", "poll"} => v5.todo = {}
      /\ v5.cur \intersect v5.todo = {}
  BY <1>0 DEF Client!AtHand
<1>3. ASSUME NEW answer \in BOOLEAN, NEW disks \in Client!Disks, Client!Heartbeat(disks, answer)
      PROVE  ClientMoves(c) /\ ClientTold(c)'
  <2>1. /\ UNCHANGED <<v1, v6, v8, v10>> /\ v5.at = "sleep"
        /\ v5' = v5 \/ v5' = Client!Idle("poll")
    BY <1>3 DEF Client!Heartbeat
  <2>2. Client!Idle("poll").at = "poll" /\ Client!Idle("poll").todo = {} /\ Client!Idle("poll").cur = {}
    BY DEF Client!Idle
  <2> QED
    BY <1>1, <1>2, <2>1, <2>2
<1>4. ASSUME NEW answer \in BOOLEAN, Client!PollEnterprise(answer) PROVE ClientMoves(c) /\ ClientTold(c)'
  <2>1. /\ UNCHANGED <<v1, v6, v8, v10>> /\ v5.at = "poll" /\ v5'.at = "mark" /\ v5'.cur = {}
        /\ c \in v5'.todo => v1[c].status = "pending"
    BY <1>4 DEF Client!PollEnterprise, Client!Idle
  <2> QED
    BY <1>1, <1>2, <2>1
<1>5. ASSUME NEW d \in Cmds, Client!MarkSent(d) PROVE ClientMoves(c) /\ ClientTold(c)'
  <2>1. v5.at = "mark" /\ d \in v5.todo /\ UNCHANGED <<v8, v10>> /\ v5.cur = {}
    BY <1>2, <1>5 DEF Client!MarkSent
  <2>2. CASE Client!Served("sent", d) /\ v5' = [v5 EXCEPT !.at = "run", !.todo = @ \ {d}, !.cur = {d}] /\ v6' = v6
    <3>1. v1'[c].retries = v1[c].retries /\ v1'[c].status = IF c = d THEN "dispatched" ELSE v1[c].status
      BY <1>0, <2>2, ClientServed
    <3>2. v5'.at = "run" /\ v5'.cur = {d} /\ v5'.todo = v5.todo \ {d}
      BY <1>1, <2>2
    <3> QED
      BY <1>1, <2>1, <2>2, <3>1, <3>2
  <2>3. CASE v1' = v1 /\ v5' = [v5 EXCEPT !.todo = @ \ {d}] /\ (v6' = v6 \/ v6' = v6 \union {<<"sent", d>>})
    <3>1. v5'.at = "mark" /\ v5'.cur = {} /\ v5'.todo = v5.todo \ {d}
      BY <1>1, <2>1, <2>3
    <3>2. /\ \A w : w # "sent" => (<<w, c>> \in v6' <=> <<w, c>> \in v6)
          /\ <<"sent", c>> \in v6' => <<"sent", c>> \in v6 \/ c = d
      BY <2>3
    <3> QED
      BY <1>1, <2>1, <2>3, <3>1, <3>2
  <2> QED
    BY <1>5, <2>2, <2>3, Zenon DEF Client!MarkSent
<1>6. ASSUME NEW d \in Cmds, NEW exit \in Client!Codes, Client!Execute(d, exit) PROVE ClientMoves(c) /\ ClientTold(c)'
  <2>1. /\ v5.at = "run" /\ d \in v5.cur /\ UNCHANGED <<v1, v6, v8>>
        /\ v10' = [v10 EXCEPT ![d] = @ + 1]
        /\ \/ v5' = [v5 EXCEPT !.at = "mark", !.cur = {}]
           \/ v5' = [v5 EXCEPT !.at = "report", !.exit = exit]
    BY <1>6 DEF Client!Execute
  <2>2. v5.cur = {d} /\ d \notin v5.todo /\ v10'[c] = IF c = d THEN v10[c] + 1 ELSE v10[c]
    BY <1>1, <1>2, <2>1
  <2>3. /\ v5'.todo = v5.todo
        /\ (v5'.at = "mark" /\ v5'.cur = {}) \/ (v5'.at = "report" /\ v5'.cur = {d})
    BY <1>1, <2>1, <2>2
  <2> QED
    BY <1>1, <2>1, <2>2, <2>3
<1>7. ASSUME NEW d \in Ids, Client!Report(d) PROVE ClientMoves(c) /\ ClientTold(c)'
  <2> DEFINE verdict == Client!Verdict
             at == IF v5.at = "post" THEN "execute" ELSE "mark"
  <2>1. v5.at \in {"report", "post"} /\ d \in v5.cur /\ UNCHANGED <<v8, v10>> /\ v5.cur = {d} /\ d \notin v5.todo
    BY <1>2, <1>7 DEF Client!Report
  <2>2. (v5.exit = 0 /\ verdict = "completed") \/ (v5.exit # 0 /\ verdict = "failed")
    BY DEF Client!Verdict
  <2>3. /\ v5'.at = at /\ v5'.cur = {}
        /\ \/ Client!Served(verdict, d) /\ v6' = v6 /\ v5'.todo = v5.todo
           \/ /\ v1' = v1 /\ (v6' = v6 \/ v6' = v6 \union {<<verdict, d>>})
              /\ v5'.todo = v5.todo \/ (v5.at = "post" /\ v5'.todo = {})
    BY <1>1, <1>7 DEF Client!Report
  <2> HIDE DEF verdict
  <2>4. CASE Client!Served(verdict, d) /\ v6' = v6 /\ v5'.todo = v5.todo
    <3>1. v1'[c].retries = v1[c].retries /\ v1'[c].status = IF c = d THEN verdict ELSE v1[c].status
      BY <1>0, <2>2, <2>4, ClientServed
    <3> QED
      BY <1>1, <2>1, <2>2, <2>3, <2>4, <3>1
  <2>5. CASE /\ v1' = v1 /\ (v6' = v6 \/ v6' = v6 \union {<<verdict, d>>})
             /\ v5'.todo = v5.todo \/ (v5.at = "post" /\ v5'.todo = {})
    <3>1. CASE c # d
      <4>1. /\ <<"sent", c>> \in v6' <=> <<"sent", c>> \in v6
            /\ <<"completed", c>> \in v6' <=> <<"completed", c>> \in v6
            /\ <<"failed", c>> \in v6' <=> <<"failed", c>> \in v6
        BY <2>5, <3>1
      <4>2. c \notin v5.cur /\ c \notin v5'.cur /\ v1'[c] = v1[c] /\ (c \in v8' <=> c \in v8) /\ v10'[c] = v10[c]
        BY <2>1, <2>3, <2>5, <3>1
      <4>3. CASE v5'.todo = v5.todo
        BY <2>1, <2>3, <4>1, <4>2, <4>3
      <4>4. CASE v5.at = "post" /\ v5'.todo = {}
        BY <1>1, <2>3, <4>1, <4>2, <4>4
      <4> QED
        BY <2>5, <4>3, <4>4
    <3>2. CASE c = d
      <4>1. /\ v1[c].status = "dispatched" /\ <<"completed", c>> \notin v6 /\ <<"failed", c>> \notin v6
            /\ c \notin v5'.cur /\ c \notin v5'.todo
        BY <2>1, <2>3, <2>5, <3>2
      <4>2. CASE v6' = v6
        BY <2>1, <2>2, <2>3, <2>5, <3>2, <4>1, <4>2
      <4>3. CASE v6' = v6 \union {<<verdict, c>>}
        <5>1. /\ <<"sent", c>> \in v6' <=> <<"sent", c>> \in v6
              /\ <<"completed", c>> \in v6' <=> verdict = "completed"
              /\ <<"failed", c>> \in v6' <=> verdict = "failed"
              /\ v1'[c].status = "dispatched"
          BY <2>2, <2>5, <3>2, <4>1, <4>3
        <5>2. ClientTold(c)'
          BY <2>2, <4>1, <5>1
        <5>3. Client!Place(c)' = Client!Place(c)
          BY <2>1, <2>2, <2>3, <3>2, <4>1, <5>1
        <5> HIDE DEF ClientTold, Client!Place, Client!Carried
        <5> QED
          BY <2>1, <2>5, <5>2, <5>3
      <4> QED
        BY <2>5, <3>2, <4>2, <4>3
    <3> QED
      BY <3>1, <3>2
  <2> QED
    BY <2>3, <2>4, <2>5
<1>8. ASSUME NEW answer \in BOOLEAN, Client!PollRuntime(answer) PROVE ClientMoves(c) /\ ClientTold(c)'
  <2>1. v5.at = "mark" /\ v5.todo = {} /\ v5.cur = {} /\ UNCHANGED <<v6, v8, v10>> /\ v5'.at = "execute" /\ v5'.cur = {}
    BY <1>2, <1>8 DEF Client!PollRuntime, Client!Idle
  <2>2. \/ v1' = v1 /\ v5'.todo = {}
        \/ /\ v1'[c] = IF c \in v3 /\ v1[c].status = "pending" THEN [v1[c] EXCEPT !.status = "dispatched"] ELSE v1[c]
           /\ c \in v5'.todo => c \in v3 /\ v1[c].status = "pending"
    BY <1>1, <1>8, IdsAssumption DEF Client!PollRuntime, Client!Idle
  <2>3. \/ v1'[c] = v1[c] /\ c \notin v5'.todo
        \/ v1[c].status = "pending" /\ v1'[c].status = "dispatched" /\ v1'[c].retries = v1[c].retries
    BY <1>1, <2>2 DEF Client!Row
  <2> QED
    BY <1>1, <2>1, <2>3
<1>9. ASSUME NEW d \in Ids, NEW exit \in {0, 1}, Client!ExecuteRuntime(d, exit) PROVE ClientMoves(c) /\ ClientTold(c)'
  <2>1. /\ UNCHANGED <<v1, v6, v8, v10>> /\ v5.at = "execute" /\ d \in v5.todo /\ v5.cur = {} /\ (d \in Cmds => exit = 1)
        /\ v5' = [at |-> "post", todo |-> v5.todo \ {d}, cur |-> {d}, exit |-> exit]
    BY <1>2, <1>9 DEF Client!ExecuteRuntime
  <2> QED
    BY <1>1, <2>1
<1>10. ASSUME Client!EndCycle \/ Client!Crash PROVE ClientMoves(c) /\ ClientTold(c)'
  <2>1. UNCHANGED <<v1, v6, v8, v10>> /\ v5'.at = "sleep" /\ v5'.todo = {} /\ v5'.cur = {}
    BY <1>10 DEF Client!EndCycle, Client!Crash, Client!Idle
  <2> QED
    BY <1>1, <2>1
<1> QED
  BY <1>3, <1>4, <1>5, <1>6, <1>7, <1>8, <1>9, <1>10

\* Also with the Python agent at the other end the queue is CommandLifecycle (agent_commands,
\* run_once, poll_commands): each command is queued, handed out, executed once or refused, reported and
\* accepted in this order, retried within the budget, and swallowed only on its way, until a late
\* /sent makes a row dispatched again that had ended, for any number of commands and failures.
THEOREM AgentKeepsPromiseCorrect == ConsoleSpec => AgentKeepsPromise
<1> DEFINE I == focus = "agent" => ClientInv
           J == focus = "agent" => \A c \in Cmds : ClientTold(c)
<1>1. ConsoleInit => J /\ Promise!Init
  <2> SUFFICES ASSUME ConsoleInit PROVE J /\ Promise!Init
    OBVIOUS
  <2>1. CASE focus = "agent"
    <3>1. Client!Init
      BY <2>1 DEF ConsoleInit
    <3>2. /\ \A c \in Cmds : v1[c].status = "absent" /\ v1[c].retries = 0 /\ v10[c] = 0
          /\ v5.cur = {} /\ v5.todo = {} /\ v6 = {} /\ v8 = {}
      BY <3>1 DEF Client!Init, Client!Idle
    <3>3. \A c \in Cmds : Client!Place(c) = "new" /\ ClientTold(c)
      BY <3>2, ClientAtRest DEF Client!Place, ClientTold
    <3> QED
      BY <2>1, <3>2, <3>3 DEF Promise!Init
  <2>2. CASE focus # "agent"
    BY <2>2 DEF Promise!Init, Unsent, Untried
  <2> QED
    BY <2>1, <2>2
<1>2. ASSUME ClientInv, J, [ConsoleNext]_ConsoleVars, focus = "agent", NEW c \in Cmds
      PROVE  ClientMoves(c) /\ ClientTold(c)'
  <2>1. CASE UNCHANGED slots
    <3>1. UNCHANGED <<v1, v5, v6, v8, v10>>
      BY <2>1 DEF slots
    <3> QED
      BY <1>2, <3>1 DEF ClientMoves, ClientTold, Client!Place, Client!Carried, Client!Sending
  <2>2. CASE Client!Next
    BY <1>2, <2>2, ServerMoves, AgentMoves DEF Client!Next, Ids
  <2> QED
    BY <1>2, <2>1, <2>2, Focused
<1>3. I /\ J /\ [ConsoleNext]_ConsoleVars => J'
  BY <1>2, Focused
<1>4. I /\ I' /\ J /\ [ConsoleNext]_ConsoleVars => [Promise!Next]_(Promise!vars)
  <2> SUFFICES ASSUME I, I', J, [ConsoleNext]_ConsoleVars PROVE [Promise!Next]_(Promise!vars)
    OBVIOUS
  <2>1. CASE focus = "agent"
    <3>1. focus' = "agent" /\ ClientInv /\ ClientInv' /\ \A c \in Cmds : ClientMoves(c)
      BY <1>2, <2>1, Focused
    <3>2. /\ \A c \in Cmds : v1'[c].retries \in Nat /\ v10'[c] \in Nat
          /\ \A c \in Cmds : v1'[c].status \in {"absent", "pending", "dispatched", "completed", "failed"}
      BY <3>1 DEF ClientInv, ClientTypes, Client!Row
    <3>3. \A c \in Cmds : Client!Place(c)' \in Promise!Places
      BY <3>2, ClientAtRest DEF Client!Place, Client!Carried, Promise!Places
    <3>4. ASSUME NEW c \in Cmds
          PROVE  \/ Promise!Submit(c) \/ Promise!HandOut(c) \/ Promise!Run(c) \/ Promise!Refuse(c)
                 \/ Promise!Accept(c) \/ Promise!Requeue(c) \/ Promise!Lose(c) \/ Promise!Race(c) \/ Promise!Stay(c)
      <4>1. ClientMoves(c)
        BY <3>1
      <4> QED
        BY <2>1, <3>1, <4>1 DEF ClientMoves, Promise!Submit, Promise!HandOut, Promise!Run, Promise!Refuse,
           Promise!Accept, Promise!Requeue, Promise!Lose, Promise!Race, Promise!Stay, Promise!Goes
    <3> QED
      BY <3>1, <3>2, <3>3, <3>4 DEF Promise!Next
  <2>2. CASE focus # "agent"
    <3>1. focus' = focus
      BY Focused
    <3> QED
      BY <2>2, <3>1 DEF Promise!vars, Unsent, Untried
  <2> QED
    BY <2>1, <2>2
<1> QED
  BY <1>1, <1>3, <1>4, ClientCorrect, PTL DEF ConsoleSpec, AgentKeepsPromise, Promise!Spec
=================================================================================
