------------------------------- MODULE EventFanOut -------------------------------
(***************************************************************************)
(* core/ws_manager.py: events on their way to dashboards.  Alert events are *)
(* batched in a queue that is flushed by size or by a timer; the other      *)
(* events go at once to the sockets of the channel "general".               *)
(*                                                                          *)
(* Alerts are raised by synchronous endpoints and workers, each in a thread *)
(* without an event loop: broadcast_sync runs the broadcast in a loop of    *)
(* its own with asyncio.run, and the flush timer is a task of that loop.    *)
(* Sockets all join "general"; none ever joins "alerts", so that a batch    *)
(* is sent to nobody, and what is kept here is which batches were sent.     *)
(***************************************************************************)
EXTENDS Integers, Sequences, SequencesExt, FiniteSets

CONSTANTS
  Raisers,    \* threads that raise alerts
  Sockets,    \* WebSocket connections of dashboards
  NoTimer,
  BatchSize,  \* BATCH_MAX_SIZE
  MaxEvents   \* bound on the alerts raised

VARIABLES queue,    \* _queues["alerts"]
          timer,    \* _flush_tasks["alerts"]: the thread whose loop it lives in, if not done
          raiser,   \* what each thread is about to do
          raised,   \* alerts raised so far
          sent,     \* the batches sent
          lost,     \* alerts that met a lock held in another thread's loop
          general,  \* _channels["general"]
          open      \* the sockets that are open

vars == <<queue, timer, raiser, raised, sent, lost, general, open>>

Raiser == [pc : {"idle", "flush", "sending", "returning"}, batch : Seq(1..MaxEvents)]

TypeOK ==
  /\ queue \in Seq(1..MaxEvents)
  /\ timer \in Raisers \union {NoTimer}
  /\ raiser \in [Raisers -> Raiser]
  /\ raised \in 0..MaxEvents
  /\ sent \in Seq(Seq(1..MaxEvents))
  /\ lost \subseteq 1..MaxEvents
  /\ general \subseteq Sockets /\ open \subseteq general

Init ==
  /\ queue = <<>> /\ timer = NoTimer
  /\ raiser = [t \in Raisers |-> [pc |-> "idle", batch |-> <<>>]]
  /\ raised = 0 /\ sent = <<>> /\ lost = {}
  /\ general = {} /\ open = {}

---------------------------------------------------------------------------
(* broadcast_sync in a thread *)

\* The event is queued.  A full queue is flushed by this thread; otherwise a timer is started
\* unless one is running.
Enqueue(t) ==
  /\ raiser[t].pc = "idle" /\ raised < MaxEvents
  /\ raised' = raised + 1
  /\ queue' = Append(queue, raised')
  /\ IF Len(queue') >= BatchSize
     THEN raiser' = [raiser EXCEPT ![t].pc = "flush"] /\ UNCHANGED timer
     ELSE /\ raiser' = [raiser EXCEPT ![t].pc = "returning"]
          /\ timer' = IF timer = NoTimer THEN t ELSE timer
  /\ UNCHANGED <<sent, lost, general, open>>

\* The lock belongs to the loop of whoever holds it: waiting for it raises, and
\* broadcast_sync drops the event.
Contend(t) ==
  /\ raiser[t].pc = "idle" /\ raised < MaxEvents
  /\ \E u \in Raisers \ {t} : raiser[u].pc # "idle"
  /\ raised' = raised + 1
  /\ lost' = lost \union {raised'}
  /\ UNCHANGED <<queue, timer, raiser, sent, general, open>>

\* asyncio.run cancels what is left of its loop, the timer included.
Return(t) ==
  /\ raiser[t].pc = "returning"
  /\ raiser' = [raiser EXCEPT ![t].pc = "idle"]
  /\ timer' = IF timer = t THEN NoTimer ELSE timer
  /\ UNCHANGED <<queue, raised, sent, lost, general, open>>

\* Mutant: the queue is emptied after the batch has been sent.
Flush_EmptyLater(t) ==
  /\ raiser[t].pc = "flush"
  /\ raiser' = [raiser EXCEPT ![t] = [pc |-> "sending", batch |-> queue]]
  /\ timer' = NoTimer
  /\ UNCHANGED <<queue, raised, sent, lost, general, open>>

\* flush_channel takes the whole queue under the lock; there may be nothing left to take.
Flush(t) ==
  /\ raiser[t].pc = "flush"
  /\ raiser' = [raiser EXCEPT ![t] =
       [pc |-> IF queue = <<>> THEN "returning" ELSE "sending", batch |-> queue]]
  /\ queue' = <<>>
  /\ timer' = NoTimer
  /\ UNCHANGED <<raised, sent, lost, general, open>>

\* One event is sent as it is, several in an envelope.
Send(t) ==
  /\ raiser[t].pc = "sending"
  /\ sent' = Append(sent, raiser[t].batch)
  /\ raiser' = [raiser EXCEPT ![t] = [pc |-> "returning", batch |-> <<>>]]
  /\ UNCHANGED <<queue, timer, raised, lost, general, open>>

---------------------------------------------------------------------------
(* The sockets of /ws, /ws/alerts and /ws/{device_id} *)

Connect(s) ==
  /\ s \notin general
  /\ general' = general \union {s} /\ open' = open \union {s}
  /\ UNCHANGED <<queue, timer, raiser, raised, sent, lost>>

\* manager.disconnect is a coroutine nobody awaits: the socket stays in its channel.
Disconnect(s) ==
  /\ open' = open \ {s} /\ s \in open
  /\ UNCHANGED <<queue, timer, raiser, raised, sent, lost, general>>

\* A heartbeat or a relayed message: sockets that cannot be written are discarded.
Broadcast ==
  /\ open # {}
  /\ general' = open
  /\ UNCHANGED <<queue, timer, raiser, raised, sent, lost, open>>

---------------------------------------------------------------------------

Raise(t) == Enqueue(t) \/ Contend(t)
Finish(t) == Return(t) \/ Flush(t) \/ Send(t)

Next ==
  \/ \E t \in Raisers : Raise(t) \/ Finish(t)
  \/ \E s \in Sockets : Connect(s) \/ Disconnect(s)
  \/ Broadcast

Spec == Init /\ [][Next]_vars

\* A thread that has raised an alert goes on.
FairSpec == Spec /\ \A t \in Raisers : WF_vars(Finish(t))

---------------------------------------------------------------------------
(* Properties *)

Queued(e) == Contains(queue, e)
HeldBy(e) == {t \in Raisers : Contains(raiser[t].batch, e)}
SentIn(e) == {i \in 1..Len(sent) : Contains(sent[i], e)}

\* However flushes overlap, an alert is either lost to a contended lock, or in the queue, or in
\* one batch: none is sent twice and none disappears between two flushes.
EveryAlertOnce ==
  \A e \in 1..raised :
    Cardinality(HeldBy(e)) + Cardinality(SentIn(e)) + (IF Queued(e) THEN 1 ELSE 0)
      = IF e \in lost THEN 0 ELSE 1

\* broadcast's docstring, "batch=True -> enqueue and flush by size or interval": a queued alert
\* leaves the queue.
QueuedIsFlushed == \A e \in 1..MaxEvents : Queued(e) ~> ~Queued(e)
\* Why: a batch is held while it is sent only, and an alert is in one place.
Held == \A t \in Raisers : raiser[t].pc # "sending" => raiser[t].batch = <<>>
Raised ==
  /\ lost \subseteq 1..raised
  /\ \A e \in 1..MaxEvents : Queued(e) \/ HeldBy(e) # {} \/ SentIn(e) # {} => e <= raised
InOnePlace(e) ==
  \/ (e \in lost <=> ~Queued(e)) /\ HeldBy(e) = {} /\ SentIn(e) = {}
  \/ e \notin lost /\ ~Queued(e) /\ (\E t \in Raisers : HeldBy(e) = {t}) /\ SentIn(e) = {}
  \/ e \notin lost /\ ~Queued(e) /\ HeldBy(e) = {} /\ (\E i \in 1..Len(sent) : SentIn(e) = {i})
Inv == TypeOK /\ Held /\ Raised /\ \A e \in 1..raised : InOnePlace(e)
==================================================================================
