------------------------------ MODULE DeviceHealth ------------------------------
(***************************************************************************)
(* Presence and health of one endpoint: its agents row and its devices row  *)
(* (services/device_health_service.py, workers/device_health_worker.py,     *)
(* the heartbeat of endpoints/agent_runtime.py, endpoints/devices.py).      *)
(*                                                                          *)
(* A heartbeat and the worker each read both rows, then write in one commit *)
(* the columns they changed, whatever was committed in between.             *)
(***************************************************************************)
EXTENDS Integers, FiniteSets

CONSTANTS Online, Overdue,   \* BHUDI_ONLINE_SECS, BHUDI_OVERDUE_SECS
          Shown,             \* ONLINE_SECS of endpoints/devices.py
          MaxAge, MaxMisses  \* bounds: ages beyond MaxAge are alike; misses beyond MaxMisses cost alike

VARIABLES age,     \* of last_seen and last_heartbeat, which only heartbeats write, in both rows at once
          agent, device,
          beat,    \* what the heartbeat in progress read, and whether it scores
          pass,    \* what the worker's pass in progress read
          noticed, \* history: the status the passes found since the last heartbeat
          missed,  \* history: the passes that found silence since the last reset of the counter
          raced,   \* history: the last heartbeat overlapped with a pass
          skewed   \* history: the last reset of the counter did

healthVars == <<age, agent, device, beat, pass, noticed, missed, raced, skewed>>

Status   == {"online", "overdue", "offline"}
\* held: penalty of the cpu, ram and disk columns.  more: of temperature and SMART, in no column.
Readings == {[held |-> h, more |-> m] : h \in {0, 60}, m \in {0, 30}}
NoBeat   == [open |-> FALSE, agent |-> "online", device |-> "online"]
NoPass   == [open |-> FALSE, age |-> 0, agent |-> "online", device |-> "online", misses |-> 0]

TypeOK ==
  /\ age \in 0..MaxAge /\ noticed \in Status /\ missed \in 0..MaxMisses /\ raced \in BOOLEAN /\ skewed \in BOOLEAN
  /\ agent \in [status : Status, score : 0..100]
  /\ device \in [status : Status, misses : 0..MaxMisses, held : {0, 60}, score : 0..100]
  /\ beat \in [open : BOOLEAN, agent : Status, device : Status]
  /\ pass \in [open : BOOLEAN, age : 0..MaxAge, agent : Status, device : Status, misses : 0..MaxMisses]

Least(a, b) == IF a < b THEN a ELSE b

\* Mutant: the limits compared in the wrong order.
StatusOf_Swapped(a) == IF a <= Online THEN "online" ELSE IF a <= Overdue THEN "offline" ELSE "overdue"
StatusOf(a) == IF a <= Online THEN "online" ELSE IF a <= Overdue THEN "overdue" ELSE "offline"

Score(status, misses, penalty) ==
  LET silence == [online |-> 0, overdue |-> 20, offline |-> 40][status]
      missing == IF misses > 1 THEN Least(30, 5 * (misses - 1)) ELSE 0
      left    == 100 - silence - missing - penalty
  IN  IF left < 0 THEN 0 ELSE left

\* Misses that an age stands for, with one heartbeat_interval a unit of time.
MissesOf(a) == Least(MaxMisses, IF a > 1 THEN a ELSE 1)

\* get_health_snapshot: "online" is not believed when the row is old.  The agent of an endpoint
\* in the runtime's memory always says so, and hides the stored status.
Snapshot(inMemory) == IF inMemory \/ device.status = "online" THEN StatusOf(age) ELSE device.status
\* list_devices_unified: the stored status is not looked at.
Listed   == IF age <= Shown THEN "online" ELSE "other"

Init ==
  /\ age = 0 /\ agent = [status |-> "online", score |-> 100]
  /\ device = [status |-> "online", misses |-> 0, held |-> 0, score |-> 100]
  /\ beat = NoBeat /\ pass = NoPass /\ noticed = "online" /\ missed = 0 /\ raced = FALSE /\ skewed = FALSE

Tick == age < MaxAge /\ age' = age + 1 /\ UNCHANGED <<agent, device, beat, pass, noticed, missed, raced, skewed>>

---------------------------------------------------------------------------
(* Heartbeats *)

\* An attribute that already had its value is not written: the row keeps what was committed since.
Beaten(read, old, new) == IF read = "online" THEN old ELSE new

BeatReads ==
  /\ ~beat.open
  /\ beat' = [open |-> TRUE, agent |-> agent.status, device |-> device.status]
  /\ UNCHANGED <<age, agent, device, pass, noticed, missed, raced, skewed>>

\* _sync_enterprise_agent: the status and last_seen of both rows.
Heartbeat ==
  /\ beat.open
  /\ agent' = Beaten(beat.agent, agent, [agent EXCEPT !.status = "online"])
  /\ device' = Beaten(beat.device, device, [device EXCEPT !.status = "online"])
  /\ age' = 0 /\ beat' = NoBeat /\ noticed' = "online"
  /\ raced' = (pass.open \/ beat.agent # agent.status \/ beat.device # device.status)
  /\ UNCHANGED <<pass, missed, skewed>>

\* on_heartbeat, which also scores and resets the counter; nothing in the application calls it.
OnHeartbeat(reading) ==
  LET score == Score("online", 0, reading.held + reading.more) IN
  /\ ~beat.open
  /\ agent' = [status |-> "online", score |-> score]
  /\ device' = [status |-> "online", misses |-> 0, held |-> reading.held, score |-> score]
  /\ age' = 0 /\ noticed' = "online" /\ missed' = 0 /\ raced' = pass.open /\ skewed' = pass.open
  /\ UNCHANGED <<beat, pass>>

\* The commit fails: rolled back, and the heartbeat is answered all the same.
BeatFails == beat.open /\ beat' = NoBeat /\ UNCHANGED <<age, agent, device, pass, noticed, missed, raced, skewed>>

---------------------------------------------------------------------------
(* process_stale_endpoints *)

PassReads ==
  /\ ~pass.open
  /\ pass' = [open |-> TRUE, age |-> age, agent |-> agent.status, device |-> device.status,
              misses |-> device.misses]
  /\ UNCHANGED <<age, agent, device, beat, noticed, missed, raced, skewed>>

\* Rows already offline are not visited, rows heard of lately not touched: only a heartbeat brings
\* a row back to online.  The counter of the device is the one read, plus one.
PassCommits ==
  LET found  == StatusOf(pass.age)
      misses == Least(MaxMisses, pass.misses + 1)
      stale(row) == found # "online" /\ row # "offline" IN
  /\ pass.open
  /\ agent' = IF stale(pass.agent)
              THEN [status |-> IF found = pass.agent THEN agent.status ELSE found,
                    score |-> Score(found, MissesOf(pass.age), 0)]
              ELSE agent
  /\ device' = IF stale(pass.device)
               THEN [device EXCEPT !.status = IF found = pass.device THEN @ ELSE found,
                       !.misses = misses, !.score = Score(found, misses, device.held)]
               ELSE device
  /\ noticed' = IF found = "online" \/ age < pass.age THEN noticed ELSE found
  /\ missed' = IF stale(pass.device) THEN Least(MaxMisses, missed + 1) ELSE missed
  /\ pass' = NoPass
  /\ UNCHANGED <<age, beat, raced, skewed>>

PassFails == pass.open /\ pass' = NoPass /\ UNCHANGED <<age, agent, device, beat, noticed, missed, raced, skewed>>

Next ==
  \/ Tick \/ BeatReads \/ Heartbeat \/ BeatFails
  \/ \E reading \in Readings : OnHeartbeat(reading)
  \/ PassReads \/ PassCommits \/ PassFails

Spec == Init /\ [][Next]_healthVars

---------------------------------------------------------------------------
(* Properties *)

\* Unless a heartbeat and a pass overlapped, both rows hold the status the last pass found, the
\* snapshot never contradicts the listing about who is online, and the counter is the number of
\* passes that found silence since it was reset.
PresenceFollowsHeartbeats ==
  /\ ~raced => /\ agent.status = noticed /\ device.status = noticed
               /\ \A m \in BOOLEAN : Snapshot(m) = "online" <=> Listed = "online"
  /\ ~skewed => device.misses = missed
\* Why: silence has lasted as long as the passes say, and what a pass that no heartbeat overlaps
\* has read is still so.
SilenceLasts == (noticed # "online" => age > Online) /\ (noticed = "offline" => age > Overdue)
PassHolds ==
  /\ pass.open /\ ~raced => /\ pass.agent = noticed /\ pass.device = noticed /\ pass.age <= age
                            /\ noticed = "offline" => pass.age > Overdue
  /\ pass.open /\ ~skewed => pass.misses = missed
RowsFollow ==
  /\ ~raced => agent.status = noticed /\ device.status = noticed
  /\ ~skewed => device.misses = missed
Inv == TypeOK /\ SilenceLasts /\ PassHolds /\ RowsFollow
=================================================================================
