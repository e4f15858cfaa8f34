-------------------------------- MODULE MCFleet --------------------------------
(***************************************************************************)
(* What the server does with the devices, in parts that share no state,     *)
(* checked one beside the other: the run starts in one component and stays  *)
(* with it. The INSTANCE says which variable of Gallery is which of the     *)
(* component's. SoftwareDeployment is extended, whose assumptions           *)
(* TLC evaluates, and keeps its own variables.                              *)
(***************************************************************************)
EXTENDS MCSoftwareDeployment, Gallery

CONSTANTS
  Parts,                                              \* the components the run starts in
  EscalateAt,                                         \* Alerts
  Online, Overdue, Shown, MaxAge, MaxMisses,          \* DeviceHealth
  Hosts, Requests,                                    \* PatchRollout
  Products, Findings, Endpoints                       \* EndpointSecurity

\* BHUDI_ONLINE_SECS and ONLINE_SECS of endpoints/devices.py are both 45.
ASSUME HealthAssumption == {Online, Overdue, MaxAge, MaxMisses} \subseteq Nat /\ Shown = Online
\* A device has an id, which is not the absence of one.
ASSUME EndpointsAssumption == "none" \notin Endpoints

Monitor == INSTANCE Alerts WITH
  MaxAlerts <- 2, MaxRuns <- 1, rule <- v1, alerts <- v2, runs <- v3, thread <- v4
Remedy == INSTANCE Alerts WITH
  MaxAlerts <- 1, MaxRuns <- 2, rule <- v1, alerts <- v2, runs <- v3, thread <- v4
Presence == INSTANCE DeviceHealth WITH
  age <- v1, agent <- v2, device <- v3, beat <- v4, pass <- v5, noticed <- v6, missed <- v7,
  raced <- v8, skewed <- v9
Rollout == INSTANCE PatchRollout WITH
  rollout <- v1, devices <- v2, enabled <- v3, run <- v4, ordered <- v5, repeated <- v6
Posture == INSTANCE EndpointSecurity WITH
  Devices <- Endpoints, NoDevice <- "none", provider <- v1, product <- v2, bare <- v3,
  finding <- v4, score <- v5, thread <- v6, stale <- v7

FleetInit ==
  /\ Init
  /\ focus \in Parts
  /\ \/ focus = "deployment"  /\ Blank(0)
     \/ focus = "alerts"      /\ Monitor!Init /\ Blank(4)
     \/ focus = "remediation" /\ Remedy!Init /\ Blank(4)
     \/ focus = "presence"    /\ Presence!Init /\ Blank(9)
     \/ focus = "rollout"     /\ Rollout!Init /\ Blank(6)
     \/ focus = "security"    /\ Posture!Init /\ Blank(7)

FleetNext ==
  /\ UNCHANGED focus
  /\ \/ focus = "deployment"  /\ Next /\ Rest(0)
     \/ focus = "alerts"      /\ Monitor!Next /\ UNCHANGED vars /\ Rest(4)
     \/ focus = "remediation" /\ Remedy!Next /\ UNCHANGED vars /\ Rest(4)
     \/ focus = "presence"    /\ Presence!Next /\ UNCHANGED vars /\ Rest(9)
     \/ focus = "rollout"     /\ Rollout!Next /\ UNCHANGED vars /\ Rest(6)
     \/ focus = "security"    /\ Posture!Next /\ UNCHANGED vars /\ Rest(7)

FleetVars == <<focus, vars, slots>>
FleetSpec == FleetInit /\ [][FleetNext]_FleetVars

---------------------------------------------------------------------------
(* The properties of each, stated in its module. *)

OneAlertPerCondition      == focus = "alerts" => Monitor!OneAlertPerCondition
CooldownHolds             == focus = "remediation" => Remedy!CooldownHolds
PresenceFollowsHeartbeats == focus = "presence" => Presence!PresenceFollowsHeartbeats
StatusTellsOrders         == focus = "rollout" => Rollout!StatusTellsOrders
ScoreFollowsPosture       == focus = "security" => Posture!ScoreFollowsPosture
===============================================================================
