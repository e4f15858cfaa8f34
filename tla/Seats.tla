--------------------------------- MODULE Seats ---------------------------------
(***************************************************************************)
(* The seats of a tenant's plan and the agents that take them              *)
(* (services/agent_enrollment_service.py, services/entitlement_service.py).*)
(*                                                                         *)
(* An enrolment counts the seats taken, decides and commits; enrolments    *)
(* run in threads and overlap between the two.  The subscription (module   *)
(* Subscription) may change at any time to any plan, paid or not.          *)
(***************************************************************************)
EXTENDS Integers, FiniteSets

CONSTANTS
  Machines,   \* machines with an agent, by machine_guid
  Threads,    \* enrolments that may run at once
  Limits      \* device limits of the plans

ASSUME MachinesAssumption == IsFiniteSet(Machines)
ASSUME LimitsAssumption   == Limits \in SUBSET Nat

VARIABLES plan,      \* what the subscription row grants
          agent,     \* the Agent rows
          thread,    \* what each enrolment is about to commit
          peak,      \* history: the largest device limit that was in force
          unchecked  \* history: machines seated without a current count

vars == <<plan, agent, thread, peak, unchecked>>

Plan  == [paid : BOOLEAN, limit : Limits \union {0}]
Agent == [known : BOOLEAN, trusted : BOOLEAN, revoked : BOOLEAN]

\* insert: there was no row.  was, grant: the agent was trusted, is to be trusted.
\* restore: it was revoked.
Enrolment == [machine : Machines, insert : BOOLEAN, was : BOOLEAN, grant : BOOLEAN,
              restore : BOOLEAN]

TypeOK ==
  /\ plan \in Plan
  /\ agent \in [Machines -> Agent]
  /\ thread \in [Threads -> {{}} \union {{w} : w \in Enrolment}]
  /\ peak \in Nat
  /\ unchecked \subseteq Machines

Init ==
  /\ plan = [paid |-> FALSE, limit |-> 0]
  /\ agent = [m \in Machines |-> [known |-> FALSE, trusted |-> FALSE, revoked |-> FALSE]]
  /\ thread = [t \in Threads |-> {}]
  /\ peak = 0
  /\ unchecked = {}

\* activate_subscription, a webhook, an operator
SubscriptionChanges(new) ==
  /\ plan' = new
  /\ peak' = IF new.limit > peak THEN new.limit ELSE peak
  /\ UNCHANGED <<agent, thread, unchecked>>

\* _count_supportable
Supportable(m) == agent[m].trusted /\ ~agent[m].revoked
Seated == {m \in Machines : Supportable(m)}

\* Mutant: the last seat is given away twice.
HasSeat_OneMore == plan.paid /\ plan.limit - Cardinality(Seated) >= 0

\* ent.paid and ent.seats_remaining > 0
HasSeat == plan.paid /\ plan.limit - Cardinality(Seated) > 0

\* assign_supportable_on_enroll
Assigned(m) == agent[m].trusted \/ HasSeat

\* enroll_agent: a revoked agent comes back by enrolling again.
Enroll(t, m) ==
  /\ thread[t] = {}
  /\ thread' = [thread EXCEPT ![t] =
       {[machine |-> m, insert |-> ~agent[m].known, was |-> agent[m].trusted,
         grant |-> Assigned(m), restore |-> agent[m].revoked]}]
  /\ UNCHANGED <<plan, agent, peak, unchecked>>

\* The machines whose enrolment has counted the seats and is not committed.
Enrolling(ts) == {w.machine : w \in UNION {thread[u] : u \in ts}}

\* The row after the commit; a column that was read as it should be is not written.
Enrolled(row, w) ==
  [known |-> TRUE, trusted |-> IF w.grant = w.was THEN row.trusted ELSE w.grant,
   revoked |-> row.revoked /\ ~w.restore]

\* machine_guid is unique: a second INSERT fails.
Commit(t) ==
  \E w \in thread[t] :
    /\ thread' = [thread EXCEPT ![t] = {}]
    /\ IF w.insert /\ agent[w.machine].known
         THEN UNCHANGED <<agent, unchecked>>
         ELSE /\ agent' = [agent EXCEPT ![w.machine] = Enrolled(@, w)]
              /\ unchecked' = unchecked
                   \union (IF Enrolling(Threads \ {t}) = {} THEN {} ELSE Enrolling(Threads))
                   \union (IF agent[w.machine].trusted /\ w.restore THEN {w.machine} ELSE {})
    /\ UNCHANGED <<plan, peak>>

\* AgentRepository.revoke
Revoke(m) ==
  /\ agent[m].known
  /\ agent' = [agent EXCEPT ![m].revoked = TRUE]
  /\ UNCHANGED <<plan, thread, peak, unchecked>>

\* An enrolment fails, or the process restarts: nothing is committed.
Abort(t) ==
  /\ thread[t] # {}
  /\ thread' = [thread EXCEPT ![t] = {}]
  /\ UNCHANGED <<plan, agent, peak, unchecked>>

Next ==
  \/ \E new \in Plan : SubscriptionChanges(new)
  \/ \E t \in Threads : (\E m \in Machines : Enroll(t, m)) \/ Commit(t) \/ Abort(t)
  \/ \E m \in Machines : Revoke(m)

Spec == Init /\ [][Next]_vars

---------------------------------------------------------------------------
(* Properties *)

\* No more machines are supportable than the largest plan the tenant ever had, except
\* for those that enrolled beside another one or came back after they had been revoked.
SeatsWithinPlan == Cardinality(Seated \ unchecked) <= peak

\* A machine that had a seat keeps its claim to it when its agent is installed again,
\* although the plan is full or has lapsed or another enrolment of it was refused meanwhile.
SeatsAreKept == [][\A m \in Machines : agent[m].trusted => agent'[m].trusted]_vars
=============================================================================
