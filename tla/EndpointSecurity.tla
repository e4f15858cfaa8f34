---------------------------- MODULE EndpointSecurity ----------------------------
(***************************************************************************)
(* Security products on devices, their findings and the device's score      *)
(* (services/endpoint_security_service.py), as the agent's scan             *)
(* (agent/endpoint_security.py), the vendors' clouds                        *)
(* (services/vendor_security_connectors.py) and the console write them.     *)
(*                                                                          *)
(* Every write commits, and then computes the device's score in a second    *)
(* transaction that reads the rows again.  Findings are critical ones;      *)
(* rtp stands for real_time_protection and defs for definitions_up_to_date; *)
(* last_sync_status and the page's matrix are left out.                     *)
(***************************************************************************)
EXTENDS Integers, FiniteSets

CONSTANTS Products,   \* among those of PROVIDER_CATALOG
          Devices, Findings, Threads, NoDevice

VARIABLES provider, \* security_providers: none, or one that is enabled or not
          product,  \* endpoint_security_agents, by product and device
          bare,     \* products and hosts that have a row without a device as well
          finding,  \* security_findings, by product and external id: the device and the status
          score,    \* endpoint_security_scores, NoScore if there is none
          thread,   \* what each request has still to do
          stale     \* history: devices whose score overlapped, was not computed, or that lost rows unnoticed

securityVars == <<provider, product, bare, finding, score, thread, stale>>

NoScore == -1
NoRow   == [status |-> "none", rtp |-> FALSE, defs |-> FALSE]
Gone    == [on |-> NoDevice, status |-> "absent"]
Status  == {"none", "healthy", "degraded", "offline", "not_installed", "unknown"}
Idle    == [phase |-> "idle", dev |-> NoDevice, score |-> NoScore, of |-> {}, todo |-> {}]

TypeOK ==
  /\ provider \in [Products -> {"none", "disabled", "enabled"}] /\ bare \subseteq Products \X Devices /\ stale \subseteq Devices
  /\ product \in [Products \X Devices -> [status : Status, rtp : BOOLEAN, defs : BOOLEAN]]
  /\ finding \in [Products \X Findings -> [on : Devices \union {NoDevice}, status : {"absent", "open", "resolved"}]]
  /\ score \in [Devices -> {NoScore} \union 0..100]
  /\ thread \in [Threads -> [phase : {"idle", "scan", "sync", "read", "write"}, dev : Devices \union {NoDevice},
                             score : {NoScore} \union 0..100, of : SUBSET Products, todo : SUBSET Devices]]

Init ==
  /\ provider = [p \in Products |-> "none"] /\ bare = {} /\ stale = {}
  /\ product = [r \in Products \X Devices |-> NoRow]
  /\ finding = [f \in Products \X Findings |-> Gone]
  /\ score = [d \in Devices |-> NoScore]
  /\ thread = [t \in Threads |-> Idle]

---------------------------------------------------------------------------
(* The score *)

AtMost(n, m) == IF m < n THEN m ELSE n

Open(d) == {f \in Products \X Findings : finding[f].on = d /\ finding[f].status = "open"}

\* From 100: no product costs 40; one that is unhealthy 15, unprotected 10, without definitions that
\* are known to be recent 5, each up to a limit; an open critical finding 25.
Score(d) ==
  LET rows        == {p \in Products : product[<<p, d>>].status # "none"}
      Lack(sound) == Cardinality({p \in rows : ~sound[p]})
      left        == 100 - 25 * Cardinality(Open(d))
                     - (IF rows = {} THEN 40
                        ELSE AtMost(30, 15 * Lack([p \in rows |-> product[<<p, d>>].status = "healthy"]))
                             + AtMost(15, 10 * Lack([p \in rows |-> product[<<p, d>>].rtp]))
                             + AtMost(10, 5 * Lack([p \in rows |-> product[<<p, d>>].defs])))
  IN IF left < 0 THEN 0 ELSE left

\* A commit about a device is followed by a computation of its score.
Computes(t, d) ==
  thread' = [thread EXCEPT ![t] = IF d = NoDevice THEN Idle ELSE [@ EXCEPT !.phase = "read", !.dev = d]]

ReadRows(t) ==
  LET d == thread[t].dev IN
  /\ thread[t].phase = "read"
  /\ thread' = [thread EXCEPT ![t].phase = "write", ![t].score = Score(d)]
  /\ stale' = IF \E u \in Threads : thread[u].phase = "write" /\ thread[u].dev = d
              THEN stale \union {d} ELSE stale \ {d}
  /\ UNCHANGED <<provider, product, bare, finding, score>>

\* A second INSERT fails on uq_endpoint_security_score_device; the next score of a sync follows.
WriteScore(t) ==
  /\ thread[t].phase = "write"
  /\ \/ score' = [score EXCEPT ![thread[t].dev] = thread[t].score] /\ UNCHANGED stale
     \/ score[thread[t].dev] # NoScore /\ thread[t].dev \in stale /\ UNCHANGED <<score, stale>>
  /\ thread' = [thread EXCEPT ![t] = IF @.todo = {} THEN Idle
                                     ELSE [@ EXCEPT !.phase = "sync", !.dev = NoDevice, !.score = NoScore]]
  /\ UNCHANGED <<provider, product, bare, finding>>

\* recompute_device_score, recompute_all_scores, and get_device_score where there is none
Recompute(t, d) == thread[t] = Idle /\ Computes(t, d) /\ UNCHANGED <<provider, product, bare, finding, score, stale>>

\* A crash, or a database error.
Dies(t) ==
  /\ thread[t] # Idle /\ thread' = [thread EXCEPT ![t] = Idle]
  /\ stale' = stale \union ({thread[t].dev} \ {NoDevice})
  /\ UNCHANGED <<provider, product, bare, finding, score>>

---------------------------------------------------------------------------
(* Products *)

\* What a source says of a product: its status, rtp and defs, or "none" where it says nothing and the
\* column keeps its value.  A detector that raises reports under a name no provider has.
Says(status, rtp, defs) == [status |-> status, rtp |-> rtp, defs |-> defs]

\* The detectors of the agent's scan: the product's service, and what is installed
Watched == {Says("healthy", "yes", "none"), Says("degraded", "no", "none"), Says("not_installed", "none", "none")}
WindowsDefender ==
  {Says("healthy", "yes", "yes")} \union {Says(s, r, f) : s \in {"degraded", "offline"}, r, f \in {"yes", "no"}}
  \union {Says("not_installed", r, "none") : r \in {"none", "no"}} \union {Says("unknown", "none", "none")}
  \union {Says("healthy", "yes", "none"), Says("degraded", "no", "none")}   \* without powershell
Scanned(p) == IF p = "windows_defender" THEN WindowsDefender ELSE Watched

\* The connectors to the vendors' clouds
CrowdStrike == {Says("healthy", "yes", "none"), Says("degraded", "none", "none"), Says("unknown", "none", "none")}
SentinelOne == {Says("healthy", "yes", "none"), Says("degraded", "yes", "none"), Says("offline", "no", "none")}
Huntress    == {Says("healthy", "yes", "none"), Says("degraded", "no", "none"), Says("unknown", "no", "none")}
Bitdefender == {Says("healthy", "yes", "none"), Says("offline", "no", "none")}
Sophos      == {Says("healthy", "yes", "none"), Says("degraded", "no", "none"), Says("unknown", "no", "none")}
DefenderXDR == {Says("healthy", "yes", "none"), Says("offline", "no", "none"), Says("degraded", "no", "none")}
Connectors  == [crowdstrike |-> CrowdStrike, sentinelone |-> SentinelOne, huntress |-> Huntress,
                bitdefender |-> Bitdefender, sophos |-> Sophos, microsoft_defender_xdr |-> DefenderXDR]

Updated(row, said) ==
  [status |-> said.status, rtp |-> IF said.rtp = "none" THEN row.rtp ELSE said.rtp = "yes",
   defs |-> IF said.defs = "none" THEN row.defs ELSE said.defs = "yes"]

\* ingest_agent, from a scan that knows its device
IngestAgent(t, p, d, said) ==
  /\ thread[t] = Idle /\ provider[p] # "none" /\ said \in Scanned(p)
  /\ product' = [product EXCEPT ![<<p, d>>] = Updated(@, said)]
  /\ Computes(t, d)
  /\ UNCHANGED <<provider, bare, finding, score, stale>>

\* create_agent and update_agent: what the console says; a second row fails.
WriteAgent(t, p, d, said) ==
  /\ thread[t] = Idle /\ provider[p] # "none"
  /\ product' = [product EXCEPT ![<<p, d>>] = Updated(@, said)]
  /\ Computes(t, d)
  /\ UNCHANGED <<provider, bare, finding, score, stale>>

\* delete_agent
DeleteAgent(t, p, d) ==
  /\ thread[t] = Idle /\ product[<<p, d>>].status # "none"
  /\ product' = [product EXCEPT ![<<p, d>>] = NoRow]
  /\ Computes(t, d)
  /\ UNCHANGED <<provider, bare, finding, score, stale>>

\* seed_default_providers, create_provider, update_provider
WriteProvider(p, state) ==
  /\ (state = "disabled" \/ provider[p] # "none") /\ provider' = [provider EXCEPT ![p] = state]
  /\ UNCHANGED <<product, bare, finding, score, thread, stale>>

\* The products and findings go with it, and no score is computed.
DeleteProvider(p) ==
  /\ provider[p] # "none" /\ provider' = [provider EXCEPT ![p] = "none"]
  /\ product' = [r \in Products \X Devices |-> IF r[1] = p THEN NoRow ELSE product[r]]
  /\ finding' = [f \in Products \X Findings |-> IF f[1] = p THEN Gone ELSE finding[f]]
  /\ bare' = {r \in bare : r[1] # p}
  /\ stale' = stale \union {d \in Devices : product[<<p, d>>] # NoRow \/ \E f \in Findings : finding[<<p, f>>].on = d}
  /\ UNCHANGED <<score, thread>>

\* sync_provider: the vendor's list is fetched, and each host ingested.
Sync(t, p, hosts) ==
  /\ thread[t] = Idle /\ p \in DOMAIN Connectors /\ provider[p] = "enabled" /\ hosts # {}
  /\ thread' = [thread EXCEPT ![t] = [Idle EXCEPT !.phase = "sync", !.of = {p}, !.todo = hosts]]
  /\ UNCHANGED <<provider, product, bare, finding, score, stale>>

\* A scan without BHUDI_DEVICE_ID
Scan(t, p, d) ==
  /\ thread[t] = Idle /\ thread' = [thread EXCEPT ![t] = [Idle EXCEPT !.phase = "scan", !.of = {p}, !.todo = {d}]]
  /\ UNCHANGED <<provider, product, bare, finding, score, stale>>

\* Who names the host and no device writes a row of that hostname, or a new one without a device.
IngestHost(t, d) ==
  /\ thread[t].phase \in {"sync", "scan"} /\ d \in thread[t].todo
  /\ LET rest == [thread[t] EXCEPT !.todo = @ \ {d}]
         next == [thread EXCEPT ![t] = IF rest.todo = {} THEN Idle ELSE rest] IN
     \E p \in thread[t].of :
       \/ /\ provider[p] # "none" /\ product[<<p, d>>].status # "none"
          /\ \E said \in IF rest.phase = "sync" THEN Connectors[p] ELSE Scanned(p) :
               product' = [product EXCEPT ![<<p, d>>] = Updated(@, said)]
          /\ thread' = [thread EXCEPT ![t] = [rest EXCEPT !.phase = "read", !.dev = d]]
          /\ UNCHANGED bare
       \/ /\ provider[p] # "none" /\ (product[<<p, d>>].status = "none" \/ <<p, d>> \in bare)
          /\ bare' = bare \union {<<p, d>>} /\ thread' = next /\ UNCHANGED product
       \/ provider[p] = "none" /\ thread' = next /\ UNCHANGED <<product, bare>>   \* not configured
  /\ UNCHANGED <<provider, finding, score, stale>>

---------------------------------------------------------------------------
(* Findings *)

\* create_finding and ingest_finding: one with this external id is overwritten, its device too.
IngestFinding(t, f, d) ==
  /\ thread[t] = Idle /\ provider[f[1]] # "none"
  /\ finding' = [finding EXCEPT ![f] = [on |-> IF d = NoDevice THEN @.on ELSE d, status |-> "open"]]
  /\ Computes(t, finding'[f].on)
  /\ stale' = IF finding[f].on \notin {NoDevice, d, finding'[f].on} THEN stale \union {finding[f].on} ELSE stale
  /\ UNCHANGED <<provider, product, bare, score>>

UpdateFinding(t, f, status) ==
  /\ thread[t] = Idle /\ finding[f].status # "absent"
  /\ finding' = [finding EXCEPT ![f].status = status]
  /\ Computes(t, finding[f].on)
  /\ UNCHANGED <<provider, product, bare, score, stale>>

\* Mutant: the score is left as it was.
DeleteFinding_Silently(t, f) ==
  /\ thread[t] = Idle /\ finding[f].status # "absent"
  /\ finding' = [finding EXCEPT ![f] = Gone]
  /\ UNCHANGED <<provider, product, bare, score, thread, stale>>

DeleteFinding(t, f) ==
  /\ thread[t] = Idle /\ finding[f].status # "absent"
  /\ finding' = [finding EXCEPT ![f] = Gone]
  /\ Computes(t, finding[f].on)
  /\ UNCHANGED <<provider, product, bare, score, stale>>

---------------------------------------------------------------------------

Next ==
  \/ \E t \in Threads, d \in Devices :
       \/ Recompute(t, d) \/ IngestHost(t, d)
       \/ \E p \in Products :
            \/ \E said \in Scanned(p) : IngestAgent(t, p, d, said)
            \/ WriteAgent(t, p, d, Says("healthy", "yes", "yes")) \/ DeleteAgent(t, p, d) \/ Scan(t, p, d)
  \/ \E p \in Products :
       \/ \E state \in {"disabled", "enabled"} : WriteProvider(p, state)
       \/ DeleteProvider(p)
       \/ \E t \in Threads, hosts \in SUBSET Devices : Sync(t, p, hosts)
  \/ \E t \in Threads, f \in Products \X Findings :
       \/ DeleteFinding(t, f)
       \/ \E d \in Devices \union {NoDevice} : IngestFinding(t, f, d)
       \/ \E s \in {"open", "resolved"} : UpdateFinding(t, f, s)
  \/ \E t \in Threads : ReadRows(t) \/ WriteScore(t) \/ Dies(t)

Spec == Init /\ [][Next]_securityVars

---------------------------------------------------------------------------
(* Properties *)

\* When nobody writes, a device's score is the one its products and open findings give it now,
\* unless computations overlapped, one was lost, a finding was moved to another device, or a
\* provider was deleted.
ScoreFollowsPosture ==
  \A d \in Devices :
    d \in stale \/ score[d] = NoScore \/ (\E t \in Threads : thread[t].dev = d)
      \/ score[d] = Score(d)
\* What the proof needs: a request has a device while it computes its score, and what it is going to write
\* is still so, or another request has yet to read the rows.
Written ==
  \A t \in Threads :
    /\ IF thread[t].phase \in {"read", "write"} THEN thread[t].dev \in Devices ELSE thread[t].dev = NoDevice
    /\ thread[t].phase = "write" /\ thread[t].dev \notin stale =>
         \/ thread[t].score = Score(thread[t].dev)
         \/ \E u \in Threads : thread[u].phase = "read" /\ thread[u].dev = thread[t].dev
Inv == ScoreFollowsPosture /\ Written
=============================================================================
