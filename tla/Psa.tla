----------------------------------- MODULE Psa -----------------------------------
(***************************************************************************)
(* One service ticket and one connection to an external helpdesk: pushes    *)
(* and inbound webhooks (services/psa_service.py, endpoints/psa.py).        *)
(*                                                                          *)
(* Pushes run in threads and call the provider between their SELECT and     *)
(* their commit; webhooks run one after another on the event loop.  The     *)
(* connection has a base_url: without one an adapter calls nobody.          *)
(***************************************************************************)
EXTENDS Integers, Sequences, FiniteSets

CONSTANTS Pushers,    \* requests that push at once
          MaxMade, MaxEvents

VARIABLES conn,      \* psa_connections: enabled, last_sync_status
          link,      \* psa_ticket_links: the external ticket, 0 if none, and its external_status
          ticket,    \* service_tickets.status
          provider,  \* the status of each external ticket, in order of creation
          event,     \* the events of the provider, in order
          log,       \* psa_sync_events: status of each inbound event
          push,      \* what each push is about to commit
          hook,      \* the webhook being handled: its event, and whether it found the link
          forced,    \* history: tickets created by a forced push
          torn,      \* history: pushes overlapped, or one ended between the call and the commit
          strayed    \* history: an event was applied out of order, found no link, failed or met a push

psaVars == <<conn, link, ticket, provider, event, log, push, hook, forced, torn, strayed>>

\* _http_json: an answer of the provider, an HTTP error, no connection
Answers == {"2xx", "http error", "no connection"}

\* The adapters: the requests that create a ticket and those that test the connection.
Autotask     == [create |-> 1, test |-> 1]
HaloPSA      == [create |-> 2, test |-> 2]   \* a token first, unless it has a key
ConnectWise  == [create |-> 1, test |-> 1]
Freshservice == [create |-> 1, test |-> 1]
Jira         == [create |-> 1, test |-> 1]
Zendesk      == [create |-> 1, test |-> 1]
ServiceNow   == [create |-> 1, test |-> 1]
Adapters     == [autotask |-> Autotask, halopsa |-> HaloPSA, connectwise |-> ConnectWise,
                 freshservice |-> Freshservice, jira |-> Jira, zendesk |-> Zendesk, servicenow |-> ServiceNow]

\* An answer without an id raises, in every adapter; the ticket may exist all the same.
Created(answers, id) == (\A i \in DOMAIN answers : answers[i] = "2xx") /\ id

External  == {"open", "pending", "solved", "closed"}
Local     == {"open", "resolved", "closed"}
NoPush == [phase |-> "idle", found |-> 0, made |-> 0, force |-> FALSE]
Push   == [phase : {"idle", "call", "write"}, found : 0..MaxMade, made : 0..MaxMade, force : BOOLEAN]
NoHook == [event |-> 0, hit |-> FALSE]

TypeOK ==
  /\ conn \in [provider : DOMAIN Adapters, enabled : BOOLEAN, sync : {"never", "ok", "error"}]
  /\ link \in [to : 0..MaxMade, shows : External] /\ ticket \in Local
  /\ provider \in Seq(External) /\ Len(provider) <= MaxMade
  /\ event \in Seq([ticket : 1..MaxMade, status : External]) /\ Len(event) <= MaxEvents
  /\ log \in [1..MaxEvents -> {"none", "processed", "error"}] /\ push \in [Pushers -> Push]
  /\ hook \in [event : 0..MaxEvents, hit : BOOLEAN] /\ forced \in Nat /\ torn \in BOOLEAN /\ strayed \in BOOLEAN

\* create_connection
Init ==
  /\ conn \in [provider : {"halopsa"}, enabled : {TRUE}, sync : {"never"}]
  /\ link = [to |-> 0, shows |-> "open"] /\ ticket = "open" /\ provider = <<>> /\ event = <<>>
  /\ log = [e \in 1..MaxEvents |-> "none"] /\ push = [p \in Pushers |-> NoPush] /\ hook = NoHook
  /\ forced = 0 /\ torn = FALSE /\ strayed = FALSE

\* update_connection
UpdateConnection(enabled) ==
  /\ conn' = [conn EXCEPT !.enabled = enabled]
  /\ UNCHANGED <<link, ticket, provider, event, log, push, hook, forced, torn, strayed>>

---------------------------------------------------------------------------
(* The adapters *)

\* What comes of the calls: an id or an exception, and a ticket or none.
Replies(p) ==
  {r \in [ok : BOOLEAN, made : BOOLEAN] :
     \E answers \in [1..Adapters[p].create -> Answers], id \in BOOLEAN :
       /\ r.ok = Created(answers, id) /\ (r.ok => r.made)
       /\ r.made => answers[Adapters[p].create] # "http error" /\ \A i \in 1..Adapters[p].create - 1 : answers[i] = "2xx"}

\* external_status of a new ticket: the provider's word for it, or "open" or "new"
FirstStatus == "open"

\* test_connection
Test(answers) ==
  /\ conn' = [conn EXCEPT !.sync = IF \A i \in DOMAIN answers : answers[i] = "2xx" THEN "ok" ELSE "error"]
  /\ UNCHANGED <<link, ticket, provider, event, log, push, hook, forced, torn, strayed>>

---------------------------------------------------------------------------
(* push_ticket *)

\* Mutant: a ticket that is linked is pushed again.
Returns_Never(force) == FALSE
Returns(force) == link.to # 0 /\ ~force

ReadLink(p, force) ==
  /\ push[p] = NoPush /\ conn.enabled /\ ~Returns(force)
  /\ push' = [push EXCEPT ![p] = [phase |-> "call", found |-> link.to, made |-> 0, force |-> force /\ link.to # 0]]
  /\ torn' = (torn \/ \E q \in Pushers : push[q] # NoPush)
  /\ UNCHANGED <<conn, link, ticket, provider, event, log, hook, forced, strayed>>

\* create_ticket
Call(p, reply) ==
  /\ push[p].phase = "call" /\ reply \in Replies(conn.provider) /\ (reply.made => Len(provider) < MaxMade)
  /\ provider' = IF reply.made THEN Append(provider, FirstStatus) ELSE provider
  /\ forced' = IF reply.made /\ push[p].force THEN forced + 1 ELSE forced
  /\ torn' = (torn \/ (reply.made /\ ~reply.ok))
  /\ push' = [push EXCEPT ![p] = IF reply.ok THEN [@ EXCEPT !.phase = "write", !.made = Len(provider')] ELSE NoPush]
  /\ conn' = IF reply.ok THEN conn ELSE [conn EXCEPT !.sync = "error"]
  /\ UNCHANGED <<link, ticket, event, log, hook, strayed>>

\* The commit; of two inserted links the second fails, and so does writing that down.
CommitPush(p) ==
  /\ push[p].phase = "write" /\ push' = [push EXCEPT ![p] = NoPush]
  /\ IF push[p].found = 0 /\ link.to # 0
       THEN UNCHANGED <<conn, link, strayed>>
       ELSE /\ link' = [to |-> push[p].made, shows |-> FirstStatus]
            /\ conn' = [conn EXCEPT !.sync = "ok"]
            /\ strayed' = (hook.event # 0 \/ \E e \in 1..Len(event) : event[e].ticket = push[p].made)
  /\ UNCHANGED <<ticket, provider, event, log, hook, forced, torn>>

PushDies(p) ==
  /\ push[p] # NoPush /\ push' = [push EXCEPT ![p] = NoPush] /\ torn' = TRUE
  /\ UNCHANGED <<conn, link, ticket, provider, event, log, hook, forced, strayed>>

---------------------------------------------------------------------------
(* The provider and its webhooks *)

Moves(t, status) ==
  /\ t \in 1..Len(provider) /\ status # provider[t] /\ Len(event) < MaxEvents
  /\ provider' = [provider EXCEPT ![t] = status]
  /\ event' = Append(event, [ticket |-> t, status |-> status])
  /\ UNCHANGED <<conn, link, ticket, log, push, hook, forced, torn, strayed>>

\* Whatever became of the first delivery: the answer is "duplicate" and 200.
Duplicate(e) == log[e] # "none"

Receive(e) ==
  /\ hook = NoHook /\ conn.enabled /\ ~Duplicate(e)
  /\ hook' = [event |-> e, hit |-> link.to = event[e].ticket]
  /\ UNCHANGED <<conn, link, ticket, provider, event, log, push, forced, torn, strayed>>

\* The ticket is closed or resolved, and never opened again.
Maps(status) == [open |-> ticket, pending |-> ticket,
                 solved |-> IF ticket = "open" THEN "resolved" ELSE ticket,
                 closed |-> IF ticket = "open" THEN "closed" ELSE ticket][status]

Later(e) == \E f \in e + 1 .. Len(event) : event[f].ticket = event[e].ticket /\ log[f] # "none"

\* The commit, with the event processed or, after an exception, in error together with what had
\* been assigned before.
Settle(ok, assigned) ==
  LET e == hook.event IN
  /\ e # 0 /\ (ok => assigned) /\ hook' = NoHook
  /\ log' = [log EXCEPT ![e] = IF ok THEN "processed" ELSE "error"]
  /\ conn' = [conn EXCEPT !.sync = IF ok THEN "ok" ELSE "error"]
  /\ IF hook.hit /\ assigned
       THEN link' = [link EXCEPT !.shows = event[e].status] /\ ticket' = Maps(event[e].status)
       ELSE UNCHANGED <<link, ticket>>
  /\ strayed' = (strayed \/ ~assigned \/ Later(e) \/ (~hook.hit /\ link.to = event[e].ticket))
  /\ UNCHANGED <<provider, event, push, forced, torn>>

HookLost ==
  /\ hook # NoHook /\ hook' = NoHook
  /\ UNCHANGED <<conn, link, ticket, provider, event, log, push, forced, torn, strayed>>

Next ==
  \/ \E enabled \in BOOLEAN : UpdateConnection(enabled)
  \/ \E answers \in [1..Adapters[conn.provider].test -> Answers \ {"no connection"}] : Test(answers)
  \/ \E p \in Pushers :
       \/ \E b \in BOOLEAN : ReadLink(p, b)
       \/ \E reply \in [ok : BOOLEAN, made : BOOLEAN] : Call(p, reply)
       \/ CommitPush(p) \/ PushDies(p)
  \/ \E t \in 1..MaxMade, status \in External : Moves(t, status)
  \/ \E e \in 1..Len(event) : Receive(e)
  \/ \E ok, assigned \in BOOLEAN : Settle(ok, assigned)
  \/ HookLost

Spec == Init /\ [][Next]_psaVars

---------------------------------------------------------------------------
(* Properties *)

\* However often a ticket is pushed, the provider gets it once and once more for each forced
\* push, unless pushes overlapped or one ended between the provider's ticket and the commit.
PushedOnce == torn \/ Len(provider) - forced <= 1

\* When every event has been answered the link shows the status its external ticket has,
\* although deliveries fail, are repeated and lost, except after an event that was
\* applied out of order, failed or met a push.
LinkShows ==
  /\ link.to # 0 /\ hook = NoHook /\ ~strayed
  /\ \A e \in 1..Len(event) : event[e].ticket = link.to => log[e] # "none"
  => link.shows = provider[link.to]

\* Both directions: tickets go out once, and what happens to them there comes back.
InStepWithProvider == PushedOnce /\ LinkShows

\* What the proof needs: pushes are alone, and the provider has no ticket until one has called;
Alone ==
  /\ link.to \in 0..Len(provider)
  /\ \A p \in Pushers : /\ push[p].force <=> push[p].found # 0
                        /\ push[p].phase = "write" => push[p].made \in 1..Len(provider)
  /\ torn \/ /\ \A p, q \in Pushers : push[p] # NoPush /\ push[q] # NoPush => p = q
             /\ \A p \in Pushers : push[p] # NoPush /\ push[p].found = 0 => link.to = 0
             /\ link.to = 0 => (Len(provider) = 0 /\ forced = 0) \/ \E p \in Pushers : push[p].phase = "write"
\* an external ticket has the status of its last event, and the link that of the last one answered.
Unanswered(e) == log[e] = "none"
Told ==
  /\ \A e \in 1..Len(event) : event[e].ticket \in 1..Len(provider)
  /\ \A t \in 1..Len(provider) :
       \/ provider[t] = FirstStatus /\ \A e \in 1..Len(event) : event[e].ticket # t
       \/ \E e \in 1..Len(event) : /\ event[e].ticket = t /\ provider[t] = event[e].status
                                   /\ \A f \in e + 1..Len(event) : event[f].ticket # t
Heard ==
  /\ \A e \in 1..MaxEvents : e > Len(event) => Unanswered(e)
  /\ IF hook.event = 0 THEN hook = NoHook ELSE hook.event \in 1..Len(event) /\ Unanswered(hook.event)
  /\ strayed \/ link.to = 0 \/
       /\ hook.event # 0 => (hook.hit <=> event[hook.event].ticket = link.to)
       /\ \/ link.shows = FirstStatus /\ \A e \in 1..Len(event) : event[e].ticket = link.to => Unanswered(e)
          \/ \E e \in 1..Len(event) :
               /\ event[e].ticket = link.to /\ link.shows = event[e].status /\ ~Unanswered(e)
               /\ \A f \in e + 1..Len(event) : event[f].ticket = link.to => Unanswered(f)
Inv == PushedOnce /\ Alone /\ Told /\ Heard
=============================================================================
