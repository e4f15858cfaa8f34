------------------------------ MODULE Subscription ------------------------------
(***************************************************************************)
(* A tenant's subscription row: kept in step with Stripe by webhooks       *)
(* (services/stripe_service.py) and set by activations                     *)
(* (services/entitlement_service.py).                                      *)
(*                                                                         *)
(* One tenant and one Stripe subscription.  The webhook endpoint is async  *)
(* and calls its service on the event loop, so webhooks do not overlap one *)
(* another; activations run in threads and overlap them and each other.    *)
(* Each reads, computes and commits; an UPDATE writes only the columns     *)
(* that differ from what was read.                                         *)
(***************************************************************************)
EXTENDS Integers, Sequences, FiniteSets

CONSTANTS
  Threads,    \* activations that may run at once
  Limits,     \* device limits of the plans
  MaxEvents   \* bound on the events of the subscription

VARIABLES stripe,    \* the subscription as Stripe has it
          sent,      \* the events of the subscription, in order
          acked,     \* those that Stripe got a 2xx answer to
          receipt,   \* StripeWebhookEvent.status of each
          sub,       \* the TenantSubscription row
          webhook,   \* what the webhook being handled is about to commit
          thread,    \* what each activation is about to commit
          strayed    \* history: sub changed outside the order of sent

vars == <<stripe, sent, acked, receipt, sub, webhook, thread, strayed>>

SubStatus == {"absent", "active", "trialing", "past_due", "paused", "cancelled"}
Kinds     == {"checkout", "upsert", "deleted", "paid", "payment_failed"}
Event     == [kind : Kinds, status : {"active", "past_due", "canceled"}]

\* linked: external_subscription_id and external_customer_id are set.
Sub == [status : SubStatus, limit : Limits \union {0}, linked : BOOLEAN]

\* A status column that is not written.
AsRead == "as read"
Column(old, new) == IF new = old THEN AsRead ELSE new
Write(old, new) == IF new = AsRead THEN old ELSE new

\* met: an activation has been committed since the row was read.
NoWebhook == [busy |-> FALSE]
Webhook == {NoWebhook} \union
  [busy : {TRUE}, event : 1..MaxEvents, matched : BOOLEAN, met : BOOLEAN,
   status : SubStatus \union {AsRead}]

Idle == [todo |-> "idle"]
Work == {Idle} \union
  [todo : {"activate"}, insert : BOOLEAN, status : SubStatus \union {AsRead},
   limit : Limits, link : BOOLEAN]

TypeOK ==
  /\ stripe \in {"none", "active", "past_due", "canceled"}
  /\ sent \in Seq(Event) /\ Len(sent) <= MaxEvents
  /\ acked \subseteq 1..Len(sent)
  /\ receipt \in [1..MaxEvents -> {"none", "failed", "processed"}]
  /\ sub \in Sub
  /\ webhook \in Webhook
  /\ thread \in [Threads -> Work]
  /\ strayed \in BOOLEAN

Init ==
  /\ stripe = "none" /\ sent = <<>> /\ acked = {}
  /\ receipt = [i \in 1..MaxEvents |-> "none"]
  /\ sub = [status |-> "absent", limit |-> 0, linked |-> FALSE]
  /\ webhook = NoWebhook
  /\ thread = [t \in Threads |-> Idle]
  /\ strayed = FALSE

---------------------------------------------------------------------------
(* Stripe: every change of the subscription is told by events that end with a *)
(* snapshot of it                                                             *)

Sends(new, events) ==
  /\ Len(sent) + Len(events) <= MaxEvents
  /\ stripe' = new
  /\ sent' = sent \o events
  /\ UNCHANGED <<acked, receipt, sub, webhook, thread, strayed>>

Told(kind, status) == [kind |-> kind, status |-> status]

Checkout     == stripe = "none" /\ Sends("active", <<Told("checkout", "active"), Told("upsert", "active")>>)
PaymentFails == stripe = "active" /\ Sends("past_due", <<Told("payment_failed", "past_due"), Told("upsert", "past_due")>>)
InvoicePaid  == stripe = "past_due" /\ Sends("active", <<Told("paid", "active"), Told("upsert", "active")>>)
Cancellation == stripe \in {"active", "past_due"} /\ Sends("canceled", <<Told("deleted", "canceled")>>)

---------------------------------------------------------------------------
(* The webhook *)

\* Mutant: an event that failed counts as seen.
Duplicate_AnyRow(i) == receipt[i] # "none"

\* process_webhook answers without a look at the event.
Duplicate(i) == receipt[i] = "processed"

\* _STATUS_MAP
StatusMap == [active |-> "active", past_due |-> "past_due", canceled |-> "cancelled"]

\* The row's status after the handler of _dispatch.
Applied(e, status) ==
  CASE e.kind = "checkout"       -> "active"
    [] e.kind = "upsert"         -> StatusMap[e.status]
    [] e.kind = "deleted"        -> "cancelled"
    [] e.kind = "paid"           -> IF status \in {"past_due", "trialing", "paused"} THEN "active" ELSE status
    [] e.kind = "payment_failed" -> "past_due"

\* checkout and upsert carry the tenant in their metadata, the others only Stripe's ids.
Matched(e) == sub.status # "absent" /\ (sub.linked \/ e.kind \in {"checkout", "upsert"})

Receive(i) ==
  /\ ~webhook.busy
  /\ ~Duplicate(i)
  /\ webhook' = [busy |-> TRUE, event |-> i, matched |-> Matched(sent[i]), met |-> FALSE,
                 status |-> IF Matched(sent[i]) THEN Column(sub.status, Applied(sent[i], sub.status)) ELSE AsRead]
  /\ UNCHANGED <<stripe, sent, acked, receipt, sub, thread, strayed>>

AnswerDuplicate(i) ==
  /\ ~webhook.busy
  /\ Duplicate(i)
  /\ acked' = acked \union {i}
  /\ UNCHANGED <<stripe, sent, receipt, sub, webhook, thread, strayed>>

\* The event being handled comes after one that follows it, or beside an activation.
OutOfOrder ==
  \/ webhook.met
  \/ \E j \in webhook.event + 1 .. Len(sent) : receipt[j] # "none"
  \/ \E t \in Threads : thread[t].todo = "activate"

\* A snapshot that arrives in order makes up for what went wrong before.
Snapshot == webhook.matched /\ sent[webhook.event].kind \in {"upsert", "deleted"}

WrittenSub ==
  [sub EXCEPT !.status = Write(@, webhook.status),
              !.linked = @ \/ (webhook.matched /\ sent[webhook.event].kind \in {"checkout", "upsert"})]

\* The last commit of process_webhook; the answer may get lost.
Processed(answered) ==
  /\ webhook.busy
  /\ sub' = WrittenSub
  /\ receipt' = [receipt EXCEPT ![webhook.event] = "processed"]
  /\ acked' = IF answered THEN acked \union {webhook.event} ELSE acked
  /\ webhook' = NoWebhook
  /\ strayed' = (OutOfOrder \/ ~webhook.matched \/ (strayed /\ ~Snapshot))
  /\ UNCHANGED <<stripe, sent, thread>>

\* The handler raised; what it had assigned before is committed with the failure.
Failed(assigned) ==
  /\ webhook.busy
  /\ sub' = IF assigned THEN WrittenSub ELSE sub
  /\ receipt' = [receipt EXCEPT ![webhook.event] = "failed"]
  /\ webhook' = NoWebhook
  /\ strayed' = (strayed \/ OutOfOrder)
  /\ UNCHANGED <<stripe, sent, acked, thread>>

\* The database or the process fails: nothing is committed.
WebhookLost ==
  /\ webhook.busy
  /\ webhook' = NoWebhook
  /\ UNCHANGED <<stripe, sent, acked, receipt, sub, thread, strayed>>

---------------------------------------------------------------------------
(* activate_subscription: checkout confirmation, demo, operators, bootstrap *)

\* A confirmation that names its checkout session links the row to Stripe.
Activate(t, limit, link) ==
  /\ thread[t] = Idle
  /\ link => stripe # "none"
  /\ thread' = [thread EXCEPT ![t] =
       [todo |-> "activate", insert |-> sub.status = "absent", limit |-> limit, link |-> link,
        status |-> Column(sub.status, "active")]]
  /\ UNCHANGED <<stripe, sent, acked, receipt, sub, webhook, strayed>>

\* tenant_id is unique: a second INSERT fails.
CommitActivation(t) ==
  /\ thread[t].todo = "activate"
  /\ LET w == thread[t]
     IN IF w.insert /\ sub.status # "absent"
          THEN UNCHANGED <<sub, webhook, strayed>>
          ELSE /\ sub' = [status |-> Write(sub.status, w.status), limit |-> w.limit,
                          linked |-> sub.linked \/ w.link]
               /\ strayed' = (strayed \/ stripe # "active")
               /\ webhook' = IF webhook.busy THEN [webhook EXCEPT !.met = TRUE] ELSE webhook
  /\ thread' = [thread EXCEPT ![t] = Idle]
  /\ UNCHANGED <<stripe, sent, acked, receipt>>

---------------------------------------------------------------------------

Restart ==
  /\ webhook' = NoWebhook
  /\ thread' = [t \in Threads |-> Idle]
  /\ UNCHANGED <<stripe, sent, acked, receipt, sub, strayed>>

Stripe == Checkout \/ PaymentFails \/ InvoicePaid \/ Cancellation

Webhooks ==
  \/ \E i \in 1..Len(sent) : Receive(i) \/ AnswerDuplicate(i)
  \/ \E b \in BOOLEAN : Processed(b) \/ Failed(b)
  \/ WebhookLost

Activations == \E t \in Threads :
  \/ \E limit \in Limits, link \in BOOLEAN : Activate(t, limit, link)
  \/ CommitActivation(t)

Next == Stripe \/ Webhooks \/ Activations \/ Restart

Spec == Init /\ [][Next]_vars

---------------------------------------------------------------------------
(* Properties *)

Paid == sub.status \in {"active", "trialing"}

\* When Stripe has no event left to deliver, the tenant has paid access exactly if Stripe
\* says so: failures, retries, lost answers and duplicates do not lose an event.  Events
\* that came out of order, found no row or met an activation are excepted, until the
\* next snapshot.
InStepWithStripe ==
  /\ stripe # "none" /\ acked = 1..Len(sent) /\ ~webhook.busy
  /\ ~strayed /\ sub.status # "absent"
  => (Paid <=> stripe = "active")

\* Why: the last event is a snapshot of what Stripe has now,
Latest ==
  /\ stripe = "none" <=> Len(sent) = 0
  /\ Len(sent) > 0 => /\ sent[Len(sent)].kind \in {"upsert", "deleted"} /\ sent[Len(sent)].status = stripe
                      /\ sent[Len(sent)].kind = "deleted" => stripe = "canceled"
  /\ \A i \in 1..MaxEvents : receipt[i] # "none" => i <= Len(sent)
\* an event is answered once it is processed, and what its handler read of the row is still so until
\* an activation is committed,
Handled ==
  /\ \A i \in acked : receipt[i] = "processed"
  /\ webhook.busy =>
       /\ webhook.event <= Len(sent) /\ receipt[webhook.event] # "processed"
       /\ webhook.matched /\ ~webhook.met =>
            sub.status # "absent" /\ webhook.status = Column(sub.status, Applied(sent[webhook.event], sub.status))
\* an activation that does not write the status has read "active", and
Activating ==
  \A t \in Threads : thread[t].todo = "activate" =>
    /\ thread[t].status \in {AsRead, "active"}
    /\ thread[t].status = AsRead /\ ~strayed => sub.status = "active"
\* once the last event is processed in order the row follows it.
Followed ==
  Len(sent) > 0 /\ ~strayed /\ receipt[Len(sent)] = "processed"
  => sub.status # "absent" /\ (Paid <=> stripe = "active")
Inv == TypeOK /\ Latest /\ Handled /\ Activating /\ Followed
=============================================================================
