------------------------------ MODULE Notifications ------------------------------
(***************************************************************************)
(* Messages sent over channels (services/notification_service.py).           *)
(*                                                                          *)
(* A request checks the channel and the template, inserts the delivery      *)
(* without committing it, calls the provider, and commits the outcome.      *)
(* Nothing is ever sent again.                                              *)
(***************************************************************************)
EXTENDS Naturals, FiniteSets

CONSTANTS Messages, Channels   \* channels have the names of their types: one of each

VARIABLES channel,    \* notification_channels: none, enabled or disabled; and the configuration
          template,   \* notification_templates.enabled, for the one template here
          request,    \* message -> where its request is, and the channel
          delivery,   \* notification_deliveries: message -> the committed status
          accepted,   \* what providers have accepted, with the channel it came over
          failure,    \* channels whose last_error is set
          unanswered  \* history: messages whose provider took them without saying so, or whose process died

noticeVars == <<channel, template, request, delivery, accepted, failure, unanswered>>

Configs == {"complete", "incomplete", "dry_run"}
Idle    == [at |-> "start", over |-> {}, config |-> "complete", outcome |-> "none"]

TypeOK ==
  /\ channel \in [Channels -> [state : {"none", "enabled", "disabled"}, config : Configs]]
  /\ template \in {"none", "enabled", "disabled"}
  /\ request \in [Messages -> [at : {"start", "flushed", "answered", "done"}, over : SUBSET Channels, config : Configs,
                               outcome : {"none", "sent", "dry_run", "failed"}]]
  /\ delivery \in [Messages -> {"none", "sent", "dry_run", "failed"}]
  /\ accepted \subseteq Messages \X Channels /\ failure \subseteq Channels /\ unanswered \subseteq Messages

Init ==
  /\ channel = [c \in Channels |-> [state |-> "none", config |-> "complete"]] /\ template = "none"
  /\ request = [m \in Messages |-> Idle] /\ delivery = [m \in Messages |-> "none"]
  /\ accepted = {} /\ failure = {} /\ unanswered = {}

\* create_channel, update_channel
SaveChannel(c, state, config) ==
  /\ channel' = [channel EXCEPT ![c] = [state |-> state, config |-> config]]
  /\ UNCHANGED <<template, request, delivery, accepted, failure, unanswered>>

\* Deletes its deliveries with it; one that is being sent holds the row until it commits.
DeleteChannel(c) ==
  /\ channel[c].state # "none" /\ \A m \in Messages : request[m].at \in {"flushed", "answered"} => c \notin request[m].over
  /\ channel' = [channel EXCEPT ![c] = [state |-> "none", config |-> "complete"]]
  /\ delivery' = [m \in Messages |-> IF request[m].over = {c} THEN "none" ELSE delivery[m]]
  /\ request' = [m \in Messages |-> IF request[m].over = {c} THEN [request[m] EXCEPT !.over = {}] ELSE request[m]]
  /\ failure' = failure \ {c}
  /\ UNCHANGED <<template, accepted, unanswered>>

\* create_template, update_template, delete_template
SaveTemplate(state) ==
  /\ template' = state /\ UNCHANGED <<channel, request, delivery, accepted, failure, unanswered>>

---------------------------------------------------------------------------
(* send *)

\* Over an enabled channel, with a body or an enabled template.  The configuration is read here.
Send(m, c, uses) ==
  /\ request[m] = Idle /\ channel[c].state = "enabled" /\ (uses => template = "enabled")
  /\ request' = [request EXCEPT ![m] = [at |-> "flushed", over |-> {c}, config |-> channel[c].config, outcome |-> "none"]]
  /\ UNCHANGED <<channel, template, delivery, accepted, failure, unanswered>>

\* Mutant: an incomplete configuration is reported as sent.
Dry_Sent == "sent"
Dry == "dry_run"

\* What the senders report when the channel lacks what they send with.
SendEmail   == {Dry, "failed"}   \* failed: SMTP is enabled and has no host
SendTwilio  == {Dry}
SendWebhook == {Dry}
SendPush    == {Dry}
Senders == [email |-> SendEmail, sms |-> SendTwilio, whatsapp |-> SendTwilio, teams |-> SendWebhook,
            slack |-> SendWebhook, discord |-> SendWebhook, webhook |-> SendWebhook, push |-> SendPush]

\* _dispatch.  The provider takes the message or refuses it, or takes it and its answer is lost; a
\* refusal and no answer are both a failure.
Dispatch(m) ==
  /\ request[m].at = "flushed"
  /\ \/ /\ request[m].config # "complete"
        /\ \E c \in request[m].over, o \in {Dry, "failed"} :
             /\ o \in IF request[m].config = "dry_run" THEN {Dry} ELSE Senders[c]
             /\ request' = [request EXCEPT ![m].at = "answered", ![m].outcome = o]
        /\ UNCHANGED <<accepted, unanswered>>
     \/ /\ request[m].config = "complete"
        /\ \E taken \in BOOLEAN, heard \in BOOLEAN :
             /\ request' = [request EXCEPT ![m].at = "answered", ![m].outcome = IF taken /\ heard THEN "sent" ELSE "failed"]
             /\ accepted' = IF taken THEN accepted \union {<<m, c>> : c \in request[m].over} ELSE accepted
             /\ unanswered' = IF taken /\ ~heard THEN unanswered \union {m} ELSE unanswered
  /\ UNCHANGED <<channel, template, delivery, failure>>

Commit(m) ==
  /\ request[m].at = "answered"
  /\ delivery' = [delivery EXCEPT ![m] = request[m].outcome]
  /\ failure' = IF request[m].outcome = "failed" THEN failure \union request[m].over ELSE failure \ request[m].over
  /\ request' = [request EXCEPT ![m].at = "done", ![m].outcome = "none", ![m].config = "complete"]
  /\ UNCHANGED <<channel, template, accepted, unanswered>>

\* The process ends before the commit; the row goes with the transaction.
Dies(m) ==
  /\ request[m].at \in {"flushed", "answered"}
  /\ request' = [request EXCEPT ![m] = [Idle EXCEPT !.at = "done"]] /\ unanswered' = unanswered \union {m}
  /\ UNCHANGED <<channel, template, delivery, accepted, failure>>

Next ==
  \/ \E c \in Channels :
       \/ DeleteChannel(c)
       \/ \E s \in {"enabled", "disabled"}, g \in Configs : SaveChannel(c, s, g)
       \/ \E m \in Messages, uses \in BOOLEAN : Send(m, c, uses)
  \/ \E s \in {"none", "enabled", "disabled"} : SaveTemplate(s)
  \/ \E m \in Messages : Dispatch(m) \/ Commit(m) \/ Dies(m)

Spec == Init /\ [][Next]_noticeVars

---------------------------------------------------------------------------
(* Properties *)

\* What the list of deliveries says is true: a message that is listed as sent was taken by a provider
\* over that channel, and one taken is listed as sent, unless its answer was lost, its process died
\* or its channel was deleted.
DeliveryTells ==
  \A m \in Messages :
    request[m].at = "done" /\ m \notin unanswered /\ request[m].over # {}
      => (delivery[m] = "sent") = (\E c \in request[m].over : <<m, c>> \in accepted)
\* Why: from the answer to the commit the request knows what became of its message.
KnownTo(m) ==
  /\ request[m].at = "start" => request[m].over = {}
  /\ request[m].at = "flushed" => request[m].over # {}
  /\ request[m].at \in {"start", "flushed"} => \A c \in Channels : <<m, c>> \notin accepted
  /\ request[m].at = "answered" /\ m \notin unanswered =>
       (request[m].outcome = "sent") = (\E c \in request[m].over : <<m, c>> \in accepted)

Inv == TypeOK /\ (\A m \in Messages : KnownTo(m)) /\ DeliveryTells
=============================================================================
