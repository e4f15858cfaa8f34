---------------------------------- MODULE Mailer ----------------------------------
(***************************************************************************)
(* One e-mail sent by EmailService (services/email_service.py), to several  *)
(* recipients: Resend first, SMTP if that fails, and up to MaxRetries more  *)
(* attempts with each.                                                      *)
(*                                                                          *)
(* Whether an attempt is repeated is decided on the exception alone, which  *)
(* does not tell whether the provider has taken the message.                *)
(***************************************************************************)
EXTENDS Naturals, FiniteSets

CONSTANTS Recipients,  \* what normalize_recipients leaves of the addresses
          MaxRetries   \* SMTP_MAX_RETRIES

VARIABLES configured,  \* providers: resend_configured, smtp_configured
          provider,    \* the one in use
          attempts,    \* provider |-> attempts_done
          result,      \* EmailDeliveryResult: none, ok, failed or skipped
          copies,      \* recipient |-> the copies a provider has taken for it
          unheard,     \* history: an answer was lost
          refused      \* history: recipients the SMTP server refused while it took the message

mailVars == <<configured, provider, attempts, result, copies, unheard, refused>>

Providers == {"resend", "smtp"}

TypeOK ==
  /\ configured \subseteq Providers /\ provider \in Providers \union {"none"}
  /\ attempts \in [Providers -> 0..(MaxRetries + 1)] /\ result \in {"none", "ok", "failed", "skipped"}
  /\ copies \in [Recipients -> Nat] /\ unheard \in BOOLEAN /\ refused \subseteq Recipients

Init ==
  /\ configured \in SUBSET Providers /\ provider = "none" /\ attempts = [p \in Providers |-> 0]
  /\ result = "none" /\ copies = [r \in Recipients |-> 0] /\ unheard = FALSE /\ refused = {}

\* send
Start ==
  /\ provider = "none" /\ result = "none"
  /\ IF configured = {} \/ Recipients = {}
     THEN result' = "skipped" /\ UNCHANGED provider
     ELSE provider' = (IF "resend" \in configured THEN "resend" ELSE "smtp") /\ UNCHANGED result
  /\ UNCHANGED <<configured, attempts, copies, unheard, refused>>

Trying == provider # "none" /\ result = "none"
Tried  == attempts' = [attempts EXCEPT ![provider] = @ + 1]
Takes(some) == copies' = [r \in Recipients |-> IF r \in some THEN copies[r] + 1 ELSE copies[r]]

FallsBack(ok) == ~ok /\ provider = "resend" /\ "smtp" \in configured

\* The provider's result is the service's, unless SMTP is left to try.
Ends(ok) ==
  IF FallsBack(ok) THEN provider' = "smtp" /\ UNCHANGED result
  ELSE result' = (IF ok THEN "ok" ELSE "failed") /\ UNCHANGED provider

\* Resend takes a message for all recipients or for none.  SMTP succeeds when the server took it
\* for one of them: send_message returns the others, and nobody looks.
Accepted(some) ==
  /\ Trying /\ some # {} /\ (provider = "resend" => some = Recipients)
  /\ Tried /\ Takes(some) /\ Ends(TRUE)
  /\ refused' = refused \union (Recipients \ some)
  /\ UNCHANGED <<configured, unheard>>

\* is_retryable_error: authentication, refused recipients, and most of the codes are final.
Refused ==
  /\ Trying /\ Tried /\ Ends(FALSE)
  /\ UNCHANGED <<configured, copies, unheard, refused>>

\* A temporary code, a timeout or a broken connection; the message may have been taken before.
Disturbed(some) ==
  /\ Trying /\ Tried /\ some \in {{}, Recipients} /\ Takes(some)
  /\ IF attempts'[provider] <= MaxRetries THEN UNCHANGED <<provider, result>> ELSE Ends(FALSE)
  /\ unheard' = (unheard \/ some # {})
  /\ UNCHANGED <<configured, refused>>

Next ==
  \/ Start \/ Refused
  \/ \E some \in SUBSET Recipients : Accepted(some) \/ Disturbed(some)

Spec == Init /\ [][Next]_mailVars

---------------------------------------------------------------------------
(* Properties *)

\* Whichever provider answers at which attempt: ok means that the message was taken for everybody
\* the SMTP server did not refuse, anything else that nobody gets it unless an answer was lost; and
\* only after a lost answer does anybody get it twice.
ResultTellsDelivery ==
  /\ result = "ok" => \A r \in Recipients \ refused : copies[r] > 0
  /\ result # "ok" /\ ~unheard => \A r \in Recipients : copies[r] = 0
  /\ ~unheard => \A r \in Recipients : copies[r] <= 1
\* Why: as long as there is no result, nobody has the message unless an answer was lost.
Inv ==
  /\ result \in {"none", "ok", "failed", "skipped"} /\ copies \in [Recipients -> Nat] /\ unheard \in BOOLEAN
  /\ result = "none" /\ ~unheard => \A r \in Recipients : copies[r] = 0
  /\ ResultTellsDelivery
===================================================================================
