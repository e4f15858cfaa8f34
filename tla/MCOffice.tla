-------------------------------- MODULE MCOffice --------------------------------
(***************************************************************************)
(* Components of the back office that share no state,                       *)
(* checked one beside the other: the run starts in one component and stays  *)
(* with it. The INSTANCE says which variable of Gallery is which of the     *)
(* component's. Seats is the extended module, whose assumptions             *)
(* TLC evaluates, and keeps its own variables.                              *)
(***************************************************************************)
EXTENDS Seats, Gallery, TLC

CONSTANTS
  Parts,                                              \* the components the run starts in
  MaxStripeEvents,                                    \* Subscription
  Passes, MaxSlots, MaxReports,                       \* Reports
  MaxTickets,                                         \* ServiceDesk
  Tickets,                                            \* Escalation
  Pushers, MaxMade, MaxEvents,                        \* Psa
  Controls, Assessments, Completions,                 \* Compliance
  Orgs, Rows, Nothing,                                \* Msp
  Recipients, MaxRetries,                             \* Mailer
  Messages, Channels,                                 \* Notifications
  MaxSecrets,                                         \* SecondFactor
  MaxTenants,                                         \* Accounts
  Assets, NoAsset, MaxSeats, MaxAssigned,             \* Licences
  MaxTokens,                                          \* SignIn
  Workers, MaxLinks,                                  \* PasswordReset
  Users, MaxTime, AccessLife, RefreshLife, Retention, Clients   \* RefreshTokens

ASSUME StripeAssumption  == MaxStripeEvents \in Nat
ASSUME LinksAssumption   == MaxLinks \in Nat
ASSUME SecretsAssumption == MaxSecrets \in Nat
ASSUME TicketsAssumption == MaxTickets \in Nat
ASSUME SlotsAssumption   == MaxSlots \in Nat \ {0}
ASSUME ProviderAssumption == {MaxMade, MaxEvents} \subseteq Nat
ASSUME ControlsAssumption == IsFiniteSet(Controls)
ASSUME NothingAssumption == Nothing \notin Orgs \union Rows
ASSUME PoolAssumption    == MaxSeats \in Nat
ASSUME TenantsAssumption == MaxTenants \in Nat \ {0}
\* The 90 days of cleanup outlast JWT_REFRESH_EXPIRE_DAYS.
ASSUME TokensAssumption  == {MaxTokens, MaxTime, AccessLife, RefreshLife, Retention} \subseteq Nat /\ RefreshLife <= Retention

\* The browser at home uses one of the two ways the pages have of renewing the session, the other both.
Refreshers == [home |-> {"timer"}, office |-> {"timer", "api"}]

Billing == INSTANCE Subscription WITH
  Limits <- {1}, MaxEvents <- MaxStripeEvents, stripe <- v1, sent <- v2, acked <- v3,
  receipt <- v4, sub <- v5, webhook <- v6, thread <- v7, strayed <- v8
Reporting == INSTANCE Reports WITH
  slot <- v1, sched <- v2, reports <- v3, pass <- v4, mails <- v5, made <- v6, exempt <- v7
Desk == INSTANCE ServiceDesk WITH
  tickets <- v1, asset <- v2, deployed <- v3, incident <- v4, setting <- v5, loose <- v6
Sla == INSTANCE Escalation WITH
  ticket <- v1, escalated <- v2, pass <- v3, mails <- v4, torn <- v5
Provider == INSTANCE Psa WITH
  conn <- v1, link <- v2, ticket <- v3, provider <- v4, event <- v5, log <- v6, push <- v7,
  hook <- v8, forced <- v9, torn <- v10, strayed <- v11
Audit == INSTANCE Compliance WITH
  Threads <- Completions, controls <- v1, assessment <- v2, result <- v3, score <- v4,
  thread <- v5, last <- v6, met <- v7
Customers == INSTANCE Msp WITH
  orgs <- v1, parent <- v2, row <- v3, request <- v4, wizard <- v5, cut <- v6, patched <- v7
Mail == INSTANCE Mailer WITH
  configured <- v1, provider <- v2, attempts <- v3, result <- v4, copies <- v5, unheard <- v6,
  refused <- v7
Notices == INSTANCE Notifications WITH
  channel <- v1, template <- v2, request <- v3, delivery <- v4, accepted <- v5, failure <- v6,
  unanswered <- v7
Factor == INSTANCE SecondFactor WITH
  secret <- v1, enabled <- v2, newest <- v3, request <- v4, scanned <- v5, confirmed <- v6,
  signedIn <- v7, crossed <- v8
Account == INSTANCE Accounts WITH
  user <- v1, grants <- v2, tenants <- v3, request <- v4, met <- v5, moved <- v6
Licence == INSTANCE Licences WITH
  pool <- v1, assigned <- v2, asset <- v3, request <- v4, patched <- v5, raced <- v6
Login == INSTANCE SignIn WITH
  Browsers <- {"home", "office"}, Workers <- {"logout-all"}, rows <- v1, cookie <- v2,
  refresh <- v3, work <- v4, ended <- v5, replayed <- v6, crossed <- v7, forked <- v8,
  upset <- v9
Reset_ == INSTANCE PasswordReset WITH
  links <- v1, work <- v2, opened <- v3, doubled <- v4, reused <- v5
Tokens == INSTANCE RefreshTokens WITH
  Devices <- Clients, now <- v1, store <- v2, held <- v3, purged <- v4

OfficeInit ==
  /\ Init
  /\ focus \in Parts
  /\ \/ focus = "seats"        /\ Blank(0)
     \/ focus = "subscription" /\ Billing!Init /\ Blank(8)
     \/ focus = "reports"      /\ Reporting!Init /\ Blank(7)
     \/ focus = "desk"         /\ Desk!Init /\ Blank(6)
     \/ focus = "sla"          /\ Sla!Init /\ Blank(5)
     \/ focus = "psa"          /\ Provider!Init
     \/ focus = "compliance"   /\ Audit!Init /\ Blank(7)
     \/ focus = "msp"          /\ Customers!Init /\ Blank(7)
     \/ focus = "mail"         /\ Mail!Init /\ Blank(7)
     \/ focus = "notices"      /\ Notices!Init /\ Blank(7)
     \/ focus = "factor"       /\ Factor!Init /\ Blank(8)
     \/ focus = "accounts"     /\ Account!Init /\ Blank(6)
     \/ focus = "licences"     /\ Licence!Init /\ Blank(6)
     \/ focus = "login"        /\ Login!Init /\ Blank(9)
     \/ focus = "reset"        /\ Reset_!Init /\ Blank(5)
     \/ focus = "tokens"       /\ Tokens!Init /\ Blank(4)

OfficeNext ==
  /\ UNCHANGED focus
  /\ \/ focus = "seats"        /\ Next /\ Rest(0)
     \/ focus = "subscription" /\ Billing!Next /\ UNCHANGED vars /\ Rest(8)
     \/ focus = "reports"      /\ Reporting!Next /\ UNCHANGED vars /\ Rest(7)
     \/ focus = "desk"         /\ Desk!Next /\ UNCHANGED vars /\ Rest(6)
     \/ focus = "sla"          /\ Sla!Next /\ UNCHANGED vars /\ Rest(5)
     \/ focus = "psa"          /\ Provider!Next /\ UNCHANGED vars
     \/ focus = "compliance"   /\ Audit!Next /\ UNCHANGED vars /\ Rest(7)
     \/ focus = "msp"          /\ Customers!Next /\ UNCHANGED vars /\ Rest(7)
     \/ focus = "mail"         /\ Mail!Next /\ UNCHANGED vars /\ Rest(7)
     \/ focus = "notices"      /\ Notices!Next /\ UNCHANGED vars /\ Rest(7)
     \/ focus = "factor"       /\ Factor!Next /\ UNCHANGED vars /\ Rest(8)
     \/ focus = "accounts"     /\ Account!Next /\ UNCHANGED vars /\ Rest(6)
     \/ focus = "licences"     /\ Licence!Next /\ UNCHANGED vars /\ Rest(6)
     \/ focus = "login"        /\ Login!Next /\ UNCHANGED vars /\ Rest(9)
     \/ focus = "reset"        /\ Reset_!Next /\ UNCHANGED vars /\ Rest(5)
     \/ focus = "tokens"       /\ Tokens!Next /\ UNCHANGED vars /\ Rest(4)

OfficeVars == <<focus, vars, slots>>
OfficeSpec == OfficeInit /\ [][OfficeNext]_OfficeVars

---------------------------------------------------------------------------
(* The properties of each, stated in its module. *)

InStepWithStripe       == focus = "subscription" => Billing!InStepWithStripe
OneReportPerOccurrence == focus = "reports" => Reporting!OneReportPerOccurrence
RepairHasTicket        == focus = "desk" => Desk!RepairHasTicket
EscalatedOnce          == focus = "sla" => Sla!EscalatedOnce
InStepWithProvider     == focus = "psa" => Provider!InStepWithProvider
ScoreFollowsLast       == focus = "compliance" => Audit!ScoreFollowsLast
CustomersAreWhole      == focus = "msp" => Customers!CustomersAreWhole
ResultTellsDelivery    == focus = "mail" => Mail!ResultTellsDelivery
DeliveryTells          == focus = "notices" => Notices!DeliveryTells
EnabledMeansConfirmed  == focus = "factor" => Factor!EnabledMeansConfirmed
RoleIsGranted          == focus = "accounts" => Account!RoleIsGranted
SeatsAreCounted        == focus = "licences" => Licence!SeatsAreCounted
OneLiveUntilEnded      == focus = "login" => Login!OneLiveUntilEnded
InnocentStaysSignedIn  == focus = "login" => Login!InnocentStaysSignedIn
OneLinkOnce            == focus = "reset" => Reset_!OneLinkOnce
RotationIsTracked      == focus = "tokens" => Tokens!RotationIsTracked

\* What the server has on record of a message, an e-mail or a notification, is what became of it.
OutcomesAreTold == ResultTellsDelivery /\ DeliveryTells

Symmetry == Permutations(Threads)
===============================================================================
