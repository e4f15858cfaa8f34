------------------------------ MODULE SecondFactor ------------------------------
(***************************************************************************)
(* One user's second factor: the TOTP secret, the mail that carries it, the *)
(* codes that confirm it (services/mfa_service.py, endpoints/mfa.py) and    *)
(* the login that asks for one (endpoints/auth.py).                         *)
(*                                                                          *)
(* A request reads the user, and commits the columns it changed: one set to *)
(* the value it was read with is not written.                               *)
(***************************************************************************)
EXTENDS Naturals

CONSTANTS Threads, MaxSecrets   \* MaxSecrets bounds the secrets generated

VARIABLES secret,    \* users.totp_secret, 0 for none; secrets are numbered as they are generated
          enabled,   \* users.mfa_enabled
          newest,    \* the number of secrets generated
          request,   \* thread -> what it has read and will commit
          scanned,   \* secrets in the user's authenticator
          confirmed, \* history: secrets a code of which was verified
          signedIn,  \* history: logins that were let through without a code
          crossed    \* history: two requests of the user overlapped since the last secret

factorVars == <<secret, enabled, newest, request, scanned, confirmed, signedIn, crossed>>

Secrets == 1..MaxSecrets
Idle    == [does |-> "nothing", secret |-> 0, was |-> FALSE, met |-> FALSE]

TypeOK ==
  /\ secret \in 0..MaxSecrets /\ newest \in 0..MaxSecrets /\ enabled \in BOOLEAN
  /\ request \in [Threads -> [does : {"nothing", "setup", "mail", "enable"}, secret : 0..MaxSecrets, was : BOOLEAN, met : BOOLEAN]]
  /\ \A t \in Threads : request[t].does \in {"setup", "mail"} => request[t].secret # 0
  /\ scanned \subseteq Secrets /\ confirmed \subseteq Secrets
  /\ signedIn \in SUBSET BOOLEAN /\ crossed \in BOOLEAN

Init ==
  /\ secret = 0 /\ enabled = FALSE /\ newest = 0 /\ request = [t \in Threads |-> Idle]
  /\ scanned = {} /\ confirmed = {} /\ signedIn = {} /\ crossed = FALSE

Busy(t) == \E u \in Threads \ {t} : request[u].does \in {"setup", "enable"}

\* t will do something to the secret it has read; who else is about to, meets it.
Read(t, does, s) ==
  request' = [u \in Threads |->
    IF u = t THEN [does |-> does, secret |-> s, was |-> enabled, met |-> Busy(t)]
    ELSE IF request[u].does \in {"setup", "enable"} THEN [request[u] EXCEPT !.met = TRUE] ELSE request[u]]

---------------------------------------------------------------------------
(* setup_mfa *)

\* Nothing happens when MFA is enabled, unless a new secret is asked for; a secret there is is used again.
Setup(t, forced) ==
  /\ request[t] = Idle /\ (forced \/ ~enabled \/ secret = 0)
  /\ \/ /\ secret # 0 /\ ~forced /\ UNCHANGED newest
        /\ request' = [request EXCEPT ![t] = [Idle EXCEPT !.does = "mail", !.secret = secret]]
     \/ /\ (secret = 0 \/ forced)
        /\ newest < MaxSecrets /\ newest' = newest + 1
        /\ Read(t, "setup", newest')
  /\ UNCHANGED <<secret, enabled, scanned, confirmed, signedIn, crossed>>

\* Mutant: the new secret takes the old one's place, enabled.
CommitSecret_Enabled(t) ==
  /\ request[t].does = "setup"
  /\ secret' = request[t].secret
  /\ request' = [request EXCEPT ![t].does = "mail"]
  /\ UNCHANGED <<enabled, newest, scanned, confirmed, signedIn, crossed>>

\* mfa_enabled is written if it was read as true.
CommitSecret(t) ==
  /\ request[t].does = "setup"
  /\ secret' = request[t].secret
  /\ enabled' = (enabled /\ ~request[t].was)
  /\ request' = [request EXCEPT ![t].does = "mail"]
  /\ crossed' = request[t].met
  /\ UNCHANGED <<newest, scanned, confirmed, signedIn>>

\* The QR code is mailed after the commit; without a mail the secret stays, and the answer is an error.
Mail(t, sent) ==
  /\ request[t].does = "mail" /\ request' = [request EXCEPT ![t] = Idle]
  /\ scanned' = IF sent THEN scanned \union {request[t].secret} ELSE scanned
  /\ UNCHANGED <<secret, enabled, newest, confirmed, signedIn, crossed>>

---------------------------------------------------------------------------
(* verify_mfa and login *)

\* A code of any secret in the authenticator; it is right if that is the user's secret.
Verify(t, s) ==
  /\ request[t] = Idle /\ secret # 0 /\ s \in scanned
  /\ IF s = secret
     THEN /\ Read(t, "enable", s) /\ confirmed' = confirmed \union {s}
     ELSE UNCHANGED <<request, confirmed>>
  /\ UNCHANGED <<secret, enabled, newest, scanned, signedIn, crossed>>

\* Written if it was read as false.
Enable(t) ==
  /\ request[t].does = "enable"
  /\ enabled' = (enabled \/ ~request[t].was)
  /\ crossed' = (crossed \/ request[t].met)
  /\ request' = [request EXCEPT ![t] = Idle]
  /\ UNCHANGED <<secret, newest, scanned, confirmed, signedIn>>

\* A code is asked for when MFA is enabled: TRUE is a login without one although the last secret's
\* code was verified and nothing replaced it.
Login(s) ==
  /\ IF enabled THEN s = secret /\ s \in scanned ELSE s = 0
  /\ signedIn' = signedIn \union {~enabled /\ secret \in confirmed /\ ~crossed /\ \A t \in Threads : request[t] = Idle}
  /\ UNCHANGED <<secret, enabled, newest, request, scanned, confirmed, crossed>>

\* A crash.
Dies(t) ==
  /\ request[t] # Idle /\ request' = [request EXCEPT ![t] = Idle]
  /\ crossed' = (crossed \/ request[t].does = "enable")
  /\ UNCHANGED <<secret, enabled, newest, scanned, confirmed, signedIn>>

Next ==
  \/ \E t \in Threads :
       \/ CommitSecret(t) \/ Enable(t) \/ Dies(t)
       \/ \E b \in BOOLEAN : Setup(t, b) \/ Mail(t, b)
       \/ \E s \in Secrets : Verify(t, s)
  \/ \E s \in 0..MaxSecrets : Login(s)

Spec == Init /\ [][Next]_factorVars

---------------------------------------------------------------------------
(* Properties *)

\* The login asks for codes exactly of a secret the user has proved to hold: never of one that was
\* generated and not confirmed, whatever mails were lost, and no longer without one once it is,
\* unless two requests about it overlapped.
EnabledMeansConfirmed ==
  /\ enabled /\ ~crossed => secret \in confirmed
  /\ TRUE \notin signedIn
\* Why: a secret is fresh until it is the user's, and
Fresh ==
  /\ secret <= newest /\ \A s \in confirmed : s <= newest
  /\ \A t \in Threads : request[t].does = "setup" =>
       /\ request[t].secret <= newest /\ request[t].secret # secret /\ request[t].secret \notin confirmed
       /\ \A u \in Threads \ {t} : request[u].does = "setup" => request[u].secret # request[t].secret

Busies == {t \in Threads : request[t].does \in {"setup", "enable"}}

\* a request that met no other finds the user as it has read it.
Alone ==
  \A t \in Busies :
    \/ request[t].met
    \/ /\ \A u \in Busies : u = t
       /\ request[t].was = enabled
       /\ request[t].does = "enable" => request[t].secret = secret /\ secret \in confirmed

\* A code that was right turns MFA on, or is about to.
ConfirmedIsEnabled ==
  secret \in confirmed /\ ~enabled => crossed \/ \E t \in Threads : request[t].does = "enable"

Inv == TypeOK /\ Fresh /\ Alone /\ ConfirmedIsEnabled /\ EnabledMeansConfirmed
=============================================================================
