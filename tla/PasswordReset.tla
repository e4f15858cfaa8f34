------------------------------ MODULE PasswordReset ------------------------------
(***************************************************************************)
(* Reset links of one user: services/password_reset_service.py behind the   *)
(* endpoints of auth_extras.py.                                             *)
(*                                                                          *)
(* Requests run in threads and overlap: request_reset reads the outstanding *)
(* links, commits, mails and commits again if the mail failed;              *)
(* confirm_reset checks the link, hashes the new password and commits.      *)
(***************************************************************************)
EXTENDS Integers, Sequences, FiniteSets

CONSTANTS
  Workers,   \* requests that may run at once
  MaxLinks   \* bound on the links created

VARIABLES links,    \* the password_reset_tokens table, in order of commits
          work,     \* worker -> its request
          opened,   \* link -> how often it changed the password
          doubled,  \* history: requests overlapped and left two links
          reused    \* history: links with overlapping confirmations

vars == <<links, work, opened, doubled, reused>>

Links == 1..MaxLinks
Row   == [used : BOOLEAN, expired : BOOLEAN]
Rest  == [todo |-> "rest", link |-> 0, seen |-> {}]
Work  == [todo : {"rest", "store", "mail", "confirm"}, link : Links \union {0}, seen : SUBSET Links]

TypeOK ==
  /\ links \in Seq(Row) /\ Len(links) <= MaxLinks
  /\ work \in [Workers -> Work]
  /\ opened \in [Links -> Nat]
  /\ doubled \in BOOLEAN
  /\ reused \subseteq Links

Init ==
  /\ links = <<>>
  /\ work = [w \in Workers |-> Rest]
  /\ opened = [l \in Links |-> 0]
  /\ doubled = FALSE /\ reused = {}

\* Neither is_used nor is_expired.
Usable == {l \in 1..Len(links) : ~links[l].used /\ ~links[l].expired}
Used(seen) == [l \in 1..Len(links) |-> [links[l] EXCEPT !.used = @ \/ l \in seen]]
Others(w, todo) == \E v \in Workers \ {w} : work[v].todo = todo

---------------------------------------------------------------------------

RequestReset(w) ==
  /\ work[w].todo = "rest" /\ Len(links) < MaxLinks
  /\ work' = [work EXCEPT ![w] = [todo |-> "store", link |-> 0, seen |-> Usable]]
  /\ doubled' = (doubled \/ Others(w, "store"))
  /\ UNCHANGED <<links, opened, reused>>

\* The links that were outstanding are used up, and the new one is stored before it is mailed.
StoreLink(w) ==
  /\ work[w].todo = "store" /\ Len(links) < MaxLinks
  /\ links' = Append(Used(work[w].seen), [used |-> FALSE, expired |-> FALSE])
  /\ work' = [work EXCEPT ![w] = [todo |-> "mail", link |-> Len(links'), seen |-> {}]]
  /\ UNCHANGED <<opened, doubled, reused>>

\* A link that could not be mailed is used up; a process that stops before it knows leaves it.
Mailed(w, ok) ==
  /\ work[w].todo = "mail"
  /\ links' = IF ok THEN links ELSE Used({work[w].link})
  /\ work' = [work EXCEPT ![w] = Rest]
  /\ UNCHANGED <<opened, doubled, reused>>

\* The link is checked, before the password is validated and hashed.
CheckLink(w, l) ==
  /\ work[w].todo = "rest" /\ l \in Usable
  /\ work' = [work EXCEPT ![w] = [todo |-> "confirm", link |-> l, seen |-> {}]]
  /\ reused' = IF \E v \in Workers : work[v].todo = "confirm" /\ work[v].link = l
               THEN reused \union {l} ELSE reused
  /\ UNCHANGED <<links, opened, doubled>>

\* Mutant: the link is not marked as used.
ConfirmReset_Unmarked(w) ==
  /\ work[w].todo = "confirm"
  /\ opened' = [opened EXCEPT ![work[w].link] = @ + 1]
  /\ work' = [work EXCEPT ![w] = Rest]
  /\ UNCHANGED <<links, doubled, reused>>

\* The password, the revoked sessions and the used link are one commit; nothing is checked again.
ConfirmReset(w) ==
  /\ work[w].todo = "confirm"
  /\ links' = Used({work[w].link})
  /\ opened' = [opened EXCEPT ![work[w].link] = @ + 1]
  /\ work' = [work EXCEPT ![w] = Rest]
  /\ UNCHANGED <<doubled, reused>>

\* A password that does not pass validation or was used before.
Reject(w) ==
  /\ work[w].todo = "confirm"
  /\ work' = [work EXCEPT ![w] = Rest]
  /\ UNCHANGED <<links, opened, doubled, reused>>

Expire(l) ==
  /\ ~links[l].expired
  /\ links' = [links EXCEPT ![l].expired = TRUE]
  /\ UNCHANGED <<work, opened, doubled, reused>>

Next ==
  \/ \E w \in Workers :
       \/ RequestReset(w) \/ StoreLink(w) \/ ConfirmReset(w) \/ Reject(w)
       \/ \E ok \in BOOLEAN : Mailed(w, ok)
       \/ \E l \in 1..Len(links) : CheckLink(w, l)
  \/ \E l \in 1..Len(links) : Expire(l)

Spec == Init /\ [][Next]_vars

---------------------------------------------------------------------------

\* Requests and confirmations that do not overlap leave a user with one usable link at most, and
\* each link changes the password once at most.
OneLinkOnce ==
  /\ doubled \/ Cardinality(Usable) <= 1
  /\ \A l \in Links : opened[l] <= 1 \/ l \in reused

\* Why: a link that changed the password is used up and nobody confirms it, and
UsedOnce ==
  /\ \A w \in Workers : work[w].todo = "confirm" => work[w].link \in 1..Len(links)
  /\ \A l \in Links \ reused :
       /\ \A v, w \in Workers : work[v].todo = "confirm" /\ work[v].link = l
                              /\ work[w].todo = "confirm" /\ work[w].link = l => v = w
       /\ opened[l] > 0 =>
            /\ opened[l] = 1 /\ l <= Len(links) /\ links[l].used
            /\ \A w \in Workers : work[w].todo = "confirm" => work[w].link # l

\* the one request that is going to store a link has seen every usable one.
OneOutstanding ==
  ~doubled =>
    /\ \A k, l \in Usable : k = l
    /\ \A v, w \in Workers : work[v].todo = "store" /\ work[w].todo = "store" => v = w
    /\ \A w \in Workers : work[w].todo = "store" => Usable \subseteq work[w].seen

Inv == TypeOK /\ UsedOnce /\ OneOutstanding
==================================================================================
