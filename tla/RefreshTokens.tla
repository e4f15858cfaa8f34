----------------------------- MODULE RefreshTokens -----------------------------
(***************************************************************************)
(* What repositories/refresh_token_repository.py promises about the table   *)
(* of refresh tokens, and core/jwt.py about the JWTs users hold, over time: *)
(* every operation of the repository, one at a time, with expiry and the    *)
(* cleanup of old rows.  SignIn has the requests that overlap.  A session   *)
(* and its token family are one to one: login creates both.                 *)
(***************************************************************************)
EXTENDS Integers, FiniteSets

CONSTANTS
  Users, Devices,
  MaxTokens,    \* bound on the refresh tokens issued
  MaxTime,      \* bound on the clock
  AccessLife,   \* JWT_ACCESS_EXPIRE_MINUTES
  RefreshLife,  \* JWT_REFRESH_EXPIRE_DAYS
  Retention     \* the 90 days of cleanup

VARIABLES now,
          store,   \* the rows, by the number of their token
          held,    \* every JWT ever issued
          purged   \* history: tokens whose user was purged

tokenVars == <<now, store, held, purged>>

Ids == 1..MaxTokens
Row == [user : Users, device : Devices, session : Ids, generation : Ids, expires : Nat,
        revoked : BOOLEAN, revokedAt : Nat, next : Ids \union {0}]
Jwt == [type : {"access", "refresh"}, user : Users, jti : Ids \union {0}, session : Ids \union {0},
        generation : Ids \union {0}, issued : Nat, expires : Nat]

TypeOK ==
  /\ now \in 0..MaxTime
  /\ DOMAIN store \subseteq Ids /\ \A i \in DOMAIN store : store[i] \in Row
  /\ held \subseteq Jwt /\ purged \subseteq Ids

Init == now = 0 /\ store = <<>> /\ held = {} /\ purged = {}

---------------------------------------------------------------------------
(* core/jwt.py *)

Access(u) ==
  [type |-> "access", user |-> u, jti |-> 0, session |-> 0, generation |-> 0,
   issued |-> now, expires |-> now + AccessLife]
Refresh(u, i, session, generation) ==
  [type |-> "refresh", user |-> u, jti |-> i, session |-> session, generation |-> generation,
   issued |-> now, expires |-> now + RefreshLife]

\* Signature, issuer and audience are those of a token the server issued: time decides.
Decodes(j) == j.issued <= now /\ now <= j.expires
\* A refresh token names itself, its session (and family) and its generation.
Claimed(j) == j.type = "refresh" => 0 \notin {j.jti, j.session, j.generation}
Verifies(j, type) == Decodes(j) /\ j.type = type /\ Claimed(j)

\* What the row of a new refresh token takes from get_refresh_token_details.
Detailed(j, device) ==
  [user |-> j.user, device |-> device, session |-> j.session, generation |-> j.generation,
   expires |-> j.expires, revoked |-> FALSE, revokedAt |-> 0, next |-> 0]

---------------------------------------------------------------------------
(* Queries *)

Stored       == DOMAIN store
OfUser(u)    == {i \in Stored : store[i].user = u}
OfSession(s) == {i \in Stored : store[i].session = s}
OfDevice(u, d) == {i \in OfUser(u) : store[i].device = d}
Expired      == {i \in Stored : store[i].expires <= now}
Live         == {i \in Stored \ Expired : ~store[i].revoked}
Issued       == {j.jti : j \in held} \ {0}

Put(i, row) == [k \in Stored \union {i} |-> IF k = i THEN row ELSE store[k]]
Drop(gone)  == store' = [k \in Stored \ gone |-> store[k]]
Ended(row)  == IF row.revoked THEN row ELSE [row EXCEPT !.revoked = TRUE, !.revokedAt = now]
Revoke(ids) == store' = [k \in Stored |-> IF k \in ids THEN Ended(store[k]) ELSE store[k]]

---------------------------------------------------------------------------
(* Operations *)

Fresh(i) == i \in Ids \ Issued /\ \A k \in 1..(i - 1) : k \in Issued

Login(u, d, i) ==
  LET j == Refresh(u, i, i, 1) IN
  /\ Fresh(i)
  /\ held' = held \union {j, Access(u)}
  /\ store' = Put(i, Detailed(j, d))
  /\ UNCHANGED <<now, purged>>

\* refresh_access_token, for a token whose row is active: rotate links the successor.
Rotate(j, i) ==
  LET old == j.jti
      new == Refresh(j.user, i, j.session, j.generation + 1) IN
  /\ Verifies(j, "refresh") /\ old \in Live /\ Fresh(i)
  /\ held' = held \union {new, Access(j.user)}
  /\ store' = [Put(i, Detailed(new, store[old].device)) EXCEPT ![old] = [Ended(@) EXCEPT !.next = i]]
  /\ UNCHANGED <<now, purged>>

\* A revoked token ends its family, an expired one itself; one without a row is not recognized.
Refuse(j) ==
  LET i == j.jti IN
  /\ Verifies(j, "refresh") /\ i \in Stored
  /\ \/ store[i].revoked /\ Revoke(OfSession(store[i].session))
     \/ ~store[i].revoked /\ i \in Expired /\ Revoke({i})
  /\ UNCHANGED <<now, held, purged>>

\* revoke, revoke_session or _token_family, revoke_device, revoke_all_except_session and
\* revoke_all_for_user.
Logout(i)             == i \in Stored /\ Revoke({i}) /\ UNCHANGED <<now, held, purged>>
LogoutSession(u, s)   == Revoke(OfUser(u) \intersect OfSession(s)) /\ UNCHANGED <<now, held, purged>>
LogoutDevice(u, d)    == Revoke(OfDevice(u, d)) /\ UNCHANGED <<now, held, purged>>
LogoutOthers(u, s)    == Revoke(OfUser(u) \ OfSession(s)) /\ UNCHANGED <<now, held, purged>>
LogoutAll(u)          == Revoke(OfUser(u)) /\ UNCHANGED <<now, held, purged>>

\* Mutant: revoked rows are not kept.
Cleanup_NoRetention ==
  /\ Drop({i \in Stored : store[i].expires < now \/ store[i].revoked})
  /\ UNCHANGED <<now, held, purged>>

\* delete_expired, then delete_revoked for rows revoked longer ago than the retention.
Cleanup ==
  /\ Drop({i \in Stored : \/ store[i].expires < now
                          \/ store[i].revoked /\ store[i].revokedAt < now - Retention})
  /\ UNCHANGED <<now, held, purged>>

\* Hard delete, when the account is deleted.
Purge(u) == Drop(OfUser(u)) /\ purged' = purged \union OfUser(u) /\ UNCHANGED <<now, held>>

Tick == now < MaxTime /\ now' = now + 1 /\ UNCHANGED <<store, held, purged>>

Next ==
  \/ \E u \in Users, d \in Devices, i \in Ids : Login(u, d, i)
  \/ \E j \in held, i \in Ids : Rotate(j, i)
  \/ \E j \in held : Refuse(j)
  \/ \E i \in Stored : Logout(i)
  \/ \E u \in Users : LogoutAll(u) \/ Purge(u)
  \/ \E u \in Users, i \in Stored : LogoutSession(u, store[i].session) \/ LogoutOthers(u, store[i].session)
  \/ \E u \in Users, d \in Devices : LogoutDevice(u, d)
  \/ Cleanup
  \/ Tick

Spec == Init /\ [][Next]_tokenVars

---------------------------------------------------------------------------
(* Properties *)

\* A session is worth one refresh token: whatever is rotated, revoked, expired and cleaned up,
\* only the newest token of a session can be active, and only it has no successor.
NewestOnly ==
  \A i \in Live : /\ store[i].next = 0
                  /\ \A k \in OfSession(store[i].session) \ {i} :
                       store[k].revoked /\ store[k].generation < store[i].generation

\* As long as a refresh token passes for one, its row is still there unless it was purged
\* with its user: the cleanup never turns the replay of a rotated token, which ends the session, into
\* a token nobody recognizes.
ReplaysAreRecognized ==
  \A j \in held :
    Verifies(j, "refresh") =>
      \/ j.jti \in Stored /\ store[j.jti].session = j.session /\ store[j.jti].expires = j.expires
      \/ j.jti \in purged

\* Both: a rotated token is worth nothing, and the server still knows it when it comes back.
RotationIsTracked == NewestOnly /\ ReplaysAreRecognized
\* Why: a token is numbered once, its row says what it says, and rows outlast their tokens.
Numbered ==
  /\ Stored \union {store[i].session : i \in Stored} \subseteq Issued
  /\ \A a \in Issued, b \in Ids : b < a => b \in Issued
  /\ \A i \in Stored : store[i].generation <= i
Matched ==
  \A j \in held : j.type = "refresh" /\ j.jti \in Stored =>
    store[j.jti].session = j.session /\ store[j.jti].generation = j.generation /\ store[j.jti].expires = j.expires
Outlasting ==
  /\ \A j \in held : j.type = "refresh" => j.jti \in Stored \/ j.jti \in purged \/ j.expires < now
  /\ \A i \in Stored : store[i].expires <= (IF store[i].revoked THEN store[i].revokedAt ELSE now) + RefreshLife
OneUnrevoked ==
  \A i \in Stored : ~store[i].revoked =>
    /\ store[i].next = 0
    /\ \A k \in OfSession(store[i].session) \ {i} : store[k].revoked /\ store[k].generation < store[i].generation
Inv == TypeOK /\ Numbered /\ Matched /\ Outlasting /\ OneUnrevoked
=================================================================================
