--------------------------------- MODULE SignIn ---------------------------------
(***************************************************************************)
(* The sessions of one user: refresh tokens that rotate                     *)
(* (services/auth_service.py, repositories/refresh_token_repository.py),    *)
(* the browsers that present them (frontend session-refresh.ts and api.ts)  *)
(* and the requests that revoke them all: logout-all, and the end of a      *)
(* password reset, which module PasswordReset has.                          *)
(*                                                                          *)
(* Requests run in threads: each reads, computes and commits.  A new row is *)
(* seen by others when it is committed.  A token is named by the order of   *)
(* commits; the first of a family names the family.                         *)
(***************************************************************************)
EXTENDS Integers, Sequences, FiniteSets

CONSTANTS
  Browsers,
  Refreshers, \* browser -> the modules it runs that refresh: session-refresh.ts, api.ts
  Workers,    \* requests that revoke everything and may run at once
  MaxTokens   \* bound on the tokens issued

VARIABLES rows,     \* the refresh_tokens table
          cookie,   \* browser -> the token in its cookie, 0 if none
          refresh,  \* browser and refresher -> its request
          work,     \* worker -> what it is about to commit
          ended,    \* history: families their user ended
          replayed, \* history: families revoked for a replay
          crossed,  \* history: families a refresh was under way in when they were ended
          forked,   \* history: families in which one token was rotated twice
          upset     \* history: browsers that lost an answer or overlapped their requests

vars == <<rows, cookie, refresh, work, ended, replayed, crossed, forked, upset>>

\* Each module has a refreshPromise of its own.
Refreshes == {q \in Browsers \X UNION {Refreshers[b] : b \in Browsers} : q[2] \in Refreshers[q[1]]}
Tokens   == 1..MaxTokens
Row      == [family : Tokens, generation : Tokens, revoked : BOOLEAN]
Request  == [pc : {"idle", "sent", "checked", "replay", "answered"},
             token : Tokens \union {0}, seen : SUBSET Tokens]
Idle     == [pc |-> "idle", token |-> 0, seen |-> {}]
Resting  == [busy |-> FALSE, seen |-> {}, met |-> FALSE]
Work     == [busy : BOOLEAN, seen : SUBSET Tokens, met : BOOLEAN]

TypeOK ==
  /\ rows \in Seq(Row) /\ Len(rows) <= MaxTokens
  /\ cookie \in [Browsers -> 0..Len(rows)]
  /\ refresh \in [Refreshes -> Request]
  /\ work \in [Workers -> Work]
  /\ ended \union replayed \union crossed \union forked \subseteq 1..Len(rows)
  /\ upset \subseteq Browsers

Init ==
  /\ rows = <<>>
  /\ cookie = [b \in Browsers |-> 0]
  /\ refresh = [q \in Refreshes |-> Idle]
  /\ work = [w \in Workers |-> Resting]
  /\ ended = {} /\ replayed = {} /\ crossed = {} /\ forked = {} /\ upset = {}

\* RefreshToken.is_active, for the tokens of a model in which none expires.
Live        == {t \in 1..Len(rows) : ~rows[t].revoked}
Family(f)   == {t \in 1..Len(rows) : rows[t].family = f}
FamilyOf(t) == rows[t].family
Issued(f, generation) == [family |-> f, generation |-> generation, revoked |-> FALSE]
Revoked(seen) == [t \in 1..Len(rows) |-> [rows[t] EXCEPT !.revoked = @ \/ t \in seen]]

\* Families with a refresh that has found its token valid and has not committed.
UnderWay == {FamilyOf(refresh[q].token) : q \in {p \in DOMAIN refresh : refresh[p].pc = "checked"}}

---------------------------------------------------------------------------
(* Login and logout *)

Login(b) ==
  /\ Len(rows) < MaxTokens
  /\ rows' = Append(rows, Issued(Len(rows) + 1, 1))
  /\ cookie' = [cookie EXCEPT ![b] = Len(rows')]
  /\ upset' = IF \E r \in Refreshers[b] : refresh[<<b, r>>].pc # "idle" THEN upset \union {b} ELSE upset
  /\ UNCHANGED <<refresh, work, ended, replayed, crossed, forked>>

\* Revokes the token presented, not its family.
Logout(b) ==
  LET t == cookie[b] IN
  /\ t # 0
  /\ rows' = Revoked({t})
  /\ cookie' = [cookie EXCEPT ![b] = 0]
  /\ ended' = ended \union {FamilyOf(t)}
  /\ crossed' = IF t \in Live /\ FamilyOf(t) \notin UnderWay /\ b \notin upset
                THEN crossed ELSE crossed \union {FamilyOf(t)}
  /\ UNCHANGED <<refresh, work, replayed, forked, upset>>

---------------------------------------------------------------------------
(* Refresh *)

\* One request per refresher; both present the cookie of their browser.
Send(b, r) ==
  /\ refresh[<<b, r>>].pc = "idle" /\ cookie[b] # 0
  /\ refresh' = [refresh EXCEPT ![<<b, r>>] = [pc |-> "sent", token |-> cookie[b], seen |-> {}]]
  /\ upset' = IF \E o \in Refreshers[b] \ {r} : refresh[<<b, o>>].pc # "idle" THEN upset \union {b} ELSE upset
  /\ UNCHANGED <<rows, cookie, work, ended, replayed, crossed, forked>>

\* Mutant: a replay revokes every token of the user.
Check_EveryFamily(b, r) ==
  LET q == refresh[<<b, r>>] IN
  /\ q.pc = "sent"
  /\ refresh' = [refresh EXCEPT ![<<b, r>>] =
       IF rows[q.token].revoked THEN [q EXCEPT !.pc = "replay", !.seen = Live]
       ELSE [q EXCEPT !.pc = "checked"]]
  /\ UNCHANGED <<rows, cookie, work, ended, replayed, crossed, forked, upset>>

\* A revoked token is taken for a replay: every token of its family is looked up to be revoked.
Check(b, r) ==
  LET q == refresh[<<b, r>>] IN
  /\ q.pc = "sent"
  /\ refresh' = [refresh EXCEPT ![<<b, r>>] =
       IF rows[q.token].revoked
       THEN [q EXCEPT !.pc = "replay", !.seen = Live \intersect Family(FamilyOf(q.token))]
       ELSE [q EXCEPT !.pc = "checked"]]
  /\ UNCHANGED <<rows, cookie, work, ended, replayed, crossed, forked, upset>>

RevokeFamily(b, r) ==
  LET q == refresh[<<b, r>>]
      f == FamilyOf(q.token) IN
  /\ q.pc = "replay"
  /\ rows' = Revoked(q.seen)
  /\ replayed' = replayed \union {f}
  /\ crossed' = IF f \in UnderWay \/ ~(Live \intersect Family(f) \subseteq q.seen)
                THEN crossed \union {f} ELSE crossed
  /\ refresh' = [refresh EXCEPT ![<<b, r>>] = Idle]
  /\ UNCHANGED <<cookie, work, ended, forked, upset>>

\* Mutant: the old token stays valid.
Rotate_KeepOld(b, r) ==
  LET q == refresh[<<b, r>>] IN
  /\ q.pc = "checked" /\ Len(rows) < MaxTokens
  /\ rows' = Append(rows, Issued(FamilyOf(q.token), rows[q.token].generation + 1))
  /\ refresh' = [refresh EXCEPT ![<<b, r>>] = [pc |-> "answered", token |-> Len(rows'), seen |-> {}]]
  /\ UNCHANGED <<cookie, work, ended, replayed, crossed, forked, upset>>

\* The successor is inserted and the token revoked, whatever became of it meanwhile.
Rotate(b, r) ==
  LET q == refresh[<<b, r>>]
      f == FamilyOf(q.token) IN
  /\ q.pc = "checked" /\ Len(rows) < MaxTokens
  /\ rows' = Append(Revoked({q.token}), Issued(f, rows[q.token].generation + 1))
  /\ refresh' = [refresh EXCEPT ![<<b, r>>] = [pc |-> "answered", token |-> Len(rows'), seen |-> {}]]
  /\ forked' = IF rows[q.token].revoked THEN forked \union {f} ELSE forked
  /\ work' = [w \in Workers |-> [work[w] EXCEPT !.met = work[w].busy]]
  /\ UNCHANGED <<cookie, ended, replayed, crossed, upset>>

\* The answer sets the cookie; a refusal (RevokeFamily) leaves it.
Answer(b, r) ==
  LET q == refresh[<<b, r>>] IN
  /\ q.pc = "answered"
  /\ cookie' = [cookie EXCEPT ![b] = q.token]
  /\ refresh' = [refresh EXCEPT ![<<b, r>>] = Idle]
  /\ UNCHANGED <<rows, work, ended, replayed, crossed, forked, upset>>

\* The request or its answer is lost.
Lose(b, r) ==
  LET q == refresh[<<b, r>>] IN
  /\ q.pc \in {"sent", "answered"}
  /\ refresh' = [refresh EXCEPT ![<<b, r>>] = Idle]
  /\ upset' = IF q.pc = "sent" THEN upset ELSE upset \union {b}
  /\ UNCHANGED <<rows, cookie, work, ended, replayed, crossed, forked>>

---------------------------------------------------------------------------
(* Every session ended: logout-all, and a password reset *)

ReadTokens(w) ==
  /\ ~work[w].busy /\ Live # {}
  /\ work' = [work EXCEPT ![w] = [busy |-> TRUE, seen |-> Live, met |-> FALSE]]
  /\ UNCHANGED <<rows, cookie, refresh, ended, replayed, crossed, forked, upset>>

\* Mutant: the sessions of the first token read only.
RevokeAll_OneSession(w) ==
  /\ work[w].busy
  /\ rows' = Revoked(work[w].seen \intersect Family(FamilyOf(CHOOSE t \in work[w].seen : TRUE)))
  /\ ended' = ended \union {FamilyOf(t) : t \in work[w].seen}
  /\ crossed' = IF work[w].met THEN crossed \union {FamilyOf(t) : t \in 1..Len(rows)}
                ELSE crossed \union UnderWay
  /\ work' = [work EXCEPT ![w] = Resting]
  /\ UNCHANGED <<cookie, refresh, replayed, forked, upset>>

\* The tokens read are revoked.
RevokeAll(w) ==
  /\ work[w].busy
  /\ rows' = Revoked(work[w].seen)
  /\ ended' = ended \union {FamilyOf(t) : t \in work[w].seen}
  /\ crossed' = IF work[w].met THEN crossed \union {FamilyOf(t) : t \in 1..Len(rows)}
                ELSE crossed \union UnderWay
  /\ work' = [work EXCEPT ![w] = Resting]
  /\ UNCHANGED <<cookie, refresh, replayed, forked, upset>>

---------------------------------------------------------------------------

Refreshing(b, r) ==
  Send(b, r) \/ Check(b, r) \/ RevokeFamily(b, r) \/ Rotate(b, r) \/ Answer(b, r) \/ Lose(b, r)

Next ==
  \/ \E b \in Browsers : Login(b) \/ Logout(b)
  \/ \E b \in Browsers : \E r \in Refreshers[b] : Refreshing(b, r)
  \/ \E w \in Workers : ReadTokens(w) \/ RevokeAll(w)

Spec == Init /\ [][Next]_vars

---------------------------------------------------------------------------
(* Properties *)

\* Rotation leaves one live token in a family, unless two requests rotated the same one.
OneLivePerFamily ==
  \A f \in 1..Len(rows) : f \notin forked => Cardinality(Live \intersect Family(f)) <= 1

\* A session that was ended, by its user, for a replay or because the password was reset, stays
\* ended however requests interleave, unless a refresh of it was under way at that moment.
EndedStaysEnded ==
  \A f \in ended \union replayed : f \in crossed \/ Live \intersect Family(f) = {}

\* Both: a session has one live token at most, and none once it has ended.
OneLiveUntilEnded == OneLivePerFamily /\ EndedStaysEnded

\* A browser that lost no answer and overlapped no requests is never signed out by the others:
\* the token in its cookie is live, or somebody ended that session on purpose.
InnocentStaysSignedIn ==
  \A b \in Browsers :
    b \in upset \/ cookie[b] = 0 \/ cookie[b] \in Live \/ FamilyOf(cookie[b]) \in ended
      \/ \E r \in Refreshers[b] : refresh[<<b, r>>].pc = "answered"

\* What the proof needs: the tokens of a family are in one browser;
Holds(b, t) == t # 0 /\ (cookie[b] = t \/ \E r \in Refreshers[b] : refresh[<<b, r>>].token = t)
Kept ==
  /\ \A t \in 1..Len(rows) : rows[t].family \in 1..t
  /\ \A b \in Browsers : \A r \in Refreshers[b] :
       LET q == refresh[<<b, r>>] IN
       /\ IF q.pc = "idle" THEN q = Idle ELSE q.token \in 1..Len(rows)
       /\ \A t \in q.seen : t \in 1..Len(rows) /\ FamilyOf(t) = FamilyOf(q.token)
  /\ \A b \in Browsers : cookie[b] \in 0..Len(rows)
  /\ \A w \in Workers : work[w].seen \subseteq 1..Len(rows)
  /\ ended \union replayed \union forked \subseteq 1..Len(rows)
Owned ==
  \A b, c \in Browsers, t, u \in 1..Len(rows) : Holds(b, t) /\ Holds(c, u) /\ FamilyOf(t) = FamilyOf(u) => b = c
\* a token that is rotated again has met another request of its browser or the end of its session;
Forks ==
  /\ \A b \in Browsers, t \in 1..Len(rows) :
       Holds(b, t) /\ FamilyOf(t) \in forked => FamilyOf(t) \in crossed \/ b \in upset
  /\ \A b \in Browsers : \A r \in Refreshers[b] :
       LET q == refresh[<<b, r>>] IN
       q.pc = "checked" /\ rows[q.token].revoked => FamilyOf(q.token) \in crossed \/ b \in upset
OneLive == \A s, t \in Live : FamilyOf(s) = FamilyOf(t) /\ FamilyOf(s) \notin forked => s = t
\* no refresh of a session that was ended is under way;
Ended ==
  \A f \in (ended \union replayed) \ crossed : f \notin UnderWay /\ \A t \in Live : FamilyOf(t) # f
\* who revokes everything has read every token of the families it read, if none was rotated since;
Read == \A w \in Workers : work[w].busy /\ ~work[w].met =>
  \A s \in work[w].seen, t \in Live : FamilyOf(s) = FamilyOf(t) => t \in work[w].seen
\* and a browser that overlapped nothing has one request, about the token in its cookie.
OneRequest ==
  \A b \in Browsers \ upset : \A r \in Refreshers[b] : refresh[<<b, r>>].pc # "idle" =>
    LET q == refresh[<<b, r>>] IN
    /\ \A o \in Refreshers[b] \ {r} : refresh[<<b, o>>].pc = "idle"
    /\ \/ FamilyOf(q.token) \in ended
       \/ q.pc \in {"sent", "checked"} /\ q.token = cookie[b]
       \/ q.pc = "answered" /\ q.token \in Live
Inv == Kept /\ Owned /\ Forks /\ OneLive /\ Ended /\ Read /\ OneRequest /\ InnocentStaysSignedIn
=================================================================================
