-------------------------------- MODULE Escalation --------------------------------
(***************************************************************************)
(* The SLA passes over the tickets (ITSMOperationalService.escalate_sla):   *)
(* the worker's and those of POST /sla/escalate, which may overlap. A pass  *)
(* reads all tickets that are not over, then for each sends the e-mail of a *)
(* breach before it commits the escalation.                                 *)
(***************************************************************************)
EXTENDS Naturals

CONSTANTS Passes, Tickets   \* tickets with targets and an assignee who has an address

VARIABLES ticket,     \* service_tickets: [status, age, live]; age is the number of targets it has passed
          escalated,  \* itsm_sla_escalations: ticket -> the breaches
          pass,       \* what each pass has still to do, and what it has in hand
          mails,      \* ticket -> breach -> e-mails sent
          torn        \* history: <<ticket, breach>> two passes had in hand at once, or one died with

slaVars == <<ticket, escalated, pass, mails, torn>>

Breaches == {"response", "resolution"}
Statuses == {"open", "in_progress", "over"}   \* new is open; resolved, closed and cancelled are over
Resting  == [todo |-> {}, at |-> {}, mailed |-> FALSE]

TypeOK ==
  /\ ticket \in [Tickets -> [status : Statuses, age : 0..2, live : BOOLEAN]]
  /\ escalated \in [Tickets -> SUBSET Breaches]
  /\ pass \in [Passes -> [todo : SUBSET (Tickets \X Breaches), at : SUBSET (Tickets \X Breaches), mailed : BOOLEAN]]
  /\ mails \in [Tickets -> [Breaches -> 0..3]] /\ torn \subseteq Tickets \X Breaches

Init ==
  /\ ticket = [i \in Tickets |-> [status |-> "open", age |-> 0, live |-> TRUE]]
  /\ escalated = [i \in Tickets |-> {}] /\ pass = [p \in Passes |-> Resting]
  /\ mails = [i \in Tickets |-> [b \in Breaches |-> 0]] /\ torn = {}

SetStatus(i, status) ==
  /\ ticket[i].live /\ ticket[i].status # status /\ ticket' = [ticket EXCEPT ![i].status = status]
  /\ UNCHANGED <<escalated, pass, mails, torn>>

Ages(i) ==
  /\ ticket[i].age < 2 /\ ticket' = [ticket EXCEPT ![i].age = @ + 1]
  /\ UNCHANGED <<escalated, pass, mails, torn>>

Delete(i) ==
  /\ ticket[i].live /\ ticket' = [ticket EXCEPT ![i].live = FALSE]
  /\ escalated' = [escalated EXCEPT ![i] = {}]
  /\ UNCHANGED <<pass, mails, torn>>

\* The response target is the nearer one.
BreachOf(t) == IF t.age >= 1 /\ t.status = "open" THEN "response" ELSE "resolution"
Late(t)     == t.live /\ t.status # "over" /\ (t.age = 2 \/ (t.age = 1 /\ t.status = "open"))

\* What a pass thinks of a ticket is what it read when it started.
Start(p) ==
  /\ pass[p] = Resting
  /\ pass' = [pass EXCEPT ![p].todo = {<<i, BreachOf(ticket[i])>> : i \in {k \in Tickets : Late(ticket[k])}}]
  /\ UNCHANGED <<ticket, escalated, mails, torn>>

\* Mutant: escalations are not looked up.
Known_Never(i, b) == FALSE
Known(i, b) == b \in escalated[i]

Take(p, w) ==
  /\ pass[p].at = {} /\ w \in pass[p].todo
  /\ pass' = [pass EXCEPT ![p].todo = @ \ {w}, ![p].at = IF Known(w[1], w[2]) THEN {} ELSE {w}]
  /\ torn' = IF ~Known(w[1], w[2]) /\ \E q \in Passes : w \in pass[q].at THEN torn \union {w} ELSE torn
  /\ UNCHANGED <<ticket, escalated, mails>>

\* sent = FALSE: the server refused it; that is noted and the escalation commits.
Mail(p, w, sent) ==
  /\ w \in pass[p].at /\ ~pass[p].mailed
  /\ mails' = IF sent THEN [mails EXCEPT ![w[1]][w[2]] = IF @ < 3 THEN @ + 1 ELSE @] ELSE mails
  /\ pass' = [pass EXCEPT ![p].mailed = TRUE]
  /\ UNCHANGED <<ticket, escalated, torn>>

\* Another pass's escalation with the same key, or a ticket deleted, is an error that ends the pass.
Commit(p, w) ==
  /\ w \in pass[p].at /\ pass[p].mailed
  /\ IF ticket[w[1]].live /\ w[2] \notin escalated[w[1]]
     THEN /\ escalated' = [escalated EXCEPT ![w[1]] = @ \union {w[2]}]
          /\ pass' = [pass EXCEPT ![p].at = {}, ![p].mailed = FALSE]
     ELSE pass' = [pass EXCEPT ![p] = Resting] /\ UNCHANGED escalated
  /\ UNCHANGED <<ticket, mails, torn>>

\* A crash.
Dies(p) ==
  /\ pass[p] # Resting /\ pass' = [pass EXCEPT ![p] = Resting]
  /\ torn' = IF pass[p].mailed THEN torn \union pass[p].at ELSE torn
  /\ UNCHANGED <<ticket, escalated, mails>>

Next ==
  \/ \E i \in Tickets : Ages(i) \/ Delete(i) \/ \E s \in Statuses : SetStatus(i, s)
  \/ \E p \in Passes :
       \/ Start(p) \/ Dies(p)
       \/ \E w \in Tickets \X Breaches : Take(p, w) \/ Commit(p, w) \/ \E sent \in BOOLEAN : Mail(p, w, sent)

Spec == Init /\ [][Next]_slaVars

---------------------------------------------------------------------------
(* Properties *)

\* Whatever passes overlap and however long their lists are, a breach of a ticket that is still
\* there is mailed once: a second e-mail takes two passes that had it in hand at once, or one that
\* died between the e-mail and the commit. What is escalated has been in breach.
EscalatedOnce ==
  \A i \in Tickets, b \in Breaches :
    /\ ticket[i].live /\ mails[i][b] > 1 => <<i, b>> \in torn
    /\ b \in escalated[i] => ticket[i].age > 0
Held(w) == {p \in Passes : w \in pass[p].at}

\* Why: a pass has one ticket in hand at most, that is or was late, and
OneAtATime ==
  /\ \A p \in Passes : (\A v, w \in pass[p].at : v = w) /\ (pass[p].at = {} => ~pass[p].mailed)
  /\ \A p \in Passes : \A w \in pass[p].todo \union pass[p].at : ticket[w[1]].age > 0
  /\ \A i \in Tickets : \A b \in escalated[i] : ticket[i].age > 0

\* who has a breach in hand is alone and it is not escalated; its e-mail was sent only if it is, or
\* if that pass has sent it.
OneEscalates ==
  \A i \in Tickets, b \in Breaches : ticket[i].live /\ <<i, b>> \notin torn =>
    /\ \A p, q \in Held(<<i, b>>) : p = q
    /\ Held(<<i, b>>) # {} => b \notin escalated[i]
    /\ mails[i][b] <= 1
    /\ mails[i][b] = 1 => b \in escalated[i] \/ \E p \in Held(<<i, b>>) : pass[p].mailed

Inv == TypeOK /\ OneAtATime /\ OneEscalates
=================================================================================
