--------------------------------- MODULE Reports ---------------------------------
(***************************************************************************)
(* One report schedule, the runs it makes and the e-mails it sends          *)
(* (services/reporting_service.py, services/email_service.py,               *)
(* endpoints/reporting.py, workers/report_schedule_worker.py).              *)
(*                                                                          *)
(* The worker and the endpoints process the same tables, each with its own  *)
(* session: a schedule is read once, its run is committed several times,    *)
(* the e-mail is sent, and only then is the schedule moved on.              *)
(***************************************************************************)
EXTENDS Integers, Sequences, FiniteSets

CONSTANTS Passes,    \* the worker's thread and requests
          MaxSlots,  \* bound on time, in periods of the schedule
          MaxReports \* bound on the report_runs

VARIABLES slot,     \* now
          sched,    \* report_schedules: enabled, next_run_at (run_count is a statistic, left out)
          reports,  \* report_runs, in order of creation
          pass,     \* what each pass does and what it read
          mails,    \* e-mails of the schedule: deliveries for each occurrence
          made,     \* history: occurrence |-> the runs made for it
          exempt    \* history: all occurrences once two passes overlapped or someone set the
                    \* date, and those a pass was cut off in

reportVars == <<slot, sched, reports, pass, mails, made, exempt>>

Slots == 1..MaxSlots
Report == {"pending", "running", "completed", "failed", "deleted"}
\* occ, at: next_run_at and the time, when the schedule was read.
Rest   == [pc |-> "rest", job |-> "due", occ |-> 1, at |-> 1, run |-> 0]

TypeOK ==
  /\ slot \in Slots /\ sched \in [enabled : BOOLEAN, next : 1..(MaxSlots + 1)]
  /\ reports \in Seq(Report) /\ Len(reports) <= MaxReports
  /\ \A p \in Passes : /\ pass[p].pc \in {"rest", "create", "start", "build", "mail", "advance"}
                       /\ pass[p].job \in {"due", "now", "execute"} /\ pass[p].run \in 0..Len(reports)
  /\ mails \in [Slots -> Nat] /\ made \in [Slots -> Nat]
  /\ exempt \in SUBSET Slots

Init ==
  /\ slot = 1 /\ sched = [enabled |-> TRUE, next |-> 1]
  /\ reports = <<>> /\ pass = [p \in Passes |-> Rest]
  /\ mails = [o \in Slots |-> 0] /\ made = [o \in Slots |-> 0] /\ exempt = {}

Tick == slot < MaxSlots /\ slot' = slot + 1 /\ UNCHANGED <<sched, reports, pass, mails, made, exempt>>

Busy == \E p \in Passes : pass[p].pc # "rest" /\ pass[p].job = "due"

---------------------------------------------------------------------------
(* process_due_schedules, schedule_send_now, execute_run *)

\* Mutant: schedules are taken whenever they are enabled.
Due_Enabled == sched.enabled /\ sched.next <= MaxSlots
Due == sched.enabled /\ sched.next <= slot

\* A second pass takes what the first has not moved on yet; the slower one sets the date last.
TakeDue(p) ==
  /\ pass[p].pc = "rest" /\ Due
  /\ pass' = [pass EXCEPT ![p] = [Rest EXCEPT !.pc = "create", !.occ = sched.next, !.at = slot]]
  /\ exempt' = IF Busy THEN Slots ELSE exempt
  /\ UNCHANGED <<slot, sched, reports, mails, made>>

SendNow(p) ==
  /\ pass[p].pc = "rest"
  /\ pass' = [pass EXCEPT ![p] = [Rest EXCEPT !.pc = "create", !.job = "now"]]
  /\ UNCHANGED <<slot, sched, reports, mails, made, exempt>>

\* POST /runs/{id}/execute: any run that is not running.
Execute(p, r) ==
  /\ pass[p].pc = "rest" /\ reports[r] \notin {"running", "deleted"}
  /\ pass' = [pass EXCEPT ![p] = [Rest EXCEPT !.pc = "start", !.job = "execute", !.run = r]]
  /\ UNCHANGED <<slot, sched, reports, mails, made, exempt>>

\* create_run commits a pending run.
CreateRun(p) ==
  LET w == pass[p] IN
  /\ w.pc = "create" /\ Len(reports) < MaxReports
  /\ reports' = Append(reports, "pending")
  /\ made' = IF w.job = "due" THEN [made EXCEPT ![w.occ] = @ + 1] ELSE made
  /\ pass' = [pass EXCEPT ![p].pc = "start", ![p].run = Len(reports) + 1]
  /\ UNCHANGED <<slot, sched, mails, exempt>>

StartRun(p) ==
  LET r == pass[p].run IN
  /\ pass[p].pc = "start" /\ reports[r] \notin {"running", "deleted"}
  /\ reports' = [reports EXCEPT ![r] = "running"]
  /\ pass' = [pass EXCEPT ![p].pc = "build"]
  /\ UNCHANGED <<slot, sched, mails, made, exempt>>

\* The report is built, or failed; the schedule's run gets its schedule_id.
EndRun(p, ok) ==
  LET r == pass[p].run IN
  /\ pass[p].pc = "build" /\ reports[r] # "deleted"
  /\ reports' = [reports EXCEPT ![r] = IF ok THEN "completed" ELSE "failed"]
  /\ pass' = [pass EXCEPT ![p] = CASE @.job = "execute" -> Rest
                                   [] @.job = "due" /\ ~ok -> [@ EXCEPT !.pc = "advance"]
                                   [] @.job = "now" /\ ~ok -> Rest
                                   [] OTHER -> [@ EXCEPT !.pc = "mail"]]
  /\ UNCHANGED <<slot, sched, mails, made, exempt>>

\* Best effort: the schedule moves on whatever became of the mail.
Mailed(w, ok) == IF w.job = "due" THEN [w EXCEPT !.pc = "advance"] ELSE Rest

\* deliver_run_email, with the recipients read at the start; the run must still be completed.
Mail(p, ok) ==
  LET w == pass[p] done == reports[w.run] = "completed" IN
  /\ w.pc = "mail" /\ reports[w.run] # "deleted" /\ (ok => done)
  /\ mails' = IF w.job = "due" /\ done THEN [mails EXCEPT ![w.occ] = @ + 1] ELSE mails
  /\ pass' = [pass EXCEPT ![p] = Mailed(w, ok)]
  /\ UNCHANGED <<slot, sched, reports, made, exempt>>

\* The next run is one period after the pass began.
Advance(p) ==
  LET w == pass[p] IN
  /\ w.pc = "advance"
  /\ sched' = [sched EXCEPT !.next = w.at + 1]
  /\ pass' = [pass EXCEPT ![p] = Rest]
  /\ UNCHANGED <<slot, reports, mails, made, exempt>>

\* An error before the run exists, or because it is running: the schedule moves on uncounted.
Fail(p) ==
  LET w == pass[p] IN
  /\ \/ w.pc = "create"
     \/ w.pc = "start" /\ reports[w.run] = "running"
  /\ sched' = IF w.job = "due" THEN [sched EXCEPT !.next = w.at + 1] ELSE sched
  /\ pass' = [pass EXCEPT ![p] = Rest]
  /\ UNCHANGED <<slot, reports, mails, made, exempt>>

\* A database error, which also ends the except clause, or the end of the process.
Abort(p) ==
  LET w == pass[p] IN
  /\ w.pc # "rest"
  /\ exempt' = IF w.job = "due" THEN exempt \union {w.occ} ELSE exempt
  /\ pass' = [pass EXCEPT ![p] = Rest]
  /\ UNCHANGED <<slot, sched, reports, mails, made>>

---------------------------------------------------------------------------
(* Edits *)

DeleteRun(r) ==
  /\ reports[r] # "deleted"
  /\ reports' = [reports EXCEPT ![r] = "deleted"]
  /\ UNCHANGED <<slot, sched, pass, mails, made, exempt>>

UpdateSchedule(enabled, next) ==
  /\ sched' = [sched EXCEPT !.enabled = enabled, !.next = next]
  /\ exempt' = IF next # sched.next THEN Slots ELSE exempt
  /\ UNCHANGED <<slot, reports, pass, mails, made>>

Next ==
  \/ Tick
  \/ \E p \in Passes : TakeDue(p) \/ SendNow(p) \/ CreateRun(p) \/ StartRun(p) \/ Advance(p) \/ Fail(p) \/ Abort(p)
  \/ \E p \in Passes, ok \in BOOLEAN : EndRun(p, ok) \/ Mail(p, ok)
  \/ \E p \in Passes, r \in 1..Len(reports) : Execute(p, r)
  \/ \E r \in 1..Len(reports) : DeleteRun(r)
  \/ \E enabled \in BOOLEAN, next \in {sched.next, slot} : UpdateSchedule(enabled, next)

Spec == Init /\ [][Next]_reportVars

---------------------------------------------------------------------------
(* Properties *)

\* Unless two passes overlapped, someone set the date or a pass was cut off, an
\* occurrence makes one run and one e-mail, and never before its time.
OneReportPerOccurrence ==
  \A o \in Slots \ exempt : made[o] <= 1 /\ mails[o] <= made[o] /\ (made[o] > 0 => o <= slot)

\* What the proof needs: a pass that took an occurrence is alone until it has moved the schedule on, and
\* makes the run and sends the e-mail that are still missing; an occurrence with a run is over, or such a pass's.
Taking(p) == pass[p].pc # "rest" /\ pass[p].job = "due"
OnePass ==
  \A p \in Passes :
    LET w == pass[p] IN
    /\ w.pc = "advance" => w.job = "due"
    /\ Taking(p) => /\ w.occ <= w.at /\ w.at <= slot
                    /\ Slots \subseteq exempt \/ (w.occ = sched.next /\ \A q \in Passes \ {p} : ~Taking(q))
                    /\ w.occ \notin exempt => /\ w.pc = "create" => made[w.occ] = 0
                                              /\ w.pc \in {"start", "build", "mail"} => made[w.occ] = 1 /\ mails[w.occ] = 0
MovedOn ==
  \A o \in Slots \ exempt :
    made[o] = 0 \/ o < sched.next \/ \E p \in Passes : Taking(p) /\ pass[p].occ = o /\ pass[p].pc # "create"
Inv == OneReportPerOccurrence /\ OnePass /\ MovedOn
=================================================================================
