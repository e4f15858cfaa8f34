-------------------------------- MODULE Compliance --------------------------------
(***************************************************************************)
(* Assessments of one framework, the results of its controls and the       *)
(* framework's score (services/compliance_service.py).  Evidence, which     *)
(* adds a bonus to the score, is left out.                                  *)
(*                                                                          *)
(* Handlers run in threads.  Completing an assessment reads its results,    *)
(* commits the counts, and then computes the score in a second transaction, *)
(* whose exceptions are ignored.                                            *)
(***************************************************************************)
EXTENDS Integers, FiniteSets

CONSTANTS Controls, Assessments, Threads

VARIABLES controls,    \* those of the framework
          assessment,  \* status, total_controls and the counts of the last completion
          result,      \* control_results
          score,       \* compliance_scores: absent, or the assessment and its counts
          thread,      \* what each completion has read and will commit, then score
          last,        \* history: the assessment committed last as completed
          met          \* history: completions overlapped, or a result came between the two reads

complyVars == <<controls, assessment, result, score, thread, last, met>>

Results == {"passed", "failed", "not_applicable", "partial"}
Given   == {"passed", "partial"}   \* the results entered here; partial counts as failed does
Counts  == [passed : 0..Cardinality(Controls), failed : 0..Cardinality(Controls),
            na : 0..Cardinality(Controls), open : 0..Cardinality(Controls)]
Zero    == [passed |-> 0, failed |-> 0, na |-> 0, open |-> 0]
NoScore == [of |-> {}, counts |-> Zero]
Idle    == [phase |-> "idle", of |-> {}, counts |-> Zero]

TypeOK ==
  /\ controls \subseteq Controls
  /\ assessment \in [Assessments -> [status : {"absent", "pending", "in_progress", "completed", "failed"},
                                     total : 0..Cardinality(Controls), counts : Counts]]
  /\ result \in [Assessments -> [Controls -> {"none"} \union Results]]
  /\ last \in SUBSET Assessments /\ met \in BOOLEAN
  /\ score \in [of : SUBSET Assessments, counts : Counts]
  /\ thread \in [Threads -> [phase : {"idle", "commit", "score", "write"}, of : SUBSET Assessments, counts : Counts]]

Init ==
  /\ controls = {} /\ score = NoScore /\ last = {} /\ met = FALSE
  /\ assessment = [a \in Assessments |-> [status |-> "absent", total |-> 0, counts |-> Zero]]
  /\ result = [a \in Assessments |-> [c \in Controls |-> "none"]]
  /\ thread = [t \in Threads |-> Idle]

\* create_control; delete_control takes its results with it
CreateControl(c) ==
  /\ controls' = controls \union {c} /\ c \notin controls
  /\ UNCHANGED <<assessment, result, score, thread, last, met>>
DeleteControl(c) ==
  /\ c \in controls /\ controls' = controls \ {c}
  /\ result' = [a \in Assessments |-> [result[a] EXCEPT ![c] = "none"]]
  /\ met' = (met \/ \E t \in Threads : thread[t] # Idle)
  /\ UNCHANGED <<assessment, score, thread, last>>

\* create_assessment, with auto_start or without
CreateAssessment(a, started) ==
  /\ assessment[a].status = "absent"
  /\ assessment' = [assessment EXCEPT ![a] =
       [status |-> IF started THEN "in_progress" ELSE "pending", total |-> Cardinality(controls),
        counts |-> [Zero EXCEPT !.open = Cardinality(controls)]]]
  /\ UNCHANGED <<controls, result, score, thread, last, met>>

StartAssessment(a) ==
  /\ assessment[a].status \in {"pending", "failed"}
  /\ assessment' = [assessment EXCEPT ![a].status = "in_progress"]
  /\ UNCHANGED <<controls, result, score, thread, last, met>>

\* update_assessment: any status
UpdateAssessment(a, status) ==
  /\ assessment[a].status # "absent" /\ assessment' = [assessment EXCEPT ![a].status = status]
  /\ UNCHANGED <<controls, result, score, thread, last, met>>

\* upsert_result, batch_upsert_results: in any status of the assessment
UpsertResult(a, c, status) ==
  /\ assessment[a].status # "absent" /\ c \in controls /\ result[a][c] # status
  /\ result' = [result EXCEPT ![a][c] = status]
  /\ UNCHANGED <<controls, assessment, score, thread, last, met>>

---------------------------------------------------------------------------
(* complete_assessment and compute_score *)

Of(a, statuses) == Cardinality({c \in Controls : result[a][c] \in statuses})

\* The controls counted as open are those there were when the assessment was created.
Counted(a) ==
  LET assessed == Of(a, Results) IN
  [passed |-> Of(a, {"passed"}), failed |-> Of(a, {"failed", "partial"}), na |-> Of(a, {"not_applicable"}),
   open |-> IF assessment[a].total > assessed THEN assessment[a].total - assessed ELSE 0]

\* _grade of the share passed; no grade above F without a control that was assessed
Grade(counts) ==
  LET all == counts.passed + counts.failed p == 100 * counts.passed IN
  IF all = 0 THEN "F" ELSE IF p >= 90 * all THEN "A" ELSE IF p >= 80 * all THEN "B"
  ELSE IF p >= 70 * all THEN "C" ELSE IF p >= 60 * all THEN "D" ELSE "F"

\* In any status.
Complete(t, a) ==
  /\ thread[t] = Idle /\ assessment[a].status # "absent"
  /\ thread' = [thread EXCEPT ![t] = [phase |-> "commit", of |-> {a}, counts |-> Counted(a)]]
  /\ met' = (met \/ \E u \in Threads : thread[u] # Idle)
  /\ UNCHANGED <<controls, assessment, result, score, last>>

CommitCounts(t) ==
  /\ thread[t].phase = "commit"
  /\ \E a \in thread[t].of :
       /\ assessment' = [assessment EXCEPT ![a].status = "completed", ![a].counts = thread[t].counts]
       /\ last' = {a}
  /\ thread' = [thread EXCEPT ![t].phase = "score"]
  /\ UNCHANGED <<controls, result, score, met>>

\* Mutant: the score is taken from some completed assessment.
Scored_Any(a) == CHOOSE b \in Assessments : assessment[b].status \in {assessment[a].status, "completed"}
Scored(a) == a

\* The assessment is read again, with what another completion has written.
ReadScore(t) ==
  /\ thread[t].phase = "score"
  /\ \E a \in thread[t].of :
       thread' = [thread EXCEPT ![t] = [phase |-> "write", of |-> {Scored(a)}, counts |-> assessment[Scored(a)].counts]]
  /\ UNCHANGED <<controls, assessment, result, score, last, met>>

\* Inserted or updated; a second INSERT fails, silently.
WriteScore(t, ok) ==
  /\ thread[t].phase = "write"
  /\ score' = IF ok THEN [of |-> thread[t].of, counts |-> thread[t].counts] ELSE score
  /\ met' = (met \/ ~ok)
  /\ thread' = [thread EXCEPT ![t] = Idle]
  /\ UNCHANGED <<controls, assessment, result, last>>

\* A crash between the transactions.
Dies(t) ==
  /\ thread[t] # Idle /\ thread' = [thread EXCEPT ![t] = Idle] /\ met' = TRUE
  /\ UNCHANGED <<controls, assessment, result, score, last>>

Next ==
  \/ \E c \in Controls : CreateControl(c) \/ DeleteControl(c)
  \/ \E a \in Assessments :
       \/ \E b \in BOOLEAN : CreateAssessment(a, b)
       \/ StartAssessment(a) \/ UpdateAssessment(a, "failed")
       \/ \E c \in Controls, s \in Given : UpsertResult(a, c, s)
       \/ \E t \in Threads : Complete(t, a)
  \/ \E t \in Threads : CommitCounts(t) \/ ReadScore(t) \/ Dies(t) \/ (\E ok \in BOOLEAN : WriteScore(t, ok))

Spec == Init /\ [][Next]_complyVars

---------------------------------------------------------------------------
(* Properties *)

\* Between completions the framework's score is that of the assessment completed last, as it
\* was counted then, unless completions overlapped or one ended between its transactions.
ScoreFollowsLast ==
  ~met /\ (\A t \in Threads : thread[t] = Idle) /\ last # {}
    => \E a \in last : score.of = {a} /\ score.counts = assessment[a].counts
                       /\ Grade(score.counts) = Grade(assessment[a].counts)
\* What the proof needs: a completion is of an assessment that exists; the one ahead of its score is the last.
Inv ==
  /\ TypeOK /\ ScoreFollowsLast
  /\ \A a \in last : last = {a} /\ assessment[a].status # "absent"
  /\ \A t \in Threads :
       IF thread[t].phase = "idle" THEN thread[t] = Idle
       ELSE /\ \E a \in thread[t].of : thread[t].of = {a} /\ assessment[a].status # "absent"
            /\ ~met => \A u \in Threads \ {t} : thread[u] = Idle
            /\ thread[t].phase \in {"score", "write"} /\ ~met => last = thread[t].of
            /\ thread[t].phase = "write" /\ ~met => \A a \in last : thread[t].counts = assessment[a].counts
=============================================================================
