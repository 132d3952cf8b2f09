---------------------------- MODULE DiagnosisDebt ----------------------------
(***************************************************************************)
(* The paid jobs of the Slow Loop and the wrong predictions they work on.  *)
(* A miss settled without a paid diagnosis carries a placeholder; once a   *)
(* week one call diagnoses the recent ones together (batch_diagnosis),     *)
(* single calls pay off older ones (backfill_diagnoses) and a judge scores *)
(* a sample of the diagnoses (judge_diagnoses).  The weekly cap on paid    *)
(* calls is divided among the jobs in this order, after the recap, and a   *)
(* request to the fallback provider spends from the allowance of its job.  *)
(*                                                                         *)
(* A manual run may go on beside the scheduled one.  A diagnosis is the    *)
(* run, job and miss it comes from.  Every miss is a recent one.           *)
(***************************************************************************)
EXTENDS Integers, FiniteSets, FiniteSetsExt

CONSTANTS Runs,
          NMisses,     \* wrong predictions, the newest is 1
          Plans,       \* configurations considered
          None

Jobs == 1 .. 4   \* recap, batch, backfill, judge

(* requested: _requested_llm_calls, 0 for a job switched off; fallback:    *)
(* FALLBACK_LLM_CALLS_PER_JOB of them are the reserve for the second       *)
(* provider; cap: slow_loop_max_paid_llm_calls_per_week.                   *)

VARIABLES plan,           \* the configuration
          insight,        \* correction_insights of each miss
          judge_score,    \* diagnosis_judge_score: None, or whether it passes
          rejected_text,  \* rejected_diagnosis
          slow,           \* the runs in progress
          paid,           \* history: requests sent to a provider, per run
          escalated,      \* history: runs whose recap went on to the frontier
          stored          \* history: diagnoses whose save succeeded

debtTable == <<insight, judge_score, rejected_text>>
debtVars == <<plan, debtTable, slow, paid, escalated, stored>>

Misses == 1 .. NMisses
Undiagnosed == {<<"skipped">>, <<"batch_pending">>}
Rejected == <<"rejected">>
Diagnoses == Runs \X {2, 3} \X Misses
substantive(text) == text \in Diagnoses

(* slow_loop_paid_budget: each job gets what is left, up to its request.   *)
Left[j \in 0 .. 4] ==
    IF j = 0 THEN plan.cap ELSE Left[j - 1] - Min({plan.requested[j], Left[j - 1]})
Budget == [j \in Jobs |-> Left[j - 1] - Left[j]]

Waiting == [job |-> 0, node |-> "job", todo |-> {}, read |-> insight, remaining |-> 0]

Init ==
    /\ plan \in Plans
    /\ insight \in [Misses -> Undiagnosed]
    /\ judge_score = [m \in Misses |-> None]
    /\ rejected_text = [m \in Misses |-> None]
    /\ slow = [r \in Runs |-> Waiting]
    /\ paid = [r \in Runs |-> 0]
    /\ escalated = {}
    /\ stored = {}

-----------------------------------------------------------------------------
First(n, rows) == {m \in rows : Cardinality({k \in rows : k < m}) < n}
Sample(j) == Min({plan.requested[j] - plan.fallback, Budget[j]})

(* What a job reads before its first call: recap, get_deferred_diagnoses,  *)
(* get_diagnoses_to_judge with a random sample.                            *)
Batches(j) ==
    IF plan.requested[j] = 0 THEN {{}} ELSE
    CASE j = 1 -> {{1}}
      [] j = 2 -> {{m \in Misses : insight[m] \in Undiagnosed}}
      [] j = 3 -> {First(Sample(3), {m \in Misses : insight[m] \in Undiagnosed})}
      [] j = 4 -> LET rows == {m \in Misses : substantive(insight[m]) /\ judge_score[m] = None}
                  IN  kSubset(Min({Sample(4), Cardinality(rows)}), rows)

StartJob(r) ==
    /\ slow[r].node = "job" /\ slow[r].job < 4
    /\ LET j == slow[r].job + 1
       IN  \E rows \in Batches(j) :
              slow' = [slow EXCEPT ![r] =
                 [job |-> j, todo |-> rows, read |-> insight, remaining |-> Budget[j],
                  node |-> IF rows = {} THEN "job" ELSE "call"]]
    /\ UNCHANGED <<plan, debtTable, paid, escalated, stored>>

ToJob(r) == slow' = [slow EXCEPT ![r].node = "job"]
Spend(r) == paid' = [paid EXCEPT ![r] = @ + 1]
Row(r) == Min(slow[r].todo)

(* The row is done with, for better or worse; a batch has one call only.   *)
NextRow(r, done) ==
    slow' = [slow EXCEPT ![r].todo = @ \ done,
                         ![r].node = IF slow[r].todo \ done = {} THEN "job" ELSE "call"]

(* PaidBudgetExhausted before the provider: the job ends. *)
Exhausted(r) ==
    /\ slow[r].node = "call" /\ slow[r].remaining = 0
    /\ ToJob(r)
    /\ UNCHANGED <<plan, debtTable, paid, escalated, stored>>

(* The request to the primary provider, which answers ...                  *)
Request(r) ==
    /\ slow[r].node = "call" /\ slow[r].remaining > 0
    /\ Spend(r)
    /\ slow' = [slow EXCEPT ![r].remaining = @ - 1, ![r].node = "answered"]
    /\ UNCHANGED <<plan, debtTable, escalated, stored>>

(* ... or fails after its retries.                                         *)
RequestFails(r) ==
    /\ slow[r].node = "call" /\ slow[r].remaining > 0
    /\ Spend(r)
    /\ slow' = [slow EXCEPT ![r].remaining = @ - 1, ![r].node = "failed"]
    /\ UNCHANGED <<plan, debtTable, escalated, stored>>

(* FailoverLLMAdapter: the fallback answers, out of the same allowance.    *)
FailOver(r) ==
    /\ slow[r].node = "failed" /\ plan.fallback = 1 /\ slow[r].remaining > 0
    /\ Spend(r)
    /\ slow' = [slow EXCEPT ![r].remaining = @ - 1, ![r].node = "answered"]
    /\ UNCHANGED <<plan, debtTable, escalated, stored>>

(* CascadingLLMAdapter.analyze, which only the recap calls: an uncertain   *)
(* answer goes on to the frontier model, and no allowance is asked.        *)
Escalate(r) ==
    /\ slow[r].job = 1 /\ slow[r].node = "answered" /\ r \notin escalated
    /\ slow[r].remaining = Budget[1] - 1
    /\ Spend(r)
    /\ escalated' = escalated \cup {r}
    /\ UNCHANGED <<plan, debtTable, slow, stored>>

(* No answer, no usable diagnosis or verdict: the placeholder stays; a     *)
(* batch without any diagnosis leaves all of them.                         *)
NoDiagnosis(r) ==
    /\ slow[r].node \in {"failed", "answered"}
    /\ NextRow(r, IF slow[r].job \in {1, 2} THEN slow[r].todo ELSE {Row(r)})
    /\ UNCHANGED <<plan, debtTable, paid, escalated, stored>>

AfterSave(r) ==
    slow' = [slow EXCEPT ![r].todo = @ \ {Row(r)},
                         ![r].node = IF slow[r].todo = {Row(r)} THEN "job"
                                     ELSE IF slow[r].job = 2 THEN "answered" ELSE "call"]

Text(r) == <<r, slow[r].job, Row(r)>>

Overwrite(r) == \* mutant: the save does not ask for the placeholder it read
    /\ slow[r].node = "answered" /\ slow[r].job \in {2, 3}
    /\ insight' = [insight EXCEPT ![Row(r)] = Text(r)]
    /\ stored' = stored \cup {Text(r)}
    /\ AfterSave(r)
    /\ UNCHANGED <<plan, judge_score, rejected_text, paid, escalated>>

(* save_backfilled_diagnosis: only over the placeholder the job read.      *)
Diagnose(r) ==
    /\ slow[r].node = "answered" /\ slow[r].job \in {2, 3}
    /\ IF insight[Row(r)] = slow[r].read[Row(r)]
       THEN /\ insight' = [insight EXCEPT ![Row(r)] = Text(r)]
            /\ stored' = stored \cup {Text(r)}
       ELSE UNCHANGED <<insight, stored>>
    /\ AfterSave(r)
    /\ UNCHANGED <<plan, judge_score, rejected_text, paid, escalated>>

(* A diagnosis that passes, or any in shadow mode: the score alone.        *)
Score(r) ==
    /\ slow[r].node = "answered" /\ slow[r].job = 4
    /\ \E passes \in BOOLEAN : judge_score' = [judge_score EXCEPT ![Row(r)] = passes]
    /\ AfterSave(r)
    /\ UNCHANGED <<plan, insight, rejected_text, paid, escalated, stored>>

(* save_diagnosis_judgement with rejects_enabled, below the threshold.     *)
Reject(r) ==
    /\ slow[r].node = "answered" /\ slow[r].job = 4
    /\ IF insight[Row(r)] = slow[r].read[Row(r)]
       THEN /\ insight' = [insight EXCEPT ![Row(r)] = Rejected]
            /\ judge_score' = [judge_score EXCEPT ![Row(r)] = FALSE]
            /\ rejected_text' = [rejected_text EXCEPT ![Row(r)] = insight[Row(r)]]
       ELSE UNCHANGED debtTable
    /\ AfterSave(r)
    /\ UNCHANGED <<plan, paid, escalated, stored>>

(* The update fails, or the batch's answer has no entry for this row: the  *)
(* rows after it are saved all the same.                                   *)
SaveFails(r) ==
    /\ slow[r].node = "answered" /\ slow[r].job # 1
    /\ AfterSave(r)
    /\ UNCHANGED <<plan, debtTable, paid, escalated, stored>>

RunEnds(r) ==
    /\ slow[r].job = 4 /\ slow[r].node = "job"
    /\ UNCHANGED debtVars

Next ==
    \E r \in Runs :
       \/ StartJob(r) \/ Exhausted(r) \/ Request(r) \/ RequestFails(r)
       \/ FailOver(r) \/ Escalate(r) \/ NoDiagnosis(r)
       \/ Diagnose(r) \/ Score(r) \/ Reject(r) \/ SaveFails(r) \/ RunEnds(r)

Spec == Init /\ [][Next]_debtVars

-----------------------------------------------------------------------------
(* The variables hold what the code's values stand for.                    *)
TypeOK ==
    /\ plan \in Plans
    /\ insight \in [Misses -> Undiagnosed \cup Diagnoses \cup {Rejected}]
    /\ judge_score \in [Misses -> BOOLEAN \cup {None}]
    /\ rejected_text \in [Misses -> Diagnoses \cup {None}]
    /\ \A r \in Runs : /\ slow[r].job \in 0 .. 4
                       /\ slow[r].node \in {"job", "call", "failed", "answered"}
                       /\ slow[r].todo \subseteq Misses
                       /\ slow[r].remaining \in 0 .. plan.cap
    /\ stored \subseteq Diagnoses /\ escalated \subseteq Runs

(* What was paid for is kept and bounded: a diagnosis once saved stays the *)
(* insight of its miss, or moves to rejected_diagnosis, whatever another   *)
(* run read before; and a run sends no more requests than the weekly cap,  *)
(* failed and fallback requests included, besides the recap's escalation.  *)
PaidWithinCapAndKept ==
    /\ \A t \in stored :
          \/ insight[t[3]] = t
          \/ insight[t[3]] = Rejected /\ rejected_text[t[3]] = t
    /\ \A r \in Runs : paid[r] <= plan.cap + Cardinality(escalated \cap {r})

(* The inductive invariant.  What a job read of its rows says which of     *)
(* them it may replace; what a run has sent and may still send is within   *)
(* what the cap gave to its jobs so far.                                   *)
Texts == Undiagnosed \cup Diagnoses \cup {Rejected}

SlowRun == [job : 0 .. 4, node : {"job", "call", "failed", "answered"},
            todo : SUBSET Misses, read : [Misses -> Texts], remaining : 0 .. plan.cap]

ReadsOK(r) ==
    /\ slow[r].node # "job" => slow[r].todo # {}
    /\ slow[r].job \in {2, 3} => \A m \in slow[r].todo : slow[r].read[m] \in Undiagnosed
    /\ slow[r].job = 4 => \A m \in slow[r].todo : slow[r].read[m] \in Diagnoses

SpendOK(r) ==
    paid[r] + slow[r].remaining
        <= plan.cap - Left[slow[r].job] + Cardinality(escalated \cap {r})

IInv ==
    /\ TypeOK /\ PaidWithinCapAndKept
    /\ slow \in [Runs -> SlowRun] /\ paid \in [Runs -> Nat]
    /\ \A r \in Runs : ReadsOK(r) /\ SpendOK(r)
=============================================================================
