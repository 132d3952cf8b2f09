----------------------------- MODULE Workflows -----------------------------
(***************************************************************************)
(* The workflows that write, and the queues they wait in: Fast Loop, Slow  *)
(* Loop and DB Migrate.  A run waits for the group of its workflow, its    *)
(* writing job for the group of every writer, and the job that pushes the  *)
(* ledger for a group of its own.  Between them pass three things of which *)
(* no step sees more than its own half: the branch of the ledger, the      *)
(* release of the weights, and the schema of the database.                 *)
(*                                                                         *)
(* What an agent or a trainer does in its step is the subject of other     *)
(* modules.  The weights of the direction challenger and the deploy of the *)
(* scorecard are not modelled.                                             *)
(***************************************************************************)
EXTENDS Naturals, FiniteSets

CONSTANTS FastRuns, SlowRuns, Migrations,   \* runs, by workflow
          Needed,       \* FLAG_REQUIRED_MIGRATION of a flag that is on
          LastFile,     \* the newest migration of the repository
          None

VARIABLES stage,      \* where each run is
          again,      \* runs whose failed push the owner started again
          group,      \* holder and pending item of each group
          ledger,     \* runs whose lines are on attestation-log
          base,       \* LEDGER_BASE of a run: the ledger its agent found
          release,    \* assets of model-latest, as numbers of models, 0 = absent
          accepted,   \* models that passed the gate so far
          broken,     \* history: the upload of the last of them was cut short
          served,     \* the weights the job of an agent has downloaded; 0 = the release
                      \* holds none, None = the download failed: both are a cold start
          schema,     \* schema_version()
          flag        \* its flag: "on", "off", or "unproved" when the probe got no answer

queueVars == <<stage, again, group>>
ledgerVars == <<ledger, base>>
modelVars == <<release, accepted, broken, served>>
schemaVars == <<schema, flag>>
workflowVars == <<queueVars, ledgerVars, modelVars, schemaVars>>

Runs == FastRuns \cup SlowRuns \cup Migrations

NoWorkflowGroup(r) == r                                        \* mutant

(* concurrency.group of a run and of its writing job.                      *)
WorkflowGroup(r) == IF r \in FastRuns THEN "fast-loop"
                    ELSE IF r \in SlowRuns THEN "slow-loop" ELSE "db-migrate"
MigrationsOutside(r) == IF r \in Migrations THEN "db-migrations" ELSE "supabase-writers"  \* mutant
TrainerOutside(r) == IF r \in SlowRuns THEN "trainers" ELSE "supabase-writers"           \* mutant
JobGroupOfWorkflow(r) == WorkflowGroup(r)                                                \* mutant
JobGroup(r) == "supabase-writers"
Groups == {WorkflowGroup(r) : r \in Runs} \cup {JobGroup(r) : r \in Runs}
            \cup {"attestation-ledger"}

UploadSteps == {"upload", "put", "sidecar", "put_sidecar", "notes"}
WritingSteps == {"checkout", "download", "probe", "agent", "train", "migrate"} \cup UploadSteps
WaitingSteps == {"run_wait", "job_wait", "push_wait"}
EndSteps == {"done", "cut", "displaced", "push_failed"}
Stages == {"idle", "push"} \cup WaitingSteps \cup WritingSteps \cup EndSteps

Init ==
    /\ stage = [r \in Runs |-> "idle"]
    /\ again = {}
    /\ group = [g \in Groups |-> [holder |-> None, pending |-> None]]
    /\ ledger = {}
    /\ base = [r \in FastRuns |-> {}]
    /\ release = [weights |-> 0, sidecar |-> 0, notes |-> 0]
    /\ accepted = 0
    /\ broken = FALSE
    /\ served = [r \in FastRuns |-> 0]
    /\ schema = 0
    /\ flag = [r \in FastRuns |-> "on"]   \* config.toml

(* The runner of a job goes with it: its weights and its settings.         *)
Discard(r) ==
    /\ served' = [q \in FastRuns |-> IF q = r THEN 0 ELSE served[q]]
    /\ flag' = [q \in FastRuns |-> IF q = r THEN "on" ELSE flag[q]]

-----------------------------------------------------------------------------
(* A group holds one item and lets one wait; a newcomer replaces the one   *)
(* that waits, and that one is cancelled.                                  *)
Join(gs, g, r) ==
    [gs EXCEPT ![g] = IF @.holder = None THEN [@ EXCEPT !.holder = r] ELSE [@ EXCEPT !.pending = r]]
Leave(gs, g, r) ==
    [gs EXCEPT ![g] = IF @.holder = r THEN [holder |-> @.pending, pending |-> None] ELSE @]
CancelInProgress(g) == {group[g].holder, group[g].pending} \ {None} \* mutant: cancel-in-progress: true
Cancelled(g) == {group[g].pending} \ {None}

(* Runs that end, and the groups of their runs that they give up.          *)
Freed(gs, ended) ==
    [g \in Groups |-> IF gs[g].holder \in ended THEN Leave(gs, g, gs[g].holder)[g] ELSE gs[g]]

(* r goes to a stage in which it waits for the group g.                    *)
Enqueue(gs, g, r, s) ==
    LET out == Cancelled(g)
    IN /\ group' = Freed(Join(gs, g, r), out)
       /\ stage' = [q \in Runs |-> IF q \in out THEN "displaced"
                                   ELSE IF q = r THEN s ELSE stage[q]]

(* r ends for good: its job's group and its run's.                         *)
Finish(r, s) ==
    /\ stage' = [stage EXCEPT ![r] = s]
    /\ group' = Freed(group, {r})

Goto(r, s) ==
    /\ stage' = [stage EXCEPT ![r] = s]
    /\ UNCHANGED group

(* A cron or a dispatch, or the owner's "re-run failed jobs" after a push  *)
(* that failed.                                                            *)
Trigger(r) ==
    /\ stage[r] = "idle"
    /\ Enqueue(group, WorkflowGroup(r), r, "run_wait")
    /\ UNCHANGED <<again, ledgerVars, modelVars, schemaVars>>

PushAgain(r) ==
    /\ stage[r] = "push_failed" /\ r \notin again
    /\ Enqueue(group, WorkflowGroup(r), r, "run_wait")
    /\ again' = again \cup {r}
    /\ UNCHANGED <<ledgerVars, modelVars, schemaVars>>

StartRun(r) ==
    /\ stage[r] = "run_wait" /\ group[WorkflowGroup(r)].holder = r
    /\ IF r \in again
         THEN Enqueue(group, "attestation-ledger", r, "push_wait")
         ELSE Enqueue(group, JobGroup(r), r, "job_wait")
    /\ UNCHANGED <<again, ledgerVars, modelVars, schemaVars>>

StartJob(r) ==
    /\ stage[r] = "job_wait" /\ group[JobGroup(r)].holder = r
    /\ Goto(r, IF r \in FastRuns THEN "checkout" ELSE IF r \in SlowRuns THEN "train" ELSE "migrate")
    /\ UNCHANGED <<again, ledgerVars, modelVars, schemaVars>>

-----------------------------------------------------------------------------
(* The Fast Loop: checkout of the ledger, weights, gate_flags_by_schema    *)
(* (a probe without an answer leaves the flag on), agent, push.            *)
Checkout(r) ==
    /\ stage[r] = "checkout"
    /\ base' = [base EXCEPT ![r] = ledger]
    /\ Goto(r, "download")
    /\ UNCHANGED <<again, ledger, modelVars, schemaVars>>

(* Any download that fails is a cold start, also of an intact release.     *)
Download(r) ==
    /\ stage[r] = "download"
    /\ \E ok \in BOOLEAN :
          served' = [served EXCEPT ![r] = IF ok THEN release.weights ELSE None]
    /\ Goto(r, "probe")
    /\ UNCHANGED <<again, ledgerVars, release, accepted, broken, schemaVars>>

OneFileLess(version) == Needed > version + 1 \* mutant
flags_missing_migration(version) == Needed > version

evaluate_schema_gate(r) ==
    /\ stage[r] = "probe"
    /\ \E answered \in BOOLEAN :
          flag' = [flag EXCEPT ![r] = IF ~answered THEN "unproved"
                                      ELSE IF flags_missing_migration(schema) THEN "off" ELSE "on"]
    /\ Goto(r, "agent")
    /\ UNCHANGED <<again, ledgerVars, modelVars, schema>>

(* The agent's job ends with new lines in the ledger, or without, whether  *)
(* it succeeded or failed.                                                 *)
EndAgent(r) ==
    /\ stage[r] = "agent"
    /\ \/ Enqueue(Leave(group, JobGroup(r), r), "attestation-ledger", r, "push_wait")
       \/ Finish(r, "done")
    /\ Discard(r)
    /\ UNCHANGED <<again, ledgerVars, release, accepted, broken, schema>>

StartPush(r) ==
    /\ stage[r] = "push_wait" /\ group["attestation-ledger"].holder = r
    /\ Goto(r, "push")
    /\ UNCHANGED <<again, ledgerVars, modelVars, schemaVars>>

PushOnBase(r) == \* mutant: the commit on top of LEDGER_BASE is pushed without a rebase
    /\ stage[r] = "push"
    /\ ledger' = base[r] \cup {r}
    /\ Finish(r, "done")
    /\ UNCHANGED <<again, base, modelVars, schemaVars>>

(* A commit on top of base, rebased on the tip with merge=union.           *)
Push(r) ==
    /\ stage[r] = "push"
    /\ ledger' = ledger \cup base[r] \cup {r}
    /\ Finish(r, "done")
    /\ UNCHANGED <<again, base, modelVars, schemaVars>>

PushFails(r) ==
    /\ stage[r] = "push"
    /\ Finish(r, "push_failed")
    /\ UNCHANGED <<again, ledgerVars, modelVars, schemaVars>>

-----------------------------------------------------------------------------
(* The Slow Loop: a model passes the gate or there is no file to upload;   *)
(* the release is created with its notes, and --clobber deletes an asset   *)
(* before it uploads the new one.                                          *)
Train(r) ==
    /\ stage[r] = "train"
    /\ \/ accepted' = accepted + 1 /\ broken' = FALSE /\ Goto(r, "upload")
       \/ UNCHANGED <<accepted, broken>> /\ Finish(r, "done")
    /\ UNCHANGED <<again, ledgerVars, release, served, schemaVars>>

DeleteWeights == [release EXCEPT !.weights = 0, !.notes = IF @ = 0 THEN accepted ELSE @]

SidecarOnce(r) == \* mutant: an existing sidecar is not replaced
    /\ \/ stage[r] = "upload" /\ release' = DeleteWeights /\ Goto(r, "put")
       \/ stage[r] = "put" /\ release' = [release EXCEPT !.weights = accepted] /\ Goto(r, "sidecar")
       \/ stage[r] = "sidecar" /\ UNCHANGED release /\ Goto(r, "put_sidecar")
       \/ /\ stage[r] = "put_sidecar" /\ Goto(r, "notes")
          /\ release' = [release EXCEPT !.sidecar = IF @ = 0 THEN accepted ELSE @]
    /\ UNCHANGED <<again, ledgerVars, accepted, broken, served, schemaVars>>

Clobber(r) ==
    /\ \/ stage[r] = "upload" /\ release' = DeleteWeights /\ Goto(r, "put")
       \/ stage[r] = "put" /\ release' = [release EXCEPT !.weights = accepted] /\ Goto(r, "sidecar")
       \/ stage[r] = "sidecar" /\ release' = [release EXCEPT !.sidecar = 0] /\ Goto(r, "put_sidecar")
       \/ stage[r] = "put_sidecar" /\ release' = [release EXCEPT !.sidecar = accepted] /\ Goto(r, "notes")
    /\ UNCHANGED <<again, ledgerVars, accepted, broken, served, schemaVars>>

EditNotes(r) ==
    /\ stage[r] = "notes"
    /\ release' = [release EXCEPT !.notes = accepted]
    /\ Finish(r, "done")
    /\ UNCHANGED <<again, ledgerVars, accepted, broken, served, schemaVars>>

-----------------------------------------------------------------------------
ApplyOnceMore(r) == \* mutant: off by one at the last file
    /\ stage[r] = "migrate" /\ schema <= LastFile
    /\ schema' = schema + 1
    /\ UNCHANGED <<queueVars, ledgerVars, modelVars, flag>>

(* DB Migrate: one file after the other, none in a dry run.                *)
ApplyFile(r) ==
    /\ stage[r] = "migrate" /\ schema < LastFile
    /\ schema' = schema + 1
    /\ UNCHANGED <<queueVars, ledgerVars, modelVars, flag>>

EndMigrate(r) ==
    /\ stage[r] = "migrate"
    /\ Finish(r, "done")
    /\ UNCHANGED <<again, ledgerVars, modelVars, schemaVars>>

(* A writing job hits timeout-minutes, loses its runner, or fails in a     *)
(* step after which nothing of its own follows.                            *)
Cut(r) ==
    /\ stage[r] \in WritingSteps
    /\ broken' = (broken \/ stage[r] \in UploadSteps)
    /\ Finish(r, "cut")
    /\ Discard(r)
    /\ UNCHANGED <<again, ledgerVars, release, accepted, schema>>

-----------------------------------------------------------------------------
Progress(r) ==
    \/ StartRun(r) \/ StartJob(r)
    \/ r \in FastRuns /\ (\/ Checkout(r) \/ Download(r) \/ evaluate_schema_gate(r)
                          \/ EndAgent(r) \/ StartPush(r) \/ Push(r) \/ PushFails(r))
    \/ r \in SlowRuns /\ (Train(r) \/ Clobber(r) \/ EditNotes(r))
    \/ r \in Migrations /\ (ApplyFile(r) \/ EndMigrate(r))
    \/ Cut(r)

Next == \E r \in Runs : Trigger(r) \/ PushAgain(r) \/ Progress(r)

(* GitHub starts what a group lets start, and every job ends, by itself or *)
(* at its timeout; so as long as some run can go on, one does.  Nobody has *)
(* to trigger a run.                                                       *)
Advance == \E r \in Runs : Progress(r)
Spec == Init /\ [][Next]_workflowVars /\ WF_workflowVars(Advance)
-----------------------------------------------------------------------------
TypeOK ==
    /\ stage \in [Runs -> Stages]
    /\ again \subseteq FastRuns
    /\ group \in [Groups -> [holder : Runs \cup {None}, pending : Runs \cup {None}]]
    /\ ledger \subseteq FastRuns
    /\ base \in [FastRuns -> SUBSET FastRuns]
    /\ accepted \in 0 .. Cardinality(SlowRuns)
    /\ release \in [weights : 0 .. accepted, sidecar : 0 .. accepted, notes : 0 .. accepted]
    /\ broken \in BOOLEAN
    /\ served \in [FastRuns -> (0 .. accepted) \cup {None}]
    /\ schema \in 0 .. LastFile
    /\ flag \in [FastRuns -> {"on", "off", "unproved"}]

(* NIEZ-27: one job at a time writes to the database, whichever workflow   *)
(* it belongs to and however the runs before it ended.                     *)
OneWriter ==
    \A r, q \in Runs : stage[r] \in WritingSteps /\ stage[q] \in WritingSteps => r = q

(* CI-13: an agent whose download succeeded predicts with the last model   *)
(* that passed the gate, never with an older one, nor with none because it *)
(* asked in the middle of an upload, unless the upload of that very model  *)
(* did not finish; an agent whose download failed has none at all.         *)
ServedIsLastAccepted ==
    \A r \in FastRuns :
       stage[r] \in {"probe", "agent"} => served[r] \in {accepted, None} \/ broken

(* ML-22: between uploads the sidecar and the hash in the notes are those  *)
(* of the weights beside them; an unfinished upload is healed by the next. *)
ReleaseIsWhole ==
    (\A r \in Runs : stage[r] \notin UploadSteps)
       => \/ release = [weights |-> accepted, sidecar |-> accepted, notes |-> accepted]
          \/ broken

(* NIEZ-30: while an agent writes, a flag is on exactly when the database  *)
(* has its columns, if the probe got an answer: no migration lands between *)
(* the probe and the last write.                                           *)
FlagMatchesSchema ==
    \A r \in FastRuns :
       stage[r] = "agent" /\ flag[r] # "unproved" => (flag[r] = "on" <=> schema >= Needed)

(* WIA-14: the first push of a run extends the very ledger its agent read, *)
(* so what the agent found missing there is still missing.                 *)
FirstPushIsFastForward ==
    \A r \in FastRuns : stage[r] = "push" /\ r \notin again => base[r] = ledger

(* WIA-14: a push keeps every line that is there, also when a push that    *)
(* failed is started again on top of an old commit.                        *)
LedgerKeepsLines == [][ledger \subseteq ledger']_workflowVars

(* FIN-18: the queues cancel only what has not begun.  A job that may have *)
(* paid, and lines that wait for their push, are never displaced.          *)
QueueSparesTheBegun ==
    [][\A r \in Runs : stage'[r] = "displaced" /\ stage[r] # "displaced"
                          => stage[r] \in {"run_wait", "job_wait"}]_workflowVars

(* Whatever was triggered ends: it runs, or a newer run takes its place.   *)
(* In the end none is in progress: none waits for a group that it holds    *)
(* itself, or whose holder waits for it.                                   *)
EveryRunEnds == <>[](\A r \in Runs : stage[r] \in EndSteps \cup {"idle"})

-----------------------------------------------------------------------------
(* The inductive invariant.  A run is an item of a group exactly in these  *)
(* stages, and may still wait behind another item in fewer.                *)
Holding(g, r) ==
    CASE g = WorkflowGroup(r) -> {"run_wait", "job_wait", "push_wait", "push"} \cup WritingSteps
      [] g = JobGroup(r) -> {"job_wait"} \cup WritingSteps
      [] g = "attestation-ledger" -> {"push_wait", "push"}
      [] OTHER -> {}
Behind(g, r) ==
    CASE g = WorkflowGroup(r) -> {"run_wait"}
      [] g = JobGroup(r) -> {"job_wait"}
      [] OTHER -> {}

IsIn(gs, g, r) == gs[g].holder = r \/ gs[g].pending = r

QueuesOK(gs, st) ==
    /\ \A g \in Groups : gs[g].holder = None => gs[g].pending = None
    /\ \A g \in Groups, r \in Runs :
          /\ IsIn(gs, g, r) <=> st[r] \in Holding(g, r)
          /\ gs[g].pending = r => st[r] \in Behind(g, r) /\ gs[g].holder # r

(* Each step is one of its workflow.                                       *)
OwnSteps ==
    \A r \in Runs :
       /\ stage[r] \in {"checkout", "download", "probe", "agent", "push_wait", "push", "push_failed"}
             => r \in FastRuns
       /\ stage[r] \in {"train"} \cup UploadSteps => r \in SlowRuns
       /\ stage[r] = "migrate" => r \in Migrations

(* From its checkout to its push a run's base is the ledger, which only    *)
(* the holder of its own groups extends.                                   *)
BaseIsLedger ==
    \A r \in FastRuns :
       stage[r] \in {"download", "probe", "agent", "push_wait", "push"} /\ r \notin again
          => base[r] = ledger

(* What the steps of an upload have put in place already.                  *)
UploadInv ==
    \A r \in SlowRuns :
       /\ stage[r] \in {"sidecar", "put_sidecar", "notes"} => release.weights = accepted
       /\ stage[r] = "notes" => release.sidecar = accepted

(* Every accepted model is the one training of a run.                      *)
Trained == {r \in SlowRuns : stage[r] \in UploadSteps \cup {"done", "cut"}}

IInv ==
    /\ TypeOK /\ QueuesOK(group, stage) /\ OwnSteps
    /\ BaseIsLedger
    /\ UploadInv /\ ReleaseIsWhole /\ ServedIsLastAccepted /\ accepted <= Cardinality(Trained)
    /\ FlagMatchesSchema
=============================================================================
