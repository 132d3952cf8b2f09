------------------------------ MODULE MCQueues ------------------------------
(***************************************************************************)
(* Who waits for whom, twice: the threads of a process before one host     *)
(* (FinnhubClient) and the runs of the repository before each other        *)
(* (Workflows).  They share nothing: a behaviour is one of the component   *)
(* it watches, the other stays where it started.                           *)
(***************************************************************************)
EXTENDS FinnhubClient

CONSTANTS FastRuns, SlowRuns, Migrations, Needed, LastFile

(* A run is of one workflow; of trainings there are finitely many.         *)
ASSUME RunsAssumption ==
    /\ FastRuns \cap SlowRuns = {} /\ FastRuns \cap Migrations = {}
    /\ SlowRuns \cap Migrations = {} /\ IsFiniteSet(SlowRuns)
    /\ NoThread \notin Nat \cup FastRuns \cup SlowRuns \cup Migrations
ASSUME FilesAssumption == Needed \in Nat /\ LastFile \in Nat

VARIABLES watched,
          stage, again, group, ledger, base, release, accepted, broken, served, schema, flag

Flow == INSTANCE Workflows WITH None <- NoThread

flowVars == <<stage, again, group, ledger, base, release, accepted, broken, served,
              schema, flag>>
allVars == <<watched, vars, flowVars>>

(* The runs that may be triggered: those of the first workflow queue up,   *)
(* or one of them meets two trainings.  No run at all: threads.            *)
Queue == FastRuns \cup Migrations
Release == {CHOOSE f \in FastRuns : TRUE} \cup SlowRuns \cup Migrations

MCInit == watched \in {{}, Queue, Release} /\ Init /\ Flow!Init

OfThreads(A) == watched = {} /\ A /\ UNCHANGED <<watched, flowVars>>
OfRuns(A) ==
    /\ watched # {} /\ A /\ UNCHANGED <<watched, vars>>
    /\ \A r \in Flow!Runs \ watched : stage'[r] = "idle"

(* Each component's fairness, while it is the one that is watched.         *)
FairQueues ==
    /\ MCInit /\ [][OfThreads(Next) \/ OfRuns(Flow!Next)]_allVars
    /\ WF_allVars(OfThreads(Tick))
    /\ \A t \in Threads : WF_allVars(OfThreads(ThreadStep(t)))
    /\ WF_allVars(OfRuns(Flow!Advance))

-----------------------------------------------------------------------------
TypesOK == TypeOK /\ Flow!TypeOK

(* NIEZ-27, WIA-14: one job at a time writes to the database, and the first*)
(* push of a run meets the very ledger its agent read.                     *)
OneAtATime == Flow!OneWriter /\ Flow!FirstPushIsFastForward

(* CI-13, ML-22: an agent predicts with the last model that passed the     *)
(* gate or, when its download failed, with none; and weights, sidecar and  *)
(* notes of the release belong together.                                   *)
ReleaseIsServedWhole == Flow!ServedIsLastAccepted /\ Flow!ReleaseIsWhole

(* NIEZ-30: no migration lands between the probe and the last write.       *)
FlagMatchesSchema == Flow!FlagMatchesSchema

(* FIN-18, WIA-14: no line is lost, nothing that has begun is displaced.   *)
NothingBegunIsLost == Flow!LedgerKeepsLines /\ Flow!QueueSparesTheBegun

(* Every thread makes its calls, every run of the repository ends.         *)
EveryoneIsServed ==
    /\ watched = {} => EveryCallEnds
    /\ watched # {} => Flow!EveryRunEnds
=============================================================================
