--------------------------- MODULE MCPaperLedger ---------------------------
(***************************************************************************)
(* A small paper ledger for TLC: interchangeable threads and predictions.  *)
(* A process publishes after its pool has ended, and the next one, or a    *)
(* push that is run again, waits for its push (concurrency group           *)
(* fast-loop).  MaxLines lines are published at most, and the threads race *)
(* in the cycles before the first publication: later ones have one thread. *)
(***************************************************************************)
EXTENDS PaperLedger, TLC

CONSTANT MaxLines

Symmetry == Permutations(Threads) \cup Permutations(Predictions)

PoolEnded == \A t \in Threads : thread[t].pc \in Ended
AfterThePool == UNCHANGED <<day, staged, kept>> \/ PoolEnded
PushBeforeNextRun == staged = {} \/ UNCHANGED thread
LinesLeft == Len(heads') + Cardinality(staged' \cup kept') <= MaxLines
RacesComeFirst ==
    heads # <<>> \/ kept # {} => Cardinality({t \in Threads : thread'[t].pc \in Working}) <= 1

GroupedSpec ==
    Init /\ [][Next /\ AfterThePool /\ PushBeforeNextRun /\ LinesLeft /\ RacesComeFirst]_vars
=============================================================================
