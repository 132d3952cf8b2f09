---------------------------- MODULE WalkForward ----------------------------
(***************************************************************************)
(* The folds on which a model is judged before it replaces another one:    *)
(* each is trained on rows before its block and validated on the block.    *)
(* Rows of all symbols are in the order of their time, several may share   *)
(* one; the label of a row is known at its settlement, which may be late.  *)
(***************************************************************************)
EXTENDS Integers, Sequences, FiniteSetsExt

CONSTANTS None,
          WALK_FORWARD_FOLDS, MIN_FOLD_SAMPLES, MIN_VALIDATION_SAMPLES,
          FractionOf,        \* VALIDATION_FRACTION is one part of so many
          LABEL_HORIZON,
          SampleSizes,       \* instance: numbers of rows
          Settlements        \* instance: age of a row at its settlement, or None

(* Natural numbers; MIN_FOLD_SAMPLES is above WALK_FORWARD_FOLDS, so that  *)
(* no block is empty.                                                      *)

VARIABLES stamps,    \* times of the rows, in order
          settled_at,
          todo_folds,  \* bounds not looked at yet
          folds        \* folds so far, in order

vars == <<stamps, settled_at, todo_folds, folds>>

NRows == Len(stamps)

-----------------------------------------------------------------------------
SettlementOnly(i) ==        \* mutant: rows of before the column end at once
    IF settled_at[i] = None THEN stamps[i] + LABEL_HORIZON ELSE settled_at[i]

(* The end of a label: its settlement, but never before the horizon, since *)
(* rows settled before there was a column hold the time of the prediction. *)
label_end(i) ==
    IF settled_at[i] = None THEN stamps[i] + LABEL_HORIZON
    ELSE Max({settled_at[i], stamps[i] + LABEL_HORIZON})

purge_training_indices(valid_start) ==
    {i \in 1 .. valid_start - 1 : label_end(i) <= stamps[valid_start]}

(* bisect_right: rows before the cut, when every label ends at the horizon.*)
purged_train_end(valid_start) ==
    Cardinality({i \in 1 .. valid_start - 1 :
                    stamps[i] <= stamps[valid_start] - LABEL_HORIZON})

(* First and last row of each block; one holdout for a small sample, and   *)
(* no folds at all (an error) for one too small for that.                  *)
expanding_window_bounds(n) ==
    LET holdout == Max({MIN_VALIDATION_SAMPLES, n \div FractionOf})
        block   == n \div (WALK_FORWARD_FOLDS + 1)
    IN  CASE n < MIN_FOLD_SAMPLES /\ holdout >= n -> <<>>
          [] n < MIN_FOLD_SAMPLES /\ holdout < n ->
                <<[first |-> n - holdout + 1, last |-> n]>>
          [] OTHER ->
                [k \in 1 .. WALK_FORWARD_FOLDS |->
                    [first |-> block * k + 1,
                     last |-> IF k < WALK_FORWARD_FOLDS THEN block * (k + 1) ELSE n]]

-----------------------------------------------------------------------------
(* Neighbouring rows share a time or are one apart.                        *)
Init ==
    /\ \E n \in SampleSizes :
          \E same \in [1 .. n -> BOOLEAN], ages \in [1 .. n -> Settlements] :
             /\ stamps = [i \in 1 .. n |->
                            Cardinality({j \in 2 .. i : ~same[j]})]
             /\ same[1]
             /\ settled_at = [i \in 1 .. n |-> IF ages[i] = None THEN None
                                               ELSE stamps[i] + ages[i]]
             /\ todo_folds = expanding_window_bounds(n)
    /\ folds = <<>>

(* A fold that has no row left to train on is passed over.                 *)
NextFold ==
    /\ todo_folds # <<>>
    /\ LET bounds == Head(todo_folds)
           rows   == purge_training_indices(bounds.first)
       IN  folds' = IF rows = {} THEN folds
                    ELSE Append(folds, [train |-> rows, first |-> bounds.first,
                                        last |-> bounds.last])
    /\ todo_folds' = Tail(todo_folds)
    /\ UNCHANGED <<stamps, settled_at>>

Next ==
    \/ NextFold
    \/ /\ todo_folds = <<>>
       /\ UNCHANGED vars

Spec == Init /\ [][Next]_vars

-----------------------------------------------------------------------------
TypeOK ==
    /\ stamps \in Seq(Nat) /\ Len(settled_at) = NRows
    /\ \A k \in DOMAIN folds :
          /\ folds[k].train \subseteq 1 .. NRows /\ folds[k].train # {}
          /\ 1 < folds[k].first /\ folds[k].first <= folds[k].last
          /\ folds[k].last <= NRows

(* No fold learns what was not known when its block began: whatever row it *)
(* is trained on, the settlement of that row and its horizon are past at   *)
(* every row it is validated on, also for rows of another symbol at the    *)
(* same moment and for settlements written out of order.                   *)
NothingLearntAhead ==
    \A k \in DOMAIN folds :
        \A i \in folds[k].train, v \in folds[k].first .. folds[k].last :
            /\ stamps[i] + LABEL_HORIZON <= stamps[v]
            /\ settled_at[i] = None \/ settled_at[i] <= stamps[v]

(* Blocks follow each other and the last ends with the sample, so that no  *)
(* row is validated twice; a row before a block is left out of its training*)
(* only because its label was open.  Without settlements the rows trained  *)
(* on are the prefix that purged_train_end bounds.                         *)
BlocksTileTheTail ==
    /\ \A k \in DOMAIN folds :
          /\ k < Len(folds) => folds[k].last < folds[k + 1].first
          /\ \A i \in (1 .. folds[k].first - 1) \ folds[k].train :
                \/ stamps[i] + LABEL_HORIZON > stamps[folds[k].first]
                \/ settled_at[i] # None /\ settled_at[i] > stamps[folds[k].first]
          /\ (\A i \in 1 .. NRows : settled_at[i] = None) =>
                folds[k].train = 1 .. purged_train_end(folds[k].first)
    /\ folds # <<>> /\ todo_folds = <<>> => folds[Len(folds)].last = NRows

(* The inductive invariant.  Blocks, done and to do, follow each other; a  *)
(* fold is trained on all that is known when its block begins, and once    *)
(* something is, it is for every later block too, which loses none of them.*)
Consecutive(blocks) ==
    \A k \in DOMAIN blocks :
        /\ 1 < blocks[k].first /\ blocks[k].first <= blocks[k].last /\ blocks[k].last <= NRows
        /\ k < Len(blocks) => blocks[k].last < blocks[k + 1].first

IInv ==
    /\ stamps \in Seq(Nat) /\ settled_at \in [1 .. NRows -> Int \cup {None}]
    /\ \A i, j \in 1 .. NRows : i <= j => stamps[i] <= stamps[j]
    /\ todo_folds \in Seq([first : Nat, last : Nat]) /\ Consecutive(todo_folds)
    /\ todo_folds # <<>> => todo_folds[Len(todo_folds)].last = NRows
    /\ folds \in Seq([train : SUBSET (1 .. NRows), first : Nat, last : Nat])
    /\ Consecutive(folds)
    /\ \A k \in DOMAIN folds :
          folds[k].train = purge_training_indices(folds[k].first) /\ folds[k].train # {}
    /\ folds # <<>> => IF todo_folds = <<>> THEN folds[Len(folds)].last = NRows
                       ELSE folds[Len(folds)].last < Head(todo_folds).first
=============================================================================
