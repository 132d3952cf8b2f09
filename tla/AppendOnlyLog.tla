--------------------------- MODULE AppendOnlyLog ---------------------------
(***************************************************************************)
(* What the paper ledger promises its readers, with no table, hash, thread *)
(* or retry in it: a log of positions that only grows at its end, at most  *)
(* one position per prediction, and for each position one exit that is     *)
(* written once.  PaperLedger implements it (PaperLedger!Log).             *)
(***************************************************************************)
EXTENDS Sequences

CONSTANTS Predictions,  \* ids of prediction_logs rows
          Sides,        \* long, short, flat
          Reasons,      \* settled, stale_quote
          NoExit        \* the position is open

VARIABLES log,   \* positions in the order they were appended
          exits  \* exit reason per prediction, NoExit while open or absent

vars == <<log, exits>>

Position == [pid: Predictions, side: Sides]

Recorded == {log[i].pid : i \in DOMAIN log}

Init ==
    /\ log = <<>>
    /\ exits = [p \in Predictions |-> NoExit]

Record(e) ==
    /\ e.pid \notin Recorded
    /\ log' = Append(log, e)
    /\ UNCHANGED exits

Settle(p, reason) ==
    /\ p \in Recorded
    /\ exits[p] = NoExit
    /\ exits' = [exits EXCEPT ![p] = reason]
    /\ UNCHANGED log

Next ==
    \/ \E e \in Position : Record(e)
    \/ \E p \in Predictions, r \in Reasons : Settle(p, r)

Spec == Init /\ [][Next]_vars
=============================================================================
