---------------------------- MODULE MarketRegime ----------------------------
(***************************************************************************)
(* The market regime of a cycle and its hysteresis (domain/regime.py,      *)
(* _resolve_regime).  RISK_OFF raises the threshold of the gate at once;   *)
(* it ends after ExitConfirmations raw readings outside it in a row.  Only *)
(* the newest row of regime_history remembers the count between runs.      *)
(*   last_row   that row                                                   *)
(*   raw, state what a run has classified and decided                      *)
(*   regime     the effective regime of the newest cycle that had one      *)
(*   change     the change its mail leads with                             *)
(* outs, before, entry, exit_lost and row_lost are history; entry says     *)
(* what became of the row of the newest raw risk-off reading.              *)
(***************************************************************************)
EXTENDS Integers, FiniteSets

CONSTANTS None, ExitConfirmations,
          Voters           \* the yield curve and the FRED series

VARIABLES last_row, raw, state, regime, change,
          outs, before, entry, exit_lost, row_lost

vars == <<last_row, raw, state, regime, change,
          outs, before, entry, exit_lost, row_lost>>

Regimes == {"RISK_ON", "NEUTRAL", "RISK_OFF"}
Severities == 0..2                                   \* NORMAL, ELEVATED, CRITICAL
Out(r) == r /= "RISK_OFF"

(* The worst level among the sources that answered; none is NORMAL.        *)
overall_alert(levels) ==
    IF levels = {} THEN 0 ELSE CHOOSE l \in levels : \A m \in levels : m <= l

Elevated(macro, votes) ==
    Cardinality({v \in Voters : votes[v] = 1}) + (IF macro = 1 THEN 1 ELSE 0)

(* Its branch for a report without an alert is never taken: a blackout of  *)
(* every source is a NORMAL report.                                        *)
classify(macro, votes) ==
    IF macro = 2 \/ (\E v \in Voters : votes[v] = 2) \/ Elevated(macro, votes) >= 2
    THEN "RISK_OFF"
    ELSE IF Elevated(macro, votes) = 1 THEN "NEUTRAL" ELSE "RISK_ON"

Decided(r, streak) == [regime |-> r, streak |-> streak]

apply_hysteresis(previous, reading) ==
    IF \/ reading = "RISK_OFF"
       \/ previous = None
       \/ Out(previous.regime)
       \/ previous.streak + 1 >= ExitConfirmations
    THEN Decided(reading, 0)
    ELSE Decided("RISK_OFF", previous.streak + 1)

(* Both sides of RISK_OFF have one multiplier, so only crossing it counts. *)
risk_off_change(previous, current) ==
    IF previous /= None /\ Out(previous.regime) /= Out(current) THEN current ELSE None

Init ==
    /\ last_row = None /\ raw = None /\ state = None /\ regime = None /\ change = None
    /\ outs = 0 /\ before = None
    /\ entry = "written" /\ exit_lost = FALSE /\ row_lost = FALSE

(* A run without a Risk Watch report has no regime and changes nothing.    *)
Classify ==
    /\ raw = None
    /\ \E levels \in SUBSET Severities, votes \in [Voters -> Severities \cup {None}] :
          raw' = classify(overall_alert(levels), votes)
    /\ UNCHANGED <<last_row, state, regime, change, outs, before, entry, exit_lost, row_lost>>

Count(reading) == IF Out(reading) THEN IF outs < ExitConfirmations THEN outs + 1 ELSE outs ELSE 0

(* get_latest_regime_state and the decision the cycle uses.                *)
Decide ==
    /\ raw /= None /\ state = None
    /\ LET decided == apply_hysteresis(last_row, raw) IN
          /\ state' = decided
          /\ regime' = decided.regime
          /\ change' = risk_off_change(last_row, decided.regime)
    /\ before' = regime
    /\ outs' = Count(raw)
    /\ UNCHANGED <<last_row, raw, entry, exit_lost, row_lost>>

RowLost(reading, how) ==
    /\ row_lost' = TRUE
    /\ entry' = IF Out(reading) THEN entry ELSE how
    /\ exit_lost' = (exit_lost \/ Out(reading))

(* The history cannot be read: the raw regime is used and no row written.  *)
DecideRaw ==
    /\ raw /= None /\ state = None
    /\ regime' = raw /\ change' = None /\ raw' = None
    /\ before' = None
    /\ outs' = Count(raw)
    /\ RowLost(raw, "unread")
    /\ UNCHANGED <<last_row, state>>

save_regime_state ==
    /\ state /= None
    /\ last_row' = state
    /\ row_lost' = FALSE
    /\ entry' = IF Out(raw) THEN entry ELSE "written"
    /\ exit_lost' = (exit_lost /\ Out(raw))
    /\ raw' = None /\ state' = None
    /\ UNCHANGED <<regime, change, outs, before>>

(* The write fails and is logged, or the run is killed before it.          *)
SaveFails ==
    /\ state /= None
    /\ RowLost(raw, "unwritten")
    /\ raw' = None /\ state' = None
    /\ UNCHANGED <<last_row, regime, change, outs, before>>

Next == Classify \/ Decide \/ DecideRaw \/ save_regime_state \/ SaveFails

Spec == Init /\ [][Next]_vars

-----------------------------------------------------------------------------
(* Properties. *)

(* The regimes, the count and the history flags are what the code's enums  *)
(* and columns can hold; the count stays below the confirmations needed.   *)
States == [regime : Regimes, streak : 0..(ExitConfirmations - 1)]

TypeOK ==
    /\ last_row \in States \cup {None}
    /\ raw \in Regimes \cup {None}
    /\ state \in States \cup {None}
    /\ regime \in Regimes \cup {None}
    /\ change \in Regimes \cup {None}
    /\ outs \in 0..ExitConfirmations
    /\ before \in Regimes \cup {None}
    /\ entry \in {"written", "unwritten", "unread"}
    /\ {exit_lost, row_lost} \subseteq BOOLEAN

(* A raw risk-off reading tightens the gate in its own cycle.  RISK_OFF    *)
(* ends only after the confirmations in a row, as long as the row of the   *)
(* newest risk-off reading was written, and no later unless a reading      *)
(* outside it was lost.  The mail leads with every crossing of RISK_OFF    *)
(* that follows a written row.                                             *)
RegimeHeld ==
    state /= None =>
        /\ raw = "RISK_OFF" => regime = "RISK_OFF"
        /\ before = "RISK_OFF" /\ Out(regime) => outs = ExitConfirmations \/ entry /= "written"
        /\ outs = ExitConfirmations /\ ~exit_lost => regime = raw
        /\ ~row_lost /\ before /= None => (change /= None) = (Out(before) /= Out(regime))

(* "Błąd zapisu tylko logujemy: następny cykl przeczyta starszy stan, co   *)
(* najwyżej opóźniając wyjście z RISK_OFF": a lost write may delay the end *)
(* of RISK_OFF, it never brings it forward.  Does not hold.                *)
LostWriteOnlyDelays ==
    /\ state /= None /\ last_row /= None /\ entry /= "unread"
    /\ before = "RISK_OFF" /\ Out(regime)
    => outs = ExitConfirmations
=============================================================================
