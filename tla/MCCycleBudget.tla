--------------------------- MODULE MCCycleBudget ---------------------------
(* Three small cycles for TLC. *)
EXTENDS CycleBudget

(* One phase on two workers, every symbol past the gate: the largest overshoot. *)
OnePhase == [workers |-> 2, twoPhase |-> FALSE, moves |-> {2}, threshold |-> 2, cap |-> 2,
             councilCalls |-> 2, maxEscalations |-> 1, maxShadow |-> 0]

(* Two phases on two workers, with shadow calls beside production. *)
TwoPhases == [workers |-> 2, twoPhase |-> TRUE, moves |-> {1, 2}, threshold |-> 2, cap |-> 3,
              councilCalls |-> 1, maxEscalations |-> 1, maxShadow |-> 2]

(* Two phases on one worker: two sizes of move past the threshold. *)
Ranked == [workers |-> 1, twoPhase |-> TRUE, moves |-> {2, 3}, threshold |-> 2, cap |-> 2,
           councilCalls |-> 1, maxEscalations |-> 1, maxShadow |-> 1]

SmallConfigs == {OnePhase, TwoPhases, Ranked}
=============================================================================
