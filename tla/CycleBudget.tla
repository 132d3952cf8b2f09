---------------------------- MODULE CycleBudget ----------------------------
(***************************************************************************)
(* One Fast Loop cycle over its eligible symbols: the thread pool of       *)
(* RunCycle (one phase, or the two phases of EXP-27), the volatility gate, *)
(* and the cap on paid LLM calls that all symbols share (FIN-12), with the *)
(* calls that are not checked against it (diagnosis, council requests) and *)
(* the ones reserved under a lock (frontier escalation, shadow variant).   *)
(*                                                                         *)
(* One action is one access to what the threads share: CycleTelemetry's    *)
(* counters and the escalation counter, each under its lock.  A check of   *)
(* the cap and the calls it admits are different actions; the gate's       *)
(* counters are only read after the cycle, so they move with the decision. *)
(***************************************************************************)
EXTENDS Integers, FiniteSets

CONSTANTS NSymbols,  \* number of eligible symbols, in config.toml order
          Configs    \* the settings a cycle may run under

ASSUME SizesAssumption ==
    /\ NSymbols \in Nat
    /\ Configs \subseteq [workers : Nat \ {0}, twoPhase : BOOLEAN,
                          moves : SUBSET Nat, threshold : Nat, cap : Nat \ {0},
                          councilCalls : Nat, maxEscalations : Nat, maxShadow : Nat]

VARIABLES conf,        \* the settings of this cycle
          move,        \* |delta| of each symbol in this cycle
          llmSpent,    \* llm_budget_spent: a USD window was spent before the cycle
          phase,       \* 1, or 2 in the paid phase of a two-phase cycle
          node,        \* where each symbol is
          left,        \* council requests a symbol has still to make
          calls,       \* CycleTelemetry: paid calls per source
          gate,        \* CycleTelemetry: gate decisions
          escalations, \* CascadingLLMAdapter._escalations_used
          admitted,    \* history: symbols let past the cap
          diagnosed,   \* history: symbols that paid for a diagnosis
          predicted    \* history: symbols that paid for a prediction

vars == <<conf, move, llmSpent, phase, node, left, calls, gate, escalations,
          admitted, diagnosed, predicted>>

Symbols == 1 .. NSymbols

Workers == conf.workers                \* symbol_concurrency (1 = sequential)
TwoPhase == conf.twoPhase              \* two_phase_cycle_enabled
Threshold == conf.threshold            \* volatility threshold
Cap == conf.cap                        \* max_paid_llm_calls_per_cycle
CouncilCalls == conf.councilCalls      \* requests of the council for one symbol
MaxEscalations == conf.maxEscalations  \* router budget of the frontier model
MaxShadow == conf.maxShadow            \* max_calls_per_cycle of the shadow variant

InPool == {"reflect", "gate", "cap", "predict", "answer", "escalate", "shadow", "council", "save"}
Ended == {"ignored", "cut", "saved", "failed"}
Nodes == {"queued", "passed"} \cup InPool \cup Ended

Running == {s \in Symbols : node[s] \in InPool}

(* PAID_LLM_SOURCES; the shadow variant has a source of its own. *)
paid_llm_calls == calls.llm + calls.council

OneCallLate == \* mutant: the cap is compared with <=
    llmSpent \/ paid_llm_calls > Cap

CapMetExactly == \* mutant: a crossed cap is open again
    llmSpent \/ paid_llm_calls = Cap

budget_exhausted == llmSpent \/ ~ (paid_llm_calls < Cap)

ShadowBesideTheCap == \* mutant: shadow calls are left out of the total
    calls.shadow < MaxShadow /\ paid_llm_calls + 1 <= Cap

shadow_call_allowed ==
    /\ calls.shadow < MaxShadow
    /\ paid_llm_calls + calls.shadow + 1 <= Cap

Passes(s) == move[s] >= Threshold

(* rank_by_magnitude: decreasing |delta|, ties alphabetically (here: by    *)
(* index).  Phase 1 and the one-phase cycle take the symbols in order.     *)
RankedUpwards(s, t) == \* mutant: the smallest moves come first
    IF phase = 1 THEN s < t ELSE move[s] < move[t] \/ (move[s] = move[t] /\ s < t)

Before(s, t) ==
    IF phase = 1 THEN s < t ELSE move[s] > move[t] \/ (move[s] = move[t] /\ s < t)

-----------------------------------------------------------------------------
Init ==
    /\ conf \in Configs
    /\ move \in [Symbols -> conf.moves]
    /\ llmSpent \in BOOLEAN
    /\ phase = 1
    /\ node = [s \in Symbols |-> "queued"]
    /\ left = [s \in Symbols |-> 0]
    /\ calls = [llm |-> 0, council |-> 0, shadow |-> 0]
    /\ gate = [passed |-> 0, gated |-> 0]
    /\ escalations = 0
    /\ admitted = {}
    /\ diagnosed = {}
    /\ predicted = {}

Cycle == <<conf, move, llmSpent>>
Counters == <<calls, gate, escalations>>
History == <<admitted, diagnosed, predicted>>

Goto(s, n) == node' = [node EXCEPT ![s] = n]
Pay(source) == calls' = [calls EXCEPT ![source] = @ + 1]

RecordGate(passed) ==
    gate' = IF passed THEN [gate EXCEPT !.passed = @ + 1] ELSE [gate EXCEPT !.gated = @ + 1]

(* ThreadPoolExecutor.map: a free worker takes the first symbol waiting.   *)
(* The feeds of phase 2 are taken for the symbols past the gate.           *)
StartAtOnce(s) == \* mutant: one worker too many
    LET waiting == IF phase = 1 THEN "queued" ELSE "passed"
    IN  /\ node[s] = waiting
        /\ Cardinality(Running) <= Workers
        /\ \A t \in Symbols \ {s} : node[t] = waiting => Before(s, t)
        /\ Goto(s, IF phase = 1 THEN "reflect" ELSE "cap")
        /\ UNCHANGED <<Cycle, phase, left, Counters, History>>

Start(s) ==
    LET waiting == IF phase = 1 THEN "queued" ELSE "passed"
    IN  /\ node[s] = waiting
        /\ Cardinality(Running) < Workers
        /\ \A t \in Symbols \ {s} : node[t] = waiting => Before(s, t)
        /\ Goto(s, IF phase = 1 THEN "reflect" ELSE "cap")
        /\ UNCHANGED <<Cycle, phase, left, Counters, History>>

(* reflect: a wrong settled prediction is diagnosed by a paid call when    *)
(* the same gate passes; the cap of the cycle is not asked.                *)
MayDiagnose == ~ llmSpent

Diagnose(s) ==
    /\ node[s] = "reflect"
    /\ MayDiagnose /\ Passes(s)
    /\ Pay("llm")
    /\ diagnosed' = diagnosed \cup {s}
    /\ Goto(s, "gate")
    /\ UNCHANGED <<Cycle, phase, left, gate, escalations, admitted, predicted>>

Reflect(s) ==
    /\ node[s] = "reflect"
    /\ Goto(s, "gate")
    /\ UNCHANGED <<Cycle, phase, left, Counters, History>>

(* _should_analyze, _gate_phase_route: below the threshold.                *)
Ignore(s) ==
    /\ node[s] = "gate"
    /\ ~ Passes(s)
    /\ RecordGate(FALSE)
    /\ Goto(s, "ignored")
    /\ UNCHANGED <<Cycle, phase, left, calls, escalations, History>>

(* A symbol past the gate: the cap is next, in a two-phase cycle only in   *)
(* the paid phase, which is also the one that records the decision.        *)
PassGate(s) ==
    /\ node[s] = "gate"
    /\ Passes(s)
    /\ Goto(s, IF TwoPhase THEN "passed" ELSE "cap")
    /\ UNCHANGED <<Cycle, phase, left, Counters, History>>

CutByBudget(s) ==
    /\ node[s] = "cap"
    /\ budget_exhausted
    /\ RecordGate(FALSE)
    /\ Goto(s, "cut")
    /\ UNCHANGED <<Cycle, phase, left, calls, escalations, History>>

Admit(s) ==
    /\ node[s] = "cap"
    /\ ~ budget_exhausted
    /\ RecordGate(TRUE)
    /\ admitted' = admitted \cup {s}
    /\ Goto(s, "predict")
    /\ UNCHANGED <<Cycle, phase, left, calls, escalations, diagnosed, predicted>>

(* _call_prediction_llm: the call is counted before it is made.  Sentiment *)
(* and news come before it, are other sources, and may raise: the symbol   *)
(* then fails having paid nothing the cap counts.                          *)
Predict(s) ==
    /\ node[s] = "predict"
    /\ Pay("llm")
    /\ predicted' = predicted \cup {s}
    /\ Goto(s, "answer")
    /\ UNCHANGED <<Cycle, phase, left, gate, escalations, admitted, diagnosed>>

(* A confident answer, or no escalation left. *)
Confident(s) ==
    /\ node[s] = "answer"
    /\ Goto(s, "shadow")
    /\ UNCHANGED <<Cycle, phase, left, Counters, History>>

(* An unsure answer reserves an escalation under the cascade's own lock;   *)
(* the frontier's call is counted when it is made, and may fail.           *)
ReserveEscalation(s) ==
    /\ node[s] = "answer"
    /\ escalations < MaxEscalations
    /\ escalations' = escalations + 1
    /\ Goto(s, "escalate")
    /\ UNCHANGED <<Cycle, phase, left, calls, gate, History>>

Escalate(s) ==
    /\ node[s] = "escalate"
    /\ Pay("llm")
    /\ Goto(s, "shadow")
    /\ UNCHANGED <<Cycle, phase, left, gate, escalations, History>>

(* The prediction call failed: neutral fallback, no shadow and no council. *)
Fallback(s) ==
    /\ node[s] = "answer"
    /\ Goto(s, "save")
    /\ UNCHANGED <<Cycle, phase, left, Counters, History>>

(* reserve_paid_call: decision and increment under one lock.  What follows *)
(* is the council, with all its requests to make.                          *)
ToCouncil(s) ==
    /\ left' = [left EXCEPT ![s] = CouncilCalls]
    /\ Goto(s, "council")

Shadow(s) ==
    /\ node[s] = "shadow"
    /\ shadow_call_allowed
    /\ Pay("shadow")
    /\ ToCouncil(s)
    /\ UNCHANGED <<Cycle, phase, gate, escalations, History>>

(* Outside the sample, or no room. *)
NoShadow(s) ==
    /\ node[s] = "shadow"
    /\ ToCouncil(s)
    /\ UNCHANGED <<Cycle, phase, Counters, History>>

(* Every request of the council is counted at its source (MeteredLLMPort). *)
CouncilRequest(s) ==
    /\ node[s] = "council"
    /\ left[s] > 0
    /\ Pay("council")
    /\ left' = [left EXCEPT ![s] = @ - 1]
    /\ UNCHANGED <<Cycle, phase, node, gate, escalations, History>>

(* All requests made, or below the council's own threshold, or it failed.  *)
CouncilEnds(s) ==
    /\ node[s] = "council"
    /\ left' = [left EXCEPT ![s] = 0]
    /\ Goto(s, "save")
    /\ UNCHANGED <<Cycle, phase, Counters, History>>

Save(s) ==
    /\ node[s] = "save"
    /\ Goto(s, "saved")
    /\ UNCHANGED <<Cycle, phase, left, Counters, History>>

(* process_one never raises: a failed symbol is a result, and its worker   *)
(* takes the next one.                                                     *)
SymbolFails(s) ==
    /\ node[s] \in InPool \ {"cap"}
    /\ left' = [left EXCEPT ![s] = 0]
    /\ Goto(s, "failed")
    /\ UNCHANGED <<Cycle, phase, Counters, History>>

(* The paid phase starts when every symbol ended phase 1. *)
WaitsForAll == \* mutant: the paid phase waits for symbols that never pass
    \A s \in Symbols : node[s] = "passed"

PhaseOneDone == \A s \in Symbols : node[s] \in {"passed"} \cup Ended

PaidPhase ==
    /\ TwoPhase /\ phase = 1
    /\ PhaseOneDone
    /\ phase' = 2
    /\ UNCHANGED <<Cycle, node, left, Counters, History>>

SymbolStep(s) ==
    \/ Start(s) \/ Diagnose(s) \/ Reflect(s) \/ Ignore(s) \/ PassGate(s)
    \/ CutByBudget(s) \/ Admit(s) \/ Predict(s) \/ Confident(s) \/ ReserveEscalation(s) \/ Escalate(s)
    \/ Fallback(s)
    \/ Shadow(s) \/ NoShadow(s) \/ CouncilRequest(s) \/ CouncilEnds(s)
    \/ Save(s) \/ SymbolFails(s)

Next == PaidPhase \/ \E s \in Symbols : SymbolStep(s)

Spec == Init /\ [][Next]_vars

(* Every call has a timeout, so a thread of the pool always goes on. *)
Fairness == WF_vars(PaidPhase) /\ \A s \in Symbols : WF_vars(SymbolStep(s))

FairSpec == Spec /\ Fairness

-----------------------------------------------------------------------------
(* Properties. *)

(* Types; a worker holds one symbol, requests wait only in a council, and  *)
(* the telemetry has one gate decision per symbol in either kind of cycle: *)
(* those let through are the admitted ones, the others ended gated.        *)
TypeOK ==
    /\ conf \in Configs
    /\ move \in [Symbols -> conf.moves]
    /\ llmSpent \in BOOLEAN
    /\ phase \in {1, 2}
    /\ node \in [Symbols -> Nodes]
    /\ left \in [Symbols -> 0 .. CouncilCalls]
    /\ calls \in [llm : Nat, council : Nat, shadow : 0 .. MaxShadow]
    /\ gate \in [passed : Nat, gated : Nat]
    /\ escalations \in 0 .. MaxEscalations
    /\ admitted \subseteq Symbols
    /\ diagnosed \subseteq Symbols
    /\ predicted \subseteq Symbols
    /\ Cardinality(Running) <= Workers
    /\ gate.passed = Cardinality(admitted)
    /\ gate.gated = Cardinality({s \in Symbols : node[s] \in {"ignored", "cut"}})

(* However the threads interleave their checks with the others' calls:     *)
(* - capped_cycle_call_upper_bound, from which the cost gate of the        *)
(*   configuration is computed: at most Cap - 1 + Workers symbols get a    *)
(*   prediction or stand before one, and the councils' requests are at     *)
(*   most Cap - 1 and those of Workers councils.  A symbol that fails      *)
(*   before it pays leaves its place to the next one, so the symbols let   *)
(*   past the cap, and their sentiment and news requests, may be more;     *)
(* - FIN-12: after the cap is reached only the symbols in flight go on, so *)
(*   it is crossed by the calls of at most Workers symbols, besides the    *)
(*   diagnoses, which nothing bounds but the number of symbols;            *)
(* - FIN-25: with a USD window spent no paid call is made at all, neither  *)
(*   an analysis nor a diagnosis.                                          *)
At(nodes) == {s \in Symbols : node[s] \in nodes}
Analysed == predicted \cup At({"predict"})

LateEscalations == IF MaxEscalations < Workers THEN MaxEscalations ELSE Workers
OvershootBound ==
    /\ Cardinality(Analysed) <= Cap - 1 + Workers
    /\ calls.council <= Cap - 1 + Workers * CouncilCalls
    /\ paid_llm_calls <= Cap - 1 + Workers * (1 + CouncilCalls) + LateEscalations
                               + Cardinality(diagnosed)
    /\ llmSpent => paid_llm_calls + calls.shadow = 0

(* EXP-26: the shadow variant is paid for only out of what the cap leaves, *)
(* at the moment of its call, though production calls go on beside it.     *)
ShadowFits ==
    [][ calls'.shadow # calls.shadow => calls'.llm + calls'.council + calls'.shadow <= Cap ]_vars

(* EXP-27 with one worker: what the cap cuts are the smallest moves of the *)
(* cycle, whichever calls failed or were paid before the paid phase.       *)
CutsTheSmallest ==
    (Workers = 1 /\ TwoPhase) =>
        \A c \in Symbols, s \in admitted : node[c] = "cut" => move[c] <= move[s]

(* Once one symbol was cut no other is let through, in whatever order the  *)
(* workers reach the check: what is crossed stays crossed.                 *)
CutIsFinal == [][ (\E c \in Symbols : node[c] = "cut") => admitted' = admitted ]_vars

(* The inductive invariant behind these properties.                        *)
(* PhasesInv: which nodes a symbol may be in in a phase, and that it paid  *)
(* for a diagnosis, was let past the cap and paid for its prediction at    *)
(* most once.                                                              *)
BeforeGate == {"queued", "reflect", "gate"}
PastCap == {"predict", "answer", "escalate", "shadow", "council", "save", "saved"}

PhasesInv ==
    /\ phase = 2 => TwoPhase
    /\ \A s \in Symbols :
          /\ node[s] \in PastCap => s \in admitted
          /\ s \in admitted => node[s] \in PastCap \cup {"failed"}
          /\ node[s] \in PastCap \ {"predict"} => s \in predicted
          /\ s \in predicted => s \in admitted /\ node[s] # "predict"
          /\ node[s] \in {"queued", "reflect"} => s \notin diagnosed
          /\ TwoPhase /\ phase = 1 => node[s] \notin {"cap", "cut"} /\ s \notin admitted
          /\ phase = 2 => node[s] \notin BeforeGate

(* CapInv: what the symbols in flight may still pay, besides what is paid: *)
(* a prediction, the requests of a council, an escalation.                 *)
Owes(s) == CASE node[s] = "council" -> left[s]
             [] node[s] \in {"predict", "answer", "escalate", "shadow"} -> CouncilCalls
             [] OTHER -> 0
Owed == {r \in Symbols \X (1 .. CouncilCalls) : r[2] <= Owes(r[1])}
InFlight == paid_llm_calls + Cardinality(At({"predict"})) + Cardinality(Owed)

CapInv ==
    /\ Cardinality(predicted) <= calls.llm
    /\ Cardinality(Analysed) <= Cap - 1 + Workers
    /\ calls.council + Cardinality(Owed) <= Cap - 1 + Workers * CouncilCalls
    /\ Cardinality(At({"escalate"})) <= escalations
    /\ InFlight + Cardinality(At({"predict", "answer", "escalate"}))
           <= Cap - 1 + Workers * (1 + CouncilCalls) + Workers + Cardinality(diagnosed)
    /\ InFlight + Cardinality(At({"escalate"})) + MaxEscalations - escalations
           <= Cap - 1 + Workers * (1 + CouncilCalls) + MaxEscalations + Cardinality(diagnosed)
    /\ llmSpent => /\ admitted = {} /\ diagnosed = {}
                   /\ paid_llm_calls + calls.shadow = 0

(* RankInv: a cut is behind a crossed cap; on one worker no symbol that    *)
(* waits for its paid phase, or was reached later, moved more than one     *)
(* reached before.                                                         *)
RankInv ==
    /\ (\E c \in Symbols : node[c] = "cut") => budget_exhausted
    /\ Workers = 1 /\ TwoPhase =>
          \A s, t \in Symbols :
             \/ s \in admitted /\ node[t] \in {"passed", "cap", "cut"}
             \/ node[s] = "cap" /\ node[t] = "passed"
             => move[t] <= move[s]

IInv == TypeOK /\ PhasesInv /\ CapInv /\ RankInv

(* The cycle ends: every symbol gets a result, whatever fails. *)
CycleFinishes == <>(\A s \in Symbols : node[s] \in Ended)
=============================================================================
