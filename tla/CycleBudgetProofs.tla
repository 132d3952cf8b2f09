------------------------- MODULE CycleBudgetProofs -------------------------
(***************************************************************************)
(* The cost cap of a cycle for any number of symbols, workers and calls:   *)
(* the inductive invariant, the bounds of the overshoot, and which symbols *)
(* the cap cuts.                                                           *)
(***************************************************************************)
EXTENDS CycleBudget, FiniteSetTheorems, TLAPS

(* What the assumption on the settings says of those of a cycle.           *)
LEMMA Settings ==
    ASSUME TypeOK
    PROVE  /\ Workers \in Nat \ {0} /\ Cap \in Nat \ {0}
           /\ CouncilCalls \in Nat /\ MaxEscalations \in Nat /\ MaxShadow \in Nat
           /\ TwoPhase \in BOOLEAN /\ Threshold \in Nat
           /\ \A s \in Symbols : move[s] \in Nat
           /\ Workers * CouncilCalls \in Nat
           /\ Workers * (1 + CouncilCalls) = Workers + Workers * CouncilCalls
<1>1. conf \in [workers : Nat \ {0}, twoPhase : BOOLEAN,
                moves : SUBSET Nat, threshold : Nat, cap : Nat \ {0},
                councilCalls : Nat, maxEscalations : Nat, maxShadow : Nat]
  BY SizesAssumption DEF TypeOK
<1>2. /\ Workers \in Nat \ {0} /\ Cap \in Nat \ {0}
      /\ CouncilCalls \in Nat /\ MaxEscalations \in Nat /\ MaxShadow \in Nat
      /\ TwoPhase \in BOOLEAN /\ Threshold \in Nat
  BY <1>1 DEF Workers, Cap, CouncilCalls, MaxEscalations, MaxShadow, TwoPhase, Threshold
<1>3. \A s \in Symbols : move[s] \in Nat
  BY <1>1 DEF TypeOK
<1>4. \A a, b \in Nat : a * b \in Nat /\ a * (1 + b) = a + a * b
  OBVIOUS
<1>5. QED
  BY <1>2, <1>3, <1>4

-----------------------------------------------------------------------------
(* Counting symbols.                                                       *)
LEMMA FiniteSymbols ==
    ASSUME NEW S \in SUBSET Symbols
    PROVE  IsFiniteSet(S) /\ Cardinality(S) \in Nat
<1>1. IsFiniteSet(Symbols)
  BY SizesAssumption, FS_Interval DEF Symbols
<1>2. IsFiniteSet(S)
  BY <1>1, FS_Subset
<1>3. QED
  BY <1>2, FS_CardinalityType

LEMMA Smaller ==
    ASSUME NEW S \in SUBSET Symbols, NEW T \in SUBSET S
    PROVE  Cardinality(T) <= Cardinality(S)
BY FiniteSymbols, FS_Subset

(* A symbol that goes from one node to another leaves the sets of nodes    *)
(* that hold the first and joins those that hold the second.               *)
LEMMA Moved ==
    ASSUME node \in [Symbols -> Nodes], NEW s \in Symbols, NEW n, Goto(s, n), NEW N
    PROVE  /\ Cardinality(At(N)) \in Nat /\ Cardinality(At(N)') \in Nat
           /\ Cardinality(At(N)') = Cardinality(At(N)) + (IF n \in N THEN 1 ELSE 0)
                                                       - (IF node[s] \in N THEN 1 ELSE 0)
<1>1. /\ At(N) \in SUBSET Symbols /\ At(N)' \in SUBSET Symbols
      /\ s \in At(N) <=> node[s] \in N
  BY DEF At
<1>2. /\ IsFiniteSet(At(N)) /\ IsFiniteSet(At(N)')
      /\ Cardinality(At(N)) \in Nat /\ Cardinality(At(N)') \in Nat
  BY <1>1, FiniteSymbols
<1>3. CASE n \in N
  <2>1. At(N)' = At(N) \cup {s}
    BY <1>3 DEF At, Goto
  <2>2. QED
    BY <1>1, <1>2, <1>3, <2>1, FS_AddElement
<1>4. CASE n \notin N
  <2>1. At(N)' = At(N) \ {s}
    BY <1>4 DEF At, Goto
  <2>2. QED
    BY <1>1, <1>2, <1>4, <2>1, FS_RemoveElement
<1>5. QED
  BY <1>3, <1>4

LEMMA OwedFinite ==
    ASSUME TypeOK
    PROVE  IsFiniteSet(Owed) /\ Cardinality(Owed) \in Nat
<1>1. IsFiniteSet(Symbols) /\ IsFiniteSet(1 .. CouncilCalls)
  BY FiniteSymbols, Settings, FS_Interval
<1>2. IsFiniteSet(Symbols \X (1 .. CouncilCalls))
  BY <1>1, FS_Product
<1>3. IsFiniteSet(Owed)
  BY <1>2, FS_Subset DEF Owed
<1>4. QED
  BY <1>3, FS_CardinalityType

(* What all symbols in the pool may owe together.                          *)
LEMMA OwedBound ==
    ASSUME TypeOK
    PROVE  Cardinality(Owed) <= Workers * CouncilCalls
<1> DEFINE R == Running \X (1 .. CouncilCalls)
<1>1. /\ Running \in SUBSET Symbols /\ IsFiniteSet(Running)
      /\ Cardinality(Running) \in Nat /\ Cardinality(Running) <= Workers
  BY FiniteSymbols DEF Running, TypeOK
<1>2. /\ IsFiniteSet(1 .. CouncilCalls) /\ Cardinality(1 .. CouncilCalls) = CouncilCalls
  <2>1. CouncilCalls \in Nat /\ 1 \in Int /\ CouncilCalls \in Int
    BY Settings
  <2>2. /\ IsFiniteSet(1 .. CouncilCalls)
        /\ Cardinality(1 .. CouncilCalls) = IF 1 > CouncilCalls THEN 0 ELSE CouncilCalls - 1 + 1
    BY <2>1, FS_Interval
  <2>3. QED
    BY <2>1, <2>2
<1>3. IsFiniteSet(R) /\ Cardinality(R) = Cardinality(Running) * CouncilCalls
  BY <1>1, <1>2, FS_Product
<1>4. Owed \in SUBSET R
  <2>1. SUFFICES ASSUME NEW r \in Owed PROVE r \in R
    OBVIOUS
  <2>2. r \in Symbols \X (1 .. CouncilCalls) /\ r[2] >= 1 /\ r[2] <= Owes(r[1])
    BY Settings DEF Owed
  <2>3. r[1] \in Running
    BY <2>2 DEF Owes, Running, InPool
  <2>4. QED
    BY <2>2, <2>3
<1>5. Cardinality(Owed) <= Cardinality(R)
  BY <1>3, <1>4, FS_Subset
<1>6. \A a, b, c \in Nat : a <= b => a * c <= b * c
  OBVIOUS
<1>7. Cardinality(Running) * CouncilCalls <= Workers * CouncilCalls
  BY <1>1, <1>6, Settings
<1>8. Cardinality(Owed) \in Nat /\ Cardinality(R) \in Nat
  BY <1>3, OwedFinite, FS_CardinalityType
<1>9. Cardinality(Running) * CouncilCalls \in Nat
  BY <1>3, <1>8
<1>10. QED
  BY <1>3, <1>5, <1>7, <1>8, <1>9, Settings

(* A symbol that comes to owe less makes the whole debt smaller.           *)
LEMMA OwedShrinks ==
    ASSUME TypeOK, NEW s \in Symbols, conf' = conf,
           \A t \in Symbols \ {s} : Owes(t)' = Owes(t),
           Owes(s)' <= Owes(s), Owes(s) \in Nat, Owes(s)' \in Nat
    PROVE  Cardinality(Owed') \in Nat /\ Cardinality(Owed') <= Cardinality(Owed)
<1>1. Owed' \in SUBSET Owed
  <2>1. SUFFICES ASSUME NEW r \in Owed' PROVE r \in Owed
    OBVIOUS
  <2>2. r \in Symbols \X (1 .. CouncilCalls) /\ r[2] \in Nat /\ r[2] <= Owes(r[1])'
    BY Settings DEF Owed, CouncilCalls
  <2>3. r[2] <= Owes(r[1])
    BY <2>2
  <2>4. QED
    BY <2>2, <2>3 DEF Owed
<1>2. QED
  BY <1>1, OwedFinite, FS_Subset, FS_CardinalityType

-----------------------------------------------------------------------------
(* Types.                                                                  *)
LEMMA Goes ==
    ASSUME TypeOK, NEW s \in Symbols, NEW n \in Nodes, Goto(s, n)
    PROVE  /\ node' \in [Symbols -> Nodes] /\ node'[s] = n
           /\ \A t \in Symbols \ {s} : node'[t] = node[t]
           /\ Cardinality(Running) \in Nat
           /\ Cardinality(Running') = Cardinality(Running) + (IF n \in InPool THEN 1 ELSE 0)
                                        - (IF node[s] \in InPool THEN 1 ELSE 0)
           /\ Cardinality(At({"ignored", "cut"})') = Cardinality(At({"ignored", "cut"}))
                                        + (IF n \in {"ignored", "cut"} THEN 1 ELSE 0)
                                        - (IF node[s] \in {"ignored", "cut"} THEN 1 ELSE 0)
<1>1. node \in [Symbols -> Nodes]
  BY DEF TypeOK
<1>2. Running = At(InPool) /\ Running' = At(InPool)'
  BY DEF Running, At
<1>3. /\ node' \in [Symbols -> Nodes] /\ node'[s] = n
      /\ \A t \in Symbols \ {s} : node'[t] = node[t]
  BY <1>1 DEF Goto
<1>4. /\ Cardinality(At(InPool)) \in Nat
      /\ Cardinality(At(InPool)') = Cardinality(At(InPool)) + (IF n \in InPool THEN 1 ELSE 0)
                                        - (IF node[s] \in InPool THEN 1 ELSE 0)
  BY <1>1, Moved
<1>5. Cardinality(At({"ignored", "cut"})') = Cardinality(At({"ignored", "cut"}))
                                        + (IF n \in {"ignored", "cut"} THEN 1 ELSE 0)
                                        - (IF node[s] \in {"ignored", "cut"} THEN 1 ELSE 0)
  BY <1>1, Moved
<1>6. QED
  BY <1>2, <1>3, <1>4, <1>5

(* A step that takes a symbol from one node to another keeps the types     *)
(* when it keeps those of the counters, and takes a worker if it needs one.*)
LEMMA TypesKept ==
    ASSUME TypeOK, NEW s \in Symbols, NEW n \in Nodes, Goto(s, n), UNCHANGED <<Cycle, phase>>,
           left' \in [Symbols -> 0 .. CouncilCalls],
           calls' \in [llm : Nat, council : Nat, shadow : 0 .. MaxShadow],
           gate' \in [passed : Nat, gated : Nat],
           escalations' \in 0 .. MaxEscalations,
           admitted' \subseteq Symbols, diagnosed' \subseteq Symbols, predicted' \subseteq Symbols,
           gate'.passed = Cardinality(admitted'),
           gate'.gated = gate.gated + (IF n \in {"ignored", "cut"} THEN 1 ELSE 0)
                                    - (IF node[s] \in {"ignored", "cut"} THEN 1 ELSE 0),
           n \in InPool => node[s] \in InPool \/ Cardinality(Running) < Workers
    PROVE  TypeOK'
<1>1. /\ node' \in [Symbols -> Nodes]
      /\ Cardinality(Running') <= Workers
  BY Goes, Settings DEF TypeOK
<1>2. gate'.gated = Cardinality({t \in Symbols : node'[t] \in {"ignored", "cut"}})
  <2>1. gate.gated = Cardinality(At({"ignored", "cut"}))
    BY DEF TypeOK, At
  <2>2. gate'.gated = Cardinality(At({"ignored", "cut"})')
    BY <2>1, Goes
  <2>3. QED
    BY <2>2 DEF At
<1>3. QED
  BY <1>1, <1>2 DEF TypeOK, Cycle, Workers, CouncilCalls, MaxShadow, MaxEscalations

(* Steps that neither decide at the gate nor let a symbol past the cap.    *)
LEMMA UngatedTypes ==
    ASSUME TypeOK, NEW s \in Symbols, NEW n \in Nodes \ {"ignored", "cut"}, Goto(s, n),
           node[s] \notin {"ignored", "cut"},
           UNCHANGED <<Cycle, phase, gate, admitted>>,
           left' \in [Symbols -> 0 .. CouncilCalls],
           calls' \in [llm : Nat, council : Nat, shadow : 0 .. MaxShadow],
           escalations' \in 0 .. MaxEscalations,
           diagnosed' \subseteq Symbols, predicted' \subseteq Symbols,
           n \in InPool => node[s] \in InPool \/ Cardinality(Running) < Workers
    PROVE  TypeOK'
<1>1. /\ gate' \in [passed : Nat, gated : Nat] /\ admitted' \subseteq Symbols
      /\ gate'.passed = Cardinality(admitted') /\ gate'.gated = gate.gated + 0 - 0
  BY DEF TypeOK
<1>2. QED
  BY <1>1, TypesKept

LEMMA AdmitTypes ==
    ASSUME TypeOK, PhasesInv, NEW s \in Symbols, Admit(s)
    PROVE  TypeOK'
<1>1. s \notin admitted /\ IsFiniteSet(admitted) /\ Cardinality(admitted) \in Nat
  BY FiniteSymbols DEF TypeOK, PhasesInv, Admit, PastCap
<1>2. Cardinality(admitted') = Cardinality(admitted) + 1
  BY <1>1, FS_AddElement DEF Admit
<1>3. /\ Goto(s, "predict") /\ node[s] = "cap"
      /\ UNCHANGED <<Cycle, phase, left, calls, escalations, diagnosed, predicted>>
  BY DEF Admit
<1>4. /\ gate' \in [passed : Nat, gated : Nat]
      /\ gate'.passed = Cardinality(admitted') /\ gate'.gated = gate.gated + 0 - 0
  BY <1>2 DEF Admit, RecordGate, TypeOK
<1>5. "predict" \in Nodes /\ node[s] \in InPool
  BY <1>3 DEF Nodes, InPool
<1>6. /\ left' \in [Symbols -> 0 .. CouncilCalls]
      /\ calls' \in [llm : Nat, council : Nat, shadow : 0 .. MaxShadow]
      /\ escalations' \in 0 .. MaxEscalations
      /\ admitted' \subseteq Symbols /\ diagnosed' \subseteq Symbols /\ predicted' \subseteq Symbols
  BY <1>3 DEF Admit, TypeOK
<1>7. QED
  BY <1>3, <1>4, <1>5, <1>6, TypesKept

LEMMA StepTypes ==
    ASSUME TypeOK, PhasesInv, NEW s \in Symbols, SymbolStep(s)
    PROVE  TypeOK'
<1> USE DEF Nodes, InPool, Ended
<1>0. /\ left \in [Symbols -> 0 .. CouncilCalls]
      /\ calls \in [llm : Nat, council : Nat, shadow : 0 .. MaxShadow]
      /\ escalations \in 0 .. MaxEscalations
      /\ diagnosed \subseteq Symbols /\ predicted \subseteq Symbols
      /\ CouncilCalls \in Nat /\ MaxEscalations \in Nat /\ MaxShadow \in Nat
  BY Settings DEF TypeOK
<1>1. CASE Start(s)
  <2>1. PICK n \in {"reflect", "cap"} :
            /\ Goto(s, n) /\ node[s] \in {"queued", "passed"}
            /\ Cardinality(Running) < Workers
            /\ UNCHANGED <<Cycle, phase, left, Counters, History>>
    BY <1>1 DEF Start
  <2>2. QED
    BY <1>0, <2>1, UngatedTypes DEF Counters, History
<1>2. CASE Reflect(s) \/ PassGate(s) \/ Confident(s) \/ Fallback(s) \/ Save(s)
  <2>1. PICK n \in {"gate", "passed", "cap", "shadow", "save", "saved"} :
            /\ Goto(s, n) /\ node[s] \in {"reflect", "gate", "answer", "save"}
            /\ UNCHANGED <<Cycle, phase, left, Counters, History>>
    BY <1>2 DEF Reflect, PassGate, Confident, Fallback, Save
  <2>2. QED
    BY <1>0, <2>1, UngatedTypes DEF Counters, History
<1>3. CASE Diagnose(s) \/ Predict(s) \/ Escalate(s)
  <2>1. PICK n \in {"gate", "answer", "shadow"} :
            /\ Goto(s, n) /\ node[s] \in {"reflect", "predict", "escalate"}
            /\ Pay("llm")
            /\ diagnosed' \in {diagnosed, diagnosed \cup {s}}
            /\ predicted' \in {predicted, predicted \cup {s}}
            /\ UNCHANGED <<Cycle, phase, left, gate, escalations, admitted>>
    BY <1>3 DEF Diagnose, Predict, Escalate, History
  <2>2. calls' \in [llm : Nat, council : Nat, shadow : 0 .. MaxShadow]
    BY <1>0, <2>1 DEF Pay
  <2>3. QED
    BY <1>0, <2>1, <2>2, UngatedTypes
<1>4. CASE Ignore(s) \/ CutByBudget(s)
  <2>1. PICK n \in {"ignored", "cut"} :
            /\ Goto(s, n) /\ node[s] \in {"gate", "cap"}
            /\ RecordGate(FALSE)
            /\ UNCHANGED <<Cycle, phase, left, calls, escalations, History>>
    BY <1>4 DEF Ignore, CutByBudget
  <2>2. /\ gate' \in [passed : Nat, gated : Nat]
        /\ gate'.passed = gate.passed /\ gate'.gated = gate.gated + 1 - 0
    <3>1. gate \in [passed : Nat, gated : Nat]
      BY DEF TypeOK
    <3>2. gate' = [gate EXCEPT !.gated = @ + 1]
      BY <2>1 DEF RecordGate
    <3>3. QED
      BY <3>1, <3>2
  <2>3. admitted' = admitted /\ gate.passed = Cardinality(admitted) /\ admitted \subseteq Symbols
    BY <2>1 DEF TypeOK, History
  <2>4. QED
    BY <1>0, <2>1, <2>2, <2>3, TypesKept DEF History
<1>5. CASE ReserveEscalation(s)
  <2>1. /\ Goto(s, "escalate") /\ node[s] = "answer" /\ escalations' \in 0 .. MaxEscalations
        /\ UNCHANGED <<Cycle, phase, left, calls, gate, History>>
    BY <1>0, <1>5 DEF ReserveEscalation
  <2>2. QED
    BY <1>0, <2>1, UngatedTypes DEF History
<1>6. CASE Shadow(s) \/ NoShadow(s)
  <2>1. /\ Goto(s, "council") /\ node[s] = "shadow"
        /\ left' \in [Symbols -> 0 .. CouncilCalls]
        /\ UNCHANGED <<Cycle, phase, gate, escalations, History>>
    BY <1>0, <1>6 DEF Shadow, NoShadow, ToCouncil, Counters
  <2>2. calls' \in [llm : Nat, council : Nat, shadow : 0 .. MaxShadow]
    BY <1>0, <1>6 DEF Shadow, NoShadow, shadow_call_allowed, Pay, Counters
  <2>3. QED
    BY <1>0, <2>1, <2>2, UngatedTypes DEF History
<1>7. CASE CouncilEnds(s) \/ SymbolFails(s)
  <2>1. PICK n \in {"save", "failed"} :
            /\ Goto(s, n) /\ node[s] \in InPool
            /\ left' = [left EXCEPT ![s] = 0]
            /\ UNCHANGED <<Cycle, phase, Counters, History>>
    BY <1>7 DEF CouncilEnds, SymbolFails
  <2>2. left' \in [Symbols -> 0 .. CouncilCalls]
    BY <1>0, <2>1
  <2>3. QED
    BY <1>0, <2>1, <2>2, UngatedTypes DEF Counters, History
<1>8. CASE CouncilRequest(s)
  <2>1. /\ left' \in [Symbols -> 0 .. CouncilCalls]
        /\ calls' \in [llm : Nat, council : Nat, shadow : 0 .. MaxShadow]
        /\ UNCHANGED <<Cycle, phase, node, gate, escalations, History>>
    BY <1>0, <1>8 DEF CouncilRequest, Pay
  <2>2. QED
    BY <2>1 DEF TypeOK, History, Cycle, Running, Workers, CouncilCalls, MaxShadow, MaxEscalations
<1>9. QED
  BY <1>1, <1>2, <1>3, <1>4, <1>5, <1>6, <1>7, <1>8, AdmitTypes DEF SymbolStep

-----------------------------------------------------------------------------
(* Where a symbol may be: most steps move one symbol and neither admit nor *)
(* diagnose it.                                                            *)
LEMMA PhasesKept ==
    ASSUME TypeOK, PhasesInv, NEW s \in Symbols, NEW n \in Nodes, Goto(s, n),
           UNCHANGED <<Cycle, phase, History>>,
           n \in PastCap => s \in admitted,
           s \in admitted => n \in PastCap \cup {"failed"},
           n \in PastCap \ {"predict"} => s \in predicted,
           n # "predict",
           n \notin {"queued", "reflect"} \/ node[s] = "queued",
           TwoPhase /\ phase = 1 => n \notin {"cap", "cut"},
           phase = 2 => n \notin BeforeGate
    PROVE  PhasesInv'
<1>1. /\ node' \in [Symbols -> Nodes] /\ node'[s] = n
      /\ \A t \in Symbols \ {s} : node'[t] = node[t]
  BY Goes
<1>2. UNCHANGED <<phase, TwoPhase, admitted, diagnosed, predicted>>
  BY DEF Cycle, History, TwoPhase
<1>3. QED
  BY <1>1, <1>2 DEF PhasesInv

LEMMA StepPhases ==
    ASSUME TypeOK, PhasesInv, NEW s \in Symbols, SymbolStep(s)
    PROVE  PhasesInv'
<1> USE DEF Nodes, InPool, Ended, PastCap, BeforeGate
<1>0. phase \in {1, 2} /\ (phase = 2 => TwoPhase) /\ TwoPhase \in BOOLEAN
  BY Settings DEF TypeOK, PhasesInv
<1>1. CASE Start(s)
  <2>1. CASE phase = 1
    <3>1. /\ Goto(s, "reflect") /\ node[s] = "queued" /\ s \notin admitted
          /\ UNCHANGED <<Cycle, phase, History>>
      BY <1>1, <2>1 DEF Start, PhasesInv
    <3>2. QED
      BY <2>1, <3>1, PhasesKept
  <2>2. CASE phase = 2
    <3>1. /\ Goto(s, "cap") /\ node[s] = "passed" /\ s \notin admitted
          /\ UNCHANGED <<Cycle, phase, History>>
      BY <1>1, <2>2 DEF Start, PhasesInv
    <3>2. QED
      BY <2>2, <3>1, PhasesKept
  <2>3. QED
    BY <1>0, <2>1, <2>2
<1>2. CASE Reflect(s)
  <2>1. /\ Goto(s, "gate") /\ node[s] = "reflect" /\ s \notin admitted /\ phase = 1
        /\ UNCHANGED <<Cycle, phase, History>>
    BY <1>0, <1>2 DEF Reflect, PhasesInv
  <2>2. QED
    BY <2>1, PhasesKept
<1>3. CASE Diagnose(s)
  <2>1. /\ Goto(s, "gate") /\ node[s] = "reflect" /\ s \notin admitted /\ phase = 1
        /\ UNCHANGED <<Cycle, phase, admitted, predicted>> /\ diagnosed' = diagnosed \cup {s}
    BY <1>0, <1>3 DEF Diagnose, PhasesInv
  <2>2. /\ node'[s] = "gate" /\ \A t \in Symbols \ {s} : node'[t] = node[t]
        /\ TwoPhase' = TwoPhase
    BY <2>1, Goes DEF Cycle, TwoPhase
  <2>3. QED
    BY <2>1, <2>2 DEF PhasesInv
<1>4. CASE PassGate(s)
  <2>1. /\ node[s] = "gate" /\ s \notin admitted /\ phase = 1
        /\ UNCHANGED <<Cycle, phase, History>>
        /\ Goto(s, IF TwoPhase THEN "passed" ELSE "cap")
    BY <1>0, <1>4 DEF PassGate, PhasesInv
  <2>2. QED
    BY <2>1, PhasesKept
<1>5. CASE Ignore(s) \/ CutByBudget(s)
  <2>1. PICK n \in {"ignored", "cut"} :
            /\ Goto(s, n) /\ node[s] = (IF n = "cut" THEN "cap" ELSE "gate")
            /\ UNCHANGED <<Cycle, phase, History>>
    BY <1>5 DEF Ignore, CutByBudget
  <2>2. s \notin admitted /\ (TwoPhase /\ phase = 1 => n # "cut")
    BY <2>1 DEF PhasesInv
  <2>3. QED
    BY <2>1, <2>2, PhasesKept
<1>6. CASE Admit(s)
  <2>1. /\ Goto(s, "predict") /\ node[s] = "cap" /\ ~ (TwoPhase /\ phase = 1)
        /\ UNCHANGED <<Cycle, phase, diagnosed, predicted>> /\ admitted' = admitted \cup {s}
    BY <1>6 DEF Admit, PhasesInv
  <2>2. /\ node'[s] = "predict" /\ \A t \in Symbols \ {s} : node'[t] = node[t]
        /\ TwoPhase' = TwoPhase
    BY <2>1, Goes DEF Cycle, TwoPhase
  <2>3. QED
    BY <2>1, <2>2 DEF PhasesInv
<1>7. CASE CouncilRequest(s)
  BY <1>7 DEF CouncilRequest, PhasesInv, Cycle, TwoPhase, History
<1>8. CASE SymbolFails(s)
  <2>1. /\ Goto(s, "failed") /\ UNCHANGED <<Cycle, phase, History>>
    BY <1>8 DEF SymbolFails
  <2>2. QED
    BY <2>1, PhasesKept
<1>9. CASE Predict(s)
  <2>1. /\ Goto(s, "answer") /\ node[s] = "predict" /\ s \in admitted
        /\ UNCHANGED <<Cycle, phase, admitted, diagnosed>> /\ predicted' = predicted \cup {s}
    BY <1>9 DEF Predict, PhasesInv
  <2>2. /\ node'[s] = "answer" /\ \A t \in Symbols \ {s} : node'[t] = node[t]
        /\ TwoPhase' = TwoPhase
    BY <2>1, Goes DEF Cycle, TwoPhase
  <2>3. QED
    BY <2>1, <2>2 DEF PhasesInv
<1>10. CASE \/ Confident(s) \/ ReserveEscalation(s) \/ Escalate(s) \/ Fallback(s)
           \/ Shadow(s) \/ NoShadow(s) \/ CouncilEnds(s) \/ Save(s)
  <2>1. PICK n \in PastCap \ {"predict"} :
            /\ Goto(s, n) /\ node[s] \in PastCap \ {"predict"}
            /\ UNCHANGED <<Cycle, phase, History>>
    BY <1>10 DEF Confident, ReserveEscalation, Escalate, Fallback, Shadow, NoShadow, ToCouncil,
       CouncilEnds, Save
  <2>2. s \in admitted /\ s \in predicted
    BY <2>1 DEF PhasesInv
  <2>3. QED
    BY <2>1, <2>2, PhasesKept
<1>11. QED
  BY <1>1, <1>2, <1>3, <1>4, <1>5, <1>6, <1>7, <1>8, <1>9, <1>10 DEF SymbolStep

-----------------------------------------------------------------------------
(* The cap.  Paid calls are never taken back, so what is crossed stays so. *)
LEMMA CapStaysCrossed ==
    ASSUME TypeOK, NEW s \in Symbols, SymbolStep(s)
    PROVE  /\ UNCHANGED Cycle
           /\ calls'.llm >= calls.llm /\ calls'.council >= calls.council
           /\ budget_exhausted => budget_exhausted'
<1>1. UNCHANGED Cycle
  BY DEF SymbolStep, Start, Diagnose, Reflect, Ignore, PassGate, CutByBudget, Admit, Predict, Confident,
     ReserveEscalation, Escalate, Fallback, Shadow, NoShadow, CouncilRequest, CouncilEnds, Save, SymbolFails
<1>2. calls \in [llm : Nat, council : Nat, shadow : 0 .. MaxShadow] /\ Cap \in Nat
  BY Settings DEF TypeOK
<1>3. \/ UNCHANGED calls
      \/ \E source \in {"llm", "council", "shadow"} : Pay(source)
  BY DEF SymbolStep, Start, Diagnose, Reflect, Ignore, PassGate, CutByBudget, Admit, Predict, Confident,
     ReserveEscalation, Escalate, Fallback, Shadow, NoShadow, CouncilRequest, CouncilEnds, Save, SymbolFails,
     Counters
<1>4. calls'.llm \in Nat /\ calls'.council \in Nat
      /\ calls'.llm >= calls.llm /\ calls'.council >= calls.council
  BY <1>2, <1>3, Settings DEF Pay
<1>5. budget_exhausted => budget_exhausted'
  BY <1>1, <1>2, <1>4 DEF budget_exhausted, paid_llm_calls, Cycle, Cap
<1>6. QED
  BY <1>1, <1>4, <1>5

(* Two phases on one worker: which symbols RankInv compares after a step.  *)
LEMMA StepRank ==
    ASSUME TypeOK, PhasesInv, RankInv, NEW s \in Symbols, SymbolStep(s)
    PROVE  RankInv'
<1>1. /\ UNCHANGED Cycle /\ (budget_exhausted => budget_exhausted')
      /\ Workers' = Workers /\ TwoPhase' = TwoPhase /\ move' = move
  BY CapStaysCrossed DEF Cycle, Workers, TwoPhase
<1>2. ASSUME NEW c \in Symbols, node'[c] = "cut"
      PROVE  budget_exhausted'
  <2>1. CASE node[c] = "cut"
    BY <1>1, <2>1 DEF RankInv
  <2>2. CASE node[c] # "cut"
    <3>1. CutByBudget(s)
      BY <1>2, <2>2 DEF SymbolStep, Start, Diagnose, Reflect, Ignore, PassGate, CutByBudget, Admit, Predict,
         Confident, ReserveEscalation, Escalate, Fallback, Shadow, NoShadow, ToCouncil, CouncilRequest,
         CouncilEnds, Save, SymbolFails, Goto, TypeOK
    <3>2. QED
      BY <1>1, <3>1 DEF CutByBudget
  <2>3. QED
    BY <2>1, <2>2
<1>3. ASSUME Workers = 1, TwoPhase, NEW a \in Symbols, NEW t \in Symbols,
             \/ a \in admitted' /\ node'[t] \in {"passed", "cap", "cut"}
             \/ node'[a] = "cap" /\ node'[t] = "passed"
      PROVE  move[t] <= move[a]
  <2> DEFINE Compared(x, y) == \/ x \in admitted /\ node[y] \in {"passed", "cap", "cut"}
                               \/ node[x] = "cap" /\ node[y] = "passed"
  <2>1. CASE phase = 1
    <3>1. phase' = 1
      BY <2>1 DEF SymbolStep, Start, Diagnose, Reflect, Ignore, PassGate, CutByBudget, Admit, Predict,
         Confident, ReserveEscalation, Escalate, Fallback, Shadow, NoShadow, ToCouncil, CouncilRequest,
         CouncilEnds, Save, SymbolFails
    <3>2. a \notin admitted' /\ node'[a] # "cap"
      BY <1>1, <1>3, <3>1, StepPhases DEF PhasesInv
    <3>3. QED
      BY <1>3, <3>2
  <2>2. CASE phase = 2 /\ Start(s)
    <3>1. /\ Goto(s, "cap") /\ node[s] = "passed" /\ admitted' = admitted
          /\ \A u \in Symbols \ {s} : node[u] = "passed" => move[s] >= move[u]
      BY <2>2, Settings DEF Start, Before, History
    <3>2. \/ Compared(a, t)
          \/ a = s /\ t # s /\ node[t] = "passed"
      BY <1>3, <3>1 DEF Goto, TypeOK
    <3>3. QED
      BY <1>3, <3>1, <3>2, Settings DEF RankInv
  <2>3. CASE phase = 2 /\ Admit(s)
    <3>1. /\ Goto(s, "predict") /\ node[s] = "cap" /\ admitted' = admitted \cup {s} /\ ~ budget_exhausted
      BY <2>3 DEF Admit
    <3>2. \A u \in Symbols \ {s} : node[u] # "cap"
      <4>1. SUFFICES ASSUME NEW u \in Symbols \ {s}, node[u] = "cap" PROVE FALSE
        OBVIOUS
      <4>2. IsFiniteSet(Running) /\ Cardinality(Running) \in Nat /\ s \in Running /\ u \in Running
        BY <3>1, <4>1, FiniteSymbols DEF Running, InPool
      <4>3. /\ IsFiniteSet(Running \ {s}) /\ Cardinality(Running \ {s}) = Cardinality(Running) - 1
        BY <4>2, FS_RemoveElement
      <4>4. Cardinality(Running) = 1
        <5>1. Cardinality(Running) <= 1
          BY <1>3 DEF TypeOK
        <5>2. Cardinality(Running) # 0
          BY <4>2, FS_EmptySet
        <5>3. QED
          BY <4>2, <5>1, <5>2
      <4>5. Running \ {s} = {}
        BY <4>3, <4>4, FS_EmptySet
      <4>6. QED
        BY <4>2, <4>5
    <3>3. \A u \in Symbols : node[u] # "cut"
      BY <3>1 DEF RankInv
    <3>4. Compared(a, t)
      BY <1>3, <3>1, <3>2, <3>3 DEF Goto, TypeOK
    <3>5. QED
      BY <1>3, <3>4 DEF RankInv
  <2>4. CASE phase = 2 /\ ~ Start(s) /\ ~ Admit(s)
    <3>1. node[s] \notin BeforeGate
      BY <2>4 DEF PhasesInv
    <3>2. admitted' = admitted
      BY <2>4 DEF SymbolStep, Diagnose, Reflect, Ignore, PassGate, CutByBudget, Predict,
         Confident, ReserveEscalation, Escalate, Fallback, Shadow, NoShadow, ToCouncil, CouncilRequest,
         CouncilEnds, Save, SymbolFails, History
    <3>3. \/ node' = node
          \/ \E n \in Nodes \ {"passed", "cap"} :
                Goto(s, n) /\ (n = "cut" => node[s] = "cap")
      <4>1. CASE CouncilRequest(s)
        BY <4>1 DEF CouncilRequest
      <4>2. CASE CutByBudget(s)
        <5>1. Goto(s, "cut") /\ node[s] = "cap"
          BY <4>2 DEF CutByBudget
        <5>2. QED
          BY <5>1 DEF Nodes, Ended
      <4>3. CASE ~ CouncilRequest(s) /\ ~ CutByBudget(s)
        <5>1. PICK n \in {"answer", "escalate", "shadow", "council", "save", "saved", "failed"} : Goto(s, n)
          BY <2>4, <3>1, <4>3 DEF SymbolStep, Diagnose, Reflect, Ignore, PassGate, Predict, Confident,
             ReserveEscalation, Escalate, Fallback, Shadow, NoShadow, ToCouncil, CouncilEnds, Save,
             SymbolFails, BeforeGate
        <5>2. QED
          BY <5>1 DEF Nodes, InPool, Ended
      <4>4. QED
        BY <4>1, <4>2, <4>3
    <3>4. Compared(a, t)
      BY <1>3, <3>2, <3>3 DEF Goto, TypeOK
    <3>5. QED
      BY <1>3, <3>4 DEF RankInv
  <2>5. QED
    BY <2>1, <2>2, <2>3, <2>4 DEF TypeOK
<1>4. QED
  BY <1>1, <1>2, <1>3 DEF RankInv
-----------------------------------------------------------------------------
(* The numbers CapInv speaks of.                                           *)
LEMMA CapNumbers ==
    ASSUME TypeOK
    PROVE  /\ Cardinality(admitted) \in Nat /\ Cardinality(diagnosed) \in Nat
           /\ Cardinality(predicted) \in Nat /\ Cardinality(Analysed) \in Nat
           /\ Cardinality(At({"predict"})) \in Nat /\ Cardinality(At({"escalate"})) \in Nat
           /\ Cardinality(At({"predict", "answer", "escalate"})) \in Nat
           /\ Cardinality(Owed) \in Nat
           /\ calls.llm \in Nat /\ calls.council \in Nat /\ calls.shadow \in Nat
           /\ escalations \in Nat /\ escalations <= MaxEscalations
BY FiniteSymbols, OwedFinite, Settings DEF TypeOK, At, Analysed

LEMMA CapBounds ==
    ASSUME TypeOK
    PROVE  /\ Cardinality(Owed) <= Workers * CouncilCalls
           /\ Cardinality(At({"predict"})) <= Workers
           /\ Cardinality(At({"predict", "answer", "escalate"})) <= Workers
           /\ Cardinality(Analysed) <= Cardinality(predicted) + Workers
<1> DEFINE P == At({"predict"})
           A == At({"predict", "answer", "escalate"})
<1>1. /\ Running \in SUBSET Symbols /\ P \in SUBSET Running /\ A \in SUBSET Running
      /\ Cardinality(Running) \in Nat /\ Cardinality(Running) <= Workers
  BY FiniteSymbols DEF Running, At, InPool, TypeOK
<1>2. Cardinality(P) <= Cardinality(Running) /\ Cardinality(A) <= Cardinality(Running)
  BY <1>1, Smaller
<1>3. Cardinality(P) \in Nat /\ Cardinality(A) \in Nat /\ Workers \in Nat
  BY CapNumbers, Settings
<1>4. Cardinality(Analysed) <= Cardinality(predicted) + Cardinality(P)
  <2>1. predicted \in SUBSET Symbols /\ P \in SUBSET Symbols /\ predicted \cap P \in SUBSET Symbols
    BY DEF At, TypeOK
  <2>2. /\ IsFiniteSet(predicted) /\ IsFiniteSet(P)
        /\ Cardinality(predicted) \in Nat /\ Cardinality(predicted \cap P) \in Nat
    BY <2>1, FiniteSymbols
  <2>3. Cardinality(predicted \cup P)
           = Cardinality(predicted) + Cardinality(P) - Cardinality(predicted \cap P)
    BY <2>2, FS_Union
  <2>4. QED
    BY <1>3, <2>2, <2>3 DEF Analysed
<1>5. QED
  BY <1>1, <1>2, <1>3, <1>4, OwedBound, CapNumbers

LEMMA After ==
    ASSUME TypeOK'
    PROVE  /\ (Cardinality(admitted) \in Nat)' /\ (Cardinality(diagnosed) \in Nat)'
           /\ (Cardinality(predicted) \in Nat)' /\ (Cardinality(Analysed) \in Nat)'
           /\ (Cardinality(Owed) \in Nat)'
           /\ (Cardinality(At({"escalate"})) \in Nat)' /\ (Cardinality(At({"predict"})) \in Nat)'
           /\ (Cardinality(At({"predict", "answer", "escalate"})) \in Nat)'
           /\ (Cardinality(Owed) <= Workers * CouncilCalls)'
           /\ (Cardinality(At({"predict"})) <= Workers)'
           /\ (Cardinality(At({"predict", "answer", "escalate"})) <= Workers)'
           /\ (Cardinality(Analysed) <= Cardinality(predicted) + Workers)'
BY CapNumbers, CapBounds, PTL

(* What a symbol that goes from one node to another owes before and after. *)
LEMMA OwesMoved ==
    ASSUME TypeOK, TypeOK', NEW s \in Symbols, NEW n \in Nodes, Goto(s, n), conf' = conf,
           \A t \in Symbols \ {s} : left'[t] = left[t]
    PROVE  /\ \A t \in Symbols \ {s} : Owes(t)' = Owes(t)
           /\ Owes(s) \in Nat /\ Owes(s)' \in Nat
           /\ Owes(s) = IF node[s] = "council" THEN left[s]
                        ELSE IF node[s] \in {"predict", "answer", "escalate", "shadow"} THEN CouncilCalls ELSE 0
           /\ Owes(s)' = IF n = "council" THEN left'[s]
                         ELSE IF n \in {"predict", "answer", "escalate", "shadow"} THEN CouncilCalls ELSE 0
<1>1. /\ node'[s] = n /\ \A t \in Symbols \ {s} : node'[t] = node[t]
      /\ CouncilCalls' = CouncilCalls /\ CouncilCalls \in Nat
  BY Goes, Settings DEF CouncilCalls
<1>2. left[s] \in 0 .. CouncilCalls /\ left'[s] \in 0 .. CouncilCalls
  BY <1>1 DEF TypeOK
<1>3. /\ Owes(s) = IF node[s] = "council" THEN left[s]
                   ELSE IF node[s] \in {"predict", "answer", "escalate", "shadow"} THEN CouncilCalls ELSE 0
      /\ Owes(s)' = IF n = "council" THEN left'[s]
                    ELSE IF n \in {"predict", "answer", "escalate", "shadow"} THEN CouncilCalls ELSE 0
  BY <1>1 DEF Owes
<1>4. \A t \in Symbols \ {s} : Owes(t)' = Owes(t)
  BY <1>1 DEF Owes
<1>5. QED
  BY <1>1, <1>2, <1>3, <1>4

(* A symbol that owes no more than before, and is asked for no prediction. *)
LEMMA Moves ==
    ASSUME TypeOK, TypeOK', NEW s \in Symbols, NEW n \in Nodes \ {"predict"}, Goto(s, n), conf' = conf,
           \A t \in Symbols \ {s} : left'[t] = left[t],
           Owes(s)' <= Owes(s),
           n \in {"answer", "escalate"} => node[s] \in {"predict", "answer", "escalate"}
    PROVE  /\ Cardinality(Owed') <= Cardinality(Owed)
           /\ Cardinality(At({"predict"})') = Cardinality(At({"predict"})) - (IF node[s] = "predict" THEN 1 ELSE 0)
           /\ Cardinality(At({"escalate"})') = Cardinality(At({"escalate"})) + (IF n = "escalate" THEN 1 ELSE 0)
                                                       - (IF node[s] = "escalate" THEN 1 ELSE 0)
           /\ Cardinality(At({"predict", "answer", "escalate"})')
                  <= Cardinality(At({"predict", "answer", "escalate"}))
                       - (IF node[s] \in {"predict", "answer", "escalate"} /\ n \notin {"answer", "escalate"}
                          THEN 1 ELSE 0)
           /\ node[s] # "predict" => At({"predict"})' = At({"predict"})
<1>1. Cardinality(Owed') <= Cardinality(Owed)
  BY OwesMoved, OwedShrinks
<1>2. node \in [Symbols -> Nodes] /\ n # "predict"
  BY DEF TypeOK
<1>3. /\ Cardinality(At({"predict"})) \in Nat
      /\ Cardinality(At({"predict"})') = Cardinality(At({"predict"})) - (IF node[s] = "predict" THEN 1 ELSE 0)
  BY <1>2, Moved
<1>4. Cardinality(At({"escalate"})') = Cardinality(At({"escalate"})) + (IF n = "escalate" THEN 1 ELSE 0)
                                                       - (IF node[s] = "escalate" THEN 1 ELSE 0)
  BY <1>2, Moved
<1>5. /\ Cardinality(At({"predict", "answer", "escalate"})) \in Nat
      /\ Cardinality(At({"predict", "answer", "escalate"})')
            = Cardinality(At({"predict", "answer", "escalate"}))
                + (IF n \in {"predict", "answer", "escalate"} THEN 1 ELSE 0)
                - (IF node[s] \in {"predict", "answer", "escalate"} THEN 1 ELSE 0)
  BY <1>2, Moved
<1>6. node[s] # "predict" => At({"predict"})' = At({"predict"})
  BY <1>2 DEF At, Goto
<1>7. QED
  BY <1>1, <1>2, <1>3, <1>4, <1>5, <1>6

(* Steps without a paid call.                                              *)
LEMMA QuietCap ==
    ASSUME TypeOK, TypeOK', CapInv, NEW s \in Symbols,
           NEW n \in Nodes \ {"predict", "answer", "escalate"},
           Goto(s, n),
           UNCHANGED <<Cycle, escalations, History, calls.llm, calls.council>>,
           calls'.shadow = calls.shadow \/ ~ llmSpent,
           \A t \in Symbols \ {s} : left'[t] = left[t],
           Owes(s)' <= Owes(s)
    PROVE  CapInv'
<1>1. /\ UNCHANGED <<conf, llmSpent, admitted, diagnosed, predicted, escalations>>
      /\ UNCHANGED <<Workers, Cap, CouncilCalls, MaxEscalations>>
  BY DEF Cycle, History, Workers, Cap, CouncilCalls, MaxEscalations
<1>2. /\ Cardinality(Owed') <= Cardinality(Owed)
      /\ Cardinality(At({"escalate"})') <= Cardinality(At({"escalate"}))
      /\ Cardinality(At({"predict", "answer", "escalate"})') <= Cardinality(At({"predict", "answer", "escalate"}))
      /\ Cardinality(At({"predict"})') <= Cardinality(At({"predict"}))
  <2>1. n \in Nodes \ {"predict"} /\ n # "escalate" /\ n \notin {"answer", "escalate"}
    OBVIOUS
  <2>2. /\ Cardinality(At({"escalate"})) \in Nat /\ Cardinality(At({"predict"})) \in Nat
        /\ Cardinality(At({"predict", "answer", "escalate"})) \in Nat
    BY CapNumbers
  <2>3. /\ Cardinality(Owed') <= Cardinality(Owed)
        /\ Cardinality(At({"escalate"})') = Cardinality(At({"escalate"})) + (IF n = "escalate" THEN 1 ELSE 0)
                                                       - (IF node[s] = "escalate" THEN 1 ELSE 0)
        /\ Cardinality(At({"predict", "answer", "escalate"})')
                  <= Cardinality(At({"predict", "answer", "escalate"}))
                       - (IF node[s] \in {"predict", "answer", "escalate"} /\ n \notin {"answer", "escalate"}
                          THEN 1 ELSE 0)
        /\ Cardinality(At({"predict"})') = Cardinality(At({"predict"})) - (IF node[s] = "predict" THEN 1 ELSE 0)
    BY <1>1, <2>1, Moves
  <2>4. QED
    BY <2>1, <2>2, <2>3, After
<1>3. Cardinality(Owed') \in Nat /\ Cardinality(At({"escalate"})') \in Nat
      /\ Cardinality(At({"predict"})') \in Nat /\ Cardinality(Analysed') \in Nat
      /\ Cardinality(Analysed') <= Cardinality(Analysed)
      /\ Cardinality(At({"predict", "answer", "escalate"})') \in Nat
  <2>1. Analysed' \in SUBSET Analysed /\ Analysed \in SUBSET Symbols
    BY <1>1 DEF Analysed, At, Goto, TypeOK
  <2>2. QED
    BY <2>1, Smaller, After
<1>4. paid_llm_calls' = paid_llm_calls
  BY DEF paid_llm_calls
<1>5. InFlight' <= InFlight /\ InFlight \in Nat /\ InFlight' \in Nat
  BY <1>2, <1>3, <1>4, CapNumbers DEF InFlight, paid_llm_calls
<1> DEFINE W == Workers * CouncilCalls
           W1 == Workers * (1 + CouncilCalls)
<1>6. W \in Nat /\ W1 \in Nat /\ W' = W /\ W1' = W1
  BY <1>1, Settings
<1> HIDE DEF W, W1
<1>7. /\ Cardinality(predicted') <= calls'.llm
      /\ Cardinality(Analysed') <= Cap' - 1 + Workers'
      /\ Cardinality(At({"escalate"})') <= escalations'
  BY <1>1, <1>2, <1>3, CapNumbers, Settings DEF CapInv
<1>8. calls'.council + Cardinality(Owed') <= Cap' - 1 + W'
  BY <1>1, <1>2, <1>3, <1>6, CapNumbers, Settings DEF CapInv, W
<1>9. InFlight' + Cardinality(At({"predict", "answer", "escalate"})')
           <= Cap' - 1 + W1' + Workers' + Cardinality(diagnosed')
  BY <1>1, <1>2, <1>3, <1>5, <1>6, CapNumbers, Settings DEF CapInv, W1
<1>10. InFlight' + Cardinality(At({"escalate"})') + MaxEscalations' - escalations'
           <= Cap' - 1 + W1' + MaxEscalations' + Cardinality(diagnosed')
  BY <1>1, <1>2, <1>3, <1>5, <1>6, CapNumbers, Settings DEF CapInv, W1
<1>11. llmSpent' => admitted' = {} /\ diagnosed' = {} /\ paid_llm_calls' + calls'.shadow = 0
  BY <1>1, <1>4 DEF CapInv
<1>12. QED
  BY <1>7, <1>8, <1>9, <1>10, <1>11 DEF CapInv, W, W1

(* A symbol past the cap of a cycle that has something left to spend.      *)
LEMMA PaysUnspent ==
    ASSUME PhasesInv, CapInv, NEW s \in Symbols, node[s] \in PastCap
    PROVE  s \in admitted /\ ~ llmSpent
BY DEF PhasesInv, CapInv

LEMMA QuietSteps ==
    ASSUME TypeOK, TypeOK', PhasesInv, CapInv, NEW s \in Symbols,
           \/ Start(s) \/ Reflect(s) \/ Ignore(s) \/ PassGate(s) \/ CutByBudget(s) \/ Confident(s)
           \/ Fallback(s) \/ Shadow(s) \/ NoShadow(s) \/ CouncilEnds(s) \/ Save(s) \/ SymbolFails(s)
    PROVE  CapInv'
<1> USE DEF Nodes, InPool, Ended
<1>0. left \in [Symbols -> 0 .. CouncilCalls] /\ CouncilCalls \in Nat
  BY Settings DEF TypeOK
<1>1. CASE Shadow(s) \/ NoShadow(s)
  <2>1. /\ Goto(s, "council") /\ node[s] = "shadow"
        /\ left' = [left EXCEPT ![s] = CouncilCalls]
        /\ UNCHANGED <<Cycle, escalations, History>>
    BY <1>1 DEF Shadow, NoShadow, ToCouncil, Counters
  <2>2. UNCHANGED <<calls.llm, calls.council>>
    BY <1>1 DEF Shadow, NoShadow, Pay, Counters, TypeOK
  <2>3. ~ llmSpent
    BY <2>1, PaysUnspent DEF PastCap
  <2>4. conf' = conf /\ left'[s] = CouncilCalls /\ \A t \in Symbols \ {s} : left'[t] = left[t]
    BY <1>0, <2>1 DEF Cycle
  <2>5. Owes(s)' <= Owes(s)
    BY <1>0, <2>1, <2>4, OwesMoved
  <2>6. QED
    BY <2>1, <2>2, <2>3, <2>4, <2>5, QuietCap
<1>2. CASE \/ Start(s) \/ Reflect(s) \/ Ignore(s) \/ PassGate(s) \/ CutByBudget(s)
           \/ Confident(s) \/ Fallback(s) \/ Save(s) \/ CouncilEnds(s) \/ SymbolFails(s)
  <2>1. PICK n \in {"reflect", "cap", "gate", "ignored", "passed", "cut", "shadow", "save", "saved", "failed"} :
            /\ Goto(s, n)
            /\ n = "shadow" => node[s] = "answer"
            /\ left' \in {left, [left EXCEPT ![s] = 0]}
            /\ UNCHANGED <<Cycle, escalations, History, calls>>
    <3>1. CASE Start(s)
      BY <3>1 DEF Start, Counters
    <3>2. CASE Reflect(s) \/ Ignore(s) \/ PassGate(s) \/ CutByBudget(s)
      BY <3>2 DEF Reflect, Ignore, PassGate, CutByBudget, Counters
    <3>3. CASE Confident(s) \/ Fallback(s) \/ Save(s)
      BY <3>3 DEF Confident, Fallback, Save, Counters
    <3>4. CASE CouncilEnds(s) \/ SymbolFails(s)
      BY <3>4 DEF CouncilEnds, SymbolFails, Counters
    <3>5. QED
      BY <1>2, <3>1, <3>2, <3>3, <3>4
  <2>2. conf' = conf /\ \A t \in Symbols \ {s} : left'[t] = left[t]
    BY <1>0, <2>1 DEF Cycle
  <2>3. Owes(s)' <= Owes(s)
    BY <1>0, <2>1, <2>2, OwesMoved
  <2>4. n \in Nodes \ {"predict", "answer", "escalate"} /\ UNCHANGED <<calls.llm, calls.council>>
        /\ calls'.shadow = calls.shadow
    BY <2>1
  <2>5. QED
    BY <2>1, <2>2, <2>3, <2>4, QuietCap
<1>3. QED
  BY <1>1, <1>2

(* The steps that pay or reserve a call keep every sum that CapInv bounds. *)
LEMMA CapKept ==
    ASSUME TypeOK, TypeOK', CapInv, UNCHANGED Cycle, ~ llmSpent,
           Cardinality(predicted') - calls'.llm <= Cardinality(predicted) - calls.llm,
           Cardinality(Analysed') <= Cardinality(Analysed),
           calls'.council + Cardinality(Owed') <= calls.council + Cardinality(Owed),
           Cardinality(At({"escalate"})') - escalations' <= Cardinality(At({"escalate"})) - escalations,
           InFlight' + Cardinality(At({"predict", "answer", "escalate"})') - Cardinality(diagnosed')
               <= InFlight + Cardinality(At({"predict", "answer", "escalate"})) - Cardinality(diagnosed),
           InFlight' + Cardinality(At({"escalate"})') - escalations' - Cardinality(diagnosed')
               <= InFlight + Cardinality(At({"escalate"})) - escalations - Cardinality(diagnosed)
    PROVE  CapInv'
<1> DEFINE W == Workers * CouncilCalls
           W1 == Workers * (1 + CouncilCalls)
<1>1. /\ UNCHANGED <<llmSpent, Workers, Cap, MaxEscalations>>
      /\ W \in Nat /\ W1 \in Nat /\ W' = W /\ W1' = W1
      /\ Workers \in Nat /\ Cap \in Nat /\ MaxEscalations \in Nat
  BY Settings DEF Cycle, Workers, Cap, CouncilCalls, MaxEscalations
<1>2. /\ calls'.llm \in Nat /\ calls'.council \in Nat /\ escalations' \in Nat
      /\ calls.llm \in Nat /\ calls.council \in Nat /\ escalations \in Nat
  BY DEF TypeOK
<1> HIDE DEF W, W1
<1>3. InFlight \in Nat /\ InFlight' \in Nat
  BY <1>2, CapNumbers, After DEF InFlight, paid_llm_calls
<1>4. /\ Cardinality(predicted') <= calls'.llm
      /\ Cardinality(Analysed') <= Cap' - 1 + Workers'
      /\ Cardinality(At({"escalate"})') <= escalations'
  BY <1>1, <1>2, CapNumbers, After DEF CapInv
<1>5. calls'.council + Cardinality(Owed') <= Cap' - 1 + W'
  BY <1>1, <1>2, CapNumbers, After DEF CapInv, W
<1>6. InFlight' + Cardinality(At({"predict", "answer", "escalate"})')
           <= Cap' - 1 + W1' + Workers' + Cardinality(diagnosed')
  BY <1>1, <1>2, <1>3, CapNumbers, After DEF CapInv, W1
<1>7. InFlight' + Cardinality(At({"escalate"})') + MaxEscalations' - escalations'
           <= Cap' - 1 + W1' + MaxEscalations' + Cardinality(diagnosed')
  BY <1>1, <1>2, <1>3, CapNumbers, After DEF CapInv, W1
<1>8. QED
  BY <1>1, <1>4, <1>5, <1>6, <1>7 DEF CapInv, W, W1

LEMMA DiagnoseCap ==
    ASSUME TypeOK, TypeOK', PhasesInv, CapInv, NEW s \in Symbols, Diagnose(s)
    PROVE  CapInv'
<1>1. /\ Goto(s, "gate") /\ node[s] = "reflect" /\ ~ llmSpent
      /\ Pay("llm") /\ diagnosed' = diagnosed \cup {s}
      /\ UNCHANGED <<Cycle, phase, left, gate, escalations, admitted, predicted>>
  BY DEF Diagnose, MayDiagnose
<1>2. /\ "gate" \in Nodes \ {"predict"} /\ conf' = conf
      /\ \A t \in Symbols \ {s} : left'[t] = left[t]
  BY <1>1 DEF Nodes, InPool, Cycle
<1>3. Owes(s)' <= Owes(s)
  BY <1>1, <1>2, OwesMoved
<1>4. /\ Cardinality(Owed') <= Cardinality(Owed)
      /\ Cardinality(At({"escalate"})') = Cardinality(At({"escalate"}))
      /\ Cardinality(At({"predict", "answer", "escalate"})') <= Cardinality(At({"predict", "answer", "escalate"}))
      /\ At({"predict"})' = At({"predict"})
  BY <1>1, <1>2, <1>3, Moves, CapNumbers
<1>5. Cardinality(diagnosed') = Cardinality(diagnosed) + 1
  BY <1>1, FiniteSymbols, FS_AddElement DEF PhasesInv, TypeOK
<1>6. calls'.llm = calls.llm + 1 /\ calls'.council = calls.council
  BY <1>1 DEF Pay, TypeOK
<1>7. InFlight' <= InFlight + 1 /\ InFlight \in Nat /\ InFlight' \in Nat
  BY <1>4, <1>6, CapNumbers, After DEF InFlight, paid_llm_calls
<1>8. /\ Cardinality(predicted') - calls'.llm <= Cardinality(predicted) - calls.llm
      /\ Cardinality(Analysed') <= Cardinality(Analysed)
  <2>1. predicted' = predicted /\ Analysed' = Analysed
    BY <1>1, <1>4 DEF Analysed
  <2>2. QED
    BY <2>1, <1>6, CapNumbers
<1>9. calls'.council + Cardinality(Owed') <= calls.council + Cardinality(Owed)
  BY <1>4, <1>6, CapNumbers, After
<1>10. Cardinality(At({"escalate"})') - escalations' <= Cardinality(At({"escalate"})) - escalations
  BY <1>1, <1>4, CapNumbers
<1>11. InFlight' + Cardinality(At({"predict", "answer", "escalate"})') - Cardinality(diagnosed')
         <= InFlight + Cardinality(At({"predict", "answer", "escalate"})) - Cardinality(diagnosed)
  BY <1>4, <1>5, <1>7, CapNumbers, After
<1>12. InFlight' + Cardinality(At({"escalate"})') - escalations' - Cardinality(diagnosed')
         <= InFlight + Cardinality(At({"escalate"})) - escalations - Cardinality(diagnosed)
  BY <1>1, <1>4, <1>5, <1>7, CapNumbers, After
<1>13. QED
  BY <1>1, <1>8, <1>9, <1>10, <1>11, <1>12, CapKept

LEMMA PredictCap ==
    ASSUME TypeOK, TypeOK', PhasesInv, CapInv, NEW s \in Symbols, Predict(s)
    PROVE  CapInv'
<1>1. /\ Goto(s, "answer") /\ node[s] = "predict" /\ Pay("llm")
      /\ predicted' = predicted \cup {s}
      /\ UNCHANGED <<Cycle, phase, left, gate, escalations, admitted, diagnosed>>
  BY DEF Predict
<1>2. /\ "answer" \in Nodes \ {"predict"} /\ conf' = conf
      /\ \A t \in Symbols \ {s} : left'[t] = left[t]
      /\ admitted' = admitted /\ diagnosed' = diagnosed
  BY <1>1 DEF Nodes, InPool, Cycle
<1>3. Owes(s)' <= Owes(s)
  BY <1>1, <1>2, OwesMoved, Settings
<1>4. /\ Cardinality(Owed') <= Cardinality(Owed)
      /\ Cardinality(At({"escalate"})') = Cardinality(At({"escalate"}))
      /\ Cardinality(At({"predict", "answer", "escalate"})') <= Cardinality(At({"predict", "answer", "escalate"}))
      /\ Cardinality(At({"predict"})') = Cardinality(At({"predict"})) - 1
  BY <1>1, <1>2, <1>3, Moves, CapNumbers
<1>5. /\ Cardinality(predicted') <= Cardinality(predicted) + 1
      /\ Cardinality(Analysed') <= Cardinality(Analysed)
  <2>1. predicted \in SUBSET Symbols /\ IsFiniteSet(predicted)
    BY FiniteSymbols DEF TypeOK
  <2>2. Cardinality(predicted') <= Cardinality(predicted) + 1
    <3>1. Cardinality(predicted \cup {s}) \in {Cardinality(predicted), Cardinality(predicted) + 1}
      BY <2>1, FS_AddElement
    <3>2. QED
      BY <1>1, <3>1, CapNumbers
  <2>3. Analysed' \in SUBSET Analysed /\ Analysed \in SUBSET Symbols
    BY <1>1 DEF Analysed, At, Goto, TypeOK
  <2>4. QED
    BY <2>2, <2>3, Smaller
<1>6. calls'.llm = calls.llm + 1 /\ calls'.council = calls.council /\ ~ llmSpent
  BY <1>1, PaysUnspent DEF Pay, TypeOK, PastCap
<1>7. InFlight' <= InFlight /\ InFlight \in Nat /\ InFlight' \in Nat
  BY <1>4, <1>6, CapNumbers, After DEF InFlight, paid_llm_calls
<1>8. QED
  BY <1>1, <1>2, <1>4, <1>5, <1>6, <1>7, CapKept, CapNumbers, After

LEMMA EscalationCap ==
    ASSUME TypeOK, TypeOK', PhasesInv, CapInv, NEW s \in Symbols, ReserveEscalation(s) \/ Escalate(s)
    PROVE  CapInv'
<1>1. PICK n \in {"escalate", "shadow"} :
          /\ Goto(s, n)
          /\ n = "escalate" => /\ node[s] = "answer" /\ escalations' = escalations + 1
                                /\ calls' = calls
          /\ n = "shadow" => /\ node[s] = "escalate" /\ escalations' = escalations
                              /\ Pay("llm")
          /\ UNCHANGED <<Cycle, phase, left, History>>
  <2>1. CASE ReserveEscalation(s)
    BY <2>1 DEF ReserveEscalation
  <2>2. CASE Escalate(s)
    BY <2>2 DEF Escalate
  <2>3. QED
    BY <2>1, <2>2
<1>2. /\ n \in Nodes \ {"predict"} /\ conf' = conf
      /\ \A t \in Symbols \ {s} : left'[t] = left[t]
      /\ predicted' = predicted /\ diagnosed' = diagnosed
      /\ ~ llmSpent
  BY <1>1, PaysUnspent DEF Nodes, InPool, Cycle, History, PastCap
<1>3. Owes(s)' <= Owes(s)
  BY <1>1, <1>2, OwesMoved, Settings
<1>4. /\ Cardinality(Owed') <= Cardinality(Owed)
      /\ Cardinality(At({"escalate"})') = Cardinality(At({"escalate"})) + (IF n = "escalate" THEN 1 ELSE 0 - 1)
      /\ Cardinality(At({"predict", "answer", "escalate"})')
            <= Cardinality(At({"predict", "answer", "escalate"})) - (IF n = "escalate" THEN 0 ELSE 1)
      /\ At({"predict"})' = At({"predict"})
  BY <1>1, <1>2, <1>3, Moves, CapNumbers
<1>5. /\ calls'.llm = calls.llm + (IF n = "escalate" THEN 0 ELSE 1)
      /\ calls'.council = calls.council
      /\ escalations' = escalations + (IF n = "escalate" THEN 1 ELSE 0)
      /\ calls.llm \in Nat /\ calls.council \in Nat
  BY <1>1 DEF Pay, TypeOK
<1>6. /\ InFlight' <= InFlight + (IF n = "escalate" THEN 0 ELSE 1)
      /\ InFlight \in Nat /\ InFlight' \in Nat
  BY <1>4, <1>5, CapNumbers, After DEF InFlight, paid_llm_calls
<1>7. /\ Cardinality(predicted') - calls'.llm <= Cardinality(predicted) - calls.llm
      /\ Cardinality(Analysed') <= Cardinality(Analysed)
  <2>1. predicted' = predicted /\ Analysed' = Analysed
    BY <1>2, <1>4 DEF Analysed
  <2>2. QED
    BY <2>1, <1>5, CapNumbers
<1>8. calls'.council + Cardinality(Owed') <= calls.council + Cardinality(Owed)
  BY <1>4, <1>5, CapNumbers, After
<1>9. Cardinality(At({"escalate"})') - escalations' <= Cardinality(At({"escalate"})) - escalations
  BY <1>4, <1>5, CapNumbers
<1>10. InFlight' + Cardinality(At({"predict", "answer", "escalate"})') - Cardinality(diagnosed')
         <= InFlight + Cardinality(At({"predict", "answer", "escalate"})) - Cardinality(diagnosed)
  BY <1>2, <1>4, <1>6, CapNumbers, After
<1>11. InFlight' + Cardinality(At({"escalate"})') - escalations' - Cardinality(diagnosed')
         <= InFlight + Cardinality(At({"escalate"})) - escalations - Cardinality(diagnosed)
  BY <1>2, <1>4, <1>5, <1>6, CapNumbers, After
<1>12. QED
  BY <1>1, <1>2, <1>7, <1>8, <1>9, <1>10, <1>11, CapKept

LEMMA CouncilCap ==
    ASSUME TypeOK, TypeOK', PhasesInv, CapInv, NEW s \in Symbols, CouncilRequest(s)
    PROVE  CapInv'
<1>1. /\ node[s] = "council" /\ left[s] > 0 /\ left[s] \in 1 .. CouncilCalls
      /\ calls' = [calls EXCEPT !.council = @ + 1] /\ left' = [left EXCEPT ![s] = @ - 1]
      /\ UNCHANGED <<Cycle, phase, node, gate, escalations, admitted, diagnosed, predicted>>
      /\ ~ llmSpent
  <2>1. /\ node[s] = "council" /\ left[s] > 0
        /\ calls' = [calls EXCEPT !.council = @ + 1] /\ left' = [left EXCEPT ![s] = @ - 1]
        /\ UNCHANGED <<Cycle, phase, node, gate, escalations, admitted, diagnosed, predicted>>
    BY DEF CouncilRequest, Pay, History
  <2>2. left[s] \in 0 .. CouncilCalls /\ CouncilCalls \in Nat
    BY Settings DEF TypeOK
  <2>3. ~ llmSpent
    BY <2>1, PaysUnspent DEF PastCap
  <2>4. QED
    BY <2>1, <2>2, <2>3
<1>2. /\ calls'.llm = calls.llm /\ calls'.council = calls.council + 1
      /\ calls.llm \in Nat /\ calls.council \in Nat
  BY <1>1 DEF TypeOK
<1>3. \A N : At(N)' = At(N)
  BY <1>1 DEF At
<1>4. Cardinality(Owed') = Cardinality(Owed) - 1
  <2>1. /\ \A t \in Symbols \ {s} : Owes(t)' = Owes(t)
        /\ Owes(s) = left[s] /\ Owes(s)' = left[s] - 1
    BY <1>1 DEF Owes, TypeOK, CouncilCalls, Cycle
  <2>2. Owed' = Owed \ {<<s, left[s]>>}
    <3>1. ASSUME NEW t \in Symbols, NEW k \in 1 .. CouncilCalls
          PROVE  <<t, k>> \in Owed' <=> <<t, k>> \in Owed /\ <<t, k>> # <<s, left[s]>>
      BY <1>1, <2>1, Settings DEF Owed, CouncilCalls, Cycle
    <3>2. Owed \in SUBSET (Symbols \X (1 .. CouncilCalls)) /\ Owed' \in SUBSET (Symbols \X (1 .. CouncilCalls))
      BY <1>1 DEF Owed, CouncilCalls, Cycle
    <3>3. QED
      BY <3>1, <3>2
  <2>3. <<s, left[s]>> \in Owed
    BY <1>1, <2>1 DEF Owed
  <2>4. QED
    BY <2>2, <2>3, OwedFinite, FS_RemoveElement
<1>5. InFlight' = InFlight /\ InFlight \in Nat
  BY <1>2, <1>3, <1>4, CapNumbers DEF InFlight, paid_llm_calls
<1>6. /\ Cardinality(predicted') - calls'.llm <= Cardinality(predicted) - calls.llm
      /\ Cardinality(Analysed') <= Cardinality(Analysed)
  <2>1. predicted' = predicted /\ Analysed' = Analysed
    BY <1>1, <1>3 DEF Analysed
  <2>2. QED
    BY <1>2, <2>1, CapNumbers
<1>7. calls'.council + Cardinality(Owed') <= calls.council + Cardinality(Owed)
  BY <1>2, <1>4, CapNumbers
<1>8. Cardinality(At({"escalate"})') - escalations' <= Cardinality(At({"escalate"})) - escalations
  BY <1>1, <1>3, CapNumbers
<1>9. /\ InFlight' + Cardinality(At({"predict", "answer", "escalate"})') - Cardinality(diagnosed')
            <= InFlight + Cardinality(At({"predict", "answer", "escalate"})) - Cardinality(diagnosed)
      /\ InFlight' + Cardinality(At({"escalate"})') - escalations' - Cardinality(diagnosed')
            <= InFlight + Cardinality(At({"escalate"})) - escalations - Cardinality(diagnosed)
  BY <1>1, <1>3, <1>5, CapNumbers
<1>10. QED
  BY <1>1, <1>6, <1>7, <1>8, <1>9, CapKept

(* Where the cap is checked: whatever the symbols in flight still owe, they *)
(* are at most as many as there are workers.                               *)
LEMMA AdmitCap ==
    ASSUME TypeOK, TypeOK', PhasesInv, CapInv, NEW s \in Symbols, Admit(s)
    PROVE  CapInv'
<1> DEFINE P == At({"predict"})
           E == At({"escalate"})
           A == At({"predict", "answer", "escalate"})
           W == Workers * CouncilCalls
           W1 == Workers * (1 + CouncilCalls)
<1>1. /\ Goto(s, "predict") /\ node[s] = "cap" /\ ~ llmSpent
      /\ calls.llm + calls.council < Cap
      /\ admitted' = admitted \cup {s}
      /\ UNCHANGED <<Cycle, phase, left, calls, escalations, diagnosed, predicted>>
  BY DEF Admit, budget_exhausted, paid_llm_calls
<1>2. /\ UNCHANGED <<llmSpent, Workers, Cap, MaxEscalations>>
      /\ W \in Nat /\ W1 \in Nat /\ W' = W /\ W1' = W1 /\ W1 = Workers + W
      /\ Workers \in Nat /\ Cap \in Nat /\ MaxEscalations \in Nat
  BY <1>1, Settings DEF Cycle, Workers, Cap, CouncilCalls, MaxEscalations
<1>3. calls.llm \in Nat /\ calls.council \in Nat /\ escalations \in 0 .. MaxEscalations
  BY DEF TypeOK
<1>5. E' = E
  BY <1>1 DEF At, Goto, TypeOK
<1>6. /\ Cardinality(Owed') <= W' /\ Cardinality(P') <= Workers' /\ Cardinality(A') <= Workers'
      /\ Cardinality(Analysed') <= Cardinality(predicted') + Workers'
      /\ Cardinality(Owed') \in Nat /\ Cardinality(P') \in Nat /\ Cardinality(A') \in Nat
      /\ Cardinality(Analysed') \in Nat /\ Cardinality(diagnosed') \in Nat
  BY After
<1>7. /\ Cardinality(predicted) \in Nat /\ Cardinality(predicted) <= calls.llm
      /\ Cardinality(E) \in Nat /\ Cardinality(E) <= escalations
  BY CapNumbers DEF CapInv
<1>8. /\ Cardinality(predicted') <= calls'.llm
      /\ Cardinality(Analysed') <= Cap' - 1 + Workers'
  <2>1. predicted' = predicted /\ calls' = calls
    BY <1>1
  <2>2. QED
    BY <1>2, <1>3, <1>6, <1>7, <2>1, <1>1
<1>9. Cardinality(E') <= escalations'
  BY <1>1, <1>5, <1>7
<1>10. InFlight' = calls'.llm + calls'.council + Cardinality(P') + Cardinality(Owed')
  BY DEF InFlight, paid_llm_calls
<1> HIDE DEF W, W1, P, A
<1>11. calls'.council + Cardinality(Owed') <= Cap' - 1 + W'
  BY <1>1, <1>2, <1>3, <1>6
<1>12. InFlight' + Cardinality(A') <= Cap' - 1 + W1' + Workers' + Cardinality(diagnosed')
  BY <1>1, <1>2, <1>3, <1>6, <1>10
<1>13. InFlight' + Cardinality(E') + MaxEscalations' - escalations'
          <= Cap' - 1 + W1' + MaxEscalations' + Cardinality(diagnosed')
  BY <1>1, <1>2, <1>3, <1>5, <1>6, <1>7, <1>10
<1>14. QED
  BY <1>1, <1>8, <1>9, <1>11, <1>12, <1>13 DEF CapInv, W, W1, P, A, Cycle

LEMMA StepCap ==
    ASSUME TypeOK, TypeOK', PhasesInv, CapInv, NEW s \in Symbols, SymbolStep(s)
    PROVE  CapInv'
BY QuietSteps, DiagnoseCap, PredictCap, EscalationCap, CouncilCap, AdmitCap DEF SymbolStep

-----------------------------------------------------------------------------
LEMMA InitIInv ==
    Init => IInv
<1>1. SUFFICES ASSUME Init PROVE IInv
  OBVIOUS
<1>2. conf \in [workers : Nat \ {0}, twoPhase : BOOLEAN,
                moves : SUBSET Nat, threshold : Nat, cap : Nat \ {0},
                councilCalls : Nat, maxEscalations : Nat, maxShadow : Nat]
  BY <1>1, SizesAssumption DEF Init
<1>3. /\ Workers \in Nat \ {0} /\ Cap \in Nat \ {0}
      /\ CouncilCalls \in Nat /\ MaxEscalations \in Nat /\ MaxShadow \in Nat
  BY <1>2 DEF Workers, Cap, CouncilCalls, MaxEscalations, MaxShadow
<1>4. /\ Running = {} /\ Owed = {} /\ admitted = {} /\ diagnosed = {} /\ predicted = {}
      /\ \A N \in SUBSET (Nodes \ {"queued"}) : At(N) = {}
      /\ {s \in Symbols : node[s] \in {"ignored", "cut"}} = {}
  <2>1. \A s \in Symbols : Owes(s) = 0
    BY <1>1 DEF Init, Owes
  <2>2. Owed = {}
    BY <2>1, <1>3 DEF Owed
  <2>3. QED
    BY <1>1, <2>2 DEF Init, Running, InPool, At
<1>5. TypeOK
  <2>1. /\ Cardinality({}) = 0 /\ Cardinality(Running) <= Workers
    BY <1>3, <1>4, FS_EmptySet
  <2>2. /\ gate \in [passed : Nat, gated : Nat] /\ gate.passed = Cardinality(admitted)
        /\ gate.gated = Cardinality({s \in Symbols : node[s] \in {"ignored", "cut"}})
    BY <1>1, <1>4, <2>1 DEF Init
  <2>3. /\ conf \in Configs /\ move \in [Symbols -> conf.moves] /\ llmSpent \in BOOLEAN
        /\ phase \in {1, 2} /\ node \in [Symbols -> Nodes]
        /\ admitted \subseteq Symbols /\ diagnosed \subseteq Symbols /\ predicted \subseteq Symbols
    BY <1>1 DEF Init, Nodes
  <2>4. /\ left \in [Symbols -> 0 .. CouncilCalls]
        /\ calls \in [llm : Nat, council : Nat, shadow : 0 .. MaxShadow]
        /\ escalations \in 0 .. MaxEscalations
    BY <1>1, <1>3 DEF Init
  <2>5. QED
    BY <2>1, <2>2, <2>3, <2>4 DEF TypeOK
<1>6. PhasesInv
  BY <1>1 DEF Init, PhasesInv, PastCap
<1>7. CapInv
  <2>1. /\ At({"predict"}) = {} /\ At({"escalate"}) = {} /\ At({"predict", "answer", "escalate"}) = {}
    BY <1>4 DEF Nodes, InPool
  <2>2. \A a, b \in Nat : a * b \in Nat /\ a * (1 + b) \in Nat
    OBVIOUS
  <2>3. Workers * CouncilCalls \in Nat /\ Workers * (1 + CouncilCalls) \in Nat
    BY <1>3, <2>2
  <2>4. /\ Cardinality({}) = 0 /\ Analysed = {}
        /\ calls.llm = 0 /\ calls.council = 0 /\ calls.shadow = 0 /\ escalations = 0
    BY <1>1, <1>4, <2>1, FS_EmptySet DEF Init, Analysed
  <2>5. InFlight = 0
    BY <1>4, <2>1, <2>4 DEF InFlight, paid_llm_calls
  <2>6. QED
    <3>1. /\ Cardinality(predicted) = 0 /\ Cardinality(Analysed) = 0 /\ Cardinality(Owed) = 0
          /\ Cardinality(At({"escalate"})) = 0 /\ Cardinality(At({"predict", "answer", "escalate"})) = 0
          /\ Cardinality(diagnosed) = 0 /\ paid_llm_calls + calls.shadow = 0
      BY <1>4, <2>1, <2>4 DEF paid_llm_calls
    <3> DEFINE W == Workers * CouncilCalls
               W1 == Workers * (1 + CouncilCalls)
    <3>2. W \in Nat /\ W1 \in Nat
      BY <2>3
    <3> HIDE DEF W, W1
    <3>3. /\ calls.council + Cardinality(Owed) <= Cap - 1 + W
          /\ InFlight + Cardinality(At({"predict", "answer", "escalate"}))
                <= Cap - 1 + W1 + Workers + Cardinality(diagnosed)
          /\ InFlight + Cardinality(At({"escalate"})) + MaxEscalations - escalations
                <= Cap - 1 + W1 + MaxEscalations + Cardinality(diagnosed)
      BY <1>3, <2>4, <2>5, <3>1, <3>2
    <3>4. QED
      BY <1>3, <1>4, <2>4, <3>1, <3>3 DEF CapInv, W, W1
<1>8. RankInv
  BY <1>1 DEF Init, RankInv
<1>9. QED
  BY <1>5, <1>6, <1>7, <1>8 DEF IInv

LEMMA PaidPhaseIInv ==
    ASSUME IInv, PaidPhase
    PROVE  IInv'
<1>1. /\ TwoPhase /\ phase' = 2
      /\ UNCHANGED <<conf, move, llmSpent, node, left, calls, gate, escalations, admitted, diagnosed, predicted>>
      /\ \A s \in Symbols : node[s] \in {"passed"} \cup Ended
  BY DEF PaidPhase, PhaseOneDone, Cycle, Counters, History
<1>2. UNCHANGED <<Workers, TwoPhase, Cap, CouncilCalls, MaxEscalations, MaxShadow>>
  BY <1>1 DEF Workers, TwoPhase, Cap, CouncilCalls, MaxEscalations, MaxShadow
<1>3. TypeOK'
  BY <1>1, <1>2 DEF IInv, TypeOK, Running
<1>4. PhasesInv'
  BY <1>1, <1>2 DEF IInv, PhasesInv, BeforeGate, Ended
<1>5. CapInv'
  BY <1>1, <1>2 DEF IInv, CapInv, Analysed, At, Owed, Owes, InFlight, paid_llm_calls
<1>6. RankInv'
  BY <1>1, <1>2 DEF IInv, RankInv, budget_exhausted, paid_llm_calls
<1>7. QED
  BY <1>3, <1>4, <1>5, <1>6 DEF IInv

LEMMA NextIInv ==
    IInv /\ [Next]_vars => IInv'
<1>1. ASSUME IInv, UNCHANGED vars PROVE IInv'
  <2>1. UNCHANGED <<conf, move, llmSpent, phase, node, left, calls, gate, escalations, admitted, diagnosed, predicted>>
    BY <1>1 DEF vars
  <2>2. UNCHANGED <<Workers, TwoPhase, Cap, CouncilCalls, MaxEscalations, MaxShadow>>
    BY <2>1 DEF Workers, TwoPhase, Cap, CouncilCalls, MaxEscalations, MaxShadow
  <2>3. TypeOK' /\ PhasesInv' /\ RankInv'
    BY <1>1, <2>1, <2>2 DEF IInv, TypeOK, Running, PhasesInv, RankInv, budget_exhausted, paid_llm_calls
  <2>4. CapInv'
    BY <1>1, <2>1, <2>2 DEF IInv, CapInv, Analysed, At, Owed, Owes, InFlight, paid_llm_calls
  <2>5. QED
    BY <2>3, <2>4 DEF IInv
<1>2. ASSUME IInv, NEW s \in Symbols, SymbolStep(s) PROVE IInv'
  <2>1. TypeOK'
    BY <1>2, StepTypes DEF IInv
  <2>2. PhasesInv' /\ RankInv'
    BY <1>2, StepPhases, StepRank DEF IInv
  <2>3. CapInv'
    BY <1>2, <2>1, StepCap DEF IInv
  <2>4. QED
    BY <2>1, <2>2, <2>3 DEF IInv
<1>3. QED
  BY <1>1, <1>2, PaidPhaseIInv DEF Next

(* The invariant holds in every cycle, for any number of symbols and any   *)
(* settings the configuration admits.                                      *)
THEOREM BudgetInvariant ==
    Spec => []IInv
<1>1. QED
  BY InitIInv, NextIInv, PTL DEF Spec

(* A worker holds one symbol, escalations and shadow calls stay in their   *)
(* budgets, and the gate is counted once per symbol.                       *)
THEOREM TypeCorrect ==
    Spec => []TypeOK
<1>1. IInv => TypeOK
  BY DEF IInv
<1>2. QED
  BY <1>1, BudgetInvariant, PTL

(* Whatever the interleaving of checks and calls, the cap is crossed only  *)
(* by what the symbols in flight pay: capped_cycle_call_upper_bound.       *)
THEOREM OvershootBounded ==
    Spec => []OvershootBound
<1>1. ASSUME IInv PROVE OvershootBound
  <2> DEFINE W == Workers * CouncilCalls
             W1 == Workers * (1 + CouncilCalls)
  <2>1. TypeOK /\ CapInv
    BY <1>1 DEF IInv
  <2>2. /\ W \in Nat /\ W1 \in Nat /\ Workers \in Nat /\ Cap \in Nat /\ MaxEscalations \in Nat
    BY <2>1, Settings
  <2> HIDE DEF W, W1
  <2>3. /\ Cardinality(Owed) \in Nat /\ calls.llm \in Nat /\ calls.council \in Nat
        /\ Cardinality(diagnosed) \in Nat /\ Cardinality(At({"predict"})) \in Nat
        /\ Cardinality(At({"escalate"})) \in Nat
        /\ Cardinality(At({"predict", "answer", "escalate"})) \in Nat
        /\ escalations \in Nat /\ escalations <= MaxEscalations
    BY <2>1, CapNumbers
  <2>4. calls.council <= Cap - 1 + W
    BY <2>1, <2>2, <2>3 DEF CapInv, W
  <2>5. paid_llm_calls <= InFlight /\ paid_llm_calls \in Nat /\ InFlight \in Nat
    BY <2>3 DEF InFlight, paid_llm_calls
  <2>6. /\ InFlight <= Cap - 1 + W1 + Workers + Cardinality(diagnosed)
        /\ InFlight <= Cap - 1 + W1 + MaxEscalations + Cardinality(diagnosed)
    BY <2>1, <2>2, <2>3, <2>5 DEF CapInv, W1
  <2>7. paid_llm_calls <= Cap - 1 + W1 + LateEscalations + Cardinality(diagnosed)
    BY <2>2, <2>3, <2>5, <2>6 DEF LateEscalations
  <2>8. QED
    BY <2>1, <2>4, <2>7 DEF OvershootBound, CapInv, W, W1
<1>2. QED
  BY <1>1, BudgetInvariant, PTL

(* In a two-phase cycle on one worker the cap cuts the smallest moves.     *)
THEOREM SmallestAreCut ==
    Spec => []CutsTheSmallest
<1>1. IInv => CutsTheSmallest
  BY DEF IInv, TypeOK, RankInv, CutsTheSmallest
<1>2. QED
  BY <1>1, BudgetInvariant, PTL

(* Once the cap has cut a symbol it lets no other through.                 *)
THEOREM CutStaysFinal ==
    Spec => CutIsFinal
<1>1. ASSUME IInv, [Next]_vars, \E c \in Symbols : node[c] = "cut" PROVE admitted' = admitted
  <2>1. budget_exhausted
    BY <1>1 DEF IInv, RankInv
  <2>2. ASSUME NEW s \in Symbols, SymbolStep(s) PROVE admitted' = admitted
    BY <2>1, <2>2 DEF SymbolStep, Start, Diagnose, Reflect, Ignore, PassGate, CutByBudget, Admit, Predict,
       Confident, ReserveEscalation, Escalate, Fallback, Shadow, NoShadow, CouncilRequest, CouncilEnds, Save,
       SymbolFails, History
  <2>3. QED
    BY <1>1, <2>2 DEF Next, PaidPhase, History, vars
<1>2. IInv /\ [Next]_vars => [(\E c \in Symbols : node[c] = "cut") => admitted' = admitted]_vars
  BY <1>1
<1>3. QED
  BY <1>2, BudgetInvariant, PTL DEF Spec, CutIsFinal

(* A shadow call is paid out of what the cap leaves at its moment.         *)
THEOREM ShadowStaysInside ==
    Spec => ShadowFits
<1>1. ASSUME IInv, [Next]_vars, calls'.shadow # calls.shadow
      PROVE  calls'.llm + calls'.council + calls'.shadow <= Cap
  <2>1. TypeOK /\ Cap \in Nat
    BY <1>1, Settings DEF IInv
  <2>2. PICK s \in Symbols : Shadow(s)
    BY <1>1, <2>1 DEF Next, PaidPhase, vars, SymbolStep, Start, Diagnose, Reflect, Ignore, PassGate,
       CutByBudget, Admit, Predict, Confident, ReserveEscalation, Escalate, Fallback, Shadow, NoShadow,
       CouncilRequest, CouncilEnds, Save, SymbolFails, Counters, Pay, TypeOK
  <2>3. QED
    BY <2>1, <2>2 DEF Shadow, shadow_call_allowed, paid_llm_calls, Pay, TypeOK
<1>2. IInv /\ [Next]_vars =>
        [calls'.shadow # calls.shadow => calls'.llm + calls'.council + calls'.shadow <= Cap]_vars
  BY <1>1
<1>3. QED
  BY <1>2, BudgetInvariant, PTL DEF Spec, ShadowFits
=============================================================================
