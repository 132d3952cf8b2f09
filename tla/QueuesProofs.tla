---------------------------- MODULE QueuesProofs ----------------------------
(***************************************************************************)
(* Proofs about MCQueues.  First the threads before one host, for any      *)
(* number of threads, calls, slots and retries: the inductive invariant    *)
(* of the limiter, that no window holds more than Rate grants, and how     *)
(* many requests still leave after the host's circuit opened.  Then the    *)
(* runs of the three workflows in their queues, for any number of runs of  *)
(* each and any migration the flag needs; their inductive invariant is     *)
(* Flow!IInv.                                                              *)
(***************************************************************************)
EXTENDS MCQueues, SequenceTheorems, FiniteSetTheorems, TLAPS

(* What popleft leaves of the deque is the end of it. *)
LEMMA Kept ==
    ASSUME NEW s \in Seq(Nat), NEW k \in 0 .. Len(s)
    PROVE  /\ SubSeq(s, k + 1, Len(s)) \in Seq(Nat)
           /\ Len(SubSeq(s, k + 1, Len(s))) = Len(s) - k
           /\ \A i \in 1 .. Len(s) - k : SubSeq(s, k + 1, Len(s))[i] = s[k + i]
<1>1. Len(s) \in Nat
  OBVIOUS
<1>2. SubSeq(s, k + 1, Len(s)) = [i \in 1 .. Len(s) - k |-> s[k + i]]
  BY <1>1
<1>3. \A i \in 1 .. Len(s) - k : s[k + i] \in Nat
  BY <1>1
<1>4. QED
  BY <1>1, <1>2, <1>3

(* Reading the clock keeps the deque the end of the history, and what it   *)
(* drops is a window old by the clock that was read.                       *)
LEMMA ReadClockKeeps ==
    ASSUME IInv, NEW t \in Threads, ReadClock(t), UNCHANGED <<clock, grants>>
    PROVE  /\ now' \in [Threads -> Nat] /\ now'[t] = clock
           /\ granted' \in Seq(Nat) /\ Len(granted') <= Rate
           /\ Len(granted') <= Len(grants')
           /\ \A i \in 1 .. Len(granted') : granted'[i] = grants'[Forgotten' + i]
           /\ \A i \in 1 .. Forgotten' : grants'[i] + Window <= clock
<1>1. PICK k \in 0 .. Len(granted) :
          /\ \A i \in 1 .. k : granted[i] <= clock - Window
          /\ granted' = SubSeq(granted, k + 1, Len(granted))
  BY DEF ReadClock, forget_up_to
<1>2. /\ granted' \in Seq(Nat)
      /\ Len(granted') = Len(granted) - k
      /\ \A i \in 1 .. Len(granted) - k : granted'[i] = granted[k + i]
  BY <1>1, Kept DEF IInv, TypeOK
<1>3. /\ clock \in Nat /\ Rate \in Nat /\ Window \in Nat
      /\ granted \in Seq(Nat) /\ grants \in Seq(Nat)
      /\ Len(granted) \in Nat /\ Len(grants) \in Nat
      /\ Len(granted) <= Rate /\ Len(granted) <= Len(grants)
      /\ grants' = grants
  BY SizesAssumption DEF IInv, TypeOK, WindowInv
<1>4. Forgotten' = Forgotten + k /\ Forgotten \in Nat
  BY <1>2, <1>3 DEF Forgotten
<1>5. ASSUME NEW i \in 1 .. Len(granted')
      PROVE  granted'[i] = grants[Forgotten' + i]
  <2>1. k \in Nat /\ i \in Nat /\ i \in 1 .. Len(granted) - k /\ k + i \in 1 .. Len(granted)
    <3>1. Len(granted) \in Nat /\ Len(granted') = Len(granted) - k
      BY <1>2, <1>3
    <3>2. QED
      BY <3>1
  <2>2. granted'[i] = granted[k + i]
    BY <1>2, <2>1
  <2>3. granted[k + i] = grants[Forgotten + (k + i)]
    BY <2>1 DEF IInv, WindowInv
  <2>4. Forgotten + (k + i) = Forgotten' + i
    BY <1>4, <2>1
  <2>5. QED
    BY <2>2, <2>3, <2>4
<1>6. ASSUME NEW i \in 1 .. Forgotten'
      PROVE  grants[i] + Window <= clock
  <2>1. Len(granted) \in Nat /\ Len(grants) \in Nat /\ Len(granted) <= Len(grants)
    BY <1>3
  <2>2. k \in 0 .. Len(granted) /\ Forgotten = Len(grants) - Len(granted)
    BY DEF Forgotten
  <2>3. i \in 1 .. Len(grants)
    BY <2>1, <2>2, <1>4
  <2>4. grants[i] \in Nat
    BY <2>3, <1>3
  <2>5. CASE i <= Forgotten
    BY <2>5, <1>4 DEF IInv, WindowInv
  <2>6. CASE i > Forgotten
    <3>1. /\ i - Forgotten \in 1 .. k /\ i - Forgotten \in 1 .. Len(granted)
          /\ Forgotten + (i - Forgotten) = i
      BY <2>6, <2>1, <2>2, <1>4
    <3>2. granted[i - Forgotten] = grants[i]
      BY <3>1 DEF IInv, WindowInv
    <3>3. granted[i - Forgotten] <= clock - Window
      BY <3>1, <1>1
    <3>4. clock \in Nat /\ Window \in Nat
      BY <1>3
    <3>5. QED
      BY <3>2, <3>3, <3>4, <2>4
  <2>7. QED
    BY <2>5, <2>6, <1>4
<1>7. now' \in [Threads -> Nat] /\ now'[t] = clock
  BY <1>3 DEF IInv, TypeOK, ReadClock
<1>8. QED
  BY <1>2, <1>3, <1>5, <1>6, <1>7

LEMMA InitIInv == Init => IInv
BY SizesAssumption DEF Init, HostCircuit, IInv, TypeOK, LockInv, CallInv, WindowInv, GrantsInWindow, Forgotten,
   Places, InLimiter

(* A slot goes to the Rate-th grant's successor: that grant is forgotten. *)
LEMMA GrantKeeps ==
    ASSUME IInv, NEW t \in Threads, Grant(t)
    PROVE  IInv'
<1>1. /\ clock \in Nat /\ now[t] \in Nat /\ now[t] <= clock
      /\ granted \in Seq(Nat) /\ grants \in Seq(Nat)
      /\ Len(granted) \in Nat /\ Len(grants) \in Nat
      /\ Len(granted) <= Len(grants) /\ Len(granted) < Rate
      /\ clock' = clock
      /\ \A i \in 1 .. Forgotten : grants[i] + Window <= now[t]
  <2>1. clock \in Nat /\ now[t] \in Nat /\ granted \in Seq(Nat) /\ grants \in Seq(Nat)
    BY DEF IInv, TypeOK
  <2>2. Len(granted) \in Nat /\ Len(grants) \in Nat
    BY <2>1
  <2>3. Rate \in Nat
    BY SizesAssumption
  <2>4. at[t] = "window" /\ ~ (Len(granted) >= Rate) /\ clock' = clock
    BY DEF Grant, Full
  <2>5. Len(granted) < Rate
    BY <2>2, <2>3, <2>4
  <2>6. /\ now[t] <= clock
        /\ \A i \in 1 .. Forgotten : grants[i] + Window <= now[t]
    BY <2>4, Zenon DEF IInv, WindowInv, InLimiter
  <2>7. Len(granted) <= Len(grants)
    BY Zenon DEF IInv, WindowInv
  <2>8. QED
    BY <2>1, <2>2, <2>4, <2>5, <2>6, <2>7, Zenon
<1> USE SizesAssumption
<1>2. /\ granted' \in Seq(Nat) /\ Len(granted') = Len(granted) + 1
      /\ granted'[Len(granted) + 1] = now[t]
      /\ \A i \in 1 .. Len(granted) : granted'[i] = granted[i]
  BY <1>1 DEF Grant
<1>3. /\ grants' \in Seq(Nat) /\ Len(grants') = Len(grants) + 1
      /\ grants'[Len(grants) + 1] = now[t]
      /\ \A i \in 1 .. Len(grants) : grants'[i] = grants[i]
  BY <1>1 DEF Grant
<1>4. Forgotten' = Forgotten /\ Forgotten \in Nat /\ Forgotten + Len(granted) = Len(grants)
  BY <1>1, <1>2, <1>3 DEF Forgotten
<1>5. TypeOK'
  BY <1>1, <1>2, <1>3 DEF IInv, TypeOK, Grant, Goto, Places, request
<1>6. LockInv'
  BY DEF IInv, TypeOK, LockInv, Grant, Goto, InLimiter
<1>7. WindowInv'
  <2>1. ASSUME NEW i \in 1 .. Len(granted')
        PROVE  granted'[i] = grants'[Forgotten' + i]
    <3>1. CASE i = Len(granted) + 1
      BY <3>1, <1>2, <1>3, <1>4, <1>1
    <3>2. CASE i \in 1 .. Len(granted)
      <4>1. granted[i] = grants[Forgotten + i]
        BY <3>2 DEF IInv, WindowInv
      <4>2. Forgotten + i \in 1 .. Len(grants)
        BY <3>2, <1>1, <1>4
      <4>3. QED
        BY <4>1, <4>2, <3>2, <1>2, <1>3, <1>4
    <3>3. QED
      BY <3>1, <3>2, <1>1, <1>2
  <2>2. ASSUME NEW i \in 1 .. Forgotten'
        PROVE  grants'[i] + Window <= clock'
    <3>1. i \in 1 .. Len(grants) /\ i \in 1 .. Forgotten
      BY <1>1, <1>4
    <3>2. QED
      BY <3>1, <1>1, <1>3 DEF IInv, WindowInv
  <2>3. \A u \in Threads : at'[u] \notin InLimiter
    BY DEF IInv, TypeOK, LockInv, Grant, Goto, InLimiter
  <2>4. Len(granted') <= Len(grants')
    BY <1>1, <1>2, <1>3
  <2>5. QED
    BY <2>1, <2>2, <2>3, <2>4 DEF WindowInv
<1>8. Rate \in Nat /\ Window \in Nat
  OBVIOUS
<1>9. GrantsInWindow'
  <2>1. SUFFICES ASSUME NEW i \in 1 .. Len(grants') - Rate
                 PROVE  grants'[i + Rate] - grants'[i] >= Window
    BY DEF GrantsInWindow
  <2>2. CASE i + Rate <= Len(grants)
    <3>1. i \in 1 .. Len(grants) - Rate
      BY <2>2, <1>1, <1>8
    <3>2. grants[i + Rate] - grants[i] >= Window
      BY <3>1 DEF IInv, GrantsInWindow
    <3>3. grants'[i + Rate] = grants[i + Rate] /\ grants'[i] = grants[i]
      BY <3>1, <2>2, <1>1, <1>3, <1>8
    <3>4. QED
      BY <3>2, <3>3
  <2>3. CASE i + Rate = Len(grants) + 1
    <3>1. i \in 1 .. Forgotten /\ i \in 1 .. Len(grants)
      BY <2>3, <1>1, <1>4, <1>8, SMTT(30)
    <3>2. grants[i] + Window <= now[t] /\ grants[i] \in Nat
      BY <3>1, <1>1, SMTT(30)
    <3>3. grants'[i + Rate] = now[t] /\ grants'[i] = grants[i]
      BY <3>1, <2>3, <1>1, <1>3, <1>8
    <3>4. QED
      BY <3>2, <3>3, <1>1, <1>8, SMTT(30)
  <2>4. i + Rate <= Len(grants) \/ i + Rate = Len(grants) + 1
    BY <1>1, <1>3, <1>8, SMTT(30)
  <2>5. QED
    BY <2>2, <2>3, <2>4
<1>10. CallInv'
  BY DEF IInv, TypeOK, CallInv, Grant, Goto, request
<1>11. QED
  BY <1>5, <1>6, <1>7, <1>9, <1>10 DEF IInv

(* Taking the lock and waking up read the clock. *)
LEMMA ReadersKeep ==
    ASSUME IInv, NEW t \in Threads, Acquire(t) \/ Wake(t)
    PROVE  IInv'
<1>1. ReadClock(t) /\ UNCHANGED <<clock, grants>>
  BY DEF Acquire, Wake, history
<1>2. /\ now' \in [Threads -> Nat] /\ now'[t] = clock
      /\ granted' \in Seq(Nat) /\ Len(granted') <= Rate
      /\ Len(granted') <= Len(grants')
      /\ \A i \in 1 .. Len(granted') : granted'[i] = grants'[Forgotten' + i]
      /\ \A i \in 1 .. Forgotten' : grants'[i] + Window <= clock
  BY <1>1, ReadClockKeeps
<1>3. TypeOK'
  BY <1>1, <1>2 DEF IInv, TypeOK, Acquire, Wake, Goto, Places, InLimiter, request, history
<1>4. LockInv' /\ \A u \in Threads \ {t} : at'[u] \notin InLimiter
  BY SizesAssumption DEF IInv, TypeOK, LockInv, Acquire, Wake, Goto, InLimiter
<1>5. WindowInv'
  <2>1. clock' = clock /\ clock \in Nat
    BY <1>1 DEF IInv, TypeOK
  <2>2. QED
    BY <1>2, <1>4, <2>1 DEF WindowInv
<1>6. GrantsInWindow'
  BY <1>1 DEF IInv, GrantsInWindow
<1>7. CallInv'
  BY DEF IInv, TypeOK, CallInv, Acquire, Wake, Goto, request
<1>8. QED
  BY <1>3, <1>4, <1>5, <1>6, <1>7 DEF IInv

(* A full window has a first grant, and the sleep ends after it left. *)
LEMMA SleepKeeps ==
    ASSUME IInv, NEW t \in Threads, Sleep(t)
    PROVE  IInv'
<1>1. /\ granted \in Seq(Nat) /\ Len(granted) >= Rate /\ Rate \in Nat \ {0}
      /\ clock \in Nat /\ now[t] \in Nat /\ now[t] <= clock /\ Window \in Nat
  BY SizesAssumption DEF IInv, TypeOK, WindowInv, InLimiter, Sleep, Full
<1>2. wake' \in [Threads -> Nat]
  <2>1. granted[1] \in Nat
    BY <1>1
  <2>2. clock + granted[1] + Window - now[t] \in Nat
    BY <1>1, <2>1, SMTT(30)
  <2>3. QED
    BY <2>2 DEF IInv, TypeOK, Sleep
<1>3. TypeOK'
  BY <1>2 DEF IInv, TypeOK, Sleep, Goto, Places, InLimiter, request, history
<1>4. LockInv'
  BY DEF IInv, TypeOK, LockInv, Sleep, Goto, InLimiter
<1>5. WindowInv' /\ GrantsInWindow'
  BY DEF IInv, TypeOK, WindowInv, GrantsInWindow, Forgotten, InLimiter, Goto, Sleep, history
<1>6. CallInv'
  BY DEF IInv, TypeOK, CallInv, Sleep, Goto, request
<1>7. QED
  BY <1>3, <1>4, <1>5, <1>6 DEF IInv

LEMMA SkippedOnce ==
    ASSUME NEW c \in HostCircuit
    PROVE  [c EXCEPT !.skipped_calls = @ + 1] \in HostCircuit
BY DEF HostCircuit

(* The rest of a call does not touch the window. *)
LEMMA RequestKeeps ==
    ASSUME IInv, NEW t \in Threads,
           Skip(t) \/ Admit(t) \/ Transmit(t) \/ Retry(t)
             \/ record_success(t) \/ record_failure(t)
    PROVE  IInv'
<1>1. UNCHANGED <<clock, granted, lock, now, wake, grants>>
  BY DEF Skip, Admit, Transmit, Retry, record_success, record_failure, limiter, history
<1>2. LockInv'
  BY <1>1 DEF IInv, TypeOK, LockInv, InLimiter, Goto, EndCall,
     Skip, Admit, Transmit, Retry, record_success, record_failure
<1>3. WindowInv' /\ GrantsInWindow'
  <2>1. \A u \in Threads : at'[u] \in InLimiter => at[u] \in InLimiter
    BY DEF IInv, TypeOK, InLimiter, Goto, EndCall,
       Skip, Admit, Transmit, Retry, record_success, record_failure
  <2>2. QED
    BY <1>1, <2>1 DEF IInv, WindowInv, GrantsInWindow, Forgotten
<1>4. TypeOK'
  <2> USE DEF IInv, TypeOK, Places, Goto, EndCall, request, history
  <2>0. ASSUME EndCall(t), at[t] # "idle"
        PROVE  at' \in [Threads -> Places] /\ left' \in [Threads -> 0 .. Calls]
    <3>1. left[t] \in 1 .. Calls
      BY <2>0, SizesAssumption DEF CallInv
    <3>2. left[t] - 1 \in 0 .. Calls
      BY <3>1, SizesAssumption
    <3>3. QED
      BY <2>0, <3>2
  <2>1. CASE Skip(t)
    <3>1. circuit' \in HostCircuit
      BY <2>1, SkippedOnce DEF Skip
    <3>2. QED
      BY <1>1, <2>0, <2>1, <3>1 DEF Skip
  <2>2. CASE Admit(t)
    BY <1>1, <2>2, SizesAssumption DEF Admit
  <2>3. CASE Transmit(t)
    BY <1>1, <2>3 DEF Transmit
  <2>4. CASE Retry(t)
    <3>1. tries[t] - 1 \in 0 .. RetryTotal
      BY <2>4, SizesAssumption DEF Retry
    <3>2. tries' \in [Threads -> 0 .. RetryTotal] /\ at' \in [Threads -> Places]
      BY <2>4, <3>1 DEF Retry
    <3>3. UNCHANGED <<left, circuit, late>>
      BY <2>4 DEF Retry
    <3>4. QED
      BY <1>1, <3>2, <3>3
  <2>5. CASE record_success(t)
    BY <1>1, <2>0, <2>5 DEF record_success, HostCircuit
  <2>6. CASE record_failure(t)
    <3>1. circuit' \in HostCircuit
      BY <2>6, SMTT(30) DEF record_failure, HostCircuit
    <3>2. QED
      BY <1>1, <2>0, <2>6, <3>1 DEF record_failure
  <2>7. QED
    BY <2>1, <2>2, <2>3, <2>4, <2>5, <2>6
<1>5. CallInv'
  BY DEF IInv, TypeOK, CallInv, Places, Goto, EndCall, request,
     Skip, Admit, Transmit, Retry, record_success, record_failure
<1>6. QED
  BY <1>2, <1>3, <1>4, <1>5 DEF IInv

LEMMA TickKeeps ==
    ASSUME IInv, Tick
    PROVE  IInv'
<1>1. UNCHANGED <<limiter, at, request, circuit, history>> /\ clock' = clock + 1
  BY DEF Tick
<1>2. TypeOK' /\ LockInv' /\ CallInv' /\ GrantsInWindow'
  BY <1>1 DEF IInv, TypeOK, LockInv, CallInv, GrantsInWindow, limiter, request, history
<1>3. WindowInv'
  <2>1. /\ clock \in Nat /\ Window \in Nat /\ Len(granted) <= Len(grants)
        /\ \A i \in 1 .. Forgotten : i \in 1 .. Len(grants)
        /\ \A i \in 1 .. Len(grants) : grants[i] \in Nat
        /\ now \in [Threads -> Nat]
    BY SizesAssumption, SMTT(30) DEF IInv, TypeOK, WindowInv, Forgotten
  <2>2. \A i \in 1 .. Forgotten : grants[i] + Window <= clock + 1
    BY <2>1 DEF IInv, WindowInv
  <2>3. \A t \in Threads : at[t] \in InLimiter => now[t] <= clock + 1
    BY <2>1 DEF IInv, WindowInv
  <2>4. UNCHANGED <<granted, now, at, grants>>
    BY <1>1 DEF limiter, history
  <2>5. QED
    BY <1>1, <2>1, <2>2, <2>3, <2>4 DEF IInv, WindowInv, Forgotten
<1>4. QED
  BY <1>2, <1>3 DEF IInv

LEMMA NextIInv == IInv /\ [Next]_vars => IInv'
<1> SUFFICES ASSUME IInv, [Next]_vars PROVE IInv'
  OBVIOUS
<1>1. CASE Tick
  BY <1>1, TickKeeps
<1>2. ASSUME NEW t \in Threads, ThreadStep(t) PROVE IInv'
  BY <1>2, ReadersKeep, SleepKeeps, GrantKeeps, RequestKeeps DEF ThreadStep
<1>3. CASE UNCHANGED vars
  BY <1>3 DEF IInv, TypeOK, LockInv, CallInv, WindowInv, GrantsInWindow, Forgotten,
     vars, limiter, request, history
<1>4. QED
  BY <1>1, <1>2, <1>3 DEF Next

(* Every step of the threads and of time keeps the inductive invariant. *)
THEOREM LimiterInvariant == Spec => []IInv
BY InitIInv, NextIInv, PTL DEF Spec

(* DAT-12, for every rate, window, number of threads and interleaving: the *)
(* grants of any Window seconds are at most Rate.                          *)
THEOREM RateIsKept == Spec => []GrantsInWindow
<1>1. IInv => GrantsInWindow
  BY DEF IInv
<1>2. QED
  BY <1>1, LimiterInvariant, PTL

-----------------------------------------------------------------------------
(* The circuit.  The attempts still to be made are finitely many, and those *)
(* of all threads but one are bounded by their retries.                    *)
LEMMA OutstandingFinite ==
    ASSUME NEW S \in SUBSET (Threads \X (1 .. RetryTotal + 1))
    PROVE  IsFiniteSet(S) /\ Cardinality(S) \in Nat
<1>1. IsFiniteSet(1 .. RetryTotal + 1)
  BY SizesAssumption, FS_Interval
<1>2. IsFiniteSet(Threads \X (1 .. RetryTotal + 1))
  BY <1>1, ThreadsAssumption, FS_Product
<1>3. QED
  BY <1>2, FS_Subset, FS_CardinalityType

LEMMA AllButOne ==
    ASSUME NEW t \in Threads, NEW S \in SUBSET ((Threads \ {t}) \X (1 .. RetryTotal + 1))
    PROVE  Cardinality(S) <= (Cardinality(Threads) - 1) * (RetryTotal + 1)
<1> DEFINE others == Threads \ {t}
           tickets == 1 .. RetryTotal + 1
<1>1. /\ IsFiniteSet(others) /\ Cardinality(others) = Cardinality(Threads) - 1
      /\ Cardinality(others) \in Nat
  BY ThreadsAssumption, FS_RemoveElement, FS_CardinalityType
<1>2. IsFiniteSet(tickets) /\ Cardinality(tickets) = RetryTotal + 1
  <2>1. RetryTotal \in Nat /\ 1 \in Int /\ RetryTotal + 1 \in Int
    BY SizesAssumption
  <2>2. /\ IsFiniteSet(tickets)
        /\ Cardinality(tickets) = IF 1 > RetryTotal + 1 THEN 0 ELSE RetryTotal + 1 - 1 + 1
    BY <2>1, FS_Interval
  <2>3. QED
    BY <2>1, <2>2
<1>3. IsFiniteSet(others \X tickets) /\ Cardinality(others \X tickets) = Cardinality(others) * Cardinality(tickets)
  BY <1>1, <1>2, FS_Product
<1>4. Cardinality(S) <= Cardinality(others \X tickets)
  BY <1>3, FS_Subset
<1>5. QED
  BY <1>1, <1>2, <1>3, <1>4

(* What the other threads may send is theirs: a step of t changes its own. *)
LEMMA OwnAttempts ==
    ASSUME IInv, NEW t \in Threads, ThreadStep(t)
    PROVE  /\ \A u \in Threads \ {t} : Attempts(u)' = Attempts(u)
           /\ Attempts(t) \in 0 .. RetryTotal + 1 /\ Attempts(t)' \in 0 .. RetryTotal + 1
           /\ ~ Admit(t) => Attempts(t)' <= Attempts(t)
           /\ Transmit(t) => Attempts(t)' = Attempts(t) - 1
<1>1. /\ at \in [Threads -> Places] /\ tries \in [Threads -> 0 .. RetryTotal]
      /\ at' \in [Threads -> Places] /\ tries' \in [Threads -> 0 .. RetryTotal]
      /\ RetryTotal \in Nat
  <2>1. IInv'
    BY NextIInv DEF Next
  <2>2. QED
    BY <2>1, SizesAssumption DEF IInv, TypeOK
<1>2. /\ \A u \in Threads \ {t} : at'[u] = at[u] /\ tries'[u] = tries[u]
      /\ \/ Admit(t)
         \/ Transmit(t) /\ at[t] = "send" /\ at'[t] = "reply" /\ tries'[t] = tries[t]
         \/ Retry(t) /\ at[t] = "reply" /\ at'[t] = "send" /\ tries'[t] = tries[t] - 1
         \/ at'[t] \notin {"send", "reply"} /\ ~ Transmit(t)
  BY <1>1 DEF ThreadStep, Acquire, Sleep, Wake, Grant, Skip, Admit, Transmit, Retry, record_success,
     record_failure, EndCall, Goto, request, InLimiter
<1>3. \A u \in Threads \ {t} : Attempts(u)' = Attempts(u)
  BY <1>2 DEF Attempts
<1>4. Attempts(t) \in 0 .. RetryTotal + 1 /\ Attempts(t)' \in 0 .. RetryTotal + 1
  BY <1>1 DEF Attempts
<1>5. (~ Admit(t) => Attempts(t)' <= Attempts(t)) /\ (Transmit(t) => Attempts(t)' = Attempts(t) - 1)
  BY <1>1, <1>2, <1>4 DEF Attempts, Admit, Transmit
<1>6. QED
  BY <1>3, <1>4, <1>5

LEMMA LateKept ==
    ASSUME IInv, LateInv, NEW t \in Threads, ThreadStep(t)
    PROVE  LateInv'
<1> DEFINE Bound == (Cardinality(Threads) - 1) * (RetryTotal + 1)
<1>1. /\ circuit \in HostCircuit /\ late \in Nat
      /\ Outstanding \in SUBSET (Threads \X (1 .. RetryTotal + 1))
      /\ Outstanding' \in SUBSET (Threads \X (1 .. RetryTotal + 1))
  BY DEF IInv, TypeOK, Outstanding
<1>2. /\ IsFiniteSet(Outstanding) /\ Cardinality(Outstanding) \in Nat
      /\ IsFiniteSet(Outstanding') /\ Cardinality(Outstanding') \in Nat
  BY <1>1, OutstandingFinite
<1>3. Bound \in Int
  <2>1. Cardinality(Threads) \in Nat /\ RetryTotal \in Nat
    BY SizesAssumption, ThreadsAssumption, FS_CardinalityType
  <2>2. \A a, b \in Nat : (a - 1) * (b + 1) \in Int
    OBVIOUS
  <2>3. QED
    BY <2>1, <2>2
<1> HIDE DEF Bound
<1>4. ASSUME ~ Admit(t) PROVE Outstanding' \in SUBSET Outstanding
  <2>1. SUFFICES ASSUME NEW a \in Outstanding' PROVE a \in Outstanding
    OBVIOUS
  <2>2. a \in Threads \X (1 .. RetryTotal + 1) /\ a[2] \in Nat /\ a[2] <= Attempts(a[1])'
    BY SizesAssumption DEF Outstanding
  <2>3. a[2] <= Attempts(a[1])
    BY <1>4, <2>2, OwnAttempts, SizesAssumption
  <2>4. QED
    BY <2>2, <2>3 DEF Outstanding
<1>5. CASE Transmit(t)
  <2>1. Attempts(t) \in 1 .. RetryTotal + 1 /\ Attempts(t)' = Attempts(t) - 1
    BY <1>5, OwnAttempts, SizesAssumption
  <2>2. <<t, Attempts(t)>> \in Outstanding /\ <<t, Attempts(t)>> \notin Outstanding'
    BY <2>1 DEF Outstanding
  <2>3. ~ Admit(t)
    BY <1>5 DEF Transmit, Admit
  <2>4. Outstanding' \in SUBSET (Outstanding \ {<<t, Attempts(t)>>})
    BY <1>4, <2>2, <2>3
  <2>5. Cardinality(Outstanding') <= Cardinality(Outstanding) - 1
    BY <1>2, <2>2, <2>4, FS_RemoveElement, FS_Subset
  <2>6. circuit' = circuit /\ late' = IF circuit.is_open THEN late + 1 ELSE late
    BY <1>5 DEF Transmit
  <2>7. late' + Cardinality(Outstanding') <= Bound \/ ~ circuit.is_open
    BY <1>1, <1>2, <1>3, <2>5, <2>6 DEF LateInv, Bound
  <2>8. QED
    BY <1>1, <2>6, <2>7 DEF LateInv, Bound
<1>6. CASE Admit(t)
  BY <1>6 DEF LateInv, Admit, IsOpen, history
<1>7. CASE ~ Transmit(t) /\ ~ Admit(t)
  <2>1. late' = late /\ (circuit.is_open => circuit'.is_open)
    BY <1>1, <1>7 DEF ThreadStep, Acquire, Sleep, Wake, Grant, Skip, Retry, record_success,
       record_failure, history, HostCircuit
  <2>2. Cardinality(Outstanding') <= Cardinality(Outstanding)
    BY <1>2, <1>4, <1>7, FS_Subset
  <2>3. CASE circuit.is_open
    <3>1. late' + Cardinality(Outstanding') <= Bound
      BY <1>1, <1>2, <1>3, <2>1, <2>2, <2>3 DEF LateInv, Bound
    <3>2. QED
      BY <2>1, <2>3, <3>1 DEF LateInv, Bound
  <2>4. CASE ~ circuit.is_open
    <3>1. CASE circuit'.is_open
      <4>1. record_failure(t)
        BY <1>1, <1>7, <2>4, <3>1 DEF ThreadStep, Acquire, Sleep, Wake, Grant, Skip, Retry, record_success,
           HostCircuit
      <4>2. at'[t] = "idle"
        BY <4>1 DEF record_failure, EndCall, Goto, IInv, TypeOK
      <4>3. Attempts(t)' = 0
        BY <4>2 DEF Attempts
      <4>4. Outstanding' \in SUBSET ((Threads \ {t}) \X (1 .. RetryTotal + 1))
        <5>1. SUFFICES ASSUME NEW a \in Outstanding' PROVE a[1] # t
          BY <1>1
        <5>2. a[2] >= 1 /\ a[2] \in Nat /\ a[2] <= Attempts(a[1])'
          BY SizesAssumption DEF Outstanding
        <5>3. QED
          BY <4>3, <5>2
      <4>5. Cardinality(Outstanding') <= Bound
        BY <4>4, AllButOne DEF Bound
      <4>6. late' = 0
        BY <2>1, <2>4 DEF LateInv
      <4>7. QED
        BY <1>2, <1>3, <3>1, <4>5, <4>6 DEF LateInv, Bound
    <3>2. CASE ~ circuit'.is_open
      BY <2>1, <2>4, <3>2 DEF LateInv
    <3>3. QED
      BY <3>1, <3>2
  <2>5. QED
    BY <2>3, <2>4
<1>8. QED
  BY <1>5, <1>6, <1>7

(* NIEZ-31, for every number of threads and retries: after the circuit     *)
(* opened the host sees no more than the attempts of the other threads.    *)
THEOREM CircuitStaysOpen == Spec => []OpenStaysOpen
<1>1. Init => LateInv
  BY DEF Init, LateInv
<1>2. IInv /\ LateInv /\ [Next]_vars => LateInv'
  <2>1. SUFFICES ASSUME IInv, LateInv, [Next]_vars PROVE LateInv'
    OBVIOUS
  <2>2. CASE Tick \/ UNCHANGED vars
    BY <2>1, <2>2 DEF Tick, vars, request, history, LateInv, Outstanding, Attempts
  <2>3. ASSUME NEW t \in Threads, ThreadStep(t) PROVE LateInv'
    BY <2>1, <2>3, LateKept
  <2>4. QED
    BY <2>1, <2>2, <2>3 DEF Next
<1>3. IInv /\ LateInv => OpenStaysOpen
  <2>1. SUFFICES ASSUME IInv, LateInv PROVE OpenStaysOpen
    OBVIOUS
  <2>2. Cardinality(Outstanding) \in Nat /\ late \in Nat
    BY <2>1, OutstandingFinite DEF Outstanding, IInv, TypeOK
  <2>3. PICK t \in Threads : TRUE
    BY ThreadsAssumption
  <2>4. 0 <= (Cardinality(Threads) - 1) * (RetryTotal + 1) /\ (Cardinality(Threads) - 1) * (RetryTotal + 1) \in Int
    <3>1. Cardinality({}) = 0 /\ {} \in SUBSET ((Threads \ {t}) \X (1 .. RetryTotal + 1))
      BY FS_EmptySet
    <3>2. 0 <= (Cardinality(Threads) - 1) * (RetryTotal + 1)
      BY <3>1, AllButOne
    <3>3. Cardinality(Threads) \in Nat /\ RetryTotal \in Nat
      BY SizesAssumption, ThreadsAssumption, FS_CardinalityType
    <3>4. \A a, b \in Nat : (a - 1) * (b + 1) \in Int
      OBVIOUS
    <3>5. QED
      BY <3>2, <3>3, <3>4
  <2> DEFINE Bound == (Cardinality(Threads) - 1) * (RetryTotal + 1)
  <2> HIDE DEF Bound
  <2>5. late <= Bound
    BY <2>1, <2>2, <2>4 DEF LateInv, Bound
  <2>6. QED
    BY <2>5 DEF OpenStaysOpen, Bound
<1>4. QED
  BY <1>1, <1>2, <1>3, LimiterInvariant, PTL DEF Spec

-----------------------------------------------------------------------------
(* The workflows and their queues.                                         *)
Jobs == "supabase-writers"
Pushes == "attestation-ledger"
Group(r) == Flow!WorkflowGroup(r)

GroupTable == [Flow!Groups -> [holder : Flow!Runs \cup {NoThread},
                               pending : Flow!Runs \cup {NoThread}]]

(* The groups of a run are three different ones, and what Holding and      *)
(* Behind say of each.                                                     *)
LEMMA Names ==
    ASSUME NEW r \in Flow!Runs
    PROVE  /\ Group(r) \in Flow!Groups /\ Jobs \in Flow!Groups /\ Pushes \in Flow!Groups
           /\ Group(r) # Jobs /\ Group(r) # Pushes /\ Jobs # Pushes
           /\ Flow!JobGroup(r) = Jobs /\ Flow!WorkflowGroup(r) = Group(r)
  BY DEF Group, Jobs, Pushes, Flow!Groups, Flow!WorkflowGroup, Flow!JobGroup

LEMMA HoldingIs ==
    ASSUME NEW r \in Flow!Runs
    PROVE  /\ Flow!Holding(Group(r), r) =
                 {"run_wait", "job_wait", "push_wait", "push"} \cup Flow!WritingSteps
           /\ Flow!Holding(Jobs, r) = {"job_wait"} \cup Flow!WritingSteps
           /\ Flow!Holding(Pushes, r) = {"push_wait", "push"}
           /\ \A g : g \notin {Group(r), Jobs, Pushes} => Flow!Holding(g, r) = {}
  <1>1. /\ Group(r) # Jobs /\ Group(r) # Pushes /\ Jobs # Pushes
        /\ Flow!JobGroup(r) = Jobs /\ Flow!WorkflowGroup(r) = Group(r)
    BY Names
  <1>2. Pushes = "attestation-ledger"
    BY DEF Pushes
  <1>3. QED BY <1>1, <1>2 DEF Flow!Holding

LEMMA BehindIs ==
    ASSUME NEW r \in Flow!Runs
    PROVE  /\ Flow!Behind(Group(r), r) = {"run_wait"}
           /\ Flow!Behind(Jobs, r) = {"job_wait"}
           /\ \A g : g \notin {Group(r), Jobs} => Flow!Behind(g, r) = {}
  <1>1. /\ Group(r) # Jobs /\ Flow!JobGroup(r) = Jobs /\ Flow!WorkflowGroup(r) = Group(r)
    BY Names
  <1>2. QED BY <1>1 DEF Flow!Behind

LEMMA NoThreadIsNoRun == NoThread \notin Flow!Runs
  BY RunsAssumption DEF Flow!Runs

-----------------------------------------------------------------------------
(* What a run at work or in its push holds. *)

LEMMA WriterHolds ==
    ASSUME NEW gs, NEW st, Flow!QueuesOK(gs, st), NEW r \in Flow!Runs,
           st[r] \in Flow!WritingSteps
    PROVE  gs[Group(r)].holder = r /\ gs[Jobs].holder = r
  <1>1. Group(r) \in Flow!Groups /\ Jobs \in Flow!Groups
    BY Names
  <1>2. st[r] \in Flow!Holding(Group(r), r) /\ st[r] \in Flow!Holding(Jobs, r)
    BY HoldingIs
  <1>3. st[r] \notin Flow!Behind(Group(r), r) /\ st[r] \notin Flow!Behind(Jobs, r)
    BY BehindIs DEF Flow!WritingSteps, Flow!UploadSteps
  <1>4. QED BY <1>1, <1>2, <1>3 DEF Flow!QueuesOK, Flow!IsIn

LEMMA PusherHolds ==
    ASSUME NEW gs, NEW st, Flow!QueuesOK(gs, st), NEW r \in Flow!Runs,
           st[r] \in {"push_wait", "push"}
    PROVE  gs[Group(r)].holder = r /\ gs[Pushes].holder = r
  <1>1. Group(r) \in Flow!Groups /\ Pushes \in Flow!Groups
    BY Names
  <1>2. st[r] \in Flow!Holding(Group(r), r) /\ st[r] \in Flow!Holding(Pushes, r)
    BY HoldingIs
  <1>3. st[r] \notin Flow!Behind(Group(r), r) /\ st[r] \notin Flow!Behind(Pushes, r)
    BY BehindIs, Names
  <1>4. QED BY <1>1, <1>2, <1>3 DEF Flow!QueuesOK, Flow!IsIn

(* A run waits behind another one only before it has begun. *)
LEMMA WaitsBehind ==
    ASSUME NEW gs, NEW st, Flow!QueuesOK(gs, st), NEW r \in Flow!Runs,
           NEW g \in Flow!Groups, gs[g].pending = r
    PROVE  /\ st[r] \in {"run_wait", "job_wait"}
           /\ (g = Group(r) /\ st[r] = "run_wait") \/ (g = Jobs /\ st[r] = "job_wait")
           /\ \A h \in Flow!Groups \ {g} : gs[h].pending # r
  <1>1. \A h \in Flow!Groups : gs[h].pending = r => st[r] \in Flow!Behind(h, r)
    BY DEF Flow!QueuesOK
  <1>2. /\ Flow!Behind(Group(r), r) = {"run_wait"}
        /\ Flow!Behind(Jobs, r) = {"job_wait"}
        /\ \A h : h \notin {Group(r), Jobs} => Flow!Behind(h, r) = {}
    BY BehindIs
  <1>3. \A h \in Flow!Groups :
           gs[h].pending = r => \/ h = Group(r) /\ st[r] = "run_wait"
                                \/ h = Jobs /\ st[r] = "job_wait"
    BY <1>1, <1>2
  <1>4. QED BY <1>3

(* At most one run of a workflow is beyond its queue. *)
LEMMA OneBegun ==
    ASSUME NEW gs, NEW st, Flow!QueuesOK(gs, st),
           NEW r \in Flow!Runs, NEW q \in Flow!Runs, Group(r) = Group(q),
           gs[Group(r)].holder = r,
           st[q] \in {"push_wait", "push"} \cup Flow!WritingSteps
    PROVE  r = q
  BY WriterHolds, PusherHolds

-----------------------------------------------------------------------------
(* The operations on the groups. *)

(* A run moves to a stage with the same claims. *)
LEMMA MovedOn ==
    ASSUME NEW gs, NEW st \in [Flow!Runs -> Flow!Stages], Flow!QueuesOK(gs, st),
           NEW r \in Flow!Runs, NEW s \in Flow!Stages,
           \A h \in Flow!Groups : s \in Flow!Holding(h, r) <=> st[r] \in Flow!Holding(h, r),
           \A h \in Flow!Groups : gs[h].pending = r => s \in Flow!Behind(h, r)
    PROVE  Flow!QueuesOK(gs, [st EXCEPT ![r] = s])
  BY DEF Flow!QueuesOK

(* A run that ends gives up what it holds to the one behind it. *)
LEMMA FreedIs ==
    ASSUME NEW gs \in GroupTable, NEW X, NEW gs2, gs2 = Flow!Freed(gs, X)
    PROVE  /\ gs2 \in GroupTable
           /\ \A h \in Flow!Groups :
                 /\ gs[h].holder \in X =>
                       gs2[h] = [holder |-> gs[h].pending, pending |-> NoThread]
                 /\ gs[h].holder \notin X => gs2[h] = gs[h]
  <1>1. ASSUME NEW h \in Flow!Groups, gs[h].holder \in X
        PROVE  gs2[h] = [holder |-> gs[h].pending, pending |-> NoThread]
    BY <1>1 DEF Flow!Freed, Flow!Leave, GroupTable
  <1>2. ASSUME NEW h \in Flow!Groups, gs[h].holder \notin X PROVE gs2[h] = gs[h]
    BY <1>2 DEF Flow!Freed
  <1>3. ASSUME NEW h \in Flow!Groups
        PROVE  gs2[h] \in [holder : Flow!Runs \cup {NoThread}, pending : Flow!Runs \cup {NoThread}]
    <2>1. gs[h] \in [holder : Flow!Runs \cup {NoThread}, pending : Flow!Runs \cup {NoThread}]
      BY DEF GroupTable
    <2>2. CASE gs[h].holder \in X
      <3>1. gs2[h] = [holder |-> gs[h].pending, pending |-> NoThread]
        BY <1>1, <2>2
      <3>2. QED BY <2>1, <3>1
    <2>3. CASE gs[h].holder \notin X
      BY <1>2, <2>1, <2>3
    <2>4. QED BY <2>2, <2>3
  <1>4. gs2 = [h \in Flow!Groups |-> gs2[h]]
    BY DEF Flow!Freed
  <1>5. QED BY <1>1, <1>2, <1>3, <1>4 DEF GroupTable

LEMMA Ended ==
    ASSUME NEW gs \in GroupTable, NEW st \in [Flow!Runs -> Flow!Stages],
           Flow!QueuesOK(gs, st),
           NEW r \in Flow!Runs, NEW s \in Flow!EndSteps,
           \A h \in Flow!Groups : gs[h].pending # r,
           NEW gs2, gs2 = Flow!Freed(gs, {r}),
           NEW st2, st2 = [st EXCEPT ![r] = s]
    PROVE  Flow!QueuesOK(gs2, st2)
  <1>1. \A h \in Flow!Groups :
           /\ gs[h].holder = r => gs2[h] = [holder |-> gs[h].pending, pending |-> NoThread]
           /\ gs[h].holder # r => gs2[h] = gs[h]
    BY FreedIs
  <1>2. \A h \in Flow!Groups : s \notin Flow!Holding(h, r)
    BY HoldingIs, Names DEF Flow!EndSteps, Flow!WritingSteps, Flow!UploadSteps
  <1>3. ASSUME NEW h \in Flow!Groups
        PROVE  /\ gs2[h].holder = NoThread => gs2[h].pending = NoThread
               /\ gs2[h].holder = IF gs[h].holder = r THEN gs[h].pending ELSE gs[h].holder
               /\ gs2[h].pending = IF gs[h].holder = r THEN NoThread ELSE gs[h].pending
    <2>1. gs[h].holder = NoThread => gs[h].pending = NoThread
      BY DEF Flow!QueuesOK
    <2>2. CASE gs[h].holder = r
      <3>1. gs2[h] = [holder |-> gs[h].pending, pending |-> NoThread]
        BY <1>1, <2>2
      <3>2. gs2[h].holder = gs[h].pending /\ gs2[h].pending = NoThread
        BY <3>1
      <3>3. QED BY <2>2, <3>2
    <2>3. CASE gs[h].holder # r
      BY <1>1, <2>1, <2>3
    <2>4. QED BY <2>2, <2>3
  <1>4. ASSUME NEW h \in Flow!Groups, NEW q \in Flow!Runs
        PROVE  /\ Flow!IsIn(gs2, h, q) <=> st2[q] \in Flow!Holding(h, q)
               /\ gs2[h].pending = q => st2[q] \in Flow!Behind(h, q) /\ gs2[h].holder # q
    <2>1. /\ Flow!IsIn(gs, h, q) <=> st[q] \in Flow!Holding(h, q)
          /\ gs[h].pending = q => st[q] \in Flow!Behind(h, q) /\ gs[h].holder # q
          /\ q # NoThread /\ r # NoThread
      BY NoThreadIsNoRun DEF Flow!QueuesOK
    <2>2. CASE q = r
      <3>1. st2[q] \notin Flow!Holding(h, q)
        BY <1>2, <2>2
      <3>2. gs2[h].holder # q /\ gs2[h].pending # q
        <4>1. gs[h].pending # r
          OBVIOUS
        <4>2. CASE gs[h].holder = r
          BY <1>3, <2>1, <2>2, <4>1, <4>2
        <4>3. CASE gs[h].holder # r
          BY <1>3, <2>1, <2>2, <4>1, <4>3
        <4>4. QED BY <4>2, <4>3
      <3>3. QED BY <3>1, <3>2 DEF Flow!IsIn
    <2>3. CASE q # r
      <3>1. st2[q] = st[q]
        BY <2>3
      <3>2. /\ gs2[h].holder = q \/ gs2[h].pending = q <=> gs[h].holder = q \/ gs[h].pending = q
            /\ gs2[h].pending = q => gs[h].pending = q /\ gs2[h].holder # q
        BY <1>3, <2>1, <2>3
      <3>3. QED BY <2>1, <3>1, <3>2 DEF Flow!IsIn
    <2>4. QED BY <2>2, <2>3
  <1>5. QED BY <1>3, <1>4 DEF Flow!QueuesOK

(* A run whose job ends without the run gives up the group of the job: its *)
(* claims are those of a run that has just got its workflow's group.       *)
LEMMA LeftJob ==
    ASSUME NEW gs \in GroupTable, NEW st \in [Flow!Runs -> Flow!Stages],
           Flow!QueuesOK(gs, st),
           NEW r \in Flow!Runs, st[r] \in Flow!WritingSteps,
           NEW gs2, gs2 = Flow!Leave(gs, Jobs, r),
           NEW st2, st2 = [st EXCEPT ![r] = "run_wait"]
    PROVE  gs2 \in GroupTable /\ Flow!QueuesOK(gs2, st2)
  <1>1. gs[Jobs].holder = r /\ Jobs \in Flow!Groups
    BY WriterHolds, Names
  <1>2. gs2 = [gs EXCEPT ![Jobs] = [holder |-> gs[Jobs].pending, pending |-> NoThread]]
    BY <1>1 DEF Flow!Leave, GroupTable
  <1>3. /\ gs2[Jobs] = [holder |-> gs[Jobs].pending, pending |-> NoThread]
        /\ \A h \in Flow!Groups \ {Jobs} : gs2[h] = gs[h]
    BY <1>1, <1>2 DEF GroupTable
  <1>4. gs[Jobs] \in [holder : Flow!Runs \cup {NoThread}, pending : Flow!Runs \cup {NoThread}]
    BY <1>1 DEF GroupTable
  <1>5. gs2 \in GroupTable
    <2>1. [holder |-> gs[Jobs].pending, pending |-> NoThread]
             \in [holder : Flow!Runs \cup {NoThread}, pending : Flow!Runs \cup {NoThread}]
      BY <1>4
    <2>2. QED BY <1>2, <2>1 DEF GroupTable
  <1>6. ASSUME NEW h \in Flow!Groups
        PROVE  gs2[h].holder = NoThread => gs2[h].pending = NoThread
    BY <1>3 DEF Flow!QueuesOK
  <1>7. ASSUME NEW h \in Flow!Groups, NEW q \in Flow!Runs
        PROVE  /\ Flow!IsIn(gs2, h, q) <=> st2[q] \in Flow!Holding(h, q)
               /\ gs2[h].pending = q => st2[q] \in Flow!Behind(h, q) /\ gs2[h].holder # q
    <2>1. /\ Flow!IsIn(gs, h, q) <=> st[q] \in Flow!Holding(h, q)
          /\ gs[h].pending = q => st[q] \in Flow!Behind(h, q) /\ gs[h].holder # q
          /\ q # NoThread
      BY NoThreadIsNoRun DEF Flow!QueuesOK
    <2>2. CASE q = r
      <3>1. st2[q] = "run_wait"
        BY <2>2
      <3>2. CASE h = Jobs
        <4>1. gs2[h].holder # q /\ gs2[h].pending # q
          BY <1>1, <1>3, <2>1, <2>2, <3>2
        <4>2. st2[q] \notin Flow!Holding(h, q)
          BY <3>1, <3>2, HoldingIs DEF Flow!WritingSteps, Flow!UploadSteps
        <4>3. QED BY <4>1, <4>2 DEF Flow!IsIn
      <3>3. CASE h = Group(r)
        <4>1. gs[h].holder = r /\ h # Jobs
          BY <3>3, WriterHolds, Names
        <4>2. st2[q] \in Flow!Holding(h, q) /\ st2[q] \in Flow!Behind(h, q)
          BY <2>2, <3>1, <3>3, HoldingIs, BehindIs
        <4>3. gs2[h] = gs[h] /\ gs[h].pending # q
          BY <1>3, <2>1, <2>2, <4>1
        <4>4. QED BY <2>2, <4>1, <4>2, <4>3 DEF Flow!IsIn
      <3>4. CASE h \notin {Jobs, Group(r)}
        <4>1. st[q] \notin Flow!Holding(h, q) /\ st2[q] \notin Flow!Holding(h, q)
          BY <2>2, <3>1, <3>4, HoldingIs DEF Flow!WritingSteps, Flow!UploadSteps
        <4>2. gs2[h] = gs[h]
          BY <1>3, <3>4
        <4>3. QED BY <2>1, <4>1, <4>2 DEF Flow!IsIn
      <3>5. QED BY <3>2, <3>3, <3>4
    <2>3. CASE q # r
      <3>1. st2[q] = st[q]
        BY <2>3
      <3>2. /\ gs2[h].holder = q \/ gs2[h].pending = q <=> gs[h].holder = q \/ gs[h].pending = q
            /\ gs2[h].pending = q => gs[h].pending = q /\ gs2[h].holder # q
        <4>1. CASE h = Jobs
          BY <1>1, <1>3, <2>1, <2>3, <4>1
        <4>2. CASE h # Jobs
          BY <1>3, <2>1, <4>2
        <4>3. QED BY <4>1, <4>2
      <3>3. QED BY <2>1, <3>1, <3>2 DEF Flow!IsIn
    <2>4. QED BY <2>2, <2>3
  <1>8. QED BY <1>5, <1>6, <1>7 DEF Flow!QueuesOK

(* A run joins a group: it holds it when nobody does, otherwise it takes   *)
(* the place of the one that waits, and that one's other group is freed.   *)
LEMMA EnqueuedIs ==
    ASSUME NEW gs \in GroupTable, NEW g \in Flow!Groups, NEW r \in Flow!Runs,
           gs[g].holder = NoThread => gs[g].pending = NoThread,
           gs[g].pending # NoThread => gs[g].holder # gs[g].pending,
           r # gs[g].pending,
           NEW out, out = {gs[g].pending} \ {NoThread},
           NEW gs2, gs2 = Flow!Freed(Flow!Join(gs, g, r), out)
    PROVE  /\ gs2 \in GroupTable
           /\ gs[g].holder = NoThread => gs2[g] = [holder |-> r, pending |-> NoThread]
           /\ gs[g].holder # NoThread => gs2[g] = [holder |-> gs[g].holder, pending |-> r]
           /\ \A h \in Flow!Groups \ {g} :
                 /\ gs[h].holder \in out =>
                       gs2[h] = [holder |-> gs[h].pending, pending |-> NoThread]
                 /\ gs[h].holder \notin out => gs2[h] = gs[h]
  <1> DEFINE row == [holder : Flow!Runs \cup {NoThread}, pending : Flow!Runs \cup {NoThread}]
             joined == Flow!Join(gs, g, r)
  <1>1. gs[g] \in row /\ r # NoThread
    BY NoThreadIsNoRun DEF GroupTable
  <1>2. /\ gs[g].holder = NoThread => joined[g] = [holder |-> r, pending |-> NoThread]
        /\ gs[g].holder # NoThread => joined[g] = [holder |-> gs[g].holder, pending |-> r]
    <2>1. CASE gs[g].holder = NoThread
      <3>1. joined[g] = [gs[g] EXCEPT !.holder = r]
        BY <2>1 DEF Flow!Join, GroupTable
      <3>2. QED BY <1>1, <2>1, <3>1
    <2>2. CASE gs[g].holder # NoThread
      <3>1. joined[g] = [gs[g] EXCEPT !.pending = r]
        BY <2>2 DEF Flow!Join, GroupTable
      <3>2. QED BY <1>1, <2>2, <3>1
    <2>3. QED BY <2>1, <2>2
  <1>3. \A h \in Flow!Groups \ {g} : joined[h] = gs[h]
    BY DEF Flow!Join, GroupTable
  <1>4. joined[g] \in row
    <2>1. CASE gs[g].holder = NoThread
      <3>1. joined[g] = [holder |-> r, pending |-> NoThread]
        BY <1>2, <2>1
      <3>2. QED BY <3>1
    <2>2. CASE gs[g].holder # NoThread
      <3>1. joined[g] = [holder |-> gs[g].holder, pending |-> r]
        BY <1>2, <2>2
      <3>2. QED BY <1>1, <3>1
    <2>3. QED BY <2>1, <2>2
  <1>5. joined \in GroupTable
    <2>1. joined = [h \in Flow!Groups |-> joined[h]]
      BY DEF Flow!Join, GroupTable
    <2>2. ASSUME NEW h \in Flow!Groups PROVE joined[h] \in row
      <3>1. gs[h] \in row
        BY DEF GroupTable
      <3> HIDE DEF joined, row
      <3>2. QED BY <1>3, <1>4, <3>1
    <2> HIDE DEF joined
    <2>3. QED BY <2>1, <2>2 DEF GroupTable
  <1> HIDE DEF joined
  <1>6. /\ gs2 \in GroupTable
        /\ \A h \in Flow!Groups :
              /\ joined[h].holder \in out =>
                    gs2[h] = [holder |-> joined[h].pending, pending |-> NoThread]
              /\ joined[h].holder \notin out => gs2[h] = joined[h]
    <2>1. gs2 = Flow!Freed(joined, out)
      BY DEF joined
    <2>2. gs2 \in GroupTable
      BY <1>5, <2>1, FreedIs
    <2>3. ASSUME NEW h \in Flow!Groups, joined[h].holder \in out
          PROVE  gs2[h] = [holder |-> joined[h].pending, pending |-> NoThread]
      BY <1>5, <2>1, <2>3, FreedIs
    <2>4. ASSUME NEW h \in Flow!Groups, joined[h].holder \notin out
          PROVE  gs2[h] = joined[h]
      BY <2>1, <2>4 DEF Flow!Freed
    <2>5. QED BY <2>2, <2>3, <2>4
  <1>7. joined[g].holder \notin out
    <2>1. CASE gs[g].holder = NoThread
      BY <2>1
    <2>2. CASE gs[g].holder # NoThread
      <3>1. joined[g].holder = gs[g].holder
        BY <1>2, <2>2
      <3>2. QED BY <2>2, <3>1
    <2>3. QED BY <2>1, <2>2
  <1>8. gs2[g] = joined[g]
    BY <1>6, <1>7
  <1>9. \A h \in Flow!Groups \ {g} :
           /\ gs[h].holder \in out =>
                 gs2[h] = [holder |-> gs[h].pending, pending |-> NoThread]
           /\ gs[h].holder \notin out => gs2[h] = gs[h]
    BY <1>3, <1>6
  <1>10. QED BY <1>2, <1>6, <1>8, <1>9

LEMMA Enqueued ==
    ASSUME NEW gs \in GroupTable, NEW st \in [Flow!Runs -> Flow!Stages],
           Flow!QueuesOK(gs, st),
           NEW g \in Flow!Groups, NEW r \in Flow!Runs, NEW s \in Flow!Stages,
           st[r] \notin Flow!Holding(g, r),
           \A h \in Flow!Groups : gs[h].pending # r,
           \A h \in Flow!Groups \ {g} : s \in Flow!Holding(h, r) <=> st[r] \in Flow!Holding(h, r),
           s \in Flow!Holding(g, r),
           gs[g].holder # NoThread => s \in Flow!Behind(g, r),
           NEW out, out = {gs[g].pending} \ {NoThread},
           NEW gs2, gs2 = Flow!Freed(Flow!Join(gs, g, r), out),
           NEW st2, st2 = [q \in Flow!Runs |-> IF q \in out THEN "displaced"
                                               ELSE IF q = r THEN s ELSE st[q]]
    PROVE  /\ gs2 \in GroupTable
           /\ Flow!QueuesOK(gs2, st2)
           /\ st2 \in [Flow!Runs -> Flow!Stages]
           /\ st2[r] = s
           /\ \A q \in Flow!Runs \ {r} : \/ st2[q] = st[q]
                                         \/ /\ st[q] \in {"run_wait", "job_wait"}
                                            /\ st2[q] = "displaced"
  <1>1. gs[g].holder = NoThread => gs[g].pending = NoThread
    BY DEF Flow!QueuesOK
  <1>2. gs[g].pending # NoThread => gs[g].holder # gs[g].pending
    BY DEF Flow!QueuesOK, GroupTable
  <1>3. /\ gs2 \in GroupTable
        /\ gs[g].holder = NoThread => gs2[g] = [holder |-> r, pending |-> NoThread]
        /\ gs[g].holder # NoThread => gs2[g] = [holder |-> gs[g].holder, pending |-> r]
        /\ \A h \in Flow!Groups \ {g} :
              /\ gs[h].holder \in out =>
                    gs2[h] = [holder |-> gs[h].pending, pending |-> NoThread]
              /\ gs[h].holder \notin out => gs2[h] = gs[h]
    BY <1>1, <1>2, EnqueuedIs
  <1>4. r \notin out
    OBVIOUS
  <1>5. /\ st2[r] = s
        /\ \A q \in Flow!Runs : q \in out => st2[q] = "displaced"
        /\ \A q \in Flow!Runs \ {r} : q \notin out => st2[q] = st[q]
    BY <1>4
  <1>6. st2 \in [Flow!Runs -> Flow!Stages]
    BY DEF Flow!Stages, Flow!EndSteps
  <1>7. \A q \in Flow!Runs : q \in out => st[q] \in {"run_wait", "job_wait"}
    BY WaitsBehind
  <1>8. ASSUME NEW h \in Flow!Groups
        PROVE  gs2[h].holder = NoThread => gs2[h].pending = NoThread
    <2>1. gs[h].holder = NoThread => gs[h].pending = NoThread
      BY DEF Flow!QueuesOK
    <2>2. CASE h = g
      <3>1. r # NoThread
        BY NoThreadIsNoRun
      <3>2. CASE gs[g].holder = NoThread
        BY <1>3, <2>2, <3>1, <3>2
      <3>3. CASE gs[g].holder # NoThread
        BY <1>3, <2>2, <3>3
      <3>4. QED BY <3>2, <3>3
    <2>3. CASE h # g
      <3>1. CASE gs[h].holder \in out
        <4>1. gs2[h] = [holder |-> gs[h].pending, pending |-> NoThread]
          BY <1>3, <2>3, <3>1
        <4>2. QED BY <4>1
      <3>2. CASE gs[h].holder \notin out
        BY <1>3, <2>1, <2>3, <3>2
      <3>3. QED BY <3>1, <3>2
    <2>4. QED BY <2>2, <2>3
  <1>9. ASSUME NEW h \in Flow!Groups, NEW q \in Flow!Runs
        PROVE  /\ Flow!IsIn(gs2, h, q) <=> st2[q] \in Flow!Holding(h, q)
               /\ gs2[h].pending = q => st2[q] \in Flow!Behind(h, q) /\ gs2[h].holder # q
    <2>1. /\ Flow!IsIn(gs, h, q) <=> st[q] \in Flow!Holding(h, q)
          /\ gs[h].pending = q => st[q] \in Flow!Behind(h, q) /\ gs[h].holder # q
          /\ q # NoThread /\ r # NoThread
      BY NoThreadIsNoRun DEF Flow!QueuesOK
    <2>2. CASE q = r
      <3>1. st2[q] = s /\ gs[h].pending # q
        BY <1>5, <2>2
      <3>2. CASE h = g
        <4>1. gs[h].holder # r
          BY <2>1, <2>2, <3>2 DEF Flow!IsIn
        <4>2. CASE gs[g].holder = NoThread
          <5>1. gs2[h].holder = q /\ gs2[h].pending # q
            BY <1>3, <2>1, <2>2, <3>2, <4>2
          <5>2. QED BY <2>2, <3>1, <3>2, <5>1 DEF Flow!IsIn
        <4>3. CASE gs[g].holder # NoThread
          <5>1. gs2[h].holder # q /\ gs2[h].pending = q
            BY <1>3, <2>2, <3>2, <4>1, <4>3
          <5>2. QED BY <2>2, <3>1, <3>2, <4>3, <5>1 DEF Flow!IsIn
        <4>4. QED BY <4>2, <4>3
      <3>3. CASE h # g
        <4>1. gs2[h].holder = q <=> gs[h].holder = q
          <5>1. CASE gs[h].holder \in out
            <6>1. gs2[h] = [holder |-> gs[h].pending, pending |-> NoThread]
              BY <1>3, <3>3, <5>1
            <6>2. gs[h].holder # q
              BY <1>4, <2>2, <5>1
            <6>3. QED BY <3>1, <6>1, <6>2
          <5>2. CASE gs[h].holder \notin out
            BY <1>3, <3>3, <5>2
          <5>3. QED BY <5>1, <5>2
        <4>2. gs2[h].pending # q
          <5>1. CASE gs[h].holder \in out
            <6>1. gs2[h] = [holder |-> gs[h].pending, pending |-> NoThread]
              BY <1>3, <3>3, <5>1
            <6>2. QED BY <2>1, <6>1
          <5>2. CASE gs[h].holder \notin out
            BY <1>3, <3>1, <3>3, <5>2
          <5>3. QED BY <5>1, <5>2
        <4>3. s \in Flow!Holding(h, r) <=> st[r] \in Flow!Holding(h, r)
          BY <3>3
        <4>4. QED BY <2>1, <2>2, <3>1, <4>1, <4>2, <4>3 DEF Flow!IsIn
      <3>4. QED BY <3>2, <3>3
    <2>3. CASE q \in out
      <3>1. st2[q] = "displaced" /\ q = gs[g].pending /\ q # r
        BY <1>4, <1>5, <2>3
      <3>2. st2[q] \notin Flow!Holding(h, q)
        BY <3>1, HoldingIs, Names DEF Flow!WritingSteps, Flow!UploadSteps
      <3>3. \A k \in Flow!Groups \ {g} : gs[k].pending # q
        BY <3>1, WaitsBehind
      <3>4. gs2[h].holder # q /\ gs2[h].pending # q
        <4>1. CASE h = g
          <5>1. gs[g].holder # NoThread /\ gs[g].holder # q
            BY <1>1, <1>2, <2>1, <3>1
          <5>2. QED BY <1>3, <3>1, <4>1, <5>1
        <4>2. CASE h # g
          <5>1. gs[h].pending # q
            BY <3>3, <4>2
          <5>2. CASE gs[h].holder \in out
            <6>1. gs2[h] = [holder |-> gs[h].pending, pending |-> NoThread]
              BY <1>3, <4>2, <5>2
            <6>2. QED BY <2>1, <5>1, <6>1
          <5>3. CASE gs[h].holder \notin out
            BY <1>3, <2>3, <4>2, <5>1, <5>3
          <5>4. QED BY <5>2, <5>3
        <4>3. QED BY <4>1, <4>2
      <3>5. QED BY <3>2, <3>4 DEF Flow!IsIn
    <2>4. CASE q # r /\ q \notin out
      <3>1. st2[q] = st[q]
        BY <1>5, <2>4
      <3>2. /\ gs2[h].holder = q \/ gs2[h].pending = q <=> gs[h].holder = q \/ gs[h].pending = q
            /\ gs2[h].pending = q => gs[h].pending = q /\ gs2[h].holder # q
        <4>1. CASE h = g
          <5>1. gs[g].pending # q
            BY <2>1, <2>4
          <5>2. CASE gs[g].holder = NoThread
            BY <1>3, <2>1, <2>4, <4>1, <5>1, <5>2
          <5>3. CASE gs[g].holder # NoThread
            BY <1>3, <2>1, <2>4, <4>1, <5>1, <5>3
          <5>4. QED BY <5>2, <5>3
        <4>2. CASE h # g
          <5>1. CASE gs[h].holder \in out
            <6>1. gs2[h] = [holder |-> gs[h].pending, pending |-> NoThread]
              BY <1>3, <4>2, <5>1
            <6>2. gs[h].holder # q
              BY <2>4, <5>1
            <6>3. QED BY <2>1, <6>1, <6>2
          <5>2. CASE gs[h].holder \notin out
            BY <1>3, <2>1, <4>2, <5>2
          <5>3. QED BY <5>1, <5>2
        <4>3. QED BY <4>1, <4>2
      <3>3. QED BY <2>1, <3>1, <3>2 DEF Flow!IsIn
    <2>5. QED BY <2>2, <2>3, <2>4
  <1>10. Flow!QueuesOK(gs2, st2)
    BY <1>8, <1>9 DEF Flow!QueuesOK
  <1>11. QED BY <1>3, <1>5, <1>6, <1>7, <1>10

-----------------------------------------------------------------------------
(* What the actions do to the queues. *)

(* A step of run r: nobody else moves but the one it displaces. *)
Moved(r) ==
    /\ group' \in GroupTable /\ stage' \in [Flow!Runs -> Flow!Stages]
    /\ Flow!QueuesOK(group', stage')
    /\ \A q \in Flow!Runs \ {r} : \/ stage'[q] = stage[q]
                                  \/ /\ stage[q] \in {"run_wait", "job_wait"}
                                     /\ stage'[q] = "displaced"

Begun == Flow!WritingSteps \cup {"push_wait", "push"}

LEMMA Queued ==
    ASSUME Flow!IInv
    PROVE  /\ group \in GroupTable /\ stage \in [Flow!Runs -> Flow!Stages]
           /\ Flow!QueuesOK(group, stage)
  BY DEF Flow!IInv, Flow!TypeOK, GroupTable

LEMMA EnqueueMoves ==
    ASSUME NEW gs \in GroupTable, NEW st \in [Flow!Runs -> Flow!Stages],
           Flow!QueuesOK(gs, st),
           NEW g \in Flow!Groups, NEW r \in Flow!Runs, NEW s \in Flow!Stages,
           st[r] \notin Flow!Holding(g, r),
           \A h \in Flow!Groups : gs[h].pending # r,
           \A h \in Flow!Groups \ {g} : s \in Flow!Holding(h, r) <=> st[r] \in Flow!Holding(h, r),
           s \in Flow!Holding(g, r),
           gs[g].holder # NoThread => s \in Flow!Behind(g, r),
           gs[g].pending = group[g].pending,
           \A q \in Flow!Runs \ {r} : st[q] = stage[q],
           Flow!Enqueue(gs, g, r, s)
    PROVE  Moved(r) /\ stage'[r] = s
  <1> DEFINE out == {gs[g].pending} \ {NoThread}
             st2 == [q \in Flow!Runs |-> IF q \in out THEN "displaced"
                                         ELSE IF q = r THEN s ELSE st[q]]
  <1>1. out = Flow!Cancelled(g)
    BY DEF Flow!Cancelled
  <1>2. group' = Flow!Freed(Flow!Join(gs, g, r), out)
    BY <1>1 DEF Flow!Enqueue
  <1>3. stage' = [q \in Flow!Runs |-> IF q \in out THEN "displaced"
                                      ELSE IF q = r THEN s ELSE stage[q]]
    BY <1>1 DEF Flow!Enqueue
  <1> HIDE DEF out
  <1>4. stage' = st2
    BY <1>3
  <1>5. /\ out = {gs[g].pending} \ {NoThread}
        /\ st2 = [q \in Flow!Runs |-> IF q \in out THEN "displaced"
                                      ELSE IF q = r THEN s ELSE st[q]]
    BY DEF out
  <1> HIDE DEF st2
  <1>6. /\ group' \in GroupTable
        /\ Flow!QueuesOK(group', stage')
        /\ stage' \in [Flow!Runs -> Flow!Stages]
        /\ stage'[r] = s
        /\ \A q \in Flow!Runs \ {r} : \/ stage'[q] = st[q]
                                      \/ /\ st[q] \in {"run_wait", "job_wait"}
                                         /\ stage'[q] = "displaced"
    BY <1>2, <1>4, <1>5, Enqueued, SMTT(30)
  <1>7. QED BY <1>6 DEF Moved

LEMMA FinishMoves ==
    ASSUME Flow!IInv, NEW r \in Flow!Runs, NEW s \in Flow!EndSteps, stage[r] \in Begun,
           Flow!Finish(r, s)
    PROVE  Moved(r) /\ stage'[r] = s
  <1>1. /\ group \in GroupTable /\ stage \in [Flow!Runs -> Flow!Stages]
        /\ Flow!QueuesOK(group, stage)
    BY Queued
  <1>2. \A h \in Flow!Groups : group[h].pending # r
    <2>1. stage[r] \notin {"run_wait", "job_wait"}
      BY DEF Begun, Flow!WritingSteps, Flow!UploadSteps
    <2>2. QED BY <1>1, <2>1, WaitsBehind
  <1>3. group' = Flow!Freed(group, {r}) /\ stage' = [stage EXCEPT ![r] = s]
    BY DEF Flow!Finish
  <1>4. Flow!QueuesOK(group', stage')
    BY <1>1, <1>2, <1>3, Ended
  <1>5. group' \in GroupTable
    BY <1>1, <1>3, FreedIs
  <1>6. /\ stage' \in [Flow!Runs -> Flow!Stages] /\ stage'[r] = s
        /\ \A q \in Flow!Runs \ {r} : stage'[q] = stage[q]
    BY <1>1, <1>3 DEF Flow!Stages
  <1>7. QED BY <1>4, <1>5, <1>6 DEF Moved

LEMMA GotoMoves ==
    ASSUME Flow!IInv, NEW r \in Flow!Runs, NEW s \in Flow!Stages, Flow!Goto(r, s),
           \A h \in Flow!Groups : s \in Flow!Holding(h, r) <=> stage[r] \in Flow!Holding(h, r),
           \A h \in Flow!Groups : group[h].pending # r
    PROVE  Moved(r) /\ stage'[r] = s
  <1>1. /\ group \in GroupTable /\ stage \in [Flow!Runs -> Flow!Stages]
        /\ Flow!QueuesOK(group, stage)
    BY Queued
  <1>2. group' = group /\ stage' = [stage EXCEPT ![r] = s]
    BY DEF Flow!Goto
  <1>3. Flow!QueuesOK(group', stage')
    BY <1>1, <1>2, MovedOn
  <1>4. /\ stage' \in [Flow!Runs -> Flow!Stages] /\ stage'[r] = s
        /\ \A q \in Flow!Runs \ {r} : stage'[q] = stage[q]
    BY <1>1, <1>2
  <1>5. QED BY <1>1, <1>2, <1>3, <1>4 DEF Moved

(* From one writing step to the next. *)
LEMMA WriterMoves ==
    ASSUME Flow!IInv, NEW r \in Flow!Runs, NEW s \in Flow!WritingSteps, Flow!Goto(r, s),
           stage[r] \in Flow!WritingSteps
    PROVE  Moved(r) /\ stage'[r] = s
  <1>1. s \in Flow!Stages
    BY DEF Flow!Stages
  <1>2. stage[r] \notin {"run_wait", "job_wait"}
    BY DEF Flow!WritingSteps, Flow!UploadSteps
  <1>3. \A h \in Flow!Groups : group[h].pending # r
    BY <1>2, Queued, WaitsBehind
  <1>4. \A h \in Flow!Groups : s \in Flow!Holding(h, r) <=> stage[r] \in Flow!Holding(h, r)
    <2>1. {s, stage[r]} \cap {"push_wait", "push"} = {}
      BY DEF Flow!WritingSteps, Flow!UploadSteps
    <2>2. QED BY <2>1, HoldingIs
  <1>5. QED BY <1>1, <1>3, <1>4, GotoMoves

LEMMA ArriveMoves ==
    ASSUME Flow!IInv, NEW r \in Flow!Runs, Flow!Trigger(r) \/ Flow!PushAgain(r)
    PROVE  Moved(r) /\ stage'[r] = "run_wait"
  <1>1. /\ group \in GroupTable /\ stage \in [Flow!Runs -> Flow!Stages]
        /\ Flow!QueuesOK(group, stage)
    BY Queued
  <1>2. stage[r] \in {"idle", "push_failed"} /\ Flow!Enqueue(group, Group(r), r, "run_wait")
    BY DEF Flow!Trigger, Flow!PushAgain, Group
  <1>3. \A h \in Flow!Groups : stage[r] \notin Flow!Holding(h, r)
    BY <1>2, HoldingIs, Names DEF Flow!WritingSteps, Flow!UploadSteps
  <1>4. \A h \in Flow!Groups : group[h].pending # r
    BY <1>1, <1>2, WaitsBehind
  <1>5. \A h \in Flow!Groups \ {Group(r)} : "run_wait" \notin Flow!Holding(h, r)
    BY HoldingIs DEF Flow!WritingSteps, Flow!UploadSteps
  <1>6. "run_wait" \in Flow!Holding(Group(r), r) /\ "run_wait" \in Flow!Behind(Group(r), r)
    BY HoldingIs, BehindIs
  <1>7. Group(r) \in Flow!Groups /\ "run_wait" \in Flow!Stages
    BY Names DEF Flow!Stages, Flow!WaitingSteps
  <1>8. QED BY <1>1, <1>2, <1>3, <1>4, <1>5, <1>6, <1>7, EnqueueMoves

(* While a Fast Loop holds its workflow's group, no other one pushes. *)
LEMMA PushesFree ==
    ASSUME Flow!IInv, NEW r \in FastRuns, group[Group(r)].holder = r,
           stage[r] \notin {"push_wait", "push"}
    PROVE  group[Pushes].holder = NoThread
  <1> SUFFICES ASSUME group[Pushes].holder # NoThread PROVE FALSE
    OBVIOUS
  <1>1. /\ group \in GroupTable /\ Flow!QueuesOK(group, stage) /\ r \in Flow!Runs
    BY Queued DEF Flow!Runs
  <1>2. PICK q \in Flow!Runs : group[Pushes].holder = q
    BY <1>1, Names DEF GroupTable
  <1>3. stage[q] \in {"push_wait", "push"}
    BY <1>1, <1>2, Names, HoldingIs DEF Flow!QueuesOK, Flow!IsIn
  <1>4. q \in FastRuns
    BY <1>3 DEF Flow!IInv, Flow!OwnSteps
  <1>5. Group(q) = Group(r)
    BY <1>4 DEF Group, Flow!WorkflowGroup
  <1>6. group[Group(q)].holder = q
    BY <1>1, <1>3, PusherHolds
  <1>7. QED BY <1>3, <1>5, <1>6

LEMMA StartRunMoves ==
    ASSUME Flow!IInv, NEW r \in Flow!Runs, Flow!StartRun(r)
    PROVE  Moved(r) /\ stage'[r] = IF r \in again THEN "push_wait" ELSE "job_wait"
  <1>1. /\ group \in GroupTable /\ stage \in [Flow!Runs -> Flow!Stages]
        /\ Flow!QueuesOK(group, stage)
    BY Queued
  <1>2. stage[r] = "run_wait" /\ group[Group(r)].holder = r
    BY DEF Flow!StartRun, Group
  <1>3. \A h \in Flow!Groups : group[h].pending # r
    <2>1. ASSUME NEW h \in Flow!Groups, group[h].pending = r PROVE FALSE
      <3>1. h = Group(r)
        BY <1>1, <1>2, <2>1, WaitsBehind
      <3>2. QED BY <1>1, <1>2, <2>1, <3>1 DEF Flow!QueuesOK
    <2>2. QED BY <2>1
  <1>4. CASE r \in again
    <2>1. Flow!Enqueue(group, Pushes, r, "push_wait") /\ r \in FastRuns
      BY <1>4 DEF Flow!StartRun, Pushes, Flow!IInv, Flow!TypeOK
    <2>2. group[Pushes].holder = NoThread
      BY <1>2, <2>1, PushesFree
    <2>3. stage[r] \notin Flow!Holding(Pushes, r) /\ "push_wait" \in Flow!Holding(Pushes, r)
      BY <1>2, HoldingIs
    <2>4. \A h \in Flow!Groups \ {Pushes} :
             "push_wait" \in Flow!Holding(h, r) <=> stage[r] \in Flow!Holding(h, r)
      BY <1>2, HoldingIs DEF Flow!WritingSteps, Flow!UploadSteps
    <2>5. Pushes \in Flow!Groups /\ "push_wait" \in Flow!Stages
      BY Names DEF Flow!Stages, Flow!WaitingSteps
    <2>6. Moved(r) /\ stage'[r] = "push_wait"
      BY <1>1, <1>3, <2>1, <2>2, <2>3, <2>4, <2>5, EnqueueMoves
    <2>7. QED BY <1>4, <2>6
  <1>5. CASE r \notin again
    <2>1. Flow!Enqueue(group, Jobs, r, "job_wait")
      BY <1>5, Names DEF Flow!StartRun
    <2>2. /\ stage[r] \notin Flow!Holding(Jobs, r) /\ "job_wait" \in Flow!Holding(Jobs, r)
          /\ "job_wait" \in Flow!Behind(Jobs, r)
      BY <1>2, HoldingIs, BehindIs DEF Flow!WritingSteps, Flow!UploadSteps
    <2>3. \A h \in Flow!Groups \ {Jobs} :
             "job_wait" \in Flow!Holding(h, r) <=> stage[r] \in Flow!Holding(h, r)
      BY <1>2, HoldingIs DEF Flow!WritingSteps, Flow!UploadSteps
    <2>4. Jobs \in Flow!Groups /\ "job_wait" \in Flow!Stages
      BY Names DEF Flow!Stages, Flow!WaitingSteps
    <2>5. Moved(r) /\ stage'[r] = "job_wait"
      BY <1>1, <1>3, <2>1, <2>2, <2>3, <2>4, EnqueueMoves
    <2>6. QED BY <1>5, <2>5
  <1>6. QED BY <1>4, <1>5

FirstStep(r) == IF r \in FastRuns THEN "checkout" ELSE IF r \in SlowRuns THEN "train" ELSE "migrate"

LEMMA StartJobMoves ==
    ASSUME Flow!IInv, NEW r \in Flow!Runs, Flow!StartJob(r)
    PROVE  Moved(r) /\ stage'[r] = FirstStep(r)
  <1>1. /\ group \in GroupTable /\ Flow!QueuesOK(group, stage)
    BY Queued
  <1>2. stage[r] = "job_wait" /\ group[Jobs].holder = r /\ Flow!Goto(r, FirstStep(r))
    BY Names DEF Flow!StartJob, FirstStep
  <1>3. FirstStep(r) \in Flow!WritingSteps /\ FirstStep(r) \in Flow!Stages
    BY DEF FirstStep, Flow!Stages, Flow!WritingSteps
  <1>4. \A h \in Flow!Groups : group[h].pending # r
    <2>1. ASSUME NEW h \in Flow!Groups, group[h].pending = r PROVE FALSE
      <3>1. h = Jobs
        BY <1>1, <1>2, <2>1, WaitsBehind
      <3>2. QED BY <1>1, <1>2, <2>1, <3>1 DEF Flow!QueuesOK
    <2>2. QED BY <2>1
  <1>5. \A h \in Flow!Groups :
           FirstStep(r) \in Flow!Holding(h, r) <=> stage[r] \in Flow!Holding(h, r)
    <2>1. FirstStep(r) \notin {"push_wait", "push"}
      BY DEF FirstStep
    <2>2. QED BY <1>2, <1>3, <2>1, HoldingIs
  <1>6. QED BY <1>2, <1>3, <1>4, <1>5, GotoMoves

LEMMA EndAgentMoves ==
    ASSUME Flow!IInv, NEW r \in FastRuns, Flow!EndAgent(r)
    PROVE  Moved(r) /\ stage'[r] \in {"push_wait", "done"}
  <1>1. /\ group \in GroupTable /\ stage \in [Flow!Runs -> Flow!Stages]
        /\ Flow!QueuesOK(group, stage) /\ r \in Flow!Runs
    BY Queued DEF Flow!Runs
  <1>2. stage[r] = "agent" /\ stage[r] \in Flow!WritingSteps /\ stage[r] \in Begun
    BY DEF Flow!EndAgent, Flow!WritingSteps, Begun
  <1>3. CASE Flow!Finish(r, "done")
    <2>1. "done" \in Flow!EndSteps
      BY DEF Flow!EndSteps
    <2>2. QED BY <1>1, <1>2, <1>3, <2>1, FinishMoves
  <1>4. CASE Flow!Enqueue(Flow!Leave(group, Flow!JobGroup(r), r), "attestation-ledger", r, "push_wait")
    <2> DEFINE gs == Flow!Leave(group, Jobs, r)
               st == [stage EXCEPT ![r] = "run_wait"]
    <2>1. gs \in GroupTable /\ Flow!QueuesOK(gs, st)
      BY <1>1, <1>2, LeftJob
    <2>2. st \in [Flow!Runs -> Flow!Stages] /\ st[r] = "run_wait"
      BY <1>1 DEF Flow!Stages, Flow!WaitingSteps
    <2>3. gs[Pushes] = group[Pushes]
      BY <1>1, Names DEF Flow!Leave, GroupTable
    <2>4. group[Group(r)].holder = r
      BY <1>1, <1>2, WriterHolds
    <2>5. group[Pushes].holder = NoThread
      BY <1>2, <2>4, PushesFree
    <2>6. gs[Group(r)] = group[Group(r)]
      BY <1>1, Names DEF Flow!Leave, GroupTable
    <2>7. \A h \in Flow!Groups : gs[h].pending # r
      <3>1. ASSUME NEW h \in Flow!Groups, gs[h].pending = r PROVE FALSE
        <4> HIDE DEF gs, st
        <4>1. h = Group(r)
          BY <1>1, <2>1, <2>2, <3>1, WaitsBehind
        <4>2. gs[h].holder # r
          BY <1>1, <2>1, <3>1 DEF Flow!QueuesOK
        <4>3. QED BY <2>4, <2>6, <4>1, <4>2
      <3>2. QED BY <3>1
    <2>8. Flow!Enqueue(gs, Pushes, r, "push_wait")
      BY <1>1, <1>4, Names DEF Pushes
    <2>9. \A q \in Flow!Runs \ {r} : st[q] = stage[q]
      BY <1>1
    <2> HIDE DEF gs, st
    <2>10. st[r] \notin Flow!Holding(Pushes, r) /\ "push_wait" \in Flow!Holding(Pushes, r)
      BY <1>1, <2>2, HoldingIs
    <2>11. \A h \in Flow!Groups \ {Pushes} :
             "push_wait" \in Flow!Holding(h, r) <=> st[r] \in Flow!Holding(h, r)
      BY <1>1, <2>2, HoldingIs DEF Flow!WritingSteps, Flow!UploadSteps
    <2>12. Pushes \in Flow!Groups /\ "push_wait" \in Flow!Stages
      BY <1>1, Names DEF Flow!Stages, Flow!WaitingSteps
    <2>13. Moved(r) /\ stage'[r] = "push_wait"
      BY <1>1, <2>1, <2>2, <2>3, <2>5, <2>7, <2>8, <2>9, <2>10, <2>11, <2>12, EnqueueMoves
    <2>14. QED BY <2>13
  <1>5. QED BY <1>3, <1>4 DEF Flow!EndAgent

LEMMA StartPushMoves ==
    ASSUME Flow!IInv, NEW r \in FastRuns, Flow!StartPush(r)
    PROVE  Moved(r) /\ stage'[r] = "push"
  <1>1. Flow!QueuesOK(group, stage) /\ r \in Flow!Runs
    BY Queued DEF Flow!Runs
  <1>2. stage[r] = "push_wait" /\ Flow!Goto(r, "push") /\ "push" \in Flow!Stages
    BY DEF Flow!StartPush, Flow!Stages
  <1>3. \A h \in Flow!Groups : group[h].pending # r
    BY <1>1, <1>2, WaitsBehind
  <1>4. \A h \in Flow!Groups : "push" \in Flow!Holding(h, r) <=> stage[r] \in Flow!Holding(h, r)
    BY <1>1, <1>2, HoldingIs DEF Flow!WritingSteps, Flow!UploadSteps
  <1>5. QED BY <1>1, <1>2, <1>3, <1>4, GotoMoves

-----------------------------------------------------------------------------
(* The invariant, one run at a time. *)

OwnStep(r) ==
    /\ stage[r] \in {"checkout", "download", "probe", "agent", "push_wait", "push", "push_failed"}
          => r \in FastRuns
    /\ stage[r] \in {"train"} \cup Flow!UploadSteps => r \in SlowRuns
    /\ stage[r] = "migrate" => r \in Migrations

FastOK(r) ==
    /\ stage[r] \in {"download", "probe", "agent", "push_wait", "push"} /\ r \notin again
          => base[r] = ledger
    /\ stage[r] \in {"probe", "agent"} => served[r] \in {accepted, NoThread} \/ broken
    /\ stage[r] = "agent" /\ flag[r] # "unproved" => (flag[r] = "on" <=> schema >= Needed)

SlowOK(r) ==
    /\ stage[r] \in {"sidecar", "put_sidecar", "notes"} => release.weights = accepted
    /\ stage[r] = "notes" => release.sidecar = accepted

(* The types of what the runs pass on to each other. *)
DataType ==
    /\ again \subseteq FastRuns
    /\ ledger \subseteq FastRuns
    /\ base \in [FastRuns -> SUBSET FastRuns]
    /\ accepted \in 0 .. Cardinality(SlowRuns)
    /\ release \in [weights : 0 .. accepted, sidecar : 0 .. accepted, notes : 0 .. accepted]
    /\ broken \in BOOLEAN
    /\ served \in [FastRuns -> (0 .. accepted) \cup {NoThread}]
    /\ schema \in 0 .. LastFile
    /\ flag \in [FastRuns -> {"on", "off", "unproved"}]

Parts ==
    /\ group \in GroupTable /\ stage \in [Flow!Runs -> Flow!Stages]
    /\ Flow!QueuesOK(group, stage)
    /\ DataType
    /\ \A r \in Flow!Runs : OwnStep(r)
    /\ \A r \in FastRuns : FastOK(r)
    /\ \A r \in SlowRuns : SlowOK(r)
    /\ Flow!ReleaseIsWhole
    /\ accepted <= Cardinality(Flow!Trained)

(* Workflows counts with its own instance of the library. *)
LEMMA SameCount == \A S : Flow!Cardinality(S) = Cardinality(S)
  BY DEF Flow!Cardinality, Cardinality

LEMMA SplitFlow == Flow!IInv <=> Parts
  <1>1. Flow!TypeOK <=> /\ group \in GroupTable /\ stage \in [Flow!Runs -> Flow!Stages]
                        /\ DataType
    <2>1. Flow!TypeOK => group \in GroupTable /\ stage \in [Flow!Runs -> Flow!Stages]
      BY DEF Flow!TypeOK, GroupTable
    <2>2. Flow!TypeOK => DataType
      BY SameCount DEF Flow!TypeOK, DataType
    <2>3. group \in GroupTable /\ stage \in [Flow!Runs -> Flow!Stages] /\ DataType => Flow!TypeOK
      BY SameCount DEF Flow!TypeOK, DataType, GroupTable
    <2>4. QED BY <2>1, <2>2, <2>3
  <1>2. Flow!OwnSteps <=> \A r \in Flow!Runs : OwnStep(r)
    BY DEF Flow!OwnSteps, OwnStep
  <1>3. Flow!BaseIsLedger /\ Flow!ServedIsLastAccepted /\ Flow!FlagMatchesSchema
           <=> \A r \in FastRuns : FastOK(r)
    BY DEF Flow!BaseIsLedger, Flow!ServedIsLastAccepted, Flow!FlagMatchesSchema, FastOK
  <1>4. Flow!UploadInv <=> \A r \in SlowRuns : SlowOK(r)
    BY DEF Flow!UploadInv, SlowOK
  <1>5. Flow!IInv => Parts
    BY <1>1, <1>2, <1>3, <1>4, SameCount DEF Parts, Flow!IInv
  <1>6. Parts => Flow!IInv
    BY <1>1, <1>2, <1>3, <1>4, SameCount DEF Parts, Flow!IInv
  <1>7. QED BY <1>5, <1>6

LEMMA SplitFlowNext == Parts' => Flow!IInv'
  BY SplitFlow, PTL

LEMMA RunsOfFlow == /\ FastRuns \subseteq Flow!Runs /\ SlowRuns \subseteq Flow!Runs
                    /\ Migrations \subseteq Flow!Runs
  BY DEF Flow!Runs

(* NIEZ-27: both writers would hold the group of every writing job. *)
LEMMA WritersAlone == Flow!IInv => Flow!OneWriter
  BY Queued, WriterHolds DEF Flow!OneWriter

(* While one run works or pushes in its workflow, no other one of it does. *)
LEMMA BegunAlone ==
    ASSUME Flow!IInv, NEW r \in FastRuns, NEW q \in FastRuns,
           stage[r] \in Begun, stage[q] \in Begun
    PROVE  r = q
  <1>1. Group(r) = Group(q)
    BY DEF Group, Flow!WorkflowGroup
  <1>2. Flow!QueuesOK(group, stage) /\ r \in Flow!Runs /\ q \in Flow!Runs
    BY Queued, RunsOfFlow
  <1>3. group[Group(r)].holder = r /\ group[Group(q)].holder = q
    BY <1>2, WriterHolds, PusherHolds DEF Begun
  <1>4. QED BY <1>1, <1>3

(* A run that another one's step moved is displaced, and owes nothing. *)
LEMMA OthersOK ==
    ASSUME Flow!IInv, NEW r \in Flow!Runs, Moved(r), NEW q \in Flow!Runs, q # r
    PROVE  /\ OwnStep(q)'
           /\ stage'[q] \in Begun \cup {"done", "cut", "idle", "push_failed"} =>
                 stage'[q] = stage[q]
  <1>1. OwnStep(q)
    BY SplitFlow DEF Parts
  <1>2. CASE stage'[q] = stage[q]
    BY <1>1, <1>2 DEF OwnStep
  <1>3. CASE stage'[q] = "displaced"
    BY <1>3 DEF OwnStep, Begun, Flow!WritingSteps, Flow!UploadSteps
  <1>4. QED BY <1>2, <1>3 DEF Moved

LEMMA TrainedFinite == IsFiniteSet(Flow!Trained) /\ Cardinality(Flow!Trained) \in Nat
  <1>1. Flow!Trained \subseteq SlowRuns
    BY DEF Flow!Trained
  <1>2. QED BY <1>1, RunsAssumption, FS_Subset, FS_CardinalityType

LEMMA TrainedFiniteNext == IsFiniteSet(Flow!Trained') /\ Cardinality(Flow!Trained') \in Nat
                           /\ Cardinality(Flow!Trained') <= Cardinality(SlowRuns)
  <1>1. Flow!Trained' \subseteq SlowRuns
    BY DEF Flow!Trained
  <1>2. QED BY <1>1, RunsAssumption, FS_Subset, FS_CardinalityType

(* Who has trained stays so. *)
LEMMA TrainedGrows ==
    ASSUME Flow!IInv, NEW r \in Flow!Runs, Moved(r),
           stage[r] \in Flow!UploadSteps \cup {"done", "cut"} =>
              stage'[r] \in Flow!UploadSteps \cup {"done", "cut"}
    PROVE  Flow!Trained \subseteq Flow!Trained' /\ Cardinality(Flow!Trained) <= Cardinality(Flow!Trained')
  <1>1. ASSUME NEW q \in Flow!Trained PROVE q \in Flow!Trained'
    <2>1. q \in SlowRuns /\ q \in Flow!Runs /\ stage[q] \in Flow!UploadSteps \cup {"done", "cut"}
      BY RunsOfFlow DEF Flow!Trained
    <2>2. CASE q = r
      BY <2>1, <2>2 DEF Flow!Trained
    <2>3. CASE q # r
      <3>1. stage'[q] = stage[q]
        BY <2>1, <2>3 DEF Moved, Flow!UploadSteps
      <3>2. QED BY <2>1, <3>1 DEF Flow!Trained
    <2>4. QED BY <2>2, <2>3
  <1>2. Flow!Trained \subseteq Flow!Trained'
    BY <1>1
  <1>3. QED BY <1>2, TrainedFiniteNext, FS_Subset

(* A step that leaves ledger, release and schema alone: what is left to    *)
(* show is about its own run.                                              *)
LEMMA PlainKeeps ==
    ASSUME Flow!IInv, NEW r \in Flow!Runs, Moved(r), DataType',
           UNCHANGED <<ledger, release, accepted, schema>>,
           broken => broken', again \subseteq again',
           \A q \in FastRuns \ {r} : base'[q] = base[q] /\ served'[q] = served[q] /\ flag'[q] = flag[q],
           OwnStep(r)', r \in FastRuns => FastOK(r)',
           stage[r] \notin {"done", "cut"}, stage'[r] \notin Flow!UploadSteps,
           stage[r] \in Flow!UploadSteps => stage'[r] = "cut" /\ broken'
    PROVE  Flow!IInv'
  <1>1. Parts
    BY SplitFlow
  <1>2. ASSUME NEW q \in Flow!Runs PROVE OwnStep(q)'
    BY OthersOK
  <1>3. ASSUME NEW q \in FastRuns PROVE FastOK(q)'
    <2>1. CASE q = r
      BY <2>1
    <2>2. CASE q # r
      <3>1. FastOK(q) /\ q \in Flow!Runs
        BY <1>1, RunsOfFlow DEF Parts
      <3>2. stage'[q] \in {"download", "probe", "agent", "push_wait", "push"} => stage'[q] = stage[q]
        BY <2>2, <3>1, OthersOK DEF Begun, Flow!WritingSteps
      <3>3. base'[q] = base[q] /\ served'[q] = served[q] /\ flag'[q] = flag[q]
        BY <2>2
      <3>4. QED BY <3>1, <3>2, <3>3 DEF FastOK
    <2>3. QED BY <2>1, <2>2
  <1>4. ASSUME NEW q \in SlowRuns PROVE SlowOK(q)'
    <2>1. SlowOK(q) /\ q \in Flow!Runs
      BY <1>1, RunsOfFlow DEF Parts
    <2>2. CASE q = r
      BY <2>2 DEF SlowOK, Flow!UploadSteps
    <2>3. CASE q # r
      <3>1. stage'[q] \in {"sidecar", "put_sidecar", "notes"} => stage'[q] = stage[q]
        BY <2>1, <2>3, OthersOK DEF Begun, Flow!WritingSteps, Flow!UploadSteps
      <3>2. QED BY <2>1, <3>1 DEF SlowOK
    <2>4. QED BY <2>2, <2>3
  <1>5. Flow!ReleaseIsWhole'
    <2>1. CASE stage[r] \in Flow!UploadSteps
      BY <2>1 DEF Flow!ReleaseIsWhole
    <2>2. CASE stage[r] \notin Flow!UploadSteps
      <3>1. SUFFICES ASSUME \A q \in Flow!Runs : stage'[q] \notin Flow!UploadSteps
                     PROVE  \/ release = [weights |-> accepted, sidecar |-> accepted, notes |-> accepted]
                            \/ broken
        BY DEF Flow!ReleaseIsWhole
      <3>2. \A q \in Flow!Runs : stage[q] \notin Flow!UploadSteps
        BY <2>2, <3>1 DEF Moved, Flow!UploadSteps
      <3>3. QED BY <1>1, <3>2 DEF Parts, Flow!ReleaseIsWhole
    <2>3. QED BY <2>1, <2>2
  <1>6. accepted' <= Cardinality(Flow!Trained')
    <2>1. Cardinality(Flow!Trained) <= Cardinality(Flow!Trained')
      BY TrainedGrows
    <2>2. accepted \in Int /\ accepted <= Cardinality(Flow!Trained)
      BY <1>1 DEF Parts, DataType
    <2>3. QED BY <2>1, <2>2, TrainedFinite, TrainedFiniteNext
  <1>7. Parts'
    BY <1>2, <1>3, <1>4, <1>5, <1>6 DEF Parts, Moved
  <1>8. QED BY <1>7, SplitFlowNext

(* A step of the queues alone. *)
LEMMA QuietKeeps ==
    ASSUME Flow!IInv, NEW r \in Flow!Runs, Moved(r),
           UNCHANGED <<Flow!ledgerVars, Flow!modelVars, Flow!schemaVars>>,
           again \subseteq again', again' \subseteq FastRuns,
           OwnStep(r)', stage[r] \notin Flow!UploadSteps \cup {"done", "cut"},
           stage'[r] \notin Flow!UploadSteps \cup {"download", "probe", "agent"},
           stage'[r] \in {"push_wait", "push"} =>
              r \in again' \/ stage[r] \in {"push_wait", "push"}
    PROVE  Flow!IInv'
  <1>1. Parts /\ DataType
    BY SplitFlow DEF Parts
  <1>2. /\ ledger' = ledger /\ base' = base /\ release' = release /\ accepted' = accepted
        /\ broken' = broken /\ served' = served /\ schema' = schema /\ flag' = flag
    BY DEF Flow!ledgerVars, Flow!modelVars, Flow!schemaVars
  <1>3. DataType'
    BY <1>1, <1>2 DEF DataType
  <1>4. ASSUME r \in FastRuns PROVE FastOK(r)'
    <2>1. FastOK(r)
      BY <1>1, <1>4 DEF Parts
    <2>2. QED BY <1>2, <2>1 DEF FastOK
  <1>5. \A q \in FastRuns \ {r} : base'[q] = base[q] /\ served'[q] = served[q] /\ flag'[q] = flag[q]
    BY <1>2
  <1>6. QED BY <1>2, <1>3, <1>4, <1>5, PlainKeeps

LEMMA QueueStepsKeep ==
    ASSUME Flow!IInv, NEW r \in Flow!Runs,
           Flow!Trigger(r) \/ Flow!PushAgain(r) \/ Flow!StartRun(r) \/ Flow!StartJob(r)
    PROVE  Flow!IInv'
  <1>1. Parts /\ again \subseteq FastRuns /\ OwnStep(r)
    BY SplitFlow DEF Parts, DataType
  <1>2. CASE Flow!Trigger(r) \/ Flow!PushAgain(r)
    <2>1. Moved(r) /\ stage'[r] = "run_wait"
      BY <1>2, ArriveMoves
    <2>2. OwnStep(r)' /\ stage'[r] \notin Flow!UploadSteps
      BY <2>1 DEF OwnStep, Flow!UploadSteps
    <2>3. stage[r] \in {"idle", "push_failed"}
      BY <1>2 DEF Flow!Trigger, Flow!PushAgain
    <2>4. again \subseteq again' /\ again' \subseteq FastRuns
      BY <1>1, <1>2 DEF OwnStep, Flow!Trigger, Flow!PushAgain
    <2>5. UNCHANGED <<Flow!ledgerVars, Flow!modelVars, Flow!schemaVars>>
      BY <1>2 DEF Flow!Trigger, Flow!PushAgain
    <2>6. stage[r] \notin Flow!UploadSteps \cup {"done", "cut"}
      BY <2>3 DEF Flow!UploadSteps
    <2>7. QED BY <2>1, <2>2, <2>4, <2>5, <2>6, QuietKeeps
  <1>3. CASE Flow!StartRun(r)
    <2>1. Moved(r) /\ stage'[r] = IF r \in again THEN "push_wait" ELSE "job_wait"
      BY <1>3, StartRunMoves
    <2>2. OwnStep(r)' /\ stage'[r] \notin Flow!UploadSteps
      BY <1>1, <2>1 DEF OwnStep, Flow!UploadSteps
    <2>3. again' = again /\ UNCHANGED <<Flow!ledgerVars, Flow!modelVars, Flow!schemaVars>>
      BY <1>3 DEF Flow!StartRun
    <2>4. stage[r] \notin Flow!UploadSteps \cup {"done", "cut"}
      BY <1>3 DEF Flow!StartRun, Flow!UploadSteps
    <2>5. stage'[r] \in {"push_wait", "push"} => r \in again'
      BY <2>1, <2>3
    <2>6. stage'[r] \notin Flow!UploadSteps \cup {"download", "probe", "agent"}
      BY <2>1, <2>2
    <2>7. QED BY <1>1, <2>1, <2>2, <2>3, <2>4, <2>5, <2>6, QuietKeeps
  <1>4. CASE Flow!StartJob(r)
    <2>1. Moved(r) /\ stage'[r] = FirstStep(r)
      BY <1>4, StartJobMoves
    <2>2. OwnStep(r)' /\ stage'[r] \notin Flow!UploadSteps \cup {"download", "probe", "agent"}
      BY <2>1 DEF OwnStep, FirstStep, Flow!UploadSteps, Flow!Runs
    <2>3. again' = again /\ UNCHANGED <<Flow!ledgerVars, Flow!modelVars, Flow!schemaVars>>
      BY <1>4 DEF Flow!StartJob
    <2>4. stage[r] \notin Flow!UploadSteps \cup {"done", "cut"}
      BY <1>4 DEF Flow!StartJob, Flow!UploadSteps
    <2>5. stage'[r] \notin {"push_wait", "push"}
      BY <2>1 DEF FirstStep
    <2>6. QED BY <1>1, <2>1, <2>2, <2>3, <2>4, <2>5, QuietKeeps
  <1>5. QED BY <1>2, <1>3, <1>4

LEMMA PushQueueKeeps ==
    ASSUME Flow!IInv, NEW r \in FastRuns, Flow!StartPush(r) \/ Flow!PushFails(r)
    PROVE  Flow!IInv'
  <1>1. Parts /\ again \subseteq FastRuns /\ r \in Flow!Runs
    BY SplitFlow, RunsOfFlow DEF Parts, DataType
  <1>2. again' = again /\ UNCHANGED <<Flow!ledgerVars, Flow!modelVars, Flow!schemaVars>>
    BY DEF Flow!StartPush, Flow!PushFails
  <1>3. stage[r] \in {"push_wait", "push"}
    BY DEF Flow!StartPush, Flow!PushFails
  <1>4. Moved(r) /\ stage'[r] \in {"push", "push_failed"}
    <2>1. CASE Flow!StartPush(r)
      BY <2>1, StartPushMoves
    <2>2. CASE Flow!PushFails(r)
      BY <1>1, <1>3, <2>2, FinishMoves DEF Flow!PushFails, Begun, Flow!EndSteps
    <2>3. QED BY <2>1, <2>2
  <1>5. /\ stage[r] \notin Flow!UploadSteps \cup {"done", "cut"}
        /\ stage'[r] \notin Flow!UploadSteps \cup {"download", "probe", "agent"}
    BY <1>3, <1>4 DEF Flow!UploadSteps
  <1>6. OwnStep(r)'
    BY <1>4, <1>5 DEF OwnStep
  <1>7. QED BY <1>1, <1>2, <1>3, <1>4, <1>5, <1>6, QuietKeeps

LEMMA EndMigrateKeeps ==
    ASSUME Flow!IInv, NEW r \in Flow!Runs, Flow!EndMigrate(r)
    PROVE  Flow!IInv'
  <1>1. Parts /\ again \subseteq FastRuns
    BY SplitFlow DEF Parts, DataType
  <1>2. /\ again' = again /\ UNCHANGED <<Flow!ledgerVars, Flow!modelVars, Flow!schemaVars>>
        /\ stage[r] = "migrate" /\ Flow!Finish(r, "done")
    BY DEF Flow!EndMigrate
  <1>3. Moved(r) /\ stage'[r] = "done"
    BY <1>2, FinishMoves DEF Begun, Flow!WritingSteps, Flow!EndSteps
  <1>4. /\ stage[r] \notin Flow!UploadSteps \cup {"done", "cut"}
        /\ stage'[r] \notin Flow!UploadSteps \cup {"download", "probe", "agent"}
    BY <1>2, <1>3 DEF Flow!UploadSteps
  <1>5. OwnStep(r)'
    BY <1>3, <1>4 DEF OwnStep
  <1>6. QED BY <1>1, <1>2, <1>3, <1>4, <1>5, QuietKeeps

(* The steps of a Fast Loop before its agent: each settles one of the      *)
(* things the agent relies on.                                             *)
LEMMA PrepareKeeps ==
    ASSUME Flow!IInv, NEW r \in FastRuns,
           Flow!Checkout(r) \/ Flow!Download(r) \/ Flow!evaluate_schema_gate(r)
    PROVE  Flow!IInv'
  <1>1. /\ Parts /\ DataType /\ FastOK(r) /\ r \in Flow!Runs
    BY SplitFlow, RunsOfFlow DEF Parts
  <1>2. Moved(r) /\ again' = again
    BY <1>1, WriterMoves
       DEF Flow!Checkout, Flow!Download, Flow!evaluate_schema_gate, Flow!WritingSteps
  <1>3. /\ stage[r] \in {"checkout", "download", "probe"}
        /\ stage'[r] \in {"download", "probe", "agent"}
    BY <1>1, WriterMoves
       DEF Flow!Checkout, Flow!Download, Flow!evaluate_schema_gate, Flow!WritingSteps
  <1>4. /\ ledger' = ledger /\ release' = release /\ accepted' = accepted
        /\ broken' = broken /\ schema' = schema
    BY DEF Flow!Checkout, Flow!Download, Flow!evaluate_schema_gate, Flow!modelVars,
           Flow!schemaVars, Flow!ledgerVars
  <1>5. DataType' /\ FastOK(r)'
    <2>1. CASE Flow!Checkout(r)
      <3>1. /\ stage'[r] = "download" /\ base' = [base EXCEPT ![r] = ledger]
            /\ served' = served /\ flag' = flag
        BY <1>1, <2>1, WriterMoves
           DEF Flow!Checkout, Flow!WritingSteps, Flow!modelVars, Flow!schemaVars
      <3>2. base' \in [FastRuns -> SUBSET FastRuns] /\ base'[r] = ledger
        BY <1>1, <3>1 DEF DataType
      <3>3. DataType'
        BY <1>1, <1>2, <1>4, <3>1, <3>2 DEF DataType
      <3>4. FastOK(r)'
        BY <1>4, <3>1, <3>2 DEF FastOK
      <3>5. QED BY <3>3, <3>4
    <2>2. CASE Flow!Download(r)
      <3>1. /\ stage[r] = "download" /\ stage'[r] = "probe" /\ base' = base /\ flag' = flag
            /\ \E ok \in BOOLEAN :
                  served' = [served EXCEPT ![r] = IF ok THEN release.weights ELSE NoThread]
        BY <1>1, <2>2, WriterMoves
           DEF Flow!Download, Flow!WritingSteps, Flow!ledgerVars, Flow!schemaVars
      <3>2. release.weights \in 0 .. accepted
        BY <1>1 DEF DataType
      <3>3. /\ served' \in [FastRuns -> (0 .. accepted) \cup {NoThread}]
            /\ served'[r] \in {release.weights, NoThread}
        BY <1>1, <3>1, <3>2 DEF DataType
      <3>4. DataType'
        BY <1>1, <1>2, <1>4, <3>1, <3>3 DEF DataType
      <3>5. release.weights = accepted \/ broken
        <4>1. \A q \in Flow!Runs : stage[q] \notin Flow!UploadSteps
          <5>1. \A q \in Flow!Runs : stage[q] \in Flow!WritingSteps => q = r
            BY <1>1, <3>1, WritersAlone DEF Flow!OneWriter, Flow!WritingSteps
          <5>2. QED BY <3>1, <5>1 DEF Flow!WritingSteps, Flow!UploadSteps
        <4>2. \/ release = [weights |-> accepted, sidecar |-> accepted, notes |-> accepted]
              \/ broken
          BY <1>1, <4>1 DEF Parts, Flow!ReleaseIsWhole
        <4>3. QED BY <4>2
      <3>6. FastOK(r)'
        BY <1>1, <1>2, <1>4, <3>1, <3>3, <3>5 DEF FastOK
      <3>7. QED BY <3>4, <3>6
    <2>3. CASE Flow!evaluate_schema_gate(r)
      <3>1. /\ stage[r] = "probe" /\ stage'[r] = "agent" /\ base' = base /\ served' = served
        BY <1>1, <2>3, WriterMoves
           DEF Flow!evaluate_schema_gate, Flow!WritingSteps, Flow!ledgerVars, Flow!modelVars
      <3>2. PICK answered \in BOOLEAN :
              flag' = [flag EXCEPT ![r] = IF ~answered THEN "unproved"
                                          ELSE IF Flow!flags_missing_migration(schema) THEN "off" ELSE "on"]
        BY <2>3 DEF Flow!evaluate_schema_gate
      <3>3. /\ flag' \in [FastRuns -> {"on", "off", "unproved"}]
            /\ flag'[r] # "unproved" => (flag'[r] = "on" <=> ~ Needed > schema)
        BY <1>1, <3>2 DEF DataType, Flow!flags_missing_migration
      <3>4. DataType'
        BY <1>1, <1>2, <1>4, <3>1, <3>3 DEF DataType
      <3>5. ~ (Needed > schema) <=> schema >= Needed
        BY <1>1, FilesAssumption DEF DataType
      <3>6. FastOK(r)'
        BY <1>1, <1>2, <1>4, <3>1, <3>3, <3>5 DEF FastOK
      <3>7. QED BY <3>4, <3>6
    <2>4. QED BY <2>1, <2>2, <2>3
  <1>6. \A q \in FastRuns \ {r} : base'[q] = base[q] /\ served'[q] = served[q] /\ flag'[q] = flag[q]
    BY <1>1 DEF DataType, Flow!Checkout, Flow!Download, Flow!evaluate_schema_gate,
                Flow!modelVars, Flow!schemaVars, Flow!ledgerVars
  <1>7. OwnStep(r)' /\ stage'[r] \notin Flow!UploadSteps /\ stage[r] \notin Flow!UploadSteps
    BY <1>3 DEF OwnStep, Flow!UploadSteps
  <1>8. stage[r] \notin {"done", "cut"}
    BY <1>3
  <1>9. QED BY <1>1, <1>2, <1>4, <1>5, <1>6, <1>7, <1>8, PlainKeeps

(* The runner goes: of its own run only. *)
LEMMA DiscardIs ==
    ASSUME DataType, NEW r \in Flow!Runs, Flow!Discard(r)
    PROVE  /\ served' \in [FastRuns -> (0 .. accepted) \cup {NoThread}]
           /\ flag' \in [FastRuns -> {"on", "off", "unproved"}]
           /\ \A q \in FastRuns \ {r} : served'[q] = served[q] /\ flag'[q] = flag[q]
  <1>1. /\ \A q \in FastRuns : served[q] \in (0 .. accepted) \cup {NoThread} /\ flag[q] \in {"on", "off", "unproved"}
        /\ 0 \in 0 .. accepted
    BY DEF DataType
  <1>2. QED BY <1>1 DEF Flow!Discard

LEMMA EndAgentKeeps ==
    ASSUME Flow!IInv, NEW r \in FastRuns, Flow!EndAgent(r)
    PROVE  Flow!IInv'
  <1>1. Parts /\ DataType /\ FastOK(r) /\ r \in Flow!Runs
    BY SplitFlow, RunsOfFlow DEF Parts
  <1>2. Moved(r) /\ stage'[r] \in {"push_wait", "done"} /\ stage[r] = "agent"
    BY EndAgentMoves DEF Flow!EndAgent
  <1>3. /\ again' = again /\ ledger' = ledger /\ base' = base /\ release' = release
        /\ accepted' = accepted /\ broken' = broken /\ schema' = schema /\ Flow!Discard(r)
    BY DEF Flow!EndAgent, Flow!ledgerVars
  <1>4. /\ served' \in [FastRuns -> (0 .. accepted) \cup {NoThread}]
        /\ flag' \in [FastRuns -> {"on", "off", "unproved"}]
        /\ \A q \in FastRuns \ {r} : served'[q] = served[q] /\ flag'[q] = flag[q]
    BY <1>1, <1>3, DiscardIs
  <1>5. DataType'
    BY <1>1, <1>3, <1>4 DEF DataType
  <1>6. FastOK(r)'
    BY <1>1, <1>2, <1>3 DEF FastOK
  <1>7. OwnStep(r)' /\ stage'[r] \notin Flow!UploadSteps /\ stage[r] \notin Flow!UploadSteps
    BY <1>2 DEF OwnStep, Flow!UploadSteps
  <1>8. QED BY <1>1, <1>2, <1>3, <1>4, <1>5, <1>6, <1>7, PlainKeeps

LEMMA CutKeeps ==
    ASSUME Flow!IInv, NEW r \in Flow!Runs, Flow!Cut(r)
    PROVE  Flow!IInv'
  <1>1. Parts /\ DataType
    BY SplitFlow DEF Parts
  <1>2. stage[r] \in Flow!WritingSteps /\ Flow!Finish(r, "cut") /\ Flow!Discard(r)
    BY DEF Flow!Cut
  <1>3. Moved(r) /\ stage'[r] = "cut"
    BY <1>2, FinishMoves DEF Begun, Flow!EndSteps
  <1>4. /\ again' = again /\ ledger' = ledger /\ base' = base /\ release' = release
        /\ accepted' = accepted /\ schema' = schema
        /\ broken' = (broken \/ stage[r] \in Flow!UploadSteps)
    BY DEF Flow!Cut, Flow!ledgerVars
  <1>5. /\ served' \in [FastRuns -> (0 .. accepted) \cup {NoThread}]
        /\ flag' \in [FastRuns -> {"on", "off", "unproved"}]
        /\ \A q \in FastRuns \ {r} : served'[q] = served[q] /\ flag'[q] = flag[q]
    BY <1>1, <1>2, DiscardIs
  <1>6. DataType'
    BY <1>1, <1>4, <1>5 DEF DataType
  <1>7. FastOK(r)' /\ OwnStep(r)' /\ stage'[r] \notin Flow!UploadSteps
    BY <1>3 DEF FastOK, OwnStep, Flow!UploadSteps
  <1>8. stage[r] \notin {"done", "cut"}
    BY <1>2 DEF Flow!WritingSteps, Flow!UploadSteps
  <1>9. (broken => broken') /\ (stage[r] \in Flow!UploadSteps => broken')
    BY <1>1, <1>4 DEF DataType
  <1>10. QED BY <1>1, <1>3, <1>4, <1>5, <1>6, <1>7, <1>8, <1>9, PlainKeeps

-----------------------------------------------------------------------------
(* Steps that extend what the runs share.  Nobody else is at work. *)

LEMMA PushKeeps ==
    ASSUME Flow!IInv, NEW r \in FastRuns, Flow!Push(r)
    PROVE  Flow!IInv'
  <1>1. Parts /\ DataType /\ r \in Flow!Runs
    BY SplitFlow, RunsOfFlow DEF Parts
  <1>2. /\ stage[r] = "push" /\ Flow!Finish(r, "done") /\ ledger' = ledger \cup base[r] \cup {r}
        /\ again' = again /\ base' = base /\ release' = release /\ accepted' = accepted
        /\ broken' = broken /\ served' = served /\ schema' = schema /\ flag' = flag
    BY DEF Flow!Push, Flow!modelVars, Flow!schemaVars
  <1>3. Moved(r) /\ stage'[r] = "done"
    BY <1>1, <1>2, FinishMoves DEF Begun, Flow!EndSteps
  <1>4. DataType'
    <2>1. ledger' \subseteq FastRuns
      BY <1>1, <1>2 DEF DataType
    <2>2. QED BY <1>1, <1>2, <2>1 DEF DataType
  <1>5. ASSUME NEW q \in Flow!Runs PROVE OwnStep(q)'
    <2>1. OwnStep(r)'
      BY <1>3 DEF OwnStep, Flow!UploadSteps
    <2>2. QED BY <1>1, <1>3, <2>1, OthersOK
  <1>6. ASSUME NEW q \in FastRuns PROVE FastOK(q)'
    <2>1. CASE q = r
      BY <1>3, <2>1 DEF FastOK
    <2>2. CASE q # r
      <3>1. stage'[q] \in Begun => stage'[q] = stage[q]
        BY <1>1, <1>3, <2>2, OthersOK, RunsOfFlow
      <3>2. stage[q] \notin Begun
        BY <1>2, <2>2, BegunAlone DEF Begun
      <3>3. stage'[q] \notin {"download", "probe", "agent", "push_wait", "push"}
        BY <3>1, <3>2 DEF Begun, Flow!WritingSteps
      <3>4. QED BY <3>3 DEF FastOK
    <2>3. QED BY <2>1, <2>2
  <1>7. ASSUME NEW q \in SlowRuns PROVE SlowOK(q)'
    <2>1. SlowOK(q) /\ q \in Flow!Runs
      BY <1>1, RunsOfFlow DEF Parts
    <2>2. stage'[q] \in {"sidecar", "put_sidecar", "notes"} => stage'[q] = stage[q]
      BY <1>1, <1>3, <2>1, OthersOK DEF Begun, Flow!WritingSteps, Flow!UploadSteps
    <2>3. QED BY <1>2, <2>1, <2>2 DEF SlowOK
  <1>8. Flow!ReleaseIsWhole'
    <2>1. SUFFICES ASSUME \A q \in Flow!Runs : stage'[q] \notin Flow!UploadSteps
                   PROVE  \/ release = [weights |-> accepted, sidecar |-> accepted, notes |-> accepted]
                          \/ broken
      BY <1>2 DEF Flow!ReleaseIsWhole
    <2>2. \A q \in Flow!Runs : stage[q] \notin Flow!UploadSteps
      BY <1>2, <1>3, <2>1 DEF Moved, Flow!UploadSteps
    <2>3. QED BY <1>1, <2>2 DEF Parts, Flow!ReleaseIsWhole
  <1>9. accepted' <= Cardinality(Flow!Trained')
    <2>1. Cardinality(Flow!Trained) <= Cardinality(Flow!Trained')
      BY <1>1, <1>2, <1>3, TrainedGrows
    <2>2. accepted \in Int /\ accepted <= Cardinality(Flow!Trained)
      BY <1>1 DEF Parts, DataType
    <2>3. QED BY <1>2, <2>1, <2>2, TrainedFinite, TrainedFiniteNext
  <1>10. Parts'
    BY <1>3, <1>4, <1>5, <1>6, <1>7, <1>8, <1>9 DEF Parts, Moved
  <1>11. QED BY <1>10, SplitFlowNext

(* Beside the step of a writing job every other run is before its work,    *)
(* after it, or on its way to the push.                                    *)
LEMMA BesideWriter ==
    ASSUME Flow!IInv, NEW r \in Flow!Runs, Moved(r), stage[r] \in Flow!WritingSteps,
           NEW q \in Flow!Runs, q # r
    PROVE  stage'[q] \notin Flow!WritingSteps /\ stage[q] \notin Flow!WritingSteps
  <1>1. stage[q] \notin Flow!WritingSteps
    BY WritersAlone DEF Flow!OneWriter
  <1>2. stage'[q] = stage[q] \/ stage'[q] = "displaced"
    BY DEF Moved
  <1>3. QED BY <1>1, <1>2 DEF Flow!WritingSteps, Flow!UploadSteps

(* A writing job's step that leaves the ledger alone. *)
LEMMA WriterKeeps ==
    ASSUME Flow!IInv, NEW r \in SlowRuns \cup Migrations, Moved(r), DataType',
           stage[r] \in Flow!WritingSteps,
           UNCHANGED <<again, ledger, base>>,
           OwnStep(r)', r \in SlowRuns => SlowOK(r)',
           Flow!ReleaseIsWhole', accepted' <= Cardinality(Flow!Trained')
    PROVE  Flow!IInv'
  <1>1. Parts /\ r \in Flow!Runs /\ r \notin FastRuns
    BY SplitFlow, RunsOfFlow, RunsAssumption DEF Parts
  <1>2. ASSUME NEW q \in Flow!Runs PROVE OwnStep(q)'
    BY <1>1, OthersOK
  <1>3. ASSUME NEW q \in FastRuns PROVE FastOK(q)'
    <2>1. q \in Flow!Runs /\ q # r /\ FastOK(q)
      BY <1>1, RunsOfFlow DEF Parts
    <2>2. stage'[q] \notin Flow!WritingSteps
      BY <1>1, <2>1, BesideWriter
    <2>3. stage'[q] \notin {"download", "probe", "agent"}
      BY <2>2 DEF Flow!WritingSteps
    <2>4. stage'[q] \in {"push_wait", "push"} => stage'[q] = stage[q]
      BY <1>1, <2>1, OthersOK DEF Begun
    <2>5. QED BY <2>1, <2>3, <2>4 DEF FastOK
  <1>4. ASSUME NEW q \in SlowRuns PROVE SlowOK(q)'
    <2>1. q \in Flow!Runs
      BY RunsOfFlow
    <2>2. CASE q = r
      BY <2>2
    <2>3. CASE q # r
      <3>1. stage'[q] \notin Flow!WritingSteps
        BY <1>1, <2>1, <2>3, BesideWriter
      <3>2. QED BY <3>1 DEF SlowOK, Flow!WritingSteps, Flow!UploadSteps
    <2>4. QED BY <2>2, <2>3
  <1>5. Parts'
    BY <1>2, <1>3, <1>4 DEF Parts, Moved
  <1>6. QED BY <1>5, SplitFlowNext

LEMMA ApplyFileKeeps ==
    ASSUME Flow!IInv, NEW r \in Migrations, Flow!ApplyFile(r)
    PROVE  Flow!IInv'
  <1>1. Parts /\ DataType /\ r \in Flow!Runs
    BY SplitFlow, RunsOfFlow DEF Parts
  <1>2. /\ stage[r] = "migrate" /\ schema < LastFile /\ schema' = schema + 1
        /\ stage' = stage /\ group' = group /\ again' = again /\ ledger' = ledger /\ base' = base
        /\ release' = release /\ accepted' = accepted /\ broken' = broken /\ served' = served
        /\ flag' = flag
    BY DEF Flow!ApplyFile, Flow!queueVars, Flow!ledgerVars, Flow!modelVars
  <1>3. Moved(r)
    BY <1>1, <1>2, Queued DEF Moved
  <1>4. DataType'
    <2>1. schema' \in 0 .. LastFile
      BY <1>1, <1>2, FilesAssumption DEF DataType
    <2>2. QED BY <1>1, <1>2, <2>1 DEF DataType
  <1>5. OwnStep(r)' /\ stage[r] \in Flow!WritingSteps
    BY <1>1, <1>2 DEF Parts, OwnStep, Flow!WritingSteps
  <1>6. r \in SlowRuns => SlowOK(r)'
    BY <1>2 DEF SlowOK
  <1>7. Flow!ReleaseIsWhole' /\ accepted' <= Cardinality(Flow!Trained')
    <2>1. Flow!Trained' = Flow!Trained
      BY <1>2 DEF Flow!Trained
    <2>2. QED BY <1>1, <1>2, <2>1 DEF Parts, Flow!ReleaseIsWhole
  <1>8. QED BY <1>2, <1>3, <1>4, <1>5, <1>6, <1>7, WriterKeeps

(* A model passes the gate: it is the first of its run. *)
LEMMA AcceptKeeps ==
    ASSUME Flow!IInv, NEW r \in SlowRuns, Flow!Train(r), accepted' = accepted + 1,
           broken' = FALSE, Flow!Goto(r, "upload")
    PROVE  Flow!IInv'
  <1>1. Parts /\ DataType /\ r \in Flow!Runs
    BY SplitFlow, RunsOfFlow DEF Parts
  <1>2. /\ stage[r] = "train" /\ again' = again /\ ledger' = ledger /\ base' = base
        /\ release' = release /\ served' = served /\ schema' = schema /\ flag' = flag
    BY DEF Flow!Train, Flow!ledgerVars, Flow!schemaVars
  <1>3. Moved(r) /\ stage'[r] = "upload" /\ stage[r] \in Flow!WritingSteps
    BY <1>1, <1>2, WriterMoves DEF Flow!WritingSteps, Flow!UploadSteps
  <1>4. accepted \in Nat /\ accepted <= Cardinality(Flow!Trained) /\ Cardinality(SlowRuns) \in Nat
    BY <1>1, RunsAssumption, FS_CardinalityType DEF Parts, DataType
  <1>5. accepted' <= Cardinality(Flow!Trained')
    <2>1. Flow!Trained \subseteq Flow!Trained'
      BY <1>1, <1>2, <1>3, TrainedGrows DEF Flow!UploadSteps
    <2>2. r \notin Flow!Trained /\ r \in Flow!Trained'
      BY <1>2, <1>3 DEF Flow!Trained, Flow!UploadSteps
    <2>3. Cardinality(Flow!Trained \cup {r}) = Cardinality(Flow!Trained) + 1
      BY <2>2, TrainedFinite, FS_AddElement
    <2>4. Cardinality(Flow!Trained \cup {r}) <= Cardinality(Flow!Trained')
      BY <2>1, <2>2, TrainedFiniteNext, FS_Subset
    <2>5. QED BY <1>4, <2>3, <2>4, TrainedFinite, TrainedFiniteNext
  <1>6. DataType'
    <2>1. accepted' \in 0 .. Cardinality(SlowRuns)
      BY <1>4, <1>5, TrainedFiniteNext
    <2>2. 0 .. accepted \subseteq 0 .. accepted'
      BY <1>4
    <2>3. /\ release' \in [weights : 0 .. accepted', sidecar : 0 .. accepted', notes : 0 .. accepted']
          /\ served' \in [FastRuns -> (0 .. accepted') \cup {NoThread}]
      <3> DEFINE S == 0 .. accepted
                 T == 0 .. accepted'
      <3>1. release \in [weights : S, sidecar : S, notes : S] /\ served \in [FastRuns -> S \cup {NoThread}]
        BY <1>1 DEF DataType
      <3>2. S \subseteq T
        BY <2>2
      <3> HIDE DEF S, T
      <3>3. release' \in [weights : T, sidecar : T, notes : T] /\ served' \in [FastRuns -> T \cup {NoThread}]
        BY <1>2, <3>1, <3>2
      <3>4. QED BY <3>3 DEF T
    <2>4. QED BY <1>1, <1>2, <2>1, <2>3 DEF DataType
  <1>7. OwnStep(r)' /\ SlowOK(r)' /\ stage'[r] \in Flow!UploadSteps
    BY <1>3 DEF OwnStep, SlowOK, Flow!UploadSteps
  <1>8. Flow!ReleaseIsWhole'
    BY <1>1, <1>7 DEF Flow!ReleaseIsWhole
  <1>9. QED BY <1>2, <1>3, <1>5, <1>6, <1>7, <1>8, WriterKeeps

LEMMA TrainKeeps ==
    ASSUME Flow!IInv, NEW r \in SlowRuns, Flow!Train(r)
    PROVE  Flow!IInv'
  <1>1. CASE accepted' = accepted + 1 /\ broken' = FALSE /\ Flow!Goto(r, "upload")
    BY <1>1, AcceptKeeps
  <1>2. CASE UNCHANGED <<accepted, broken>> /\ Flow!Finish(r, "done")
    <2>1. Parts /\ DataType /\ r \in Flow!Runs /\ r \notin FastRuns
      BY SplitFlow, RunsOfFlow, RunsAssumption DEF Parts
    <2>2. /\ stage[r] = "train" /\ again' = again /\ ledger' = ledger /\ base' = base
          /\ release' = release /\ served' = served /\ schema' = schema /\ flag' = flag
          /\ accepted' = accepted /\ broken' = broken
      BY <1>2 DEF Flow!Train, Flow!ledgerVars, Flow!schemaVars
    <2>3. Moved(r) /\ stage'[r] = "done"
      BY <1>2, <2>1, <2>2, FinishMoves DEF Begun, Flow!WritingSteps, Flow!EndSteps
    <2>4. DataType'
      BY <2>1, <2>2 DEF DataType
    <2>5. OwnStep(r)' /\ stage'[r] \notin Flow!UploadSteps /\ stage[r] \notin Flow!UploadSteps
      BY <2>2, <2>3 DEF OwnStep, Flow!UploadSteps
    <2>6. QED BY <2>1, <2>2, <2>3, <2>4, <2>5, PlainKeeps
  <1>3. QED BY <1>1, <1>2 DEF Flow!Train

(* --clobber, asset by asset, of the run that uploads. *)
LEMMA ClobberKeeps ==
    ASSUME Flow!IInv, NEW r \in SlowRuns, Flow!Clobber(r)
    PROVE  Flow!IInv'
  <1>1. Parts /\ DataType /\ r \in Flow!Runs /\ SlowOK(r)
    BY SplitFlow, RunsOfFlow DEF Parts
  <1>2. /\ again' = again /\ ledger' = ledger /\ base' = base
        /\ accepted' = accepted /\ broken' = broken /\ served' = served
        /\ schema' = schema /\ flag' = flag
    BY DEF Flow!Clobber, Flow!ledgerVars, Flow!schemaVars
  <1>3. /\ release \in [weights : 0 .. accepted, sidecar : 0 .. accepted, notes : 0 .. accepted]
        /\ accepted \in 0 .. accepted /\ 0 \in 0 .. accepted
    BY <1>1 DEF DataType
  <1>4. /\ release' \in [weights : 0 .. accepted, sidecar : 0 .. accepted, notes : 0 .. accepted]
        /\ Moved(r) /\ stage'[r] \in {"put", "sidecar", "put_sidecar", "notes"}
        /\ SlowOK(r)' /\ stage[r] \in Flow!UploadSteps
    <2> DEFINE S == 0 .. accepted
    <2>1. release \in [weights : S, sidecar : S, notes : S] /\ accepted \in S /\ 0 \in S
      BY <1>3
    <2> HIDE DEF S
    <2>2. CASE stage[r] = "upload" /\ release' = Flow!DeleteWeights /\ Flow!Goto(r, "put")
      <3>1. release' \in [weights : S, sidecar : S, notes : S]
        BY <2>1, <2>2 DEF Flow!DeleteWeights
      <3>2. Moved(r) /\ stage'[r] = "put" /\ stage[r] \in Flow!UploadSteps
        BY <1>1, <2>2, WriterMoves DEF Flow!WritingSteps, Flow!UploadSteps
      <3>3. QED BY <3>1, <3>2 DEF S, SlowOK
    <2>3. CASE stage[r] = "put" /\ release' = [release EXCEPT !.weights = accepted]
               /\ Flow!Goto(r, "sidecar")
      <3>1. release' \in [weights : S, sidecar : S, notes : S] /\ release'.weights = accepted
        BY <2>1, <2>3
      <3>2. Moved(r) /\ stage'[r] = "sidecar" /\ stage[r] \in Flow!UploadSteps
        BY <1>1, <2>3, WriterMoves DEF Flow!WritingSteps, Flow!UploadSteps
      <3>3. QED BY <1>2, <3>1, <3>2 DEF S, SlowOK
    <2>4. CASE stage[r] = "sidecar" /\ release' = [release EXCEPT !.sidecar = 0]
               /\ Flow!Goto(r, "put_sidecar")
      <3>1. release' \in [weights : S, sidecar : S, notes : S] /\ release'.weights = release.weights
        BY <2>1, <2>4
      <3>2. Moved(r) /\ stage'[r] = "put_sidecar" /\ stage[r] \in Flow!UploadSteps
        BY <1>1, <2>4, WriterMoves DEF Flow!WritingSteps, Flow!UploadSteps
      <3>3. QED BY <1>1, <1>2, <2>4, <3>1, <3>2 DEF S, SlowOK
    <2>5. CASE stage[r] = "put_sidecar" /\ release' = [release EXCEPT !.sidecar = accepted]
               /\ Flow!Goto(r, "notes")
      <3>1. /\ release' \in [weights : S, sidecar : S, notes : S]
            /\ release'.weights = release.weights /\ release'.sidecar = accepted
        BY <2>1, <2>5
      <3>2. Moved(r) /\ stage'[r] = "notes" /\ stage[r] \in Flow!UploadSteps
        BY <1>1, <2>5, WriterMoves DEF Flow!WritingSteps, Flow!UploadSteps
      <3>3. QED BY <1>1, <1>2, <2>5, <3>1, <3>2 DEF S, SlowOK
    <2>6. QED BY <2>2, <2>3, <2>4, <2>5 DEF Flow!Clobber
  <1>5. DataType'
    BY <1>1, <1>2, <1>4 DEF DataType
  <1>6. OwnStep(r)' /\ stage'[r] \in Flow!UploadSteps /\ stage[r] \in Flow!WritingSteps
    BY <1>4 DEF OwnStep, Flow!UploadSteps, Flow!WritingSteps
  <1>7. Flow!ReleaseIsWhole'
    BY <1>1, <1>6 DEF Flow!ReleaseIsWhole
  <1>8. accepted' <= Cardinality(Flow!Trained')
    <2>1. Cardinality(Flow!Trained) <= Cardinality(Flow!Trained')
      BY <1>1, <1>4, <1>6, TrainedGrows
    <2>2. accepted \in Int /\ accepted <= Cardinality(Flow!Trained)
      BY <1>1 DEF Parts, DataType
    <2>3. QED BY <1>2, <2>1, <2>2, TrainedFinite, TrainedFiniteNext
  <1>9. QED BY <1>2, <1>4, <1>5, <1>6, <1>7, <1>8, WriterKeeps

(* With its notes the release is whole again. *)
LEMMA EditNotesKeeps ==
    ASSUME Flow!IInv, NEW r \in SlowRuns, Flow!EditNotes(r)
    PROVE  Flow!IInv'
  <1>1. Parts /\ DataType /\ r \in Flow!Runs /\ SlowOK(r)
    BY SplitFlow, RunsOfFlow DEF Parts
  <1>2. /\ stage[r] = "notes" /\ release' = [release EXCEPT !.notes = accepted]
        /\ Flow!Finish(r, "done") /\ again' = again /\ ledger' = ledger /\ base' = base
        /\ accepted' = accepted /\ broken' = broken /\ served' = served
        /\ schema' = schema /\ flag' = flag
    BY DEF Flow!EditNotes, Flow!ledgerVars, Flow!schemaVars
  <1>3. Moved(r) /\ stage'[r] = "done" /\ stage[r] \in Flow!WritingSteps
    BY <1>1, <1>2, FinishMoves DEF Begun, Flow!WritingSteps, Flow!UploadSteps, Flow!EndSteps
  <1>4. /\ release \in [weights : 0 .. accepted, sidecar : 0 .. accepted, notes : 0 .. accepted]
        /\ accepted \in 0 .. accepted
        /\ release.weights = accepted /\ release.sidecar = accepted
    BY <1>1, <1>2 DEF DataType, SlowOK
  <1>5. release' = [weights |-> accepted, sidecar |-> accepted, notes |-> accepted]
    BY <1>2, <1>4
  <1>6. DataType'
    <2>1. release' \in [weights : 0 .. accepted, sidecar : 0 .. accepted, notes : 0 .. accepted]
      BY <1>4, <1>5
    <2>2. QED BY <1>1, <1>2, <2>1 DEF DataType
  <1>7. Flow!ReleaseIsWhole'
    BY <1>2, <1>5 DEF Flow!ReleaseIsWhole
  <1>8. OwnStep(r)' /\ SlowOK(r)'
    BY <1>3 DEF OwnStep, SlowOK, Flow!UploadSteps
  <1>9. accepted' <= Cardinality(Flow!Trained')
    <2>1. Cardinality(Flow!Trained) <= Cardinality(Flow!Trained')
      BY <1>1, <1>3, TrainedGrows
    <2>2. accepted \in Int /\ accepted <= Cardinality(Flow!Trained)
      BY <1>1 DEF Parts, DataType
    <2>3. QED BY <1>2, <2>1, <2>2, TrainedFinite, TrainedFiniteNext
  <1>10. QED BY <1>2, <1>3, <1>6, <1>7, <1>8, <1>9, WriterKeeps

LEMMA RunKeepsFlow ==
    ASSUME Flow!IInv, NEW r \in Flow!Runs,
           Flow!Trigger(r) \/ Flow!PushAgain(r) \/ Flow!Progress(r)
    PROVE  Flow!IInv'
  BY QueueStepsKeep, PrepareKeeps, EndAgentKeeps, PushQueueKeeps, PushKeeps,
     TrainKeeps, ClobberKeeps, EditNotesKeeps, ApplyFileKeeps, EndMigrateKeeps, CutKeeps
     DEF Flow!Progress

LEMMA FlowInit == Flow!Init => Flow!IInv
  <1> SUFFICES ASSUME Flow!Init PROVE Flow!IInv
    OBVIOUS
  <1>1. /\ stage = [r \in Flow!Runs |-> "idle"]
        /\ group = [g \in Flow!Groups |-> [holder |-> NoThread, pending |-> NoThread]]
        /\ accepted = 0 /\ again = {} /\ ledger = {} /\ broken = FALSE /\ schema = 0
        /\ base = [r \in FastRuns |-> {}] /\ served = [r \in FastRuns |-> 0]
        /\ flag = [r \in FastRuns |-> "on"]
        /\ release = [weights |-> 0, sidecar |-> 0, notes |-> 0]
    BY DEF Flow!Init
  <1>2. group \in GroupTable /\ stage \in [Flow!Runs -> Flow!Stages]
    BY <1>1 DEF GroupTable, Flow!Stages
  <1>3. Flow!QueuesOK(group, stage)
    <2>1. ASSUME NEW g \in Flow!Groups, NEW r \in Flow!Runs
          PROVE  stage[r] \notin Flow!Holding(g, r) /\ group[g].holder # r /\ group[g].pending # r
      <3>1. stage[r] = "idle"
        BY <1>1
      <3>2. group[g].holder = NoThread /\ group[g].pending = NoThread /\ r # NoThread
        BY <1>1, NoThreadIsNoRun
      <3>3. stage[r] \notin Flow!Holding(g, r)
        BY <3>1, HoldingIs, Names DEF Flow!WritingSteps, Flow!UploadSteps
      <3>4. QED BY <3>2, <3>3
    <2>2. QED BY <1>1, <2>1 DEF Flow!QueuesOK, Flow!IsIn
  <1>4. DataType
    <2>1. Cardinality(SlowRuns) \in Nat
      BY RunsAssumption, FS_CardinalityType
    <2>2. accepted \in 0 .. Cardinality(SlowRuns) /\ schema \in 0 .. LastFile /\ 0 \in 0 .. accepted
      BY <1>1, <2>1, FilesAssumption
    <2>3. release \in [weights : 0 .. accepted, sidecar : 0 .. accepted, notes : 0 .. accepted]
      BY <1>1, <2>2
    <2>4. served \in [FastRuns -> (0 .. accepted) \cup {NoThread}]
      BY <1>1, <2>2
    <2>5. QED BY <1>1, <2>2, <2>3, <2>4 DEF DataType
  <1>5. /\ \A r \in Flow!Runs : OwnStep(r)
        /\ \A r \in FastRuns : FastOK(r)
        /\ \A r \in SlowRuns : SlowOK(r)
    BY <1>1, RunsOfFlow DEF OwnStep, FastOK, SlowOK, Flow!UploadSteps
  <1>6. Flow!ReleaseIsWhole
    BY <1>1 DEF Flow!ReleaseIsWhole
  <1>7. accepted <= Cardinality(Flow!Trained)
    BY <1>1, TrainedFinite
  <1>8. QED BY <1>2, <1>3, <1>4, <1>5, <1>6, <1>7, SplitFlow DEF Parts

-----------------------------------------------------------------------------
(* The behaviours in which one component is watched. *)

Watching == OfThreads(Next) \/ OfRuns(Flow!Next)

LEMMA WatchedIsSafe == FairQueues => MCInit /\ [][Watching]_allVars
  BY PTL DEF FairQueues, Watching

LEMMA FlowNext == Flow!IInv /\ [Watching]_allVars => Flow!IInv'
  <1> SUFFICES ASSUME Flow!IInv, [Watching]_allVars PROVE Flow!IInv'
    OBVIOUS
  <1>1. CASE Flow!Next
    BY <1>1, RunKeepsFlow DEF Flow!Next
  <1>2. CASE UNCHANGED flowVars
    <2>1. /\ stage' = stage /\ again' = again /\ group' = group /\ ledger' = ledger /\ base' = base
          /\ release' = release /\ accepted' = accepted /\ broken' = broken /\ served' = served
          /\ schema' = schema /\ flag' = flag
      BY <1>2 DEF flowVars
    <2>2. Parts
      BY SplitFlow
    <2>3. Parts'
      <3>1. DataType' /\ Flow!Trained' = Flow!Trained /\ Flow!ReleaseIsWhole'
        BY <2>1, <2>2 DEF Parts, DataType, Flow!Trained, Flow!ReleaseIsWhole
      <3>2. /\ \A r \in Flow!Runs : OwnStep(r)'
            /\ \A r \in FastRuns : FastOK(r)'
            /\ \A r \in SlowRuns : SlowOK(r)'
        BY <2>1, <2>2 DEF Parts, OwnStep, FastOK, SlowOK
      <3>3. QED BY <2>1, <2>2, <3>1, <3>2 DEF Parts
    <2>4. QED BY <2>3, SplitFlowNext
  <1>3. QED BY <1>1, <1>2 DEF Watching, OfThreads, OfRuns, allVars

LEMMA ThreadsNext == IInv /\ [Watching]_allVars => IInv'
  <1>1. [Watching]_allVars => [Next]_vars
    BY DEF Watching, OfThreads, OfRuns, allVars
  <1>2. QED BY <1>1, NextIInv

(* The invariants of both components hold of every behaviour, with any     *)
(* number of threads and of runs, whichever is watched.                    *)
THEOREM QueuesInvariant == FairQueues => [](IInv /\ Flow!IInv)
  <1>1. MCInit => IInv /\ Flow!IInv
    BY InitIInv, FlowInit DEF MCInit
  <1>2. QED BY <1>1, FlowNext, ThreadsNext, WatchedIsSafe, PTL

(* Types of both components. *)
THEOREM QueuesTypes == FairQueues => []TypesOK
  <1>1. IInv /\ Flow!IInv => TypesOK
    BY DEF IInv, Flow!IInv, TypesOK
  <1>2. QED BY <1>1, QueuesInvariant, PTL

(* NIEZ-27, WIA-14: whatever is cut, displaced or started again, one job at*)
(* a time writes to the database, and the first push of a run meets the    *)
(* ledger its agent read.                                                  *)
THEOREM WritersTakeTurns == FairQueues => []OneAtATime
  <1>1. Flow!IInv => OneAtATime
    <2> SUFFICES ASSUME Flow!IInv PROVE OneAtATime
      OBVIOUS
    <2>1. Flow!OneWriter
      BY WritersAlone
    <2>2. Flow!FirstPushIsFastForward
      BY DEF Flow!IInv, Flow!BaseIsLedger, Flow!FirstPushIsFastForward
    <2>3. QED BY <2>1, <2>2 DEF OneAtATime
  <1>2. QED BY <1>1, QueuesInvariant, PTL

(* CI-13, ML-22: an agent predicts with the last model that passed the     *)
(* gate, or with none when its download failed, and between uploads        *)
(* weights, sidecar and notes are of one model, unless the upload of that  *)
(* very model was cut short.                                               *)
THEOREM ReleaseStaysWhole == FairQueues => []ReleaseIsServedWhole
  <1>1. Flow!IInv => ReleaseIsServedWhole
    BY DEF Flow!IInv, ReleaseIsServedWhole
  <1>2. QED BY <1>1, QueuesInvariant, PTL

(* NIEZ-30: no migration lands between the probe of a run and its last     *)
(* write, for any number of migrations and any one the flag needs.         *)
THEOREM FlagsMatch == FairQueues => []FlagMatchesSchema
  <1>1. Flow!IInv => FlagMatchesSchema
    BY DEF Flow!IInv, FlagMatchesSchema
  <1>2. QED BY <1>1, QueuesInvariant, PTL

(* Only a run that waits is displaced. *)
LEMMA DisplacedWaited ==
    ASSUME Flow!IInv, [Watching]_allVars, NEW q \in Flow!Runs,
           stage'[q] = "displaced", stage[q] # "displaced"
    PROVE  stage[q] \in {"run_wait", "job_wait"}
  <1>1. stage' # stage
    OBVIOUS
  <1>2. Flow!Next
    BY <1>1 DEF Watching, OfThreads, OfRuns, allVars, flowVars
  <1>3. PICK r \in Flow!Runs : Flow!Trigger(r) \/ Flow!PushAgain(r) \/ Flow!Progress(r)
    BY <1>2 DEF Flow!Next
  <1>4. ASSUME Moved(r), stage'[r] # "displaced" PROVE stage[q] \in {"run_wait", "job_wait"}
    BY <1>4 DEF Moved
  <1>5. CASE Flow!Trigger(r) \/ Flow!PushAgain(r)
    BY <1>4, <1>5, ArriveMoves
  <1>6. CASE Flow!StartRun(r)
    BY <1>4, <1>6, StartRunMoves
  <1>7. CASE Flow!StartJob(r)
    BY <1>4, <1>7, StartJobMoves DEF FirstStep
  <1>8. CASE r \in FastRuns /\ (Flow!EndAgent(r) \/ Flow!StartPush(r))
    BY <1>4, <1>8, EndAgentMoves, StartPushMoves
  <1>9. ASSUME NEW s \in Flow!WritingSteps \cup {"done", "cut", "push_failed"},
               stage[r] \in Begun, Flow!Goto(r, s) \/ Flow!Finish(r, s)
        PROVE  stage[q] \in {"run_wait", "job_wait"}
    <2>1. stage' = [stage EXCEPT ![r] = s] /\ stage \in [Flow!Runs -> Flow!Stages]
      BY <1>9, Queued DEF Flow!Goto, Flow!Finish
    <2>2. s # "displaced"
      BY <1>9 DEF Flow!WritingSteps, Flow!UploadSteps
    <2>3. QED BY <2>1, <2>2
  <1>10. CASE r \in FastRuns /\ (\/ Flow!Checkout(r) \/ Flow!Download(r)
                                 \/ Flow!evaluate_schema_gate(r) \/ Flow!Push(r)
                                 \/ Flow!PushFails(r))
    BY <1>9, <1>10 DEF Flow!Checkout, Flow!Download, Flow!evaluate_schema_gate, Flow!Push,
       Flow!PushFails, Flow!WritingSteps, Begun
  <1>11. CASE r \in SlowRuns /\ (Flow!Train(r) \/ Flow!Clobber(r) \/ Flow!EditNotes(r))
    BY <1>9, <1>11 DEF Flow!Train, Flow!Clobber, Flow!EditNotes, Flow!WritingSteps,
       Flow!UploadSteps, Begun
  <1>12. CASE r \in Migrations /\ Flow!ApplyFile(r)
    BY <1>1, <1>12 DEF Flow!ApplyFile, Flow!queueVars
  <1>13. CASE (r \in Migrations /\ Flow!EndMigrate(r)) \/ Flow!Cut(r)
    BY <1>9, <1>13 DEF Flow!EndMigrate, Flow!Cut, Flow!WritingSteps, Begun
  <1>14. QED
    BY <1>3, <1>5, <1>6, <1>7, <1>8, <1>10, <1>11, <1>12, <1>13 DEF Flow!Progress

(* Which step extends the ledger. *)
LEMMA LinesStay ==
    ASSUME [Watching]_allVars PROVE ledger \subseteq ledger'
  <1>1. CASE Flow!Next
    <2>1. PICK r \in Flow!Runs : Flow!Trigger(r) \/ Flow!PushAgain(r) \/ Flow!Progress(r)
      BY <1>1 DEF Flow!Next
    <2>2. CASE Flow!Push(r)
      BY <2>2 DEF Flow!Push
    <2>3. CASE ~ Flow!Push(r)
      BY <2>1, <2>3 DEF Flow!Trigger, Flow!PushAgain, Flow!Progress, Flow!StartRun, Flow!StartJob,
         Flow!Checkout, Flow!Download, Flow!evaluate_schema_gate, Flow!EndAgent, Flow!StartPush,
         Flow!PushFails, Flow!Train, Flow!Clobber, Flow!EditNotes, Flow!ApplyFile,
         Flow!EndMigrate, Flow!Cut, Flow!ledgerVars
    <2>4. QED BY <2>2, <2>3
  <1>2. CASE UNCHANGED flowVars
    BY <1>2 DEF flowVars
  <1>3. QED BY <1>1, <1>2 DEF Watching, OfThreads, OfRuns, allVars

(* FIN-18, WIA-14: no push loses a line of the ledger, and the queues      *)
(* displace only what has not begun.                                       *)
THEOREM BegunIsKept == FairQueues => NothingBegunIsLost
  <1>1. Flow!IInv /\ [Watching]_allVars => [ledger \subseteq ledger']_Flow!workflowVars
    BY LinesStay
  <1>2. Flow!IInv /\ [Watching]_allVars =>
           [\A r \in Flow!Runs : stage'[r] = "displaced" /\ stage[r] # "displaced"
                                    => stage[r] \in {"run_wait", "job_wait"}]_Flow!workflowVars
    BY DisplacedWaited
  <1>3. QED
    BY <1>1, <1>2, QueuesInvariant, WatchedIsSafe, PTL
       DEF NothingBegunIsLost, Flow!LedgerKeepsLines, Flow!QueueSparesTheBegun
=============================================================================
