--------------------------- MODULE FinnhubClient ---------------------------
(***************************************************************************)
(* The calls that the threads of one process send to finnhub.io: each call *)
(* of an adapter takes a slot of the RateLimiter they share (DAT-12), asks *)
(* the host's circuit in CircuitBreakerRegistry (NIEZ-31), and then is     *)
(* sent, again after a 5xx or a lost connection, by the retries of urllib3 *)
(* below both of them.                                                     *)
(*                                                                         *)
(* Time passes between any two steps: the clock says when a step happens,  *)
(* and a step that waits (a sleep, a reply) lets it pass.  The limiter     *)
(* sleeps while it holds its lock.                                         *)
(***************************************************************************)
EXTENDS Integers, Sequences, FiniteSets

CONSTANTS Threads,           \* symbol_concurrency workers
          Calls,             \* calls of each thread
          Rate,              \* rate_per_minute
          Window,            \* _RATE_WINDOW_SECONDS
          FailureThreshold,  \* CIRCUIT_FAILURE_THRESHOLD
          RetryTotal,        \* RETRY_TOTAL
          MaxClock,          \* bound: time passes it only for a sleeper
          NoThread           \* nobody holds the limiter's lock

ASSUME SizesAssumption ==
    /\ Calls \in Nat /\ Rate \in Nat \ {0} /\ Window \in Nat \ {0}
    /\ FailureThreshold \in Nat \ {0} /\ RetryTotal \in Nat /\ MaxClock \in Nat
    /\ NoThread \notin Threads

(* The pool of a process has at least one worker. *)
ASSUME ThreadsAssumption == IsFiniteSet(Threads) /\ Threads # {}

VARIABLES clock,    \* time.monotonic
          granted,  \* RateLimiter._granted
          lock,     \* holder of RateLimiter._lock
          now,      \* `now` of each thread's acquire
          wake,     \* the moment a thread's sleep ends
          at,       \* where each thread is
          tries,    \* retries a request has left
          left,     \* calls a thread has still to make
          circuit,  \* _HostCircuit of finnhub.io
          grants,   \* history: every moment appended to _granted
          late      \* history: requests sent with the circuit open

limiter == <<granted, lock, now, wake>>
request == <<tries, left>>
history == <<grants, late>>
vars == <<clock, limiter, at, request, circuit, history>>

InLimiter == {"window", "asleep"}
Places == {"idle", "granted", "send", "reply"} \cup InLimiter

HostCircuit == [consecutive_failures : Nat, is_open : BOOLEAN, skipped_calls : Nat]

Goto(t, place) == at' = [at EXCEPT ![t] = place]

-----------------------------------------------------------------------------
Init ==
    /\ clock = 0 /\ granted = <<>> /\ lock = NoThread
    /\ now = [t \in Threads |-> 0]
    /\ wake = [t \in Threads |-> 0]
    /\ at = [t \in Threads |-> "idle"]
    /\ tries = [t \in Threads |-> 0]
    /\ left = [t \in Threads |-> Calls]
    /\ circuit = [consecutive_failures |-> 0, is_open |-> FALSE, skipped_calls |-> 0]
    /\ grants = <<>> /\ late = 0

(* RateLimiter.acquire: under the lock, the clock is read, what left the   *)
(* window is forgotten, and while the window is full the thread sleeps.    *)
ForgetAll(moment) == \* mutant: a fixed window, emptied when its first grant leaves it
    granted' = IF granted # <<>> /\ granted[1] <= moment THEN <<>> ELSE granted

forget_up_to(moment) ==
    \E k \in 0 .. Len(granted) :
        /\ \A i \in 1 .. k : granted[i] <= moment
        /\ k < Len(granted) => granted[k + 1] > moment
        /\ granted' = SubSeq(granted, k + 1, Len(granted))

FullAboveRate == \* mutant: > for >=
    Len(granted) > Rate

Full == Len(granted) >= Rate

ReadClock(t) ==
    /\ now' = [now EXCEPT ![t] = clock]
    /\ forget_up_to(clock - Window)

AcquireAtOnce(t) == \* mutant: the lock is taken whoever holds it
    /\ at[t] = "idle" /\ left[t] > 0
    /\ lock' = t
    /\ ReadClock(t)
    /\ Goto(t, "window")
    /\ UNCHANGED <<clock, wake, request, circuit, history>>

Acquire(t) ==
    /\ at[t] = "idle" /\ left[t] > 0
    /\ lock = NoThread
    /\ lock' = t
    /\ ReadClock(t)
    /\ Goto(t, "window")
    /\ UNCHANGED <<clock, wake, request, circuit, history>>

Sleep(t) ==
    /\ at[t] = "window" /\ Full
    /\ wake' = [wake EXCEPT ![t] = clock + granted[1] + Window - now[t]]
    /\ Goto(t, "asleep")
    /\ UNCHANGED <<clock, granted, lock, now, request, circuit, history>>

Wake(t) ==
    /\ at[t] = "asleep" /\ clock >= wake[t]
    /\ ReadClock(t)
    /\ Goto(t, "window")
    /\ UNCHANGED <<clock, lock, wake, request, circuit, history>>

GrantKeepsLock(t) == \* mutant: the lock is given back only by a thread that slept
    /\ at[t] = "window" /\ ~ Full
    /\ granted' = Append(granted, now[t])
    /\ grants' = Append(grants, now[t])
    /\ lock' = IF wake[t] = 0 THEN lock ELSE NoThread
    /\ Goto(t, "granted")
    /\ now' = [now EXCEPT ![t] = 0] /\ wake' = [wake EXCEPT ![t] = 0]
    /\ UNCHANGED <<clock, request, circuit, late>>

Grant(t) ==
    /\ at[t] = "window" /\ ~ Full
    /\ granted' = Append(granted, now[t])
    /\ grants' = Append(grants, now[t])
    /\ lock' = NoThread
    /\ Goto(t, "granted")
    /\ now' = [now EXCEPT ![t] = 0] /\ wake' = [wake EXCEPT ![t] = 0]
    /\ UNCHANGED <<clock, request, circuit, late>>

-----------------------------------------------------------------------------
(* before_request: an open circuit ends the call without traffic. *)
EndCall(t) ==
    /\ Goto(t, "idle")
    /\ left' = [left EXCEPT ![t] = @ - 1]

OpenAtThreshold == \* mutant: the circuit is open while the count is the threshold
    circuit.is_open /\ circuit.consecutive_failures = FailureThreshold

IsOpen == circuit.is_open

Skip(t) ==
    /\ at[t] = "granted" /\ IsOpen
    /\ circuit' = [circuit EXCEPT !.skipped_calls = @ + 1]
    /\ EndCall(t)
    /\ UNCHANGED <<clock, limiter, tries, history>>

Admit(t) ==
    /\ at[t] = "granted" /\ ~ IsOpen
    /\ tries' = [tries EXCEPT ![t] = RetryTotal]
    /\ Goto(t, "send")
    /\ UNCHANGED <<clock, limiter, left, circuit, history>>

Transmit(t) ==
    /\ at[t] = "send"
    /\ late' = IF circuit.is_open THEN late + 1 ELSE late
    /\ Goto(t, "reply")
    /\ UNCHANGED <<clock, limiter, request, circuit, grants>>

(* A 5xx of RETRY_SERVER_ERRORS, a lost connection or a timeout is sent    *)
(* again by urllib3: the limiter and the circuit do not see it.            *)
Retry(t) ==
    /\ at[t] = "reply" /\ tries[t] > 0
    /\ tries' = [tries EXCEPT ![t] = @ - 1]
    /\ Goto(t, "send")
    /\ UNCHANGED <<clock, limiter, left, circuit, history>>

(* Any answer below 500, a 429 too. *)
record_success(t) ==
    /\ at[t] = "reply"
    /\ circuit' = IF circuit.is_open THEN circuit
                  ELSE [circuit EXCEPT !.consecutive_failures = 0]
    /\ EndCall(t)
    /\ UNCHANGED <<clock, limiter, tries, history>>

(* The last retry failed, or a 5xx that is not on the list to be retried. *)
record_failure(t) ==
    /\ at[t] = "reply"
    /\ LET failures == circuit.consecutive_failures + 1
       IN  circuit' = [consecutive_failures |-> failures,
                       is_open |-> circuit.is_open \/ failures >= FailureThreshold,
                       skipped_calls |-> circuit.skipped_calls]
    /\ EndCall(t)
    /\ UNCHANGED <<clock, limiter, tries, history>>

Tick ==
    /\ clock < MaxClock \/ \E t \in Threads : at[t] = "asleep" /\ clock < wake[t]
    /\ clock' = clock + 1
    /\ UNCHANGED <<limiter, at, request, circuit, history>>

ThreadStep(t) ==
    \/ Acquire(t) \/ Sleep(t) \/ Wake(t) \/ Grant(t)
    \/ Skip(t) \/ Admit(t) \/ Transmit(t)
    \/ Retry(t) \/ record_success(t) \/ record_failure(t)

Next == Tick \/ \E t \in Threads : ThreadStep(t)

Spec == Init /\ [][Next]_vars

(* Time passes and a thread that can go on does: a reply comes or the      *)
(* request times out.                                                      *)
Fairness == WF_vars(Tick) /\ \A t \in Threads : WF_vars(ThreadStep(t))

FairSpec == Spec /\ Fairness

-----------------------------------------------------------------------------
TypeOK ==
    /\ clock \in Nat /\ now \in [Threads -> Nat] /\ wake \in [Threads -> Nat]
    /\ granted \in Seq(Nat) /\ Len(granted) <= Rate
    /\ lock \in Threads \cup {NoThread}
    /\ at \in [Threads -> Places]
    /\ tries \in [Threads -> 0 .. RetryTotal]
    /\ left \in [Threads -> 0 .. Calls]
    /\ circuit \in HostCircuit
    /\ grants \in Seq(Nat) /\ late \in Nat

(* DAT-12: no window of Window seconds, wherever it starts, holds more     *)
(* than Rate grants, whichever threads took them and however late they     *)
(* woke.                                                                   *)
GrantsInWindow ==
    \A i \in 1 .. Len(grants) - Rate : grants[i + Rate] - grants[i] >= Window

(* Why GrantsInWindow holds: the deque is the end of the history, and what *)
(* it no longer holds had left the window when the thread in acquire last  *)
(* read the clock.                                                         *)
Forgotten == Len(grants) - Len(granted)

WindowInv ==
    /\ Len(granted) <= Len(grants)
    /\ \A i \in 1 .. Len(granted) : granted[i] = grants[Forgotten + i]
    /\ \A i \in 1 .. Forgotten : grants[i] + Window <= clock
    /\ \A t \in Threads : at[t] \in InLimiter =>
           /\ now[t] <= clock
           /\ \A i \in 1 .. Forgotten : grants[i] + Window <= now[t]

(* The lock is held by the thread that is in acquire, asleep or not. *)
LockInv == \A t \in Threads : at[t] \in InLimiter => lock = t

(* A thread that is on its way has a call to make. *)
CallInv == \A t \in Threads : at[t] # "idle" => left[t] > 0

(* The inductive invariant: one thread at a time moves the window, and a   *)
(* grant keeps its distance to the Rate-th grant before it.                *)
IInv == TypeOK /\ LockInv /\ CallInv /\ WindowInv /\ GrantsInWindow

(* NIEZ-31: once the circuit opened, the only requests that still reach    *)
(* the host are the attempts of the threads that had passed the check:     *)
(* later failures and answers of theirs do not close it.                   *)
OpenStaysOpen ==
    late <= (Cardinality(Threads) - 1) * (RetryTotal + 1)

(* Why it holds: Attempts(t) is what t may still send of the call that     *)
(* passed the check; the failure that opens the circuit ends a call, so    *)
(* one of the threads has none left.                                       *)
Attempts(t) == CASE at[t] = "send" -> tries[t] + 1
                 [] at[t] = "reply" -> tries[t]
                 [] OTHER -> 0

Outstanding == {a \in Threads \X (1 .. RetryTotal + 1) : a[2] <= Attempts(a[1])}

LateInv ==
    /\ ~ circuit.is_open => late = 0
    /\ circuit.is_open =>
          late + Cardinality(Outstanding) <= (Cardinality(Threads) - 1) * (RetryTotal + 1)

(* No call waits for ever: a sleeper gives the lock back, and every thread *)
(* gets its slots and its answers.                                         *)
EveryCallEnds == \A t \in Threads : <>(left[t] = 0)
=============================================================================
