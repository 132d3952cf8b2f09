---------------------------- MODULE SpendWindows ----------------------------
(***************************************************************************)
(* The caps in USD of the day and of the month.  A Fast Loop sums the      *)
(* ledger llm_calls once, before it pays; both loops book what they paid   *)
(* in one insert at their end, on the day of the insert.  A run that dies, *)
(* or whose insert fails, books nothing.  Runs exclude each other by the   *)
(* group of the writing workflows.                                         *)
(***************************************************************************)
EXTENDS Integers, FiniteSets, FiniteSetsExt

CONSTANTS None,
          CapPairs,        \* caps of the day and the month, None without one
          MaxCost,         \* what one run can pay (CycleBudget bounds it)
          MonthStarts,     \* the days of the instance a month begins on
          LastBooked,      \* bound: days
          MaxRuns          \* bound: runs

(* Caps and MaxCost are natural numbers, the first day begins a month.     *)

VARIABLES caps,
          date,
          booked,     \* day -> sum of cost_usd of the rows created on it
          spender,    \* None or the run: loop, its day, what it paid so far
          fast_paid,  \* history: day -> paid by the Fast Loops begun on it
          untold,     \* history: day -> the part the ledger never saw, or
                      \* that was paid without reading it
          n_runs

vars == <<caps, date, booked, spender, fast_paid, untold, n_runs>>

Dates == 1 .. LastBooked
Nothing == [d \in Dates |-> 0]

Init ==
    /\ caps \in CapPairs
    /\ date = 1 /\ booked = Nothing /\ spender = None
    /\ fast_paid = Nothing /\ untold = Nothing /\ n_runs = 0

-----------------------------------------------------------------------------
budget_exceeded(spent, cap) == cap # None /\ spent >= cap

budget_window_start(window, now) ==
    IF window = "day" THEN now ELSE Max({d \in MonthStarts : d <= now})

(* A sum, unit by unit: the pairs of a day and one of the units of f on it.*)
Units(f, days) == UNION {{d} \X (1 .. f[d]) : d \in days}
Total(f, days) == Cardinality(Units(f, days))

get_llm_cost_since(since) == Total(booked, since .. LastBooked)

Exhausted(window) ==
    budget_exceeded(get_llm_cost_since(budget_window_start(window, date)),
                    caps[window])

(* What the check says when the reads of some windows fail: the day comes  *)
(* before the month, a failed read opens the run, a window without a cap   *)
(* is not read.                                                            *)
find_budget_breach(failing) ==
    LET unread(window) == caps[window] # None /\ window \in failing
    IN  CASE unread("day") -> "blind"
          [] ~unread("day") /\ Exhausted("day") -> "spent"
          [] ~unread("day") /\ ~Exhausted("day") /\ unread("month") -> "blind"
          [] OTHER -> IF Exhausted("month") THEN "spent" ELSE "open"

-----------------------------------------------------------------------------
Begin(loop, check) ==
    /\ spender = None /\ n_runs < MaxRuns
    /\ spender' = [loop |-> loop, check |-> check, day |-> date, paid |-> 0]
    /\ n_runs' = n_runs + 1
    /\ UNCHANGED <<caps, date, booked, fast_paid, untold>>

BeginFast ==
    \E failing \in SUBSET {"day", "month"} :
        Begin("fast", find_budget_breach(failing))

(* The caps are not asked before the jobs of the Slow Loop.                *)
BeginSlow == Begin("slow", "open")

Pay ==
    /\ spender # None /\ spender.check # "spent" /\ spender.paid < MaxCost
    /\ spender' = [spender EXCEPT !.paid = @ + 1]
    /\ fast_paid' = IF spender.loop = "slow" THEN fast_paid
                    ELSE [fast_paid EXCEPT ![spender.day] = @ + 1]
    /\ untold' = IF spender.loop = "slow" \/ spender.check # "blind" THEN untold
                 ELSE [untold EXCEPT ![spender.day] = @ + 1]
    /\ UNCHANGED <<caps, date, booked, n_runs>>

persist_llm_calls ==
    /\ spender # None
    /\ booked' = [booked EXCEPT ![date] = @ + spender.paid]
    /\ spender' = None
    /\ UNCHANGED <<caps, date, fast_paid, untold, n_runs>>

(* The insert fails, or the run was ended before it.                       *)
RowsLost ==
    /\ spender # None
    /\ untold' = IF spender.loop = "slow" \/ spender.check # "open" THEN untold
                 ELSE [untold EXCEPT ![spender.day] = @ + spender.paid]
    /\ spender' = None
    /\ UNCHANGED <<caps, date, booked, fast_paid, n_runs>>

Midnight ==
    /\ date < LastBooked
    /\ date' = date + 1
    /\ UNCHANGED <<caps, booked, spender, fast_paid, untold, n_runs>>

Next ==
    \/ BeginFast
    \/ BeginSlow
    \/ Pay
    \/ persist_llm_calls
    \/ RowsLost
    \/ Midnight
    \/ /\ date = LastBooked /\ n_runs = MaxRuns   \* the bounds
       /\ spender = None
       /\ UNCHANGED vars

Spec == Init /\ [][Next]_vars

-----------------------------------------------------------------------------
TypeOK ==
    /\ caps \in CapPairs /\ date \in Dates /\ n_runs \in 0 .. MaxRuns
    /\ booked \in [Dates -> 0 .. MaxRuns * MaxCost]
    /\ fast_paid \in [Dates -> 0 .. MaxRuns * MaxCost]
    /\ untold \in [Dates -> 0 .. MaxRuns * MaxCost]
    /\ spender # None =>
          spender \in [loop : {"fast", "slow"}, day : Dates, paid : 0 .. MaxCost,
                       check : {"open", "spent", "blind"}]

MonthFrom(m) == {d \in Dates : budget_window_start("month", d) = m}

(* A cap of 0 lets nothing through.                                        *)
Within(days, cap) ==
    \/ cap = None
    \/ Total(fast_paid, days) <=
          (IF cap = 0 THEN 0 ELSE cap - 1 + MaxCost) + Total(untold, days)

(* configuration.md, daily_llm_budget_usd: the last admitted run may cross *)
(* the cap by its own cost.  What the Fast Loops begun in a window pay is  *)
(* therefore within the cap and one run, but for what the ledger was not   *)
(* told or not asked, also when runs book after midnight.                  *)
SpendWithinWindow ==
    /\ \A d \in Dates : Within({d}, caps.day)
    /\ \A m \in MonthStarts : Within(MonthFrom(m), caps.month)

(* The inductive invariant.  Of a window of days and the day its rows are  *)
(* read from: what the Fast Loops begun in it paid was booked since that   *)
(* day, is untold, or is still in hand; a run in hand found less booked    *)
(* than the cap.                                                           *)
Spender == [loop : {"fast", "slow"}, check : {"open", "spent", "blind"}, day : Dates,
            paid : 0 .. MaxCost]

Admitted(days) ==
    spender # None /\ spender.loop = "fast" /\ spender.check = "open" /\ spender.day \in days

InHand(days) == IF Admitted(days) THEN spender.paid ELSE 0

AllBooked(days, since) ==
    Total(fast_paid, days)
        <= Total(booked, since .. LastBooked) + Total(untold, days) + InHand(days)

AdmittedBelow(days, window) ==
    Admitted(days) /\ caps[window] # None =>
        /\ caps[window] > 0
        /\ Total(fast_paid, days) <= caps[window] - 1 + spender.paid + Total(untold, days)

WindowOK(days, since, window) ==
    AllBooked(days, since) /\ AdmittedBelow(days, window) /\ Within(days, caps[window])

Ended == IF spender = None THEN n_runs ELSE n_runs - 1

CountsOK(d) ==
    /\ booked[d] <= Ended * MaxCost
    /\ fast_paid[d] <= Ended * MaxCost + (IF spender = None THEN 0 ELSE spender.paid)
    /\ untold[d] + InHand({d}) <= fast_paid[d]

SpenderOK ==
    spender # None =>
        /\ spender \in Spender /\ spender.day <= date /\ n_runs > 0
        /\ spender.check = "spent" => spender.paid = 0

BookkeepingOK ==
    /\ caps \in CapPairs /\ date \in Dates /\ n_runs \in 0 .. MaxRuns
    /\ booked \in [Dates -> Nat] /\ fast_paid \in [Dates -> Nat] /\ untold \in [Dates -> Nat]
    /\ SpenderOK
    /\ \A d \in Dates : CountsOK(d)

WindowsOK ==
    /\ \A d \in Dates : WindowOK({d}, d, "day")
    /\ \A m \in MonthStarts : WindowOK(MonthFrom(m), m, "month")

IInv == BookkeepingOK /\ WindowsOK
=============================================================================
