------------------------------ MODULE DeadMan ------------------------------
(***************************************************************************)
(* The dead man's switch (main_deadman.py, domain/liveness.py): once a day *)
(* it compares the newest trace of the Fast Loop and of the Slow Loop with *)
(* what the schedule lets it expect.  Time is UTC, in minutes; a day of    *)
(* the exchange begins at midnight ET.                                     *)
(*   calendar             the days NYSE is open, the day the clocks change *)
(*   limits               liveness_fast_loop_max_gap_h and _slow_loop_,    *)
(*                        in minutes; 0 is a job that is paused            *)
(*   clock                now                                              *)
(*   fast_seen, slow_seen newest price snapshot, newest model scorecard    *)
(*   report               what the run of the switch told                  *)
(***************************************************************************)
EXTENDS Integers, FiniteSets, FiniteSetsExt

CONSTANTS None,
          LastDay,                  \* bound on the calendar
          Closures,                 \* sets of days on which NYSE may be closed
          GapChoices                \* [fast, slow]: the limits in hours

VARIABLES calendar, limits, clock, fast_seen, slow_seen, report

vars == <<calendar, limits, clock, fast_seen, slow_seen, report>>

Days == 0..LastDay                          \* day 0 is a Monday
Day == 1440
Weekday(d) == d % 7
Weekdays == {d \in Days : Weekday(d) < 5}
Sundays == {d \in Days : Weekday(d) = 6}

(* Midnight ET is 5 hours behind UTC in winter, 4 in summer; the clocks    *)
(* change on a Sunday after midnight.                                      *)
Midnight(d) ==
    Day * d + 60 * (IF d <= calendar.switch THEN calendar.offset ELSE 9 - calendar.offset)

Calendars ==
    {[trading |-> Weekdays \ holidays, switch |-> s, offset |-> o] :
        holidays \in Closures, s \in Sundays, o \in {4, 5}}

Limits == {[fast |-> 60 * gap.fast, slow |-> 60 * gap.slow] : gap \in GapChoices}

(* Minutes of the day at which something happens: a run by hand while it   *)
(* is still yesterday in New York, the weekly cron, the daily cron, the    *)
(* switch, and runs that GitHub started late.                              *)
Slots == {120, 180, 330, 557, 720}
Now == clock % Day
Today == clock \div Day

Told(how, named) == [how |-> how, named |-> named]
Silence == Told(None, {})

Init ==
    /\ calendar \in Calendars
    /\ limits \in Limits
    /\ clock = 120
    /\ fast_seen = None /\ slow_seen = None /\ report = Silence

Later == {Day * Today + m : m \in {n \in Slots : n > Now}}
Tomorrow == IF Today < LastDay THEN Day * (Today + 1) + 120 ELSE clock

(* Cron starts no run, a run dies before it leaves a trace: time passes,   *)
(* until the calendar ends.                                                *)
Pass ==
    /\ clock' = IF Later /= {} THEN Min(Later) ELSE Tomorrow
    /\ report' = Silence
    /\ UNCHANGED <<calendar, limits, fast_seen, slow_seen>>

(* The Risk Watch and the nodes of the graph save snapshots.  A paused job *)
(* is not scheduled.                                                       *)
FastLoop ==
    /\ limits.fast > 0 /\ Now \in {120, 330, 720}
    /\ fast_seen' = clock
    /\ UNCHANGED <<calendar, limits, clock, slow_seen, report>>

SlowLoop ==
    /\ limits.slow > 0 /\ Now \in {180, 720} /\ Today \in Sundays
    /\ slow_seen' = clock
    /\ UNCHANGED <<calendar, limits, clock, fast_seen, report>>

-----------------------------------------------------------------------------
is_overdue(last_seen, max_gap) == last_seen = None \/ clock - last_seen > max_gap

due_slots(grace) == {Midnight(d) : d \in {e \in calendar.trading : Midnight(e) + grace <= clock}}

(* Before the first slot of the calendar nothing was due.                  *)
is_overdue_on_trading_days(last_seen, grace) ==
    last_seen = None \/ \E slot \in due_slots(grace) : last_seen < slot

overdue_jobs ==
    (IF limits.fast > 0 /\ is_overdue_on_trading_days(fast_seen, limits.fast) THEN {"fast_loop"} ELSE {})
    \cup (IF limits.slow > 0 /\ is_overdue(slow_seen, limits.slow) THEN {"slow_loop"} ELSE {})

Check == Now = 557 /\ report = Silence /\ UNCHANGED <<calendar, limits, clock, fast_seen, slow_seen>>

(* A mail that fails is exit 1, and the workflow sends one of its own.     *)
Mail(named) == \E how \in {"mail", "exit_1"} : report' = Told(how, named)

ProbeFails == Check /\ Mail({"database"})

ReadFails == Check /\ limits.fast + limits.slow > 0 /\ report' = Told("exit_1", {"traces"})

Compare == Check /\ IF overdue_jobs = {} THEN report' = Told("calm", {}) ELSE Mail(overdue_jobs)

Next == Pass \/ FastLoop \/ SlowLoop \/ ProbeFails \/ ReadFails \/ Compare

Spec == Init /\ [][Next]_vars

-----------------------------------------------------------------------------
(* Properties. *)

(* The day of the exchange a moment belongs to.                            *)
ExchangeDay(t) == IF t < Midnight(t \div Day) THEN (t \div Day) - 1 ELSE t \div Day

PreviousTradingDay(d) == Max({e \in calendar.trading : e < d})

(* The calendar and the limits are those the switch was started with; a    *)
(* report is one of the ways the switch can end.                           *)
TypeOK ==
    /\ calendar \in Calendars
    /\ fast_seen \in 0..clock \cup {None} /\ slow_seen \in 0..clock \cup {None}
    /\ report.how \in {None, "calm", "mail", "exit_1"}
    /\ report.how = "mail" => report.named /= {}

Compared == report.how /= None /\ report.named \cap {"database", "traces"} = {}

(* When the traces were compared: the Fast Loop is named exactly when it   *)
(* left none on the last trading day before today nor since, over          *)
(* weekends, holidays and changes of the clock; the Slow Loop not for a    *)
(* week after a Sunday's run, and always two days after a missed one.  A   *)
(* paused job is never named.                                              *)
SilenceIsTold ==
    Compared /\ Today > 0 =>
        /\ ("fast_loop" \in report.named) =
              /\ limits.fast > 0
              /\ \/ fast_seen = None
                 \/ ExchangeDay(fast_seen) < PreviousTradingDay(Today)
        /\ "slow_loop" \in report.named =>
              limits.slow > 0 /\ (slow_seen = None \/ Today - slow_seen \div Day > 7)
        /\ limits.slow > 0 /\ (slow_seen = None \/ Today - slow_seen \div Day > 8)
              => "slow_loop" \in report.named

(* The inductive invariant.  The switch reports at the time it runs, and   *)
(* what it names is what is overdue at that time.                          *)
ReportOK ==
    report # Silence =>
        /\ Now = 557
        /\ report.how \in {"calm", "mail", "exit_1"}
        /\ report.how = "mail" => report.named # {}
        /\ report.named \in {overdue_jobs, {"database"}, {"traces"}}

SlowSlotOK == slow_seen # None => slow_seen % Day \in {180, 720}

IInv ==
    /\ TypeOK
    /\ clock \in Nat /\ Now \in Slots /\ Today <= LastDay
    /\ limits \in Limits
    /\ SlowSlotOK
    /\ ReportOK
=============================================================================
