----------------------------- MODULE ShockWatch -----------------------------
(***************************************************************************)
(* The shock watch (main_watch.scan_watch): an hourly job that looks at    *)
(* the free prices of the symbols, pushes an alert for a sudden move and   *)
(* then records it in shock_alerts, from which the next run knows what     *)
(* was already sent.  The job is one of a concurrency group that cancels   *)
(* the run in progress, so a run can die between the push and the row.     *)
(*                                                                         *)
(* One symbol and the portfolio alert (PORTFOLIO_ALERT_SYMBOL) stand for   *)
(* the list: alerts of two symbols share nothing but the run.  A move is   *)
(* counted in thresholds: 1 is a shock, 2 reaches the next rung.  Time is  *)
(* counted in quarters of a UTC day since the midnight before the start; a *)
(* stock trades in the last two of each, so that two of its alerts on days *)
(* that follow each other may be less than 24 h apart.                     *)
(***************************************************************************)
EXTENDS Integers, Sequences, FiniteSets

CONSTANTS Configs,    \* kind of the symbol, whether it is held, flag of the ladder;
                      \* bounds: last quarter, number of alerts, changes of the price
          Prices,     \* in thresholds
          FirstPrices,
          None

VARIABLES conf,      \* the configuration of the job, never changed
          time,      \* the quarter
          price,     \* of the symbol
          trades,    \* number of changes of the price
          past,      \* the prices at the end of the last six quarters
          snapshot,  \* the Fast Loop's last price_snapshots row: price and time
          alerts,    \* rows of shock_alerts
          log,       \* history: the alerts pushed, in order
          faulty,    \* history: alert dates on which a read, a row or a run was lost
          run        \* the run in progress, or None

market == <<price, trades, past>>
vars == <<conf, time, market, snapshot, alerts, log, faulty, run>>

-----------------------------------------------------------------------------
(* Calendar. *)
QuartersPerDay == 4
ROLLING_CHANGE_WINDOW == QuartersPerDay                  \* 24 h
SNAPSHOT_MAX_AGE == QuartersPerDay + 1                   \* 30 h
MAX_SHOCK_ALERTS_PER_DAY == 2
SHOCK_ESCALATION_MULTIPLIER == 2

Day(t) == t \div QuartersPerDay
InSession(t) == t % QuartersPerDay >= 2
Midnight(t) == t - (t % QuartersPerDay) - 1  \* the last quarter of the day before
Noon == 2

Times == Noon .. conf.horizon
Days == {Day(t) : t \in Times}
Work == {"symbol", "portfolio"}
Directions == {"UP", "DOWN"}
Rungs == [level : 1 .. MAX_SHOCK_ALERTS_PER_DAY, direction : Directions]
Rows == [key : Work, date : Days, level : 1 .. MAX_SHOCK_ALERTS_PER_DAY,
         direction : Directions, created_at : Times]
Pushes == [key : Work, date : Days, level : 1 .. MAX_SHOCK_ALERTS_PER_DAY,
           direction : Directions, double : BOOLEAN, moment : Times,
           basis : {"daily", "snapshot", "weights"}, since : Int, until : Times]

Abs(n) == IF n < 0 THEN -n ELSE n
DirectionOf(delta) == IF delta < 0 THEN "DOWN" ELSE "UP"

-----------------------------------------------------------------------------
(* Repository reads. *)
get_sent_shock_alerts(today) == {r.key : r \in {a \in alerts : a.date >= today}}

get_shock_alert_times(since) == {a.created_at : a \in {b \in alerts :
                                    b.key = "symbol" /\ b.created_at >= since}}

get_shock_alert_levels(today) ==
    {[level |-> r.level, direction |-> r.direction] :
        r \in {a \in alerts : a.date = today /\ a.key = "symbol"}}

(* Domain predicates. *)
is_reference_stale(age) == age > SNAPSHOT_MAX_AGE

AnyQuote(as_of, moment) == TRUE \* mutant: the quote of another day counts

is_daily_change_fresh(as_of, moment) == Day(as_of) = Day(moment)

NeverAlerted(times, moment) == FALSE \* mutant: no 24 h window for crypto

is_move_already_alerted(times, moment) ==
    \E t \in times : moment - t < ROLLING_CHANGE_WINDOW

AnyMove(delta, rungs) == \* mutant: the second alert needs no larger move
    rungs = {} \/ Cardinality(rungs) < MAX_SHOCK_ALERTS_PER_DAY

should_escalate(delta, rungs) ==
    \/ rungs = {}
    \/ /\ Cardinality(rungs) < MAX_SHOCK_ALERTS_PER_DAY
       /\ LET last == CHOOSE r \in rungs : \A q \in rungs : q.level <= r.level
          IN  \/ DirectionOf(delta) # last.direction
              \/ Abs(delta) >= SHOCK_ESCALATION_MULTIPLIER

next_shock_level(rungs) == 1 + (IF rungs = {} THEN 0 ELSE
    CHOOSE n \in {r.level : r \in rungs} : \A r \in rungs : r.level <= n)

-----------------------------------------------------------------------------
Init ==
    /\ conf \in Configs
    /\ time = Noon
    /\ price \in FirstPrices
    /\ trades = 0
    /\ past = [i \in 1 .. 6 |-> price]
    /\ snapshot = None
    /\ alerts = {}
    /\ log = <<>>
    /\ faulty = {}
    /\ run = None

(* The world.  A run lasts ten minutes at most: it can see one quarter end,*)
(* midnight among them.  It reads a price and a snapshot once, so that they*)
(* change between runs loses nothing.                                      *)
Tick ==
    /\ time < conf.horizon
    /\ run # None => run.moment = time
    /\ time' = time + 1
    /\ past' = [i \in 1 .. 6 |-> IF i = 6 THEN price ELSE past[i + 1]]
    /\ UNCHANGED <<conf, price, trades, snapshot, alerts, log, faulty, run>>

Trade(p) ==
    /\ run = None
    /\ p # price
    /\ conf.kind = "stock" => InSession(time)
    /\ trades < conf.trades
    /\ trades' = trades + 1
    /\ price' = p
    /\ UNCHANGED <<conf, time, past, snapshot, alerts, log, faulty, run>>

(* The Fast Loop records the price it has just fetched, once a quarter.    *)
FastLoopSnapshot ==
    /\ run = None
    /\ snapshot # None => snapshot.at # time
    /\ snapshot' = [price |-> price, at |-> time]
    /\ UNCHANGED <<conf, time, market, alerts, log, faulty, run>>

-----------------------------------------------------------------------------
(* A run reads what was sent today, the alert times of 24 h (crypto only)  *)
(* and the rungs of the day (ladder only).  A read that fails degrades: no *)
(* debounce, no window, one alert a day.                                   *)
Start(history, window, levels) ==
    /\ run = None
    /\ window \/ conf.kind = "crypto"
    /\ levels \/ conf.ladder
    /\ history \/ (window /\ levels /\ faulty = {})
    /\ window \/ (levels /\ faulty = {})
    /\ LET today == Day(time)
           sent == IF history THEN get_sent_shock_alerts(today) ELSE {}
       IN  run' = [moment |-> time,
                   node |-> "symbol",
                   already_sent |-> sent,
                   alert_times |-> IF window /\ conf.kind = "crypto"
                                   THEN get_shock_alert_times(time - ROLLING_CHANGE_WINDOW)
                                   ELSE {},
                   sent_levels |-> IF levels /\ conf.ladder
                                   THEN get_shock_alert_levels(today) ELSE {},
                   ladder |-> levels /\ conf.ladder,
                   portfolio |-> conf.held /\ "portfolio" \notin sent,
                   delta |-> None,
                   pushed |-> None]
    /\ faulty' = IF history /\ window THEN faulty ELSE faulty \cup {Day(time)}
    /\ UNCHANGED <<conf, time, market, snapshot, alerts, log>>

At(node) == run # None /\ run.node = node
Today == Day(run.moment)

Emit == "symbol" \notin run.already_sent
Escalating ==
    /\ ~ Emit
    /\ run.ladder
    /\ Cardinality(run.sent_levels) \in 1 .. MAX_SHOCK_ALERTS_PER_DAY - 1
MeasureOnly == ~ Emit /\ ~ Escalating

(* A quote made now; a stock is quoted at its last trade, so before the    *)
(* session the quote is yesterday's.  The day's change is that of the last *)
(* 24 h for a crypto, for a stock that since the close before the session  *)
(* of the quote, the price at the midnight before it.                      *)
AsOf == IF conf.kind = "crypto" \/ InSession(time) THEN time ELSE Midnight(time)
DailySince == IF conf.kind = "crypto" THEN time - ROLLING_CHANGE_WINDOW ELSE Midnight(AsOf)
EndOf(t) == past[t - time + 7]

(* What the run makes of the symbol: a delta, where it is from, and when   *)
(* the move it measures began and ended.                                   *)
Daily == [basis |-> "daily", delta |-> price - EndOf(DailySince), since |-> DailySince, until |-> AsOf]
Snapshot == [basis |-> "snapshot", delta |-> price - snapshot.price,
             since |-> snapshot.at, until |-> AsOf]

UsableDaily == is_daily_change_fresh(AsOf, run.moment)
UsableSnapshot == snapshot # None /\ ~ is_reference_stale(run.moment - snapshot.at)

ToPortfolio(delta) ==
    run' = [run EXCEPT !.node = "portfolio", !.delta = IF run.portfolio THEN delta ELSE None]

(* A shock that is reported: past the window of a crypto, the threshold    *)
(* and, for the second alert of the day, the ladder.                       *)
Reportable(reading) ==
    /\ ~ MeasureOnly
    /\ ~ /\ reading.basis = "daily" /\ conf.kind = "crypto" /\ ~ Escalating
         /\ is_move_already_alerted(run.alert_times, run.moment)
    /\ Abs(reading.delta) >= 1
    /\ Escalating => should_escalate(reading.delta, run.sent_levels)

Push(key, level, reading) ==
    log' = Append(log, [key |-> key, date |-> Today, level |-> level,
                        direction |-> DirectionOf(reading.delta),
                        double |-> Abs(reading.delta) >= SHOCK_ESCALATION_MULTIPLIER,
                        moment |-> run.moment, basis |-> reading.basis,
                        since |-> reading.since, until |-> reading.until])

(* Already alerted and not held, without a reference, or any read raises.  *)
SkipSymbol ==
    /\ At("symbol")
    /\ ToPortfolio(None)
    /\ UNCHANGED <<conf, time, market, snapshot, alerts, log, faulty>>

(* The daily change of a quote of today, or the snapshot when the source   *)
(* of daily changes fails or its quote is not of today.                    *)
Readings ==
    IF ~ At("symbol") THEN {}
    ELSE (IF UsableDaily THEN {Daily} ELSE {}) \cup (IF UsableSnapshot THEN {Snapshot} ELSE {})

QuietSymbol(reading) ==
    /\ MeasureOnly => run.portfolio
    /\ ~ Reportable(reading)
    /\ ToPortfolio(reading.delta)
    /\ UNCHANGED <<conf, time, market, snapshot, alerts, log, faulty>>

RecordAnyway(reading) == \* mutant: the row is written although nothing went out
    /\ Reportable(reading)
    /\ run' = [run EXCEPT !.node = "persist",
                          !.pushed = [key |-> "symbol", date |-> Today, level |-> 1,
                                      direction |-> DirectionOf(reading.delta)]]
    /\ UNCHANGED <<conf, time, market, snapshot, alerts, log, faulty>>

(* send_report raises, or there is no push channel: nothing is recorded.   *)
SymbolPushFails(reading) ==
    /\ Reportable(reading)
    /\ ToPortfolio(reading.delta)
    /\ UNCHANGED <<conf, time, market, snapshot, alerts, log, faulty>>

AlertSymbol(reading) ==
    /\ Len(log) < conf.pushes
    /\ Reportable(reading)
    /\ LET level == IF Escalating THEN next_shock_level(run.sent_levels) ELSE 1
       IN  /\ Push("symbol", level, reading)
           /\ run' = [run EXCEPT !.node = "persist",
                                 !.delta = IF run.portfolio THEN reading.delta ELSE None,
                                 !.pushed = [key |-> "symbol", date |-> Today, level |-> level,
                                             direction |-> DirectionOf(reading.delta)]]
    /\ UNCHANGED <<conf, time, market, snapshot, alerts, faulty>>

-----------------------------------------------------------------------------
(* The portfolio alert, once a day, from the moves measured above.         *)
PortfolioShock == run.portfolio /\ run.delta # None /\ Abs(run.delta) >= 1

QuietPortfolio ==
    /\ At("portfolio")
    /\ ~ PortfolioShock
    /\ run' = None
    /\ UNCHANGED <<conf, time, market, snapshot, alerts, log, faulty>>

PortfolioPushFails ==
    /\ At("portfolio")
    /\ PortfolioShock
    /\ run' = None
    /\ UNCHANGED <<conf, time, market, snapshot, alerts, log, faulty>>

AlertPortfolio ==
    /\ At("portfolio")
    /\ Len(log) < conf.pushes
    /\ PortfolioShock
    /\ Push("portfolio", 1, [basis |-> "weights", delta |-> run.delta,
                             since |-> run.moment, until |-> run.moment])
    /\ run' = [run EXCEPT !.node = "persist",
                          !.pushed = [key |-> "portfolio", date |-> Today, level |-> 1,
                                      direction |-> DirectionOf(run.delta)]]
    /\ UNCHANGED <<conf, time, market, snapshot, alerts, faulty>>

-----------------------------------------------------------------------------
(* _persist_shock_alert, after the push.  The key of the table rejects a   *)
(* second row of a rung; a failure of any kind is only logged.             *)
Collides(p) == \E a \in alerts : a.key = p.key /\ a.date = p.date /\ a.level = p.level

ContinueLoaded == \* mutant: the alert written is not put away
    IF run.pushed.key = "symbol" THEN run' = [run EXCEPT !.node = "portfolio"] ELSE run' = None

Continue == IF run.pushed.key = "symbol"
            THEN run' = [run EXCEPT !.node = "portfolio", !.pushed = None,
                                    !.already_sent = @ \cup {"symbol"}]
            ELSE run' = None

Persist ==
    /\ At("persist")
    /\ alerts' = IF Collides(run.pushed) THEN alerts
                 ELSE alerts \cup {[key |-> run.pushed.key, date |-> run.pushed.date,
                                    level |-> run.pushed.level,
                                    direction |-> run.pushed.direction, created_at |-> time]}
    /\ Continue
    /\ UNCHANGED <<conf, time, market, snapshot, log, faulty>>

PersistFails ==
    /\ At("persist")
    /\ faulty = {}
    /\ faulty' = faulty \cup {Today}
    /\ Continue
    /\ UNCHANGED <<conf, time, market, snapshot, alerts, log>>

(* cancel-in-progress, or the job's timeout. *)
Cancelled ==
    /\ run # None
    /\ At("persist") => faulty = {}
    /\ run' = None
    /\ faulty' = IF At("persist") THEN faulty \cup {Today} ELSE faulty
    /\ UNCHANGED <<conf, time, market, snapshot, alerts, log>>

Next ==
    \/ Tick
    \/ \E p \in Prices : Trade(p)
    \/ FastLoopSnapshot
    \/ \E history, window, levels \in BOOLEAN : Start(history, window, levels)
    \/ SkipSymbol
    \/ \E reading \in Readings :
           QuietSymbol(reading) \/ SymbolPushFails(reading) \/ AlertSymbol(reading)
    \/ QuietPortfolio \/ PortfolioPushFails \/ AlertPortfolio
    \/ Persist \/ PersistFails \/ Cancelled

Spec == Init /\ [][Next]_vars

-----------------------------------------------------------------------------
(* The variables hold what the code's values stand for.                    *)
TypeOK ==
    /\ conf \in Configs
    /\ time \in Times
    /\ price \in Prices /\ trades \in 0 .. conf.trades /\ past \in [1 .. 6 -> Prices]
    /\ snapshot \in [price : Prices, at : Times] \cup {None}
    /\ alerts \subseteq Rows
    /\ log \in Seq(Pushes) /\ Len(log) <= conf.pushes
    /\ faulty \subseteq Days
    /\ run # None =>
         /\ run.moment \in Times
         /\ run.node \in {"symbol", "portfolio", "persist"}
         /\ run.already_sent \subseteq Work
         /\ run.alert_times \subseteq Times
         /\ run.sent_levels \subseteq Rungs
         /\ (run.node = "persist") <=> (run.pushed # None)

Sent(key, date) == {i \in DOMAIN log : log[i].key = key /\ log[i].date = date}
Recorded(key, date) == {r \in alerts : r.key = key /\ r.date = date}
Pending(key, date) == At("persist") /\ run.pushed.key = key /\ run.pushed.date = date

(* The table tells the next run what the user has got: no row without an   *)
(* alert that went out (it would silence the day), and, unless a read, a   *)
(* write or the run was lost that day, no alert without its row (it would  *)
(* be sent again every hour).                                              *)
RowsMatchPushes ==
    /\ \A r \in alerts : \E i \in Sent(r.key, r.date) :
          log[i].level = r.level /\ log[i].direction = r.direction
    /\ \A key \in Work, date \in Days \ faulty :
          Cardinality(Sent(key, date)) =
             Cardinality(Recorded(key, date))
             + (IF Pending(key, date) THEN 1 ELSE 0)

(* ALR-16, without lost reads, writes or runs: the portfolio is alerted    *)
(* once a day and a symbol twice at most, and the second alert tells more  *)
(* than the first: the move turned round or reached twice the threshold.   *)
LadderClimbs ==
    \A i, j \in DOMAIN log :
        /\ i < j
        /\ log[i].key = log[j].key /\ log[i].date = log[j].date
        /\ log[i].date \notin faulty
        => /\ log[j].key = "symbol"
           /\ log[i].level = 1 /\ log[j].level = 2
           /\ log[j].direction # log[i].direction \/ log[j].double

(* One move, one alert (ALR-02): the first alert of a day from a daily     *)
(* change tells a move that began after the moves told on earlier days had *)
(* ended, for a crypto and its sliding 24 h as for a stock, whose sessions *)
(* are less than 24 h apart.  Only a snapshot may tell a move again.       *)
RepeatedOnlyFromSnapshot ==
    \A i, j \in DOMAIN log :
        /\ i < j
        /\ log[i].key = "symbol" /\ log[j].key = "symbol"
        /\ log[i].date < log[j].date /\ log[j].level = 1
        /\ {log[i].date, log[j].date} \cap faulty = {}
        => log[j].basis = "snapshot" \/ log[i].until <= log[j].since

(* The inductive invariant.  A run that lost no read knows of its day what *)
(* the table holds; until its own row is written the table does not        *)
(* change, the push it waits to record is the last one, and the row of     *)
(* that push is a new one.                                                 *)
ToRecord(dates) == [key : Work, date : dates, level : 1 .. MAX_SHOCK_ALERTS_PER_DAY,
                    direction : Directions]
WatchRuns(moments, dates) ==
    [moment : moments, node : {"symbol", "portfolio", "persist"},
     already_sent : SUBSET Work, alert_times : SUBSET moments,
     sent_levels : SUBSET Rungs, ladder : BOOLEAN, portfolio : BOOLEAN,
     delta : Int \cup {None}, pushed : ToRecord(dates) \cup {None}]

RunOK ==
    run # None =>
       /\ run \in WatchRuns(Times, Days)
       /\ run.moment \in {time, time - 1}
       /\ run.node = "persist" => run.pushed.date = Today

NoRow(key) == \A r \in alerts : ~ (r.key = key /\ r.date = Today)

RunKnows ==
    /\ At("symbol") /\ run.ladder => run.sent_levels = get_shock_alert_levels(Today)
    /\ run # None /\ Today \notin faulty =>
          /\ At("symbol") /\ Emit => NoRow("symbol")
          /\ run.portfolio => NoRow("portfolio")
          /\ At("symbol") /\ conf.kind = "crypto" =>
                get_shock_alert_times(run.moment - ROLLING_CHANGE_WINDOW) \subseteq run.alert_times
          /\ At("persist") => ~ Collides(run.pushed)

Tells(push, row) == /\ row.key = push.key /\ row.date = push.date
                    /\ row.level = push.level /\ row.direction = push.direction

PushInHand ==
    At("persist") =>
       /\ log # <<>>
       /\ Tells(log[Len(log)], run.pushed)
       /\ log[Len(log)].until <= time
       /\ run.pushed.level = 2 =>
             \E r \in alerts : r.key = run.pushed.key /\ r.date = Today /\ r.level = 1

TableOK ==
    /\ IsFiniteSet(alerts)
    /\ \A q, r \in alerts : q.key = r.key /\ q.date = r.date /\ q.level = r.level => q = r
    /\ \A r \in alerts : r.level = 2 =>
          \E q \in alerts : q.key = r.key /\ q.date = r.date /\ q.level = 1

PushesRecorded ==
    \A i \in DOMAIN log : log[i].date \notin faulty =>
        \/ At("persist") /\ i = Len(log)
        \/ \E r \in alerts : Tells(log[i], r) /\ r.created_at >= log[i].until

(* A move ends on the day of its alert or before; a daily change of a      *)
(* stock begins at the midnight before that day, of a crypto 24 h before   *)
(* it is read.                                                             *)
PushesDated ==
    \A i \in DOMAIN log :
        /\ log[i].date = Day(log[i].moment)
        /\ conf.kind = "stock" /\ log[i].key = "symbol" =>
              /\ Day(log[i].until) <= log[i].date
              /\ log[i].basis = "daily" => log[i].since = QuartersPerDay * log[i].date - 1

IInv == /\ TypeOK /\ RunOK /\ RunKnows /\ PushInHand /\ TableOK /\ PushesRecorded
        /\ PushesDated /\ RowsMatchPushes /\ LadderClimbs /\ RepeatedOnlyFromSnapshot
=============================================================================
