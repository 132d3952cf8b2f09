-------------------------- MODULE PredictionCycle --------------------------
(***************************************************************************)
(* The life of one symbol's predictions across Fast Loop runs: the agent   *)
(* graph of a cycle (check_price, reflect, gate, save, ignore) and the     *)
(* rows it reads and writes, one external call per action.                 *)
(*                                                                         *)
(*   log    prediction_logs, one row per timestamp_hour (the unique key)   *)
(*   trade  the paper position opened for the row of that hour             *)
(*   snap   the newest row of price_snapshots                              *)
(*   run    per Fast Loop process: the node it is in and its AgentState    *)
(*                                                                         *)
(* The workflow's concurrency group runs one process at a time; two Runs   *)
(* are the overlap (a local run beside CI) that the store's guards are     *)
(* written for.  A process may be killed between any two calls.            *)
(***************************************************************************)
EXTENDS Integers, FiniteSets

CONSTANTS Runs,          \* processes that run the Fast Loop
          Prices,        \* prices the market can quote
          Trends,        \* directions the analysis can return
          ThresholdPct,  \* volatility_threshold, in percent
          MinAge,        \* reflection_min_age_hours
          MaxAge,        \* reflection_max_age_hours
          RefMaxAge,     \* REFERENCE_MAX_AGE_HOURS
          MaxHour,       \* bound on the clock
          None           \* SQL NULL / no row

ASSUME PricesAssumption == Prices \subseteq Nat \ {0} /\ None \notin Prices
ASSUME TrendsAssumption == Trends \subseteq {"BULLISH", "BEARISH", "SIDEWAYS"}
ASSUME AgesAssumption ==
    /\ ThresholdPct \in Nat /\ MinAge \in Nat \ {0} /\ MaxAge \in Nat
    /\ RefMaxAge \in Nat /\ MaxHour \in Nat
    /\ MinAge < MaxAge                     \* checked by Settings

VARIABLES now, log, trade, snap, run
vars == <<now, log, trade, snap, run>>

Hours == 0 .. MaxHour

-----------------------------------------------------------------------------
(* Rows. *)

Row == [price : Prices, trend : Trends, actual : Prices \cup {None}, expired : BOOLEAN]

(* pnl is the exact fraction num/den.  A position is open while exit is None. *)
Pnl == [num : Int, den : Nat]
NoPnl == [num |-> 0, den |-> 0]
Trade == [side : Trends, entry : Prices, exit : Prices \cup {None}, pnl : Pnl]

(* What a process remembers of the row it settles or has just saved. *)
LastRead == [hour : Hours, price : Prices, trend : Trends]

ASSUME NoneAssumption == None \notin Row /\ None \notin Trade /\ None \notin LastRead
ASSUME ReferenceAssumption == None \notin [price : Prices, stale : BOOLEAN]

(* side_of is one-to-one on the three trends, so a side is named by its    *)
(* trend; its sign is the signal the return is multiplied by.              *)
signal_of(trend) == CASE trend = "BULLISH" -> 1 [] trend = "BEARISH" -> -1
                      [] OTHER -> 0

close_trade(trend, entry, exit) ==
    [num |-> signal_of(trend) * (exit - entry), den |-> entry]

SamePnl(p, q) == p.num * q.den = q.num * p.den

Age(h) == now - h
Waiting(h) == log[h] # None /\ log[h].actual = None
Settled(h) == log[h] # None /\ log[h].actual # None
Expired(h) == log[h] # None /\ log[h].expired
Closed(h) == trade[h] # None /\ trade[h].exit # None

-----------------------------------------------------------------------------
(* The gate. *)

Abs(n) == IF n < 0 THEN -n ELSE n

(* |(current - previous) / previous| >= threshold *)
Moves(previous, current) == 100 * Abs(current - previous) >= ThresholdPct * previous

(* previous_price and stale_reference of the initial state *)
Reference == IF snap = None THEN None
             ELSE [price |-> snap.price, stale |-> Age(snap.hour) > RefMaxAge]

HasFresh(r) == run[r].ref # None /\ ~ run[r].ref.stale

(* Asset.evaluate_volatility: a cold start has delta 0, a stale reference  *)
(* closes the gate whatever the move.                                      *)
Passes(r) == HasFresh(r) /\ Moves(run[r].ref.price, run[r].price)

-----------------------------------------------------------------------------
(* Processes. *)

Nodes == {"idle", "check_price", "reflect", "settle", "close_trade", "gate",
          "save", "open_trade", "save_snapshot", "overdue", "expire"}

At(node, ref, price, last, due) ==
    [node |-> node, ref |-> ref, price |-> price, last |-> last, due |-> due]

Idle == At("idle", None, None, None, {})
LastStep == At("overdue", None, None, None, {})

Goto(r, node) == run' = [run EXCEPT ![r].node = node]
Done(r) == run' = [run EXCEPT ![r] = LastStep]

Init ==
    /\ now = 0
    /\ log = [h \in Hours |-> None]
    /\ trade = [h \in Hours |-> None]
    /\ snap = None
    /\ run = [r \in Runs |-> Idle]

Store == <<now, log, trade, snap>>

(* AnalyzeMarketUseCase._initial_state: the reference is read once. *)
Begin(r) ==
    /\ run[r].node = "idle"
    /\ run' = [run EXCEPT ![r] = At("check_price", Reference, None, None, {})]
    /\ UNCHANGED Store

(* A run whose list does not hold the symbol (unsupported, market closed)  *)
(* still expires its predictions: the last step goes over all symbols.     *)
SkipSymbol(r) ==
    /\ run[r].node = "idle"
    /\ Done(r)
    /\ UNCHANGED Store

CheckPrice(r) ==
    /\ run[r].node = "check_price"
    /\ \E p \in Prices :
          run' = [run EXCEPT ![r] = At("reflect", run[r].ref, p, None, {})]
    /\ UNCHANGED Store

(* DAT-15: an unconfirmed outlier against the history of a fresh reference *)
(* neither settles, nor passes the gate, nor becomes the reference.        *)
OutlierReachesGate(r) == \* mutant: only the settlement is skipped
    /\ run[r].node = "check_price"
    /\ HasFresh(r)
    /\ Goto(r, "gate")
    /\ UNCHANGED Store

OutlierReading(r) ==
    /\ run[r].node = "check_price"
    /\ HasFresh(r)
    /\ Done(r)
    /\ UNCHANGED Store

(* reflect: get_unverified_prediction, the oldest of the waiting rows      *)
(* whose age lies in the window and that are not flagged as expired.       *)
DueTooYoung(h) == \* mutant: the minimum age is not asked for
    Waiting(h) /\ ~ Expired(h) /\ Age(h) <= MaxAge

DueAnyAge(h) == \* mutant: neither the window's end nor the flag is asked for
    Waiting(h) /\ Age(h) >= MinAge

Due(h) == Waiting(h) /\ ~ Expired(h) /\ Age(h) >= MinAge /\ Age(h) <= MaxAge

LastPrediction(h) == [hour |-> h, price |-> log[h].price, trend |-> log[h].trend]

ReadDue(r) ==
    /\ run[r].node = "reflect"
    /\ \E h \in Hours :
          /\ Due(h) /\ \A g \in Hours : Due(g) => h <= g
          /\ run' = [run EXCEPT ![r] =
                        At("settle", run[r].ref, run[r].price, LastPrediction(h), {})]
    /\ UNCHANGED Store

NothingDue(r) ==
    /\ run[r].node = "reflect"
    /\ \A h \in Hours : ~ Due(h)
    /\ Goto(r, "gate")
    /\ UNCHANGED Store

(* update_prediction_accuracy: WHERE actual_price_after_12h IS NULL, so a  *)
(* second settlement of the same row is a silent no-op.                    *)
UpdateUnguarded(h, price) == \* mutant: without the IS NULL filter
    log' = [log EXCEPT ![h].actual = price]

UpdateAccuracy(h, price) ==
    log' = IF log[h].actual = None THEN [log EXCEPT ![h].actual = price] ELSE log

SettleSwallowed(r) == \* mutant: an error of the settlement is caught as the close's is
    /\ run[r].node = "settle"
    /\ UpdateAccuracy(run[r].last.hour, run[r].price) \/ UNCHANGED log
    /\ Goto(r, "close_trade")
    /\ UNCHANGED <<now, trade, snap>>

Settle(r) ==
    /\ run[r].node = "settle"
    /\ UpdateAccuracy(run[r].last.hour, run[r].price)
    /\ Goto(r, "close_trade")
    /\ UNCHANGED <<now, trade, snap>>

(* close_paper_trade: WHERE exit_price IS NULL.  The return is computed    *)
(* from the row read by reflect, not from the entry of the position.       *)
CloseTrade(r) ==
    LET last == run[r].last
        h == last.hour
    IN  /\ run[r].node = "close_trade"
        /\ trade' = IF trade[h] # None /\ trade[h].exit = None
                    THEN [trade EXCEPT ![h] =
                            [side |-> trade[h].side, entry |-> trade[h].entry,
                             exit |-> run[r].price,
                             pnl |-> close_trade(last.trend, last.price, run[r].price)]]
                    ELSE trade
        /\ Goto(r, "gate")
        /\ UNCHANGED <<now, log, snap>>

(* A PortError is only logged: the settlement stays, the position is open. *)
CloseFails(r) ==
    /\ run[r].node = "close_trade"
    /\ Goto(r, "gate")
    /\ UNCHANGED Store

(* Below the threshold, cold start or stale reference: the ignore node.    *)
Ignore(r) ==
    /\ run[r].node = "gate"
    /\ ~ Passes(r)
    /\ Goto(r, "save_snapshot")
    /\ UNCHANGED Store

(* FIN-12: the cap of the cycle is used up (module CycleBudget says when); *)
(* the reference is kept, so that the move comes back in the next cycle.   *)
CutMovesReference(r) == \* mutant: the cut symbol ends like an ignored one
    /\ run[r].node = "gate"
    /\ Passes(r)
    /\ Goto(r, "save_snapshot")
    /\ UNCHANGED Store

CutByBudget(r) ==
    /\ run[r].node = "gate"
    /\ Passes(r)
    /\ Done(r)
    /\ UNCHANGED Store

Analyze(r) ==
    /\ run[r].node = "gate"
    /\ Passes(r)
    /\ Goto(r, "save")
    /\ UNCHANGED Store

(* save_prediction: upsert on (symbol, timestamp_hour).  A second run in   *)
(* the hour overwrites price, trend and data_quality_flags of the row; the *)
(* record has no settlement columns, so actual_price_after_12h is kept.    *)
Upserted(price, trend) ==
    [price |-> price, trend |-> trend, expired |-> FALSE,
     actual |-> IF log[now] = None THEN None ELSE log[now].actual]

Save(r) ==
    /\ run[r].node = "save"
    /\ \E t \in Trends :
          /\ log' = [log EXCEPT ![now] = Upserted(run[r].price, t)]
          /\ run' = [run EXCEPT ![r] =
                        At("open_trade", run[r].ref, run[r].price,
                           [hour |-> now, price |-> run[r].price, trend |-> t], {})]
    /\ UNCHANGED <<now, trade, snap>>

(* append_paper_trade: ON CONFLICT (prediction_id) DO NOTHING. *)
OpenTrade(r) ==
    LET h == run[r].last.hour
    IN  /\ run[r].node = "open_trade"
        /\ trade' = IF trade[h] # None THEN trade
                    ELSE [trade EXCEPT ![h] =
                            [side |-> run[r].last.trend, entry |-> run[r].last.price,
                             exit |-> None, pnl |-> NoPnl]]
        /\ Goto(r, "save_snapshot")
        /\ UNCHANGED <<now, log, snap>>

(* No position: the analysis fell back, the quote is stale, or the append  *)
(* failed and was logged.                                                  *)
NoTrade(r) ==
    /\ run[r].node = "open_trade"
    /\ Goto(r, "save_snapshot")
    /\ UNCHANGED Store

SaveSnapshot(r) ==
    /\ run[r].node = "save_snapshot"
    /\ snap' = [price |-> run[r].price, hour |-> now]
    /\ Done(r)
    /\ UNCHANGED <<now, log, trade>>

(* process_one catches whatever a node raises (and a failed snapshot is    *)
(* only logged): the run goes on to its last step.                         *)
InGraph == {"check_price", "reflect", "settle", "close_trade", "gate",
            "save", "open_trade", "save_snapshot"}

SymbolFails(r) ==
    /\ run[r].node \in InGraph
    /\ Done(r)
    /\ UNCHANGED Store

(* expire_unverified_predictions: list the rows past the window, then flag *)
(* them one by one, oldest first, each only if it is still unsettled.      *)
OverdueLater(h) == \* mutant: the row must be a whole window late
    Waiting(h) /\ ~ Expired(h) /\ Age(h) > 2 * MaxAge

Overdue(h) == Waiting(h) /\ ~ Expired(h) /\ Age(h) > MaxAge

ReadOverdue(r) ==
    /\ run[r].node = "overdue"
    /\ run' = [run EXCEPT ![r] = At("expire", None, None, None, {h \in Hours : Overdue(h)})]
    /\ UNCHANGED Store

FlagRow(r) ==
    /\ run[r].node = "expire"
    /\ \E h \in run[r].due :
          /\ \A g \in run[r].due : h <= g
          /\ log' = IF log[h].actual = None THEN [log EXCEPT ![h].expired = TRUE] ELSE log
          /\ run' = [run EXCEPT ![r].due = @ \ {h}]
    /\ UNCHANGED <<now, trade, snap>>

ExpireDone(r) ==
    /\ run[r].node = "expire"
    /\ run[r].due = {}
    /\ run' = [run EXCEPT ![r] = Idle]
    /\ UNCHANGED Store

(* The process is killed (the job's time limit), or the last step raises.  *)
Crash(r) ==
    /\ run[r].node # "idle"
    /\ run' = [run EXCEPT ![r] = Idle]
    /\ UNCHANGED Store

Tick ==
    /\ now < MaxHour
    /\ now' = now + 1
    /\ UNCHANGED <<log, trade, snap, run>>

GraphStep(r) ==
    \/ CheckPrice(r) \/ OutlierReading(r)
    \/ ReadDue(r) \/ NothingDue(r) \/ Settle(r) \/ CloseTrade(r) \/ CloseFails(r)
    \/ Ignore(r) \/ CutByBudget(r) \/ Analyze(r)
    \/ Save(r) \/ OpenTrade(r) \/ NoTrade(r) \/ SaveSnapshot(r)
    \/ SymbolFails(r)

RunStep(r) ==
    \/ Begin(r) \/ SkipSymbol(r) \/ GraphStep(r)
    \/ ReadOverdue(r) \/ FlagRow(r) \/ ExpireDone(r)

Next == Tick \/ \E r \in Runs : RunStep(r) \/ Crash(r)

Spec == Init /\ [][Next]_vars

(* Cron starts a run again and again; any single run may be killed at any  *)
(* point, but no point kills every run: a call a run keeps coming to is    *)
(* made some day.  Time goes on.                                           *)
Fairness ==
    /\ WF_vars(Tick)
    /\ \A r \in Runs, n \in Nodes : SF_vars(run[r].node = n /\ RunStep(r))

FairSpec == Spec /\ Fairness

-----------------------------------------------------------------------------
(* Properties. *)

Priced == InGraph \ {"check_price"}
WithRow == {"settle", "close_trade", "open_trade"}

RunState == [node : Nodes, ref : [price : Prices, stale : BOOLEAN] \cup {None},
             price : Prices \cup {None}, last : LastRead \cup {None}, due : SUBSET Hours]

(* Types, and what a node may rely on: a price behind check_price, a row   *)
(* behind the read of reflect and behind the save.                         *)
TypeOK ==
    /\ now \in Hours
    /\ log \in [Hours -> Row \cup {None}]
    /\ trade \in [Hours -> Trade \cup {None}]
    /\ snap \in [price : Prices, hour : Hours] \cup {None}
    /\ run \in [Runs -> RunState]
    /\ \A r \in Runs : /\ run[r].node \in Priced => run[r].price # None
                       /\ run[r].node \in WithRow => run[r].last # None

(* A settlement is final, in whatever order overlapping runs make their    *)
(* calls: a row with its actual price never changes again, neither by a    *)
(* second settlement, nor by the upsert of a re-run, nor by an expiry      *)
(* decided before it was settled.                                          *)
SettledIsFinal == [][\A h \in Hours : Settled(h) => log'[h] = log[h]]_vars

(* The ledger never gets ahead of prediction_logs (_close_paper_trade): a  *)
(* closed position has a settled prediction, whatever fails or crashes and *)
(* however runs overlap.                                                   *)
LedgerNeverAhead == \A h \in Hours : Closed(h) => Settled(h)

(* One run at a time, a position closes at the price its prediction was    *)
(* settled with, though they are two calls with a crash possible between.  *)
ExitIsSettlement == \A h \in Hours : Closed(h) => trade[h].exit = log[h].actual

(* One run at a time, a prediction either is scored or expires: the window *)
(* of reflect and the one of the expiry complement each other (WIA-49).    *)
NeverSettledAndExpired == \A h \in Hours : ~ (Settled(h) /\ Expired(h))

(* FIN-12, DAT-15 and the terminal snapshots: a move past the threshold    *)
(* from a fresh reference is never absorbed.  When the reference makes     *)
(* such a move, a prediction made since the old one carries the new price; *)
(* a budget cut, an outlier, a failure or a crash leaves the reference.    *)
NoMoveAbsorbed ==
    [][ (snap # None /\ snap' # snap /\ Age(snap.hour) <= RefMaxAge
            /\ Moves(snap.price, snap'.price))
        => \E h \in snap.hour .. now : log[h] # None /\ log[h].price = snap'.price ]_vars

(* Every prediction is scored or flagged as expired in the end, though     *)
(* settlements fail, prices are outliers and runs are killed (those made   *)
(* too late for the bounded clock to pass their window are left out).      *)
Resolved(h) == log[h] = None \/ Settled(h) \/ Expired(h)
EveryPredictionResolved ==
    \A h \in Hours : h + MaxAge < MaxHour => [](~ Resolved(h) => <> Resolved(h))

(* What PaperTradeClose says of pnl: the signal of the position's side     *)
(* times the price change since its entry.                                 *)
PnlIsOwnReturn ==
    \A h \in Hours : Closed(h) =>
        SamePnl(trade[h].pnl, close_trade(trade[h].side, trade[h].entry, trade[h].exit))

(* The inductive strengthening of LedgerNeverAhead and SettledIsFinal: a   *)
(* row is settled only after its hour, the row a process settles is an     *)
(* older one and is still there, and its close follows its settlement.     *)
RowsAreOlder ==
    /\ \A h \in Hours : Settled(h) => h < now
    /\ \A h \in Hours : trade[h] # None => log[h] # None
    /\ \A r \in Runs : run[r].node \in {"settle", "close_trade"} =>
          run[r].last.hour < now /\ log[run[r].last.hour] # None
    /\ \A r \in Runs : run[r].node = "close_trade" => Settled(run[r].last.hour)
    /\ \A r \in Runs : run[r].node = "open_trade" => log[run[r].last.hour] # None
    /\ \A r \in Runs : \A h \in run[r].due : log[h] # None

IInv == TypeOK /\ RowsAreOlder /\ LedgerNeverAhead

(* The strengthening of NoMoveAbsorbed, for one run at a time: a run in    *)
(* the graph holds the reference of the newest snapshot, which it calls    *)
(* stale only when it is, and a move past the threshold reaches the        *)
(* snapshot's node only behind a prediction made since the reference that  *)
(* carries the new price.                                                  *)
Recorded(r) ==
    \E h \in Hours : /\ snap.hour <= h /\ h <= now
                    /\ log[h] # None /\ log[h].price = run[r].price

MovesKept ==
    /\ snap # None => snap.hour <= now
    /\ \A r \in Runs : run[r].node \in InGraph =>
          IF snap = None THEN run[r].ref = None
          ELSE /\ run[r].ref # None /\ run[r].ref.price = snap.price
               /\ run[r].ref.stale => Age(snap.hour) > RefMaxAge
    /\ \A r \in Runs : /\ run[r].node = "save" => Passes(r)
                       /\ run[r].node = "open_trade" /\ snap # None => Recorded(r)
                       /\ run[r].node = "save_snapshot" /\ Passes(r) => Recorded(r)
=============================================================================
