# TLA+ specifications of StockAgent

StockAgent is a scheduled agent: a GitHub Actions cron starts the Fast Loop, which
measures the move of every watched symbol, settles old predictions, pays for an
analysis where the move is large, saves a prediction, opens a paper position and
mails a report.  Its hard parts are the ones this directory specifies: pool
threads racing for a hash chain, processes that die between two calls or overlap,
upserts and guards in a database that several runs write, and a soft cap on paid
calls shared by threads that check it and pay later.

## 1. The system and its parts

| part | state | operations | talks to | what is hard, and what makes it correct |
|---|---|---|---|---|
| Prediction cycle (`agent_graph.py`, `analyze_market.py`) | `AgentState` of one symbol | check_price, reflect, gate, sentiment…predict, council, save, ignore, budget_exhausted | store, ledger, telemetry, LLM ports | killed between calls, overlapping runs; settled once, references not moved past an unanalysed move, settlement and close consistent |
| Prediction store (`supabase_repo.py`, migration 013) | `prediction_logs`, `price_snapshots` | upsert, settle, expire, snapshot | every loop | one row per symbol and hour, guards `IS NULL`; windows of scoring and expiry complement each other |
| Paper ledger (`paper_ledger.py`, migration 073) | `paper_trades`, `paper_ledger_heads.jsonl` | append, close, publish head | Fast Loop threads, publishing job | optimistic append under READ COMMITTED; linear chain, one row per prediction, published heads anchor it |
| Pool and cost cap (`run_cycle.py`, `finops.py`, `cycle_telemetry.py`, `cascading.py`, `llm_budget.py`) | call counters, gate counters, escalations, `llm_calls` | start, cut, admit, pay, reserve, book | LLM ports | check-then-pay; bounded overshoot, order of the cut, no paid call when the USD window is spent |
| Attestation (`attestation_cycle.py`, `reveal_attestations.py`, `attestation.py`) | commitments and salts in `prediction_logs`, roots and reveals on the branch `attestation-log` | seal, save, supersede, leaf, root, sweep, push, stamp; verify | Fast Loop, publishing job | crash between database and file, lost pushes; every published hash can be opened, nothing is revealed before it is settled, a reveal verifies or says why not |
| HTTP client (`_http.py`, Finnhub adapters) | circuit per host, rate window | acquire, before_request, send and retry, record_success, record_failure | every adapter | threads around an opening circuit, a sleeper that holds the lock, retries below both; no window over the rate, an open circuit stays open, every call ends |
| Alpha Vantage client (`alpha_vantage_client.py`) | active key, failures, feeds per symbol | fetch, rotate past a key, mark exhausted | HTTP, quota monitor | threads that run into the limit of one key together; no key skipped, one request per symbol |
| LLM failover and retries (`failover.py`, `cascading.py`) | counters | analyze | providers | an extra paid call per failover or escalation |
| Council (`council_service.py`, `council.py`) | votes of the personas in each round | ask, revise, tell, vote | LLM | late, failed and split personas; the verdict is of votes really given, counted by the cap only after the check |
| Shock watch (`main_watch.py`, `shock.py`, `price_levels.py`, `invalidation.py`) | `shock_alerts`, `price_level_alerts`, readings | three scans: read, push, record | market, notifiers, store | pushed but not recorded, cancelled in between, partial reads; one move is told once, a hit that reached nobody stays armed |
| Telegram bot (`main_bot.py`, `handle_user_commands.py`) | update offset, mutes | fetch, answer, save offset | Telegram, store | dies between reply and offset; no command lost, their order kept |
| Dead man's switch (`main_deadman.py`, `liveness.py`) | none; reads the newest traces | probe, read, compare, mail | store, mail | weekends, holidays, days of 23 and 25 hours; silence is told, a healthy loop is not |
| Market regime (`regime.py`, `_resolve_regime`) | newest row of `regime_history` | classify, hysteresis, save | Risk Watch, store | lost reads and writes; RISK_OFF ends after its confirmations |
| Slow Loop (`main_trainer.py`) | diagnoses, judgements, weekly budget, `fundamentals_cache` | recap, batch, backfill, judge; refresh; train, promote | store, LLM, Alpha Vantage | two runs on the same miss, budget split, requests of a day; what was paid for is kept, each company has its turn |
| Workflows (`fast_loop_12h.yml`, `slow_loop_weekly.yml`, `db_migrate.yml`, `schema_gate.py`) | concurrency groups, branch `attestation-log`, release `model-latest`, schema version | queue, displace, download the weights, probe the schema, push, upload, migrate | GitHub, Supabase | runs that displace each other, jobs cut in an upload, pushes started again; one writer at a time, whole releases, no lost line, nothing paid for is displaced |
| Delivery (`main_agent.deliver_report`, `quota_monitor.py`) | alerts of the cycle, channel outcomes, row of the run | assemble, archive, mail, artefacts, save | mail, store | ends anywhere; alerts saved once, a missed report accounted for |
| Session prices (`session_close.py`, `market_calendar.py`, `is_stale`, `executable_entry`) | price, stamp and `stale_quote` of one prediction; quote and clock of its settlement | read the price, save, repeat in the hour; fetch, read the clock, settle | Finnhub, calendar, store | the market opens or closes between any two steps; no price known at the prediction settles it, no old price counts as fresh |
| Reference rule (`reference_signal.py`) | `reference_predictions` | read, settle, call | store, market | runs repeated, late or broken off; a sample without near duplicates, judged by the first read |
| Folds and calibration (`backtest.py`, `isotonic_calibration.py`) | none | split, purge; pool | training, scorecards | late settlements, equal moments; nothing is learnt ahead of its block |
| Portfolio, charts, other scorecards and adapters | mostly none | rendering and read-only computation | — | covered by unit tests |

Interaction: one Fast Loop process runs `RunFastLoopCycle`; its threads each drive
one symbol through the graph, sharing `CycleTelemetry` and the escalation counter
(locks) and the database (constraints and conditional updates).  Before the pool it
resolves the market regime, which scales the threshold of the gate; after it, the
same process expires old predictions, publishes the ledger head and the root of the
cycle, reveals what is settled and delivers the report; another job of the workflow
pushes the lines to `attestation-log`.  The watch, the bot, the dead man's switch and
the Slow Loop are workflows of their own and meet the Fast Loop in the database; the Slow
Loop also hands it the weights through a release, and DB Migrate the schema its flags
need.  The workflows that write wait for each other in one group, the watch and the bot
do not.

`PROJECT.json` lists every part with its status, and under `hazards` the places
where the code can go wrong in a way a unit test hardly reaches, with the
properties that watch each place.

## 2. Modules

| module | stands for |
|---|---|
| `AppendOnlyLog` | what the ledger promises (the port's contract): a log that grows at its end, one position per prediction, one exit written once |
| `PaperLedger` | the table, the triggers and indexes, the threads' append loop, closes, publication of the head; implements `AppendOnlyLog` |
| `PaperLedgerProofs` | its theorems |
| `PredictionCycle` | the life of one symbol's predictions over several runs of the graph |
| `PredictionCycleProofs` | its theorems |
| `CycleBudget` | one cycle over several symbols: pool, gate, cap, paid calls |
| `CycleBudgetProofs` | its theorems |
| `FinnhubClient` | the calls of one process to one host: limiter, circuit, retries |
| `Attestation` | the commitments, roots, reveals and stamps of several runs, and the pushes between them |
| `AttestationProofs` | its theorems |
| `MerkleTree` | the tree of a cycle, its inclusion proofs and the loop of the verifier |
| `ShockWatch` | the hourly scan for sudden moves and its table |
| `PriceAlarms` | the other two scans: price levels, refuted theses |
| `NewsFeed` | the Alpha Vantage client under the threads of a cycle |
| `BotPolling` | polls of the Telegram bot, offset, mutes |
| `CycleDelivery` | the end of a cycle: report, mails, alerts, row of the run |
| `DiagnosisDebt` | the paid jobs of the Slow Loop on the wrong predictions |
| `MarketRegime` | the regime of a cycle and its hysteresis |
| `DeadMan` | the daily comparison of the newest traces with the schedule |
| `Workflows` | runs and jobs of the three writing workflows in their concurrency groups, and what passes between them: ledger, weights, schema |
| `HourRow` | one row of an hour and its children, written by several runs and read by the watch and the Slow Loop |
| `FundamentalsRefresh` | the weekly turn of the companies under the requests of a day |
| `SpendWindows` | the caps in USD of a day and a month over several runs, and the ledger of paid calls they are read from |
| `MailWindow` | which sudden moves the mail of a cycle tells |
| `SessionSettlement` | what the quotes of a prediction and of its settlement say of the sessions of the exchange |
| `CouncilDebate` | one analysis of the council: two rounds under a time limit, chairman, weighted vote |
| `ReferenceSignal` | the free momentum rule over the weekly runs |
| `WalkForward` | the purged folds on which a model is judged |
| `IsotonicFit` | the pooling of the isotonic calibration |
| `MCServices` | one behaviour of one of eighteen jobs (the modules above from `NewsFeed` on, `MerkleTree`, `ShockWatch` and `PriceAlarms`, without `Workflows`); the registers `x1` … `x11` hold the variables of the job, those it does not need stay `None` |
| `MCQueues` | one behaviour of `FinnhubClient` or of `Workflows`, who wait for each other in a process and on GitHub; the runs that may be triggered are three Fast Loops and a migration, or one Fast Loop, two trainings and a migration |
| `QueuesProofs` | the theorems of the Finnhub client, of the workflows and of the behaviours of `MCQueues` |
| `JobsProofs` | the theorems of single jobs: the news feed, the regime, the row of an hour, the paid jobs of the Slow Loop, the caps in USD, the refresh of fundamentals, the reference rule, the council, the close of a session, the folds, the calibration |
| `AlertsProofs` | the theorems of jobs that tell the owner something (the price alarms, the bot, the shock watch, the end of a cycle, the window of the mails, the dead man's switch), and of the tree by which he verifies what was published |
| `ServicesProofs` | what follows for the behaviours of `MCServices` |
| other `MC…` | definitions for TLC's instances (price sets, configurations, symmetry) |

`CycleBudget` details the cut that `PredictionCycle` leaves open; `Attestation` has its
own, coarser, save of a prediction, because the columns it speaks of (`commitment`,
`salt`, `revealed_at`) are others than the ones of `PredictionCycle`; `MerkleTree` is the
root that `Attestation` takes as the set of its leaves.  The jobs of `MCServices` share
no row that both write, so they are not interleaved with each other.

### PaperLedger
`rows` is `paper_trades`, `nextSeq` the identity column, `thread[t]` the local
variables of one call of `append_paper_trade`, `staged`/`heads` the line in the
checkout and on the branch, `kept` the lines of failed pushes that are still in an
artifact.  A hash is represented by what it commits to (the
sequence of hashed entries): SHA-256 is assumed to be injective.  An INSERT is
three steps, `DrawSeq`, `ChainHeadTrigger` and `Duplicate | PrevHashTaken |
Insert`, because under READ COMMITTED other INSERTs commit between the evaluation
of the identity default, the BEFORE trigger's query and the index check.  `Start`
may name a prediction that is already recorded, with another side: that is the
re-run of a cycle.  `Fail` is any other error, including the loss of the process.
A push that fails leaves its line in the artifact of its run (kept for 7 days), or
nowhere when the job was cancelled before the upload; the failed job may be run
again (`PushAgain`), and its rebase with `merge=union` puts the line behind those
pushed since.  The day of the last line is then an older one, and the next run
publishes a second line of a day; so does a run that cannot read the last line
(`LastPublishedOn`).  `how` in a line is a history value that tells these apart.  The refinement maps the abstract `log` to
the sequence the head hash commits to.  The price and weight of an entry are data
no property distinguishes and are left out.

### PredictionCycle
One action is one external call of the graph with the local decision before it.
`run[r].node` is the node a process is in, `ref`, `price`, `last` the parts of
`AgentState` it remembers, `due` the list read by the expiry.  `log[h]` is the row
with `timestamp_hour = h`; `trade[h]` the position of that row's id.  A killed
process (`Crash`) forgets its state; `SymbolFails` is `process_one` catching an
exception.  The gate is computed with integers: `100*|Δ| >= pct*previous`.
`CutByBudget` is nondeterministic here: `CycleBudget` says when it happens.
Abstracted or left out: the drift gate (ALR-10), split detection (DAT-23),
the session close of a settlement (WIA-61; in `SessionSettlement`), muted symbols' snapshots, feature
snapshots, shadow predictions, embeddings; the sealing of a prediction is in
`Attestation`.  None of them writes the columns the properties speak of while the flags in `config.toml`
leave them off; with the drift gate on more symbols pass the gate, never fewer.

### CycleBudget
`node[s]` is where a symbol is; `Start` is the pool taking the first waiting
symbol; `calls`, `gate` are `CycleTelemetry`; `escalations` the cascade's counter.
Reading the cap (`Admit`, `CutByBudget`) and paying (`Predict`, `Diagnose`,
`Escalate`, `CouncilRequest`) are different actions, while the shadow variant is
decided and counted in one (`reserve_paid_call` holds the lock).  A symbol may fail at
any node, also between its admission and its prediction (sentiment and news are asked without
a `try`).  `admitted`, `diagnosed` and `predicted` are history variables.  `Workers = 1` is the sequential path
(concurrency 1 or contagion on).  The extra paid call of the failover provider, and
a failure to build the feeds of the paid phase (which ends the whole run), are not
modelled.

### FinnhubClient
`granted`, `lock` are the fields of `RateLimiter`; `now[t]` and `wake[t]` the locals of
a thread in `acquire`; `circuit` the `_HostCircuit` of the host; `tries[t]` the
retries urllib3 has left for the request of thread `t`.  The clock may move between
any two steps, so a thread may wake late, read the clock late, or send long after its
grant.  An answer is any of: retried failure (`Retry`), final failure
(`record_failure`, also a 5xx that is not on urllib3's list), or an answer below 500.
Recording it is one step, because the answer itself is not shared.  `grants`
and `late` are history variables.  Left out: the set of skipped symbols (only its
count is kept), exceptions that are neither a lost connection nor a timeout (the
circuit is not told of them), the meter, redaction and error translation.

### Attestation
A run is a `Checkout` of the branch, the loop over its symbols (`seal` with the salt
of the stored row where the content is the same, `save`, the superseded reveal,
the leaf), the root of the cycle, the sweep over settled rows, the push of both files
and the stamp of the rows.  `ledger` is the checkout, `durable` the branch, `row` the
database.  Every read, write and push may fail on its own and a run may be cancelled
between any two steps.  A commitment is the pair of what it hides: the hash hides and
binds.  `calm` says in advance that a run will meet no fault, so that fairness can be
stated for those only; `harmed` records the faults that may cost a salt.  An upsert that
commits may lose its reply (`SaveReplyLost`): the run goes on as after a failed save.  The
clock may pass an hour between seal and upsert; `crossed` holds the salts of the row that was
read and then left as it was.

### MerkleTree
Hashes are terms, so the checks of the verifier are those of the code up to the
injectivity of SHA-256.  The i-th leaf of a cycle is named after its place, so a slice of the
leaves is where it begins and its size; `SubtreeHash` and `inclusion_proof` are recursive
functions of a slice, not `RECURSIVE` operators, which proofs can reason about.  A claim takes
its proof from any piece of any honest proof and states any size and position up to the bound.

### ShockWatch and PriceAlarms
A run of the watch reads prices, the three queries of the alert history (each can
fail apart from the others), pushes, and records.  `conf` draws the kind of the asset,
whether it is held and the ladder's flag.  `faulty` holds the days on which something
was lost.  Time is counted in quarters of a UTC day, of which a stock trades in the last
two, so that it may be alerted late in one session and again early in the next, less than
24 h later, where no window holds (`main_watch.py:622-628` has it for crypto only).  A reading
says when the move it measures began and ended: the 24 h change of a crypto began 24 h ago,
the daily change of a stock at the close before the session of its quote, a snapshot's when
it was taken; `past` keeps the prices these changes need.  What must not happen is stated
over these moves and not over the hours between alerts.  `PriceAlarms` has a row per direction at one level and one thesis: what one
row does depends on no other.

### NewsFeed
Threads ask for symbols; the lock of a symbol makes one of them fetch; `active_key` is
read without a lock and moved under one.  The daily limit of a key may hit at any
request.

### BotPolling
`chat` is every update sent, `kept` what Telegram still holds, `done` the outcome of
each.  A cron poll and a local one may overlap; the local one's writes are skipped.

### CycleDelivery
Every step of the phase may raise.  `saves` counts how often each alert was inserted.

### DiagnosisDebt
`slow[r]` is a run in progress: job, rows it has read, what is left of its allowance.
Two runs interleave at every provider call and every conditional update.

### MarketRegime
`Classify`, then `Decide` and `save_regime_state`, or `DecideRaw` where the history
cannot be read, or `SaveFails`.  Levels of the sources are drawn freely; the yield curve
and the FRED series vote, each may be missing.  `regime` and `before` are the effective
regimes of the last two cycles, by which the properties judge a decision that only sees
`last_row`.

### DeadMan
Time is in minutes UTC; `Midnight` is where the exchange's day begins, before and after
the change of the clocks.  The moments of a day are the crons, one run started late and
one started by hand while it is still the day before in New York.  Both limits are drawn,
0 being a paused job.

### FundamentalsRefresh
`entries` is the cache in the order of its stamps, of which the newest `n_fresh` are
within the time to live.  `waiting[c]` collects who was saved since the turn of `c`.
`Missing` says what `sorted` returns: the increasing enumeration of the companies without
an entry, a set of one sequence.

### Workflows
`stage[r]` is where a run is, `group` the holder and the one pending item of each
concurrency group (GitHub cancels the older pending one).  A run holds the group of its
workflow; its writing job joins `supabase-writers` inside it, and the job that pushes the
ledger joins `attestation-ledger`.  `base` is `LEDGER_BASE`, the ledger the agent read;
`PushAgain` is the owner's re-run of a failed push, at any later time.  An upload replaces
the weights, the sidecar and the notes one by one, deleting first.  `broken` says that the
upload of the newest accepted model was cut; the next one heals it.  `Download` may fail for any
reason, also with an intact release: the workflow goes on without weights (a cold start, `None`
in `served`).  A probe of the schema
without an answer leaves the flag on (`unproved`).  The groups, the pending item and the
runners are GitHub's and are modelled from the workflows' use of them.

### HourRow
`row` is the row of `prediction_logs`, `shadow[m]` and `votes[p]` the run whose forecast or
vote is in the child tables.  `Analyse` draws the answers of one run; the run then saves
them in three calls, each of which may fail apart from the others.  The watch reads the
row and stamps it in a later step, because it does not wait for the writers.  `Settle` ends
the hour; what the Slow Loop then reads of it, it does not change.  A re-run passes the
gate like any run; that it does is `PredictionCycle`'s subject.

### SpendWindows
`booked` is the sum of `cost_usd` in `llm_calls` per day, and a sum over days (`Total`) is
counted unit by unit, so that proofs reason with cardinalities; `spender` the one run of the
writing group.  The day before the month, a failed read of either lets the run through
(`blind`), as the code does.  The rows are created at the end of the run, which may be after
midnight.  `fast_paid` and `untold` are history: what was paid by the Fast Loops begun on a
day, and the part of it that the ledger never saw or was not asked for.

### MailWindow
`cycle` is a Fast Loop between its start and its row in `cycle_runs`; `shock_alerts` are the
moves the watch stores meanwhile, as times.  Either read of the assembly may fail: without
the last mail the window is `FallbackLookback`, without the moves the section is empty.

### SessionSettlement
A price is the time of its trade, so that the properties can say which trade it is.  A day
has five moments around its opening, early close and close; the calendar is drawn, the
tables of holidays are data.  `current_price` is what a predicting run read in
`check_price`, with the time of that reading and the verdict of `is_stale`; `prediction` is
its row.  They are two steps, so a price read before the opening may be saved after it.
The stamp `created_at` is the database's, at the insert: `SavePrediction` of a run repeated
in the hour replaces price and `stale_quote` and keeps the stamp, which `saved_at` (the
model's own) tells apart.  `OneHour` says which neighbouring moments can share an hour of the clock: the
opening is at half past, the closes are on the hour.  `RunEnds` is a run that was
ignored, failed, or saved the row of another hour.  A run of minutes sees one boundary at most; the
settling run comes six hours later at the earliest (`reflection_min_age_hours`), here at a
later moment than the save.  `GetQuote` may lag behind the trades; `CheckPrice` and
`Reflect` read the clock later.  The settlement writes `stale_quote` only to set it, so
the column keeps the TRUE of the save.

### CouncilDebate
`calls` are the futures of the round under way; `TotalTimeout` gives up those still running,
whose threads nobody reads.  Weights and confidences are natural numbers, which keeps the
comparison of masses and drops rounding; the mass of a recommendation is counted unit by unit
(`Units`), so that proofs reason with cardinalities.  The text of the chairman is left out, except that
views which are not a list end the analysis.

### ReferenceSignal
`reads` is `reference_predictions` of one symbol, `running` the run between its two reads and
its last write; the open calls it still has to look at are a set, of which it takes the oldest
first, as the query orders them.  Any write may fail, done or not, and ends the run for the symbol.

### WalkForward and IsotonicFit
Rows are drawn with shared or neighbouring times and settlements that are absent, at once or
late; each fold is one step, each push and each pooling another.  Rates are hits over
counts, compared without division; sums over points and sizes are counted like the caps above.

## 3. Runs

Each property of a passing run has a mutant: a changed definition, kept beside the
original and marked `\* mutant`, which replaces the original and must break the
property.  A property that joins several parts (`OneAtATime`, `MovesAreToldOnce`, ...) has one
mutant listed in `PROJECT.json`; those of its other parts stand in the modules.

| run | instance | shows |
|---|---|---|
| `ledger` | 3 threads, 2 predictions, 2 attempts, 4 seq values, 2 days, 3 lines | types; `LinearChain`: the rows read by seq are a chain; `GiveUpMeansOvertaken`: a dropped trade lost every attempt to a row that was committed during its call; `HeadsAnchorHistory`: every published head names a row and is a prefix of the table and of the heads of later days, and the file is in order, a line a day, except behind a push run again or a last line that could not be read; `ImplementsLog`: refinement |
| `cycle_serial` | 1 process, hours 0–3; quotes 101 and 103 in hour 1, 100 and 103 in the others | types; `ExitIsSettlement`: although settle and close are two calls with a crash between them; `NeverSettledAndExpired`; `NoMoveAbsorbed`: the reference never moves past the threshold unless a prediction has seen the new price |
| `cycle_overlap` | 2 processes, hours 0–1 | `LedgerNeverAhead`; `SettledIsFinal` |
| `cycle_resolved` | 1 process, 1 price, hours 0–3, fair | `EveryPredictionResolved`: scored or expired in the end |
| `cycle_pnl` | 1 process, 2 prices, 2 trends | finding: `PnlIsOwnReturn` is violated |
| `budget` | 4 symbols; one phase on 2 workers, two phases on 2 workers with shadow calls, two phases on 1 worker; fair | types and one gate decision per symbol; `OvershootBound` (the bounds of the configuration's cost gate on predictions and council requests, the tight overshoot of the cap, nothing paid in a spent window); `CutsTheSmallest`; `CutIsFinal`; `ShadowFits`; `CycleFinishes` |
| `attestation` | 1 symbol, 2 contents, 2 hours, 2 salts, every fault, fair | types; `StampedIsDurable`, `SettledRevealsVerify`, `RevealedIsSettled`, `HiddenOnlyByFault`, `EverySettledIsRevealed` |
| `attestation_superseded` | the same | finding: `LedgerVerifies` is violated |
| `services` | eighteen jobs, see below | `NoKeyWasted`; `VerifiedIffIncluded`; `NothingForgotten` (alarms, bot, regime); `DeliveryAccountedFor` (delivery, dead man's switch, and of the mail `MovesReachTheMail`, `ToldAgainOnlyInOverlap`); `PaidWithinCapAndKept` (diagnoses, fundamentals, `SpendWithinWindow`); `MovesAreToldOnce` (`RowsMatchPushes`, `LadderClimbs`, `RepeatedOnlyFromSnapshot` of the watch); `LastAnswerStands` (`AnswersReplaceOlder`: what the last run of the hour answered is what is stored, `OneAlarmPerRow`: also when the row is written under the watch); `NothingMadeUp` (`CallsAWeekApart`, `JudgedByFirstRead`, `SessionPricesFollow`, `NothingLearntAhead`, `BlocksTileTheTail`, `IsTheRegression`, `VerdictOfRealVotes`); each with the types of its jobs |
| `queues` | 2 threads with 2 calls, rate 2, window 2, threshold 2, 1 retry; or the runs of `MCQueues`, the migration of two files; fair | `TypesOK`; `GrantsInWindow`; `OpenStaysOpen`: at most the attempts of the threads already past the check follow; `OneAtATime`: one job writes, and its first push is a fast-forward; `ReleaseIsServedWhole`: a cycle whose download succeeds predicts with the last accepted model and never meets an upload half-way, weights, sidecar and hash belong together; `FlagMatchesSchema`: no migration lands between the probe and the last write; `NothingBegunIsLost`: no line of the ledger, no run that has begun; `EveryoneIsServed`: every call and every run ends |
| `hour_row_level` | 2 runs of an hour, 2 prices, 2 levels, champion and challenger, 1 persona | finding: `LevelOfThisThesis` is violated |
| `regime_lost_write` | 2 confirmations, 2 voters | finding: `LostWriteOnlyDelays` is violated |

Bounds.  `MaxSeq`, `MaxDay`, `MaxHour` only bound the identity column, the calendar
and the clock.  Three threads with two attempts are enough for a thread to be
overtaken on every attempt while a third thread is between its trigger and its
index check; that takes four seq values.  In this run the head is published after the pool
has ended and pushed before the next one starts, as the workflow orders it
(`GroupedSpec`), and threads race only in the cycles before the first publication;
three lines are enough for a late line and the second line of a day behind it.  The
theorems hold without that order and those bounds.  Four hours with windows `MinAge = 1`, `MaxAge = 2` give rows that
are too young, due, on the boundary and overdue.  Prices 100, 101, 103 with a
2 % threshold make two moves below it whose sum is above; 101 is quoted in hour 1
only, where it does that.  With cap 2 and four
symbols two workers can both pass the check at the last free call, and a symbol
remains to be cut; with cap 3 and two shadow calls a production call and a shadow
call compete for the last one.  Four calls on a window of two slots make two grants
wait, and let the deque lose one of its elements and keep the other; two threads
with threshold 2 let one fail after the other opened the circuit.  `MaxClock` stops
the clock only while nobody sleeps.

`attestation`: two salts let a re-run of the hour replace a commitment, two hours let a
row be settled by a later run and an upsert fall into the hour after its seal.  `services`, the watch: up to `horizon`, which is noon of
the second day, `pushes` alerts and `trades` changes of the price let a move be alerted,
recorded or not, and be seen again after midnight and in the next session, and let two
daily changes of a stock be alerted less than 24 h apart; one fault per behaviour is enough, since each property excuses only the
day it falls on.  Its other jobs: 3 threads, 2 tickers and 3 keys let two threads
rotate past one key while the third reads the next; trees of up to 6 leaves have full,
ragged and single levels; prices 0 to 2 around level 1 cross it in both directions and
two alarms per row show a repetition; three updates in batches of two leave one for the
next poll; two subscribers and three alerts put an alert before, in and after the
assembly; two runs on two misses under three plans, two of which ask for more than the
cap; 16 days with a holiday on a Friday, a Monday, both or in the week, each Sunday as
the change of the clocks, in both directions; four companies with five requests a day
leave two of them to the next run; two runs of the hour, since each only meets what the one
before it left, a level below and one above the price, and `MaxAlarms` for a second
announcement.  Caps of 2 for the day and 3 for the month, 0, and none, with runs that pay at
most 2, over three days of which two begin a month, let a run pass the cap and book in the
next window; six hours, one move and two mails put the move before, in and after each step
of the first cycle; two sessions between two sure ones, with a holiday or an early close, let
price, save, repeated save, quote and settlement fall on different sides of an open and a close; ages of 3 to 4 (in steps of
two days) over
8 let a call become due, be judged twice, and expire; five rows in two folds, horizon 1 and
settlements up to 3 late keep rows out of a fold that are before it; 4 confidences of up to
2 samples pool across more than one block; three personas, four votes and two weightings
give splits, ties, equal masses and votes without confidence.

`queues`: two trainings let one be cut in its upload and the other heal it, or start beside a
waiting Fast Loop; three runs of one workflow are one that holds, one that waits and one that
displaces it; two migrations' files let a flag need the second.  Weights and ledger are apart
in the code, so each choice of runs leaves the other part small.

The runs that really may stop (clock at its bound, all symbols ended, every prediction
recorded) set `CHECK_DEADLOCK FALSE`; `services` and `regime_lost_write` do not stop and
check for deadlock.

Interchangeable threads, predictions and processes are symmetry sets in the runs
that check only invariants and step properties.

Fairness.  `cycle_resolved`: time passes (weak fairness of `Tick`), and each node
that a run keeps coming back to takes its step some day (strong fairness per
node): cron starts runs again and again, a job's time limit may kill any of them,
but not every one at the same point.  Which of a node's outcomes (outlier, failure,
settlement) happens is not assumed.  Predictions made so
late that the bounded clock never passes their window are excluded.
`budget`: each symbol's thread goes on (every call has a time-out) and the
main thread starts the paid phase; the outcome of a call is free.
`queues`: time passes, and each thread goes on when it can (a request without
an answer times out after `DEFAULT_TIMEOUT_SECONDS`).  The limiter's lock need not be
fair: a thread makes finitely many calls.
Its workflow runs: as long as some run can go on, one does (weak fairness of `Advance`): GitHub
starts what a group allows, and a job ends by itself or at `timeout-minutes`; a run makes
finitely many steps, so none has to be favoured.  Nobody has to trigger a run or
to start a push again.
`attestation`: cron starts the next run, the job's time limit ends one that hangs, and
again and again a run meets no fault from its checkout to its push (strong fairness of
`Checkout(TRUE)`); a run that meets one may meet any.

### Findings
1. `cycle_pnl` — `_close_paper_trade` computes the return from the prediction row
   that reflect read (`agent_graph.py:1594`), not from the open position.  A re-run
   within the hour overwrites the row's price and trend, and the append of its trade
   does nothing (`ON CONFLICT DO NOTHING`), so the position keeps its first side and
   entry and gets the return of another.  `PaperTradeClose` (`paper_ledger.py:169`)
   defines `pnl` by the position's side and entry.
2. `attestation_superseded` — the reveal of a replaced commitment always has the status
   "superseded" (`agent_graph.py:2062`), also when the run that saved it was stopped
   before its root went out.  The verifier then answers as for a fabricated reveal, where
   `attestation.py:306` says that the reveal of a prediction whose cycle published no
   root says so itself.  For reveals of settled predictions it holds
   (`SettledRevealsVerify`).
3. `regime_lost_write` — the docstring of `_apply_regime_hysteresis`
   (`main_agent.py:2179`) says that a failed write at most delays the end of RISK_OFF.
   When the lost row is that of the risk-off reading itself, the next cycle reads an
   older row outside RISK_OFF and adopts a calmer reading at once, without confirmations.
   While that row is written the count holds (`RegimeHeld`, proved).
4. `hour_row_level` — without a valid level `_save_node` leaves `invalidation_price` out of
   the record, and the upsert merges: a re-run within the hour keeps the first run's level
   beside its own trend and price.  A BULLISH thesis may then carry a level above its
   price and be announced as refuted by a rise.  The comment of the column
   (`074_invalidation_price.sql:36`) and the code's (`agent_graph.py:2877`) say that the
   level is on the thesis' side and NULL where none came.  The flag is off in
   `config.toml`; the other optional columns of the record are left behind in the same way.

Observations without a run of their own.
- `cancel-in-progress: false` lets a pending run wait, but a third one takes its place
  (`docs/running-locally.md:418` says so): a displaced run is noticed only by the dead
  man's switch, and `EveryRunEnds` counts it as an end.
- After a re-run of the hour the stamp `invalidation_alerted_at` of the first thesis stays:
  the new thesis is never announced.  Migration 074 has one alarm per prediction, and the
  row is the prediction.
- Forecasts of a champion or challenger that the re-run does not have stay from the first run
  (they are upserted apart from the row), and `challenger_verdicts` pairs them with those of the
  re-run; the docstring of `_shadow_forecasts` (`agent_graph.py:1917`) has both forecast from the
  same features.
- Votes of personas that fail in a re-run stay beside the new votes, and the council's
  accuracy counts them with the settlement of the new row.
- `docs/how-it-works.md:66` says that the last symbol may cross the cap by its own
  calls; with `symbol_concurrency` workers that many symbols may
  (`docs/configuration.md:395` and `finops.py:397` say so, and `OvershootBound` is that
  wider bound).
- `finops.py:402` counts at most `cap - 1 + concurrency` analysed symbols because each of them
  adds at least its prediction.  A symbol whose sentiment or news request raises
  (`alpha_vantage_client.py:242`, `:308`; no `try` at `agent_graph.py:1744`) adds nothing and
  leaves its place: the bound holds for predictions (`Analysed` in `OvershootBound`), not for
  admissions, so not for the sentiment and news requests `finops.py` derives from it.
- `paper_ledger.py:229` has the head published once a day, and the publisher allows for one
  more line of the day.  A push job run again late puts its line behind newer ones; the next
  cycle then reads the older date and publishes again (`HeadsAnchorHistory` says behind what
  a line may repeat its day or come out of order).
- Any failed download of the weights is a cold start with a warning
  (`fast_loop_12h.yml:130`), also while the release holds an accepted model; the comment at
  `:119` names a missing release or asset only (`ServedIsLastAccepted` has the case as `None`).
- `attestation.py:159` calls superseded what was overwritten in the same hour.  The seal reads
  the row by the runner's hour (`supabase_repo.py:1927`, `:1946`), the upsert writes the
  database's.  When the hour changes between them, the row that was read is not overwritten
  and its salt is out before its settlement, as superseded or shared with the new row
  (`RevealedIsSettled` excepts those salts, which `crossed` keeps, and no other).
- The docstring of `_publish_commitment` (`agent_graph.py:2081`) has a failed save leave the row
  untouched.  An upsert that committed and lost its reply fails in the same way: the old salt is
  gone and no superseded reveal is appended (one of the faults of `HiddenOnlyByFault`).
- `docs/how-it-works.md:110` says that with an open circuit the remaining symbols fail at
  once; the adapters take a slot of the limiter before they ask the circuit
  (`finnhub_api.py:114`), so they fail at the limiter's pace.
- `_finnhub_common.py:28` says that no process goes over its share of the key's minute.
  urllib3 sends a 5xx, a lost connection or a timeout again below the limiter
  (`_http.py:328`), so a failing host may get more requests in a window than the limiter
  granted.
- The claim of a reveal (tree size, index) is not compared with the published line in
  `_proof_reaches_published_root`; that the leaf is in the tree is proved by the hash
  whatever size is stated (`VerifiedIffIncluded`), its position is not.
- A price level that is hit without any push channel does not wait, contrary to "czeka
  nietknięte": the reading is recorded, and if the price returns before a channel is
  there the hit is gone.
- `is_daily_change_fresh` keeps a quote of an ended session from being alerted again; the
  fallback to the Fast Loop's snapshot, up to 30 h old, is not covered by it: a move of
  yesterday that was told is then told again (`RepeatedOnlyFromSnapshot` says it is the only
  way).
- A `/mute X ²` passes `isdigit` and fails in `int` with an error that is not a
  `PortError`: the poll ends and is repeated with the same batch until Telegram drops the
  update.  A poll that died half-way leaves what it carried out in force until the next
  one repeats it.
- The comment of `deliver_report` says alerts are saved although the assembly raises; the
  ones recorded before the phase began are not (`DeliveryAccountedFor` states the condition).
- With `model_routing` the escalation of the weekly recap is not taken from the
  allowance, so the weekly cap may be exceeded by one.
- When every source of the Risk Watch is silent the overall alert is NORMAL: the regime
  becomes RISK_ON and the reading counts as a confirmation, where the docstring of
  `classify` has NEUTRAL for missing data.  A cycle without a report uses the
  multiplier 1.0 even during RISK_OFF.
- The trace the dead man's switch looks for is left early in a cycle, so a Fast Loop
  that dies later looks alive.
- Companies without data stay "missing" and come first; as many of them as the
  budget keep the others from their turn.  After a refresh by hand in the week the Sunday
  run finds entries still fresh, contrary to `value_objects.py:154`.
- A move stored between the start of a cycle and its assembly is told by its mail and by the
  next one: the window begins at the start (`ToldAgainOnlyInOverlap` allows no other case).
- `executable_entry` gives a prediction stamped within a session "własnej cenie"
  (`prediction.py:225-226`), but that price is read minutes before the stamp: read before the opening
  and saved after it, it is the close of the session before, which nobody could trade any
  more, and `stale_quote` is false (`OfTheRunningSession` says this is the only unflagged way).
- A run repeated in its hour replaces price and thesis under the first stamp
  (`supabase_repo.py:1547-1553`): the opening between the two is then the entry price and may be the
  settlement of a thesis that was made after it (`FirstToTrade` is of the stamp, and
  `AfterThePrediction` excuses only a quote that is behind).
- A quote fetched before the close, with the clock read after it, is stored as the close of
  the session, though it is a price from within it; `SessionPricesFollow` excuses a quote that
  is behind the market, which a slow provider's is too.
- A persona whose revision is late loses its vote of round 1 and counts as failed, one whose
  revision raises keeps it.
- A chairman's answer whose dissenting views are not a list raises outside the `try` of the
  chairman: the verdict is lost although the votes were there.
- The caps in USD do not know what a run that died or could not insert has paid, and the
  Slow Loop books against them but is not held back by them (`SpendWithinWindow` states both).

## 4. Proofs

For every value of the constants: `tlapm M.tla` with `M` one of `PaperLedgerProofs`,
`PredictionCycleProofs`, `CycleBudgetProofs`, `AttestationProofs`, `QueuesProofs`,
`JobsProofs`, `AlertsProofs`, `ServicesProofs`.  The assumptions are the named
`ASSUME`s of the modules, which TLC evaluates on every run, and where it is said the
hypothesis `OneRun` of the theorem:

| assumption | says |
|---|---|
| `SizesAssumption`, `AgeAssumption` and the like | attempts, rates, caps and windows are positive, bounds are natural numbers, prices positive, `MinAge < MaxAge` |
| `NoneAssumption`, `ReferenceAssumption` | `None` is no price, no row, no commitment, no remembered reference |
| `ThreadsAssumption` (`FinnhubClient`) | the process has finitely many threads, at least one |
| `RunsAssumption` (`MCQueues`) | a run is of one workflow, the trainings are finitely many, `NoThread` is no run |
| `FilesAssumption` (`MCQueues`) | the migrations are numbered by natural numbers |
| `FeedAssumption`, `RegimeAssumption`, `HourAssumption` (`MCServices`) | numbers of keys, confirmations, runs and alarms are natural (confirmations positive), and `None` is no feed, thread, regime, row, answer or thesis of the job |
| `AlarmAssumption`, `BotAssumption` (`MCServices`) | prices are integers, bounds and the size of a batch natural numbers, `None` is no price, row, thesis, number or outcome |
| `WatchAssumption` (`MCServices`) | moves are integers, the first among them, the trades bounded by a natural number, `None` is no run and no alert to record |
| `DeliveryAssumption`, `SwitchAssumption`, `MailAssumption` (`MCServices`) | numbers of alerts, days, hours and mails are natural, the fallback window is an integer, `None` is no outcome of a channel and no way a run of the switch ends |
| `DebtAssumption` (`MCServices`) | there is a wrong prediction; the caps and requests of `Plans` are natural numbers by their definition |
| `SpendAssumption` (`MCServices`) | days, runs and the cost of a run are natural numbers, months begin on days and one on the first, `None` is no run; caps are natural numbers or none |
| `RefreshAssumption` (`MCServices`) | companies are numbered, there is a key with at least one request a day (`require_alpha_vantage_api_keys` raises without a key), `None` is no batch |
| `CallsAssumption` (`MCServices`) | ages are natural numbers, the lower bound of the window positive and not above the upper one, as `BASELINE_MIN_AGE` and `BASELINE_MAX_AGE` are; days and reads bounded by natural numbers, `None` is no call, outcome or run |
| `CouncilAssumption` (`MCServices`) | the council is finite, `None` is no opinion and no verdict; weights and confidences are natural numbers by `Weightings` and `Opinions` |
| `SessionAssumption` (`MCServices`) | there are at least two days that a calendar may open or close between two sure ones |
| `FoldsAssumption` (`MCServices`) | the numbers of `backtest.py` are positive, there are fewer folds than the rows a sample needs, sample sizes are positive, `None` is no settlement |
| `FitAssumption`, `TreeAssumption` (`MCServices`) | numbers of points, counts and leaves are bounded by natural numbers |
| hypothesis of `SwitchHolds` | a limit is 0 (paused) or lies between 6 and 28 hours for the Fast Loop and between 175 and 213 for the Slow Loop, the defaults of `config.toml` (26 and 192) among them, and the calendar begins with a trading day |

The inductive invariants (`IInv`, in the modules of the components) were first given to TLC
as an invariant of the run of their component, then proved.

*PaperLedger.*  `LinearChain` is not inductive: an INSERT is safe only because a
thread whose head is still current holds a larger seq than every row (it drew it
after reading the head, or its head is stale), because every hash except the
head's is already taken by some `prev_hash`, and because hashes grow along the
chain.  `TableInv`, `CallOK` and `PublicationInv` say this; `IInv` adds the
properties themselves.  Each action is a lemma, one conjunct at a time.  From
`IInv` follow `TypeCorrect`, `ChainIsLinear`, `GiveUpIsOvertaken` (`base` counts
the rows at the first read, and each failed attempt means the head hash is one
longer), `HeadsAreAnchors`, and `LedgerImplementsLog`: `Insert` maps to `Record`
(the new head hash is the old one with the entry appended, and its prediction is
not among those the old one commits to), `ClosePaperTrade` to `Settle`, every
other step to a stutter.

*PredictionCycle.*  `LedgerNeverAhead` needs to know that a process at
`close_trade` has settled its row, that no step unsettles it, and that the upsert
of a re-run hits only the row of the current hour while settled rows are older:
`RowsAreOlder`.  `IInv` is `TypeOK`, `RowsAreOlder` and `LedgerNeverAhead`, for any
number of overlapping runs; `TypeCorrect`, `LedgerStaysBehind` and
`SettlementIsFinal` follow from it.  With one run at a time (`OneRun`, the
workflow's concurrency group) a second invariant relates the row being settled to
the window it was read in and to its open position; `ScoredOrExpired` and
`ExitPrice` follow from it.

`NoMoveIsLost` (`NoMoveAbsorbed`, also with `OneRun`) is about two nodes far apart: the
snapshot that moves the reference is the last node of a run, the prediction that records
the move was saved before it.  `MovesKept` carries the fact from one to the other: a run in
the graph still holds the reference of the newest snapshot, calls it stale only when it is,
and passes `open_trade` and `save_snapshot` with a move past the threshold only behind a
prediction, made since that reference, that carries the new price.  With two overlapping runs the
first part is false, which is why the hypothesis is needed.

*CycleBudget.*  `OvershootBound` bounds what was paid, but a symbol that was let past the cap
pays later, or fails before it pays, and others pay meanwhile.  So `CapInv` counts with what is paid what the symbols
in flight still owe: one call of who is to predict, the requests its council has left, and
an escalation.  An admission, below the cap, adds at most what one worker can owe; a payment
moves a call from the debt to the counter.  The two bounds of the escalations are two
conjuncts, because each is inductive only for itself.  A debt is a set of pairs (`Owed`), so
that the proof reasons with cardinalities of finite sets and needs no sum.  `PhasesInv`
says that a symbol is admitted once and pays for one diagnosis and one prediction, and which
nodes are behind the gate.  `RankInv` relates the moves of every two symbols of the sorted paid phase by how
far they are, which gives `CutsTheSmallest`, and says that a cut lies behind a crossed cap,
which gives `CutIsFinal`, as the calls never decrease.  `ShadowFits` follows from the lock
`reserve_paid_call` holds.

*FinnhubClient.*  `GrantsInWindow` speaks of the whole history, the limiter only sees
its deque.  `WindowInv` relates them: the deque is the end of the history, and what
it no longer holds was granted a window before the thread in `acquire` last read the
clock.  So when a slot is free, the `Rate`-th grant before the new one has been
forgotten, hence is a window old.  Another thread that read the clock earlier would
break this; `LockInv` says that there is none.
`LimiterInvariant` and `RateIsKept` follow.

`CircuitStaysOpen` (`OpenStaysOpen`) needs a count of what may still be sent: `Attempts(t)`
is the rest of the call with which thread `t` passed the check.  `LateInv`: once the circuit
is open, the requests sent since and those still to come are at most `RetryTotal + 1` for
each thread but the one that opened it, whose call ended with that failure.

*Attestation.*  A stamp is right because of what happened in an earlier run: `StampedIsDurable`
rests on the reveals of the branch never shrinking and on `RunInv`, by which a checkout is
what the branch holds until it is reconciled; `RevealedIsSettled` on `RowsInv`, by which
settled rows lie behind the clock, so that no upsert of the current hour meets them, and on
`SaltsInv`: two rows share a salt only after an upsert in another hour than its seal, a fresh
salt is in no row and no reveal, and the salt in hand is in the row the seal read and nowhere else.
`AnchorInv` says of every reveal, of the branch and of the checkout, that it names a published root
with its commitment among the leaves, or that there is none; `SettledRevealsVerify` follows,
as roots are pushed with the reveals that name them.  `HiddenOnlyByFault` is not inductive: a
commitment is hidden in the very step that publishes its root, if its salt was lost before.
`OpenInv` therefore speaks of the commitments about to be published too (the leaves of the run,
the lines of its checkout, the one in hand), and says that the upsert of a row replaces no commitment but
its own and the one whose salt it hands to the superseded reveal.

*Workflows* (in the behaviours of `MCQueues`).  `OneWriter` says nothing of queues, so it
is not inductive: a job starts writing because it holds the group, and that the others do not is known
only if the stage of every run says which groups it is in.  `QueuesOK` says so for both
levels of groups: a run is holder or pending item of a group exactly in the stages of
`Holding`, pending only in those of `Behind`, and where there is no holder nobody waits.
Each action is a lemma that moves at most one run through `Enqueue` or `Finish`, whose effect on
`QueuesOK` is proved once (with the pending item it displaces and the one it frees).
`WritersTakeTurns` follows; `BaseIsLedger` (only the holder extends the ledger between a
checkout and its push), `UploadInv` (what an upload has put in place),
`accepted <= Cardinality(Trained)` (every accepted model is another run's) and
`FlagMatchesSchema` are inductive on top of it and give `ReleaseStaysWhole`, `FlagsMatch` and
the second half of `WritersTakeTurns`.  `BegunIsKept` is an action property: a push extends what is there,
and the pending item is in `Behind`, before its job.  `QueuesInvariant` carries this
and `LimiterInvariant` through the behaviours in which one of both components moves.

*MarketRegime.*  `RegimeHeld` counts readings over any number of runs, a run sees one
row.  `RowCounts` relates them: the streak of a RISK_OFF row is not above the calm
readings since the last risk-off one as long as that one's row was written, and not
below them as long as no calm one's row was lost; `StateCounts` says the same of a
decision that is not written yet, `RegimeInRow` and `RowIsRegime` that the row knows the
regime of the newest cycle.  `RegimeTypes` and `RegimeIsHeld` follow for every number
of confirmations and every set of voters.

*NewsFeed.*  `NoKeyWasted` rests on two facts about a thread in the loop of
`_fetch_batch_with_rotation` (`LoopOK`): the key it read is not ahead of the active one,
although it was read without a lock, and it alone holds a ticker that has no feed yet, so
nobody else answers it.  `FeedOK` says that a ticker given up had no key left.
`FeedTypes` and `KeysAreUsedUp` follow for every number of threads, tickers and keys.

*HourRow.*  `AnswersReplaceOlder` speaks of the end of a run, `Written` of every point of
it: while a run writes, the row is an older one's or its own, and what it has written so far is
what it answered.  `ToldOnce` says that an announced row is stamped, and that a thesis is only
read of a row nobody announced, unless a stamp was lost.  `HourHolds` follows for any number of runs, models and
seats.

*PriceAlarms.*  How often an alarm was sent is known from the row (armed or not), the mark in
hand and the lost marks (`MarksOK`), because the scan holds only armed rows (`RowsOK`) and no prediction
is made under a scan that holds the older one (`ScanOK`).  A missed hit stays one because a reading is
recorded only on the side of the level where the last one was.

*BotPolling.*  `NoCommandLost` says when the offset may pass an update; `CronOK` says it of the
batch before: what the offset will pass and was not carried out is still in it, and nothing
behind one of its updates has left it.  The order gives the second half: a change of a batch that died
is carried out again only together with every later one, so when the offset passes the newest change (`ChangesOK`)
it is in force.  That a batch is the oldest part of what is pending is a fact about cardinalities
(`BatchIsOldest`); that sets of numbers have a least and a greatest element is proved from the
well-foundedness of strict inclusion (`LeastElement`, `GreatestElement`).

*ShockWatch.*  The three parts speak of the log of pushes, a run sees rows.  `RunKnows` says that on a day
without losses what the run has read is still what the table holds (`Emit`: no row of the day; the
ladder: its rungs; a crypto: the alert times of 24 h), up to its own row, and that this row will not collide.
`PushInHand` and `PushesRecorded` say that every push of such a day has a row of its rung, but for the one in
hand; `TableOK` that rungs are unique and a second one lies on a first, so that a run that escalates has read exactly
one rung, of level 1 (`OneRung`).  The first push of a day from a daily change measures a move that began when those of the
days before had ended (`FirstIsFresh`).  For a crypto the alert times give it: a row is written after the move it
tells ended, and no row of the last 24 h lets the push pass.  For a stock `PushesDated` does: a move ends on the day
of its alert or before, and a daily change of today's quote began at the midnight before (`QuoteOf`).  Pushes and rows are counted against each other one by one (`PushTold`, `RowWritten`).

*CycleDelivery.*  The end of the phase is reached from every step, so `SavedOnce` says for every step which
alerts were swept: all that were recorded, up to the last sweep.  Those were saved once or their insert failed, the
others were not touched.  `OutcomesOK` says that a recipient is waiting or has an outcome, and that the row of the
run was decided when the outcomes were final.  `DeliveryHolds` follows for every set of subscribers and
number of alerts.

*MailWindow.*  A mail leaves out a move that an older mail told, and the move is there because some mail before told
it: `Accounted` follows that chain to a mail which tells the move, or which could not read what it
needed, also for the mail that is being put together.  The move is not told again because the newest row of a
delivered cycle is not older than any (`CycleOK`), so the window begins where the other mail did (`BehindOlder`).
`MailHolds` follows for every number of hours, moves and mails.

*DeadMan.*  The invariant is small (`ReportOK`: a report names what is overdue at the time the switch runs); the work
is in the calendar.  At 9:17 UTC the slots of the Fast Loop that are due are the midnights ET of the trading days before
today, today's is not: `BeforeMidnight` compares a trace with the midnight of a day on both sides of a change of the clock,
`PreviousTradingDay` picks the last of those days.  `SwitchHolds` follows for every set of closures, every length of the
calendar and the limits named above.  This is the exact range: TLC finds `SilenceIsTold` violated with 5 or 29 hours
for the Fast Loop, and with 174 or 214 for the Slow Loop.

*DiagnosisDebt.*  What a run may replace it knows from what its job has read: `ReadsOK` says that a row a
job still has to do was undiagnosed (batch, backfill) or diagnosed (judge) when it was read, so a conditional
update that finds the same text replaces no diagnosis but the one it hands to `rejected_diagnosis`.  For the cap `SpendOK` counts
the requests sent with those the current job may still send, against what the cap has given to the jobs so far:
`Left[j]` is what is left of it behind job `j`, never negative and never growing (`LeftDecreases`).
`DebtHolds` follows for every number of runs and misses and every division of the cap.

*SpendWindows.*  A day and a month are two cases of one argument, about the days of a window and the day its rows are
read from.  `AllBooked`: what the Fast Loops begun in it paid is booked since that day, or untold, or in
the hand of the run; `AdmittedBelow`: a run in hand that was let through found less than the cap.  The first makes the
second true when a run begins, as a run books on the day it began or later, and the
second keeps `Within` while it pays.  The month of a day is that of one start (`MonthFrom`), because a set of
numbers has a greatest element.  `SpendHolds` follows for all caps, costs and calendars.

*FundamentalsRefresh.*  Nobody is saved twice between two turns of another because the cache is ordered: who was
saved since the turn of a company stands behind it, in the cache (`WaitingOK`) and, as the batch takes missing companies first and
then the oldest, also in the batch (`BatchOK`, while ages can be read).  `BatchOK` also says that the requests left
pay for the rest of the batch, two each.  The lemmas are about positions in sequences (`RemoveAt`, `Append`, a prefix of a
concatenation).  `RefreshHolds` follows for every number of companies, keys and requests.

*ReferenceSignal.*  A new call is held back only by the open calls its run has read before its settlements, never by
settled ones, whose writes may have been lost or not.  So `SettledOK` bounds the age of a settled call from below and
that of an expired one from above, and `RunOK` says what a run in hand knows: all that is open is in what it read,
and what it has looked at and left open is too young to be judged.  `JudgedInTime` says that a stored read in the window of a
call found it judged.  With stamps that never fall, `SaveRead`, the only step that appends, keeps `CallsAWeekApart` and
`JudgedByFirstRead`.  `ReferenceHolds` follows for all prices, windows and numbers of runs.

*CouncilDebate.*  The verdict is put together two rounds after a vote may have been given.  `PhaseOK` says what each
phase has behind it (the requests sent, whether a round 1 exists to be kept); `VoteOK` what the chairman is told: a vote of this
round, or that of round 1 of who raised or of a round 2 that left none.  That the recommendation of the
greatest mass was said by somebody, and is the whole mass of a council that agrees, is a fact about the cardinalities of
`Units`.  `DebateHolds` follows for every council, opinions and weights.

*SessionSettlement.*  The invariant says which quote and which reading of the clock each stored record is made of, and in
which order they came (`IInv`): the price before the save, the stamp in the hour of the save, the save before the
settling quote's clock.  The work is in the calendar: with two sure days `next_open` exists, is the opening
of the next trading day and no session opens before it; `last_started_session` is the last day opened, and moments of two
days are in the order of the days.  `FreshIs` and `StaleIs` turn the two verdicts on a quote into openings between two
times; `AfterIs` is about the repeated run: between stamp and save lies an opening, if anything that trades, and
a price that is not of after the save is that opening's, behind the market when it settles.  `SessionHolds` follows for
every calendar and every lag of the quotes.

*WalkForward.*  Stamps never fall over the rows, so what is known at the first row of a block is known at
every later one (`NothingLearntAhead`), and a fold that is kept keeps all later ones.  `Consecutive` says that the
blocks, done and to do, follow each other, also after a fold without rows was dropped; with it
`BlocksTileTheTail`.  The arithmetic of `expanding_window_bounds` gives it at the start: each block has at least one row, and
only the last goes to the end.  `FoldingHolds` follows for every sample and settlement.

*IsotonicFit.*  The regression is stated by a maximum over starts of a minimum over ends, the code compares the last two
blocks.  `BlocksAreSums` relates a block to its points: no run of points from its start is below its value, while it
is being built; `RegressionUntil` says of all blocks but the last that they rise, that no run of points up to
their end is above their value and none from their start to a later end below it.  Pooling two blocks keeps
this because the mean of two runs lies between theirs, which is multiplication without division.  Sums of slices are
cardinalities (`Total`), with lemmas for an added point and for two neighbouring slices.  At the end the last block
satisfies it too, and the two quantifiers of `IsTheRegression` are its two halves.  `FitHolds` follows for every
sequence of points.

*MerkleTree.*  A recursive function is a `CHOOSE`; that one exists which satisfies its equation is
`DefinedByMeasure`, from `Induction`, both stated with sets instead of operators.  It gives the equations of
`Power` and `inclusion_proof`; `SubtreeHash`, whose values are in no known set, has the same argument of its own.  Then the tree is cut into levels:
blocks of a power of two leaves, the last maybe shorter (`BlocksAreSplit`), and `At` says where the loop stands:
`fn` is the block of the claimed position, `sn` the last one, and `computed` is the hash of that
block exactly when leaf and nodes so far were honest.  A node taken from the left or right joins two blocks
(`Joined`), the inner loop passes the levels at which the last block has no sibling (`Raised`, `Climbed`).
At the root nothing of an honest proof is left, because the root is the only block whose proof is as long as the
whole (`PartsHaveShorterProofs`); below it something is.  That is the claim which states the published size.  For any other
size only the leaf is promised: `CommitsTo` says that a hash of the tree commits to the leaf it was computed from, because
leaves and nodes are hashed apart.  `TreeHolds` follows for every bound on the sizes.

*MCServices.*  A behaviour is one of one job, so an invariant of the job alone is one of the
job in the registers.  `JobsProofs` and `AlertsProofs` declare the variables of their jobs; `ServicesProofs`
instantiates them with the registers (`Alone`, `Told`).  The lemmas `Same…` say that a module reached
through them and the same module reached through `MCServices` have the same initial states,
steps and properties; `JobSteps` says that a step of `MCServices` is one of the job it draws.
`KeysAreUsedUp` (`NoKeyWasted`), `LastAnswerStays` (`LastAnswerStands`), `NothingIsForgotten` (`NothingForgotten`),
`MovesToldOnce` (`MovesAreToldOnce`), `EverythingIsAccountedFor` (`DeliveryAccountedFor`), `PaidIsKept`
(`PaidWithinCapAndKept`), `NothingIsMadeUp` (`NothingMadeUp`) and `VerifiedIsIncluded` (`VerifiedIffIncluded`) follow.

Every invariant and every step property of a passing run is stated by one of these theorems.  Only model-checked:
- liveness under fairness, which is outside the prover's reach: `EveryPredictionResolved`, `CycleFinishes`,
  `EverySettledIsRevealed` and `EveryoneIsServed` (every call and every run ends);
- the four violations: they are counterexamples.

## 5. What is left

The four liveness properties hold on the instances of section 3.  A proof of them would need
`ENABLED` and an induction over a measure under fairness.

### Not modelled
- The numerical parts: training and the losses of the promotion rule, other calibrations than
  the isotonic one, drift detectors, portfolio risk, scorecards and evaluation.  They are floating-point computations on data
  read once; TLC has no reals and the unit tests compare values.
- Rendering (reports, digests, charts, pages), parsing of providers' payloads, logging,
  redaction: layout and conversion, without state a property could speak of.
- Configuration, command lines, dependency wiring: evaluated once at start;
  the constants and configurations of the modules are the settings that matter.
- Read-only queries of the repository, and the in-memory repository, which stands for the
  same contracts in tests.
- The weights of the direction challenger, the deploy of Pages, CI, the steps of a job that
  only set up its tools.
- The Rekor entry of a root, the earnings cache, the lock per symbol of the fundamentals
  cache (its only caller in the Slow Loop is one thread), the drift gate,
  the expiry of mutes and the batch mode of the news client: small, and apart from the
  mechanisms above.

The map therefore covers a small share of about 71 000 lines: by far the most of them are
of the kinds just listed.  Where several processes, threads or runs meet in shared state,
or a failure between two steps changes what the next run finds, the code is modelled.
