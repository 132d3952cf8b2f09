--------------------------- MODULE ServicesProofs ---------------------------
(***************************************************************************)
(* The properties of MCServices: a behaviour is one of one job, kept in    *)
(* the registers, so that what JobsProofs and AlertsProofs show of the job *)
(* alone holds of it there.                                                *)
(***************************************************************************)
EXTENDS MCServices, TLAPS

Alone == INSTANCE JobsProofs WITH
    active_key <- x1, key_failures <- x2, reported <- x3, feeds <- x4,
    lock <- x5, worker <- x6, limited <- x7, answered <- x8,
    last_row <- x1, raw <- x2, state <- x3, regime <- x4, change <- x5,
    outs <- x6, before <- x7, entry <- x8, exit_lost <- x9, row_lost <- x10,
    n_hour <- x1, node <- x2, answer <- x3, row <- x4, shadow <- x5,
    votes <- x6, scan <- x7, alarms <- x8, lost <- x9, whole <- x10,
    plan <- x1, insight <- x2, judge_score <- x3, rejected_text <- x4,
    slow <- x5, paid <- x6, escalated <- x7, stored <- x8,
    caps <- x1, date <- x2, booked <- x3, spender <- x4, fast_paid <- x5,
    untold <- x6, n_runs <- x7,
    entries <- x1, n_fresh <- x2, quota <- x3, batch <- x4,
    keys_gone <- x5, aged <- x6, first_run <- x7, waiting <- x8,
    overtaken <- x9,
    today <- x1, reads <- x2, running <- x3,
    weights <- x1, debate_mode <- x2, phase <- x3, calls <- x4,
    first_round <- x5, opinions <- x6, council_verdict <- x7, asked <- x8,
    sessions_of <- x1, moment <- x2, current_price <- x3, prediction <- x4,
    fetched <- x5, price_checked <- x6, settled <- x7,
    stamps <- x1, settled_at <- x2, todo_folds <- x3, folds <- x4,
    points <- x1, taken <- x2, blocks <- x3

Told == INSTANCE AlertsProofs WITH
    quote <- x1, levels <- x2, thesis <- x3, pushed <- x4, unmarked <- x5,
    missed <- x6, watch <- x7,
    chat <- x1, kept <- x2, expired <- x3, update_offset <- x4,
    symbol_mute <- x5, done <- x6, poll <- x7,
    Configs <- WatchConfigs, Prices <- MovePrices, conf <- x1, time <- x2,
    price <- x3, trades <- x4, past <- x5, snapshot <- x6, alerts <- x7,
    log <- x8, faulty <- x9, run <- x10,
    setup <- x1, step <- x2, recorded <- x3, persisted <- x4, saves <- x5,
    refused <- x6, todo <- x7, channels <- x8, report_sent <- x9,
    assembled <- x10, cycle_row <- x11,
    hour <- x1, shock_alerts <- x2, cycle_runs <- x3, cycle <- x4,
    mails <- x5, n_cycles <- x6,
    calendar <- x1, limits <- x2, clock <- x3, fast_seen <- x4,
    slow_seen <- x5, report <- x6,
    n_leaves <- x1, claim <- x2, computed <- x3, path <- x4, fn <- x5,
    sn <- x6, verdict <- x7

-----------------------------------------------------------------------------
(* A step of the watched job is a step of its module.                      *)
LEMMA JobSteps ==
    ASSUME [Next]_vars
    PROVE  /\ job' = job
           /\ job = "news" => [News!Next]_News!feedVars
           /\ job = "hour" => [Hour!Next]_Hour!vars
           /\ job = "regime" => [Regime!Next]_Regime!vars
           /\ job = "tree" => [Tree!Next]_Tree!treeVars
           /\ job = "alarms" => [Alarms!Next]_Alarms!alarmVars
           /\ job = "bot" => [Bot!Next]_Bot!botVars
           /\ job = "watch" => [Watch!Next]_Watch!vars
           /\ job = "delivery" => [Delivery!Next]_Delivery!deliveryVars
           /\ job = "deadman" => [Switch!Next]_Switch!vars
           /\ job = "mail" => [Mail!Next]_Mail!vars
           /\ job = "debt" => [Debt!Next]_Debt!debtVars
           /\ job = "spend" => [Spend!Next]_Spend!vars
           /\ job = "refresh" => [Refresh!Next]_Refresh!vars
           /\ job = "reference" => [Reference!Next]_Reference!vars
           /\ job = "session" => [Session!Next]_Session!vars
           /\ job = "folds" => [Folding!Next]_Folding!vars
           /\ job = "isotonic" => [Isotonic!Next]_Isotonic!vars
           /\ job = "council" => [Debate!Next]_Debate!vars
<1>1. CASE UNCHANGED vars
  <2>1. UNCHANGED <<job, x1, x2, x3, x4, x5, x6, x7, x8, x9, x10, x11>>
    BY <1>1 DEF vars
  <2> QED
    BY <2>1 DEF News!feedVars, News!shared, News!history,
                Hour!vars, Hour!runVars, Hour!hourVars, Hour!watchVars, Regime!vars,
                Alarms!alarmVars, Alarms!alarmHistory, Bot!botVars, Bot!telegram,
                Watch!vars, Watch!market, Delivery!deliveryVars, Delivery!alertVars,
                Switch!vars, Mail!vars, Debt!debtVars, Debt!debtTable, Spend!vars,
                Refresh!vars, Reference!vars, Session!vars, Folding!vars, Isotonic!vars,
                Debate!vars, Tree!treeVars, Tree!loop
<1>2. CASE Next
  BY <1>2 DEF Next
<1> QED
  BY <1>1, <1>2

-----------------------------------------------------------------------------
(* NewsFeed.                                                               *)
LEMMA SameNews ==
    /\ News!Init <=> Alone!News!Init
    /\ [News!Next]_News!feedVars <=> [Alone!News!Next]_Alone!News!feedVars
    /\ News!TypeOK <=> Alone!News!TypeOK
    /\ News!NoKeyWasted <=> Alone!News!NoKeyWasted
<1>1. News!Init <=> Alone!News!Init
  BY DEF News!Init, Alone!News!Init, News!Idle, Alone!News!Idle
<1>2. [News!Next]_News!feedVars <=> [Alone!News!Next]_Alone!News!feedVars
  BY DEF News!Next, Alone!News!Next, News!Ask, Alone!News!Ask, News!shared,
         Alone!News!shared, News!history, Alone!News!history, News!Idle,
         Alone!News!Idle, News!Lock, Alone!News!Lock, News!Go, Alone!News!Go,
         News!Return, Alone!News!Return, News!ReadKey, Alone!News!ReadKey,
         News!Answer, Alone!News!Answer, News!Cache, Alone!News!Cache, News!Limit,
         Alone!News!Limit, News!RotatePast, Alone!News!RotatePast,
         News!MarkExhausted, Alone!News!MarkExhausted, News!Done, Alone!News!Done,
         News!feedVars, Alone!News!feedVars
<1>3. News!TypeOK <=> Alone!News!TypeOK
  BY DEF News!TypeOK, Alone!News!TypeOK, News!Keys, Alone!News!Keys, News!Feeds,
         Alone!News!Feeds, News!Workers, Alone!News!Workers
<1>4. News!NoKeyWasted <=> Alone!News!NoKeyWasted
  BY DEF News!NoKeyWasted, Alone!News!NoKeyWasted, News!Keys, Alone!News!Keys
<1> QED
  BY <1>1, <1>2, <1>3, <1>4

(* Alpha Vantage, for every number of threads, tickers and keys: no key is *)
(* passed over before it answered with a limit, no symbol given up before  *)
(* all keys did, and none is paid twice (_rotate_past, _fetch_symbol).     *)
THEOREM KeysAreUsedUp == Spec => []NoKeyWasted
<1> DEFINE Inv == job = "news" => Alone!NewsInv
<1>1. Alone!FeedConstants
  BY FeedAssumption DEF Alone!FeedConstants, News!Feeds, Alone!News!Feeds
<1>2. Init => Inv
  BY <1>1, SameNews, Alone!InitKeepsNews DEF Init
<1>3. Inv /\ [Next]_vars => Inv'
  <2> SUFFICES ASSUME Inv, [Next]_vars, job' = "news" PROVE Alone!NewsInv'
    OBVIOUS
  <2>1. Alone!NewsInv /\ [Alone!News!Next]_Alone!News!feedVars
    BY JobSteps, SameNews
  <2> QED
    BY <1>1, <2>1, Alone!NextKeepsNews
<1>4. Inv => NoKeyWasted
  <2> SUFFICES ASSUME Alone!NewsInv PROVE News!TypeOK /\ News!NoKeyWasted
    BY DEF NoKeyWasted
  <2> QED
    BY <1>1, SameNews, Alone!NewsInvImpliesNoKeyWasted DEF Alone!NewsInv
<1> QED
  BY <1>2, <1>3, <1>4, PTL DEF Spec

-----------------------------------------------------------------------------
(* HourRow.                                                                *)
LEMMA SameHour ==
    /\ Hour!Init <=> Alone!Hour!Init
    /\ [Hour!Next]_Hour!vars <=> [Alone!Hour!Next]_Alone!Hour!vars
    /\ Hour!TypeOK <=> Alone!Hour!TypeOK
    /\ Hour!AnswersReplaceOlder <=> Alone!Hour!AnswersReplaceOlder
    /\ Hour!OneAlarmPerRow <=> Alone!Hour!OneAlarmPerRow
<1>1. Hour!Init <=> Alone!Hour!Init
  BY DEF Hour!Init, Alone!Hour!Init, Hour!Models, Alone!Hour!Models
<1>2. [Hour!Next]_Hour!vars <=> [Alone!Hour!Next]_Alone!Hour!vars
  BY DEF Hour!Next, Alone!Hour!Next, Hour!Analyse, Alone!Hour!Analyse, Hour!Trends,
         Alone!Hour!Trends, Hour!Models, Alone!Hour!Models, Hour!hourVars,
         Alone!Hour!hourVars, Hour!watchVars, Alone!Hour!watchVars,
         Hour!_parse_invalidation, Alone!Hour!_parse_invalidation,
         Hour!is_valid_invalidation, Alone!Hour!is_valid_invalidation,
         Hour!save_prediction, Alone!Hour!save_prediction, Hour!Merged,
         Alone!Hour!Merged, Hour!MergedLevel, Alone!Hour!MergedLevel,
         Hour!_persist_shadow_predictions, Alone!Hour!_persist_shadow_predictions,
         Hour!save_shadow_predictions, Alone!Hour!save_shadow_predictions,
         Hour!save_council_votes, Alone!Hour!save_council_votes, Hour!Cut,
         Alone!Hour!Cut, Hour!get_open_invalidations,
         Alone!Hour!get_open_invalidations, Hour!runVars, Alone!Hour!runVars,
         Hour!scan_invalidations, Alone!Hour!scan_invalidations,
         Hour!is_thesis_invalidated, Alone!Hour!is_thesis_invalidated, Hour!Settle,
         Alone!Hour!Settle, Hour!ReviewChallengers, Alone!Hour!ReviewChallengers,
         Hour!vars, Alone!Hour!vars
<1>3. Hour!TypeOK <=> Alone!Hour!TypeOK
  BY DEF Hour!TypeOK, Alone!Hour!TypeOK, Hour!Models, Alone!Hour!Models, Hour!Nodes,
         Alone!Hour!Nodes, Hour!Answers, Alone!Hour!Answers, Hour!Trends,
         Alone!Hour!Trends, Hour!Theses, Alone!Hour!Theses, Hour!Rows,
         Alone!Hour!Rows
<1>4. Hour!AnswersReplaceOlder <=> Alone!Hour!AnswersReplaceOlder
  BY DEF Hour!AnswersReplaceOlder, Alone!Hour!AnswersReplaceOlder
<1>5. Hour!OneAlarmPerRow <=> Alone!Hour!OneAlarmPerRow
  BY DEF Hour!OneAlarmPerRow, Alone!Hour!OneAlarmPerRow
<1> QED
  BY <1>1, <1>2, <1>3, <1>4, <1>5

(* For every number of runs of an hour, prices, levels, models and         *)
(* personas: the last run replaces what the run before it answered, unless *)
(* one of its writes failed, and the watch announces the row once, unless  *)
(* a stamp was lost (save_prediction, scan_invalidations).                 *)
THEOREM LastAnswerStays == Spec => []LastAnswerStands
<1> DEFINE Inv == job = "hour" => Alone!Hour!IInv
<1>1. Alone!HourConstants
  BY HourAssumption DEF Alone!HourConstants, Hour!Answers, Alone!Hour!Answers, Hour!Theses,
     Alone!Hour!Theses, Hour!Rows, Alone!Hour!Rows, Hour!Trends, Alone!Hour!Trends,
     Hour!Models, Alone!Hour!Models
<1>2. Init => Inv
  BY <1>1, SameHour, Alone!InitKeepsHour DEF Init
<1>3. Inv /\ [Next]_vars => Inv'
  <2> SUFFICES ASSUME Inv, [Next]_vars, job' = "hour" PROVE Alone!Hour!IInv'
    OBVIOUS
  <2>1. Alone!Hour!IInv /\ [Alone!Hour!Next]_Alone!Hour!vars
    BY JobSteps, SameHour
  <2> QED
    BY <1>1, <2>1, Alone!NextKeepsHour
<1>4. Inv => LastAnswerStands
  <2> SUFFICES ASSUME Alone!Hour!IInv
               PROVE  Hour!TypeOK /\ Hour!AnswersReplaceOlder /\ Hour!OneAlarmPerRow
    BY DEF LastAnswerStands
  <2>1. Alone!Hour!TypeOK /\ Alone!Hour!AnswersReplaceOlder /\ Alone!Hour!ToldOnce
    BY DEF Alone!Hour!IInv
  <2>2. Alone!Hour!OneAlarmPerRow
    BY <2>1 DEF Alone!Hour!ToldOnce, Alone!Hour!OneAlarmPerRow, Alone!Hour!TypeOK
  <2> QED
    BY <2>1, <2>2, SameHour
<1> QED
  BY <1>2, <1>3, <1>4, PTL DEF Spec

-----------------------------------------------------------------------------
(* PriceAlarms.                                                            *)
LEMMA SameAlarms ==
    /\ Alarms!Init <=> Told!Alarms!Init
    /\ [Alarms!Next]_Alarms!alarmVars <=> [Told!Alarms!Next]_Told!Alarms!alarmVars
    /\ Alarms!TypeOK <=> Told!Alarms!TypeOK
    /\ Alarms!HitsAreNotForgotten <=> Told!Alarms!HitsAreNotForgotten
<1>1. Alarms!Init <=> Told!Alarms!Init
  BY DEF Alarms!Init, Told!Alarms!Init, Alarms!LevelDirections,
         Told!Alarms!LevelDirections, Alarms!Rows, Told!Alarms!Rows, Alarms!Quiet,
         Told!Alarms!Quiet
<1>2. [Alarms!Next]_Alarms!alarmVars <=> [Told!Alarms!Next]_Told!Alarms!alarmVars
  BY DEF Alarms!Next, Told!Alarms!Next, Alarms!Rows, Told!Alarms!Rows,
         Alarms!LevelDirections, Told!Alarms!LevelDirections, Alarms!Move,
         Told!Alarms!Move, Alarms!alarmHistory, Told!Alarms!alarmHistory,
         Alarms!Predict, Told!Alarms!Predict, Alarms!Settle, Told!Alarms!Settle,
         Alarms!StartLevels, Told!Alarms!StartLevels, Alarms!Quiet,
         Told!Alarms!Quiet, Alarms!Seeded, Told!Alarms!Seeded, Alarms!NewLevel,
         Told!Alarms!NewLevel, Alarms!StartTheses, Told!Alarms!StartTheses,
         Alarms!Finish, Told!Alarms!Finish, Alarms!NotHit, Told!Alarms!NotHit,
         Alarms!Hit, Told!Alarms!Hit, Alarms!is_hit, Told!Alarms!is_hit,
         Alarms!crossed, Told!Alarms!crossed, Alarms!is_thesis_invalidated,
         Told!Alarms!is_thesis_invalidated, Alarms!RowDone, Told!Alarms!RowDone,
         Alarms!Recorded, Told!Alarms!Recorded, Alarms!Undelivered,
         Told!Alarms!Undelivered, Alarms!Deliver, Told!Alarms!Deliver,
         Alarms!Mark, Told!Alarms!Mark, Alarms!Return, Told!Alarms!Return,
         Alarms!MarkFails, Told!Alarms!MarkFails, Alarms!Cancelled,
         Told!Alarms!Cancelled, Alarms!alarmVars, Told!Alarms!alarmVars
<1>3. Alarms!TypeOK <=> Told!Alarms!TypeOK
  BY DEF Alarms!TypeOK, Told!Alarms!TypeOK, Alarms!LevelDirections,
         Told!Alarms!LevelDirections, Alarms!Rows, Told!Alarms!Rows,
         Alarms!LevelRows, Told!Alarms!LevelRows, Alarms!Theses,
         Told!Alarms!Theses
<1>4. Alarms!HitsAreNotForgotten <=> Told!Alarms!HitsAreNotForgotten
  BY DEF Alarms!HitsAreNotForgotten, Told!Alarms!HitsAreNotForgotten,
         Alarms!LevelDirections, Told!Alarms!LevelDirections, Alarms!Rows,
         Told!Alarms!Rows, Alarms!Armed, Told!Alarms!Armed
<1> QED
  BY <1>1, <1>2, <1>3, <1>4

(* BotPolling.                                                             *)
LEMMA SameBot ==
    /\ Bot!Init <=> Told!Bot!Init
    /\ [Bot!Next]_Bot!botVars <=> [Told!Bot!Next]_Told!Bot!botVars
    /\ Bot!TypeOK <=> Told!Bot!TypeOK
    /\ Bot!NoCommandLost <=> Told!Bot!NoCommandLost
<1>0. /\ \A S : Bot!Cardinality(S) = Told!Bot!Cardinality(S)
      /\ \A S : Bot!Min(S) = Told!Bot!Min(S) /\ Bot!Max(S) = Told!Bot!Max(S)
  BY DEF Bot!Cardinality, Told!Bot!Cardinality, Bot!Min, Told!Bot!Min, Bot!Max,
         Told!Bot!Max
<1>1. Bot!Init <=> Told!Bot!Init
  BY DEF Bot!Init, Told!Bot!Init, Bot!Polls, Told!Bot!Polls, Bot!Idle,
         Told!Bot!Idle
<1>2. [Bot!Next]_Bot!botVars <=> [Told!Bot!Next]_Told!Bot!botVars
  <2>1. \A u : Bot!Send(u) <=> Told!Bot!Send(u)
    BY DEF Bot!Send, Told!Bot!Send
  <2>2. Bot!ExpireOldest <=> Told!Bot!ExpireOldest
    BY <1>0 DEF Bot!ExpireOldest, Told!Bot!ExpireOldest
  <2>3. \A r : Bot!Fetch(r) <=> Told!Bot!Fetch(r)
    BY <1>0 DEF Bot!Fetch, Told!Bot!Fetch, Bot!Idle, Told!Bot!Idle, Bot!Pending,
           Told!Bot!Pending, Bot!Batch, Told!Bot!Batch
  <2>4. \A r : Bot!SaveOffset(r) <=> Told!Bot!SaveOffset(r)
    BY DEF Bot!SaveOffset, Told!Bot!SaveOffset, Bot!telegram, Told!Bot!telegram,
           Bot!Writes, Told!Bot!Writes, Bot!Idle, Told!Bot!Idle
  <2>5. \A r : Bot!Dies(r) <=> Told!Bot!Dies(r)
    BY DEF Bot!Dies, Told!Bot!Dies, Bot!telegram, Told!Bot!telegram, Bot!Idle,
           Told!Bot!Idle
  <2>6. \A r, i : Bot!Answer(r, i) <=> Told!Bot!Answer(r, i)
    BY <1>0 DEF Bot!Answer, Told!Bot!Answer, Bot!telegram, Told!Bot!telegram,
           Bot!Writes, Told!Bot!Writes, Bot!Take, Told!Bot!Take, Bot!Outcome,
           Told!Bot!Outcome
  <2>7. \A r, i : Bot!AnswerFails(r, i) <=> Told!Bot!AnswerFails(r, i)
    BY <1>0 DEF Bot!AnswerFails, Told!Bot!AnswerFails, Bot!telegram,
           Told!Bot!telegram, Bot!Writes, Told!Bot!Writes, Bot!Take, Told!Bot!Take,
           Bot!Outcome, Told!Bot!Outcome
  <2> QED
    BY <2>1, <2>2, <2>3, <2>4, <2>5, <2>6, <2>7 DEF Bot!Next, Told!Bot!Next,
           Bot!botVars, Told!Bot!botVars, Bot!telegram, Told!Bot!telegram,
           Bot!Updates, Told!Bot!Updates, Bot!Polls, Told!Bot!Polls, Bot!Ids,
           Told!Bot!Ids
<1>3. Bot!TypeOK <=> Told!Bot!TypeOK
  BY DEF Bot!TypeOK, Told!Bot!TypeOK, Bot!Polls, Told!Bot!Polls, Bot!Updates,
         Told!Bot!Updates, Bot!Ids, Told!Bot!Ids
<1>4. Bot!NoCommandLost <=> Told!Bot!NoCommandLost
  BY <1>0 DEF Bot!NoCommandLost, Told!Bot!NoCommandLost, Bot!Idle, Told!Bot!Idle,
         Bot!Passed, Told!Bot!Passed, Bot!Ids, Told!Bot!Ids, Bot!Changes,
         Told!Bot!Changes, Bot!PassedIsDone, Told!Bot!PassedIsDone, Bot!Commands,
         Told!Bot!Commands
<1> QED
  BY <1>1, <1>2, <1>3, <1>4

(* MarketRegime.                                                           *)
LEMMA SameRegime ==
    /\ Regime!Init <=> Alone!Regime!Init
    /\ [Regime!Next]_Regime!vars <=> [Alone!Regime!Next]_Alone!Regime!vars
    /\ Regime!TypeOK <=> Alone!Regime!TypeOK
    /\ Regime!RegimeHeld <=> Alone!Regime!RegimeHeld
<1>0. \A S : Regime!Cardinality(S) = Alone!Regime!Cardinality(S)
  BY DEF Regime!Cardinality, Alone!Regime!Cardinality
<1>1. Regime!Init <=> Alone!Regime!Init
  BY DEF Regime!Init, Alone!Regime!Init
<1>2. [Regime!Next]_Regime!vars <=> [Alone!Regime!Next]_Alone!Regime!vars
  <2>1. Regime!Classify <=> Alone!Regime!Classify
    BY <1>0 DEF Regime!Classify, Alone!Regime!Classify, Regime!Severities,
           Alone!Regime!Severities, Regime!overall_alert, Alone!Regime!overall_alert,
           Regime!classify, Alone!Regime!classify, Regime!Elevated,
           Alone!Regime!Elevated
  <2>2. Regime!Decide <=> Alone!Regime!Decide
    BY DEF Regime!Decide, Alone!Regime!Decide, Regime!apply_hysteresis,
           Alone!Regime!apply_hysteresis, Regime!Out, Alone!Regime!Out,
           Regime!Decided, Alone!Regime!Decided, Regime!risk_off_change,
           Alone!Regime!risk_off_change, Regime!Count, Alone!Regime!Count
  <2>3. Regime!DecideRaw <=> Alone!Regime!DecideRaw
    BY DEF Regime!DecideRaw, Alone!Regime!DecideRaw, Regime!Count,
           Alone!Regime!Count, Regime!Out, Alone!Regime!Out, Regime!RowLost,
           Alone!Regime!RowLost
  <2>4. Regime!save_regime_state <=> Alone!Regime!save_regime_state
    BY DEF Regime!save_regime_state, Alone!Regime!save_regime_state, Regime!Out,
           Alone!Regime!Out
  <2>5. Regime!SaveFails <=> Alone!Regime!SaveFails
    BY DEF Regime!SaveFails, Alone!Regime!SaveFails, Regime!RowLost,
           Alone!Regime!RowLost, Regime!Out, Alone!Regime!Out
  <2> QED
    BY <2>1, <2>2, <2>3, <2>4, <2>5 DEF Regime!Next, Alone!Regime!Next, Regime!vars,
           Alone!Regime!vars
<1>3. Regime!TypeOK <=> Alone!Regime!TypeOK
  BY DEF Regime!TypeOK, Alone!Regime!TypeOK, Regime!Regimes, Alone!Regime!Regimes,
         Regime!States, Alone!Regime!States
<1>4. Regime!RegimeHeld <=> Alone!Regime!RegimeHeld
  BY DEF Regime!RegimeHeld, Alone!Regime!RegimeHeld, Regime!Out, Alone!Regime!Out
<1> QED
  BY <1>1, <1>2, <1>3, <1>4

(* The regime, the alarms and the bot, for every number of confirmations,  *)
(* voters, prices, alarms, updates and every size of a batch: what a run   *)
(* could not finish is still there for the next one (apply_hysteresis,     *)
(* scan_price_levels, scan_invalidations, fetch_messages).                 *)
THEOREM NothingIsForgotten == Spec => []NothingForgotten
<1> DEFINE Inv == /\ job = "regime" => Alone!RegimeInv
                  /\ job = "alarms" => Told!Alarms!IInv
                  /\ job = "bot" => Told!Bot!IInv
<1>1. Alone!RegimeConstants
  BY RegimeAssumption DEF Alone!RegimeConstants, Regime!States, Alone!Regime!States,
     Regime!Regimes, Alone!Regime!Regimes
<1>2. Told!AlarmConstants
  BY AlarmAssumption DEF Told!AlarmConstants, Alarms!LevelRows, Told!Alarms!LevelRows,
     Alarms!Theses, Told!Alarms!Theses
<1>3. Told!BotConstants
  BY BotAssumption DEF Told!BotConstants
<1>4. Init => Inv
  <2> SUFFICES ASSUME Init PROVE Inv
    OBVIOUS
  <2>1. /\ job = "regime" => Regime!Init
        /\ job = "alarms" => Alarms!Init
        /\ job = "bot" => Bot!Init
    BY DEF Init
  <2>2. job = "regime" => Alone!RegimeInv
    BY <1>1, <2>1, SameRegime, Alone!InitKeepsRegime
  <2>3. job = "alarms" => Told!Alarms!IInv
    BY <1>2, <2>1, SameAlarms, Told!InitKeepsAlarms
  <2>4. job = "bot" => Told!Bot!IInv
    BY <1>3, <2>1, SameBot, Told!InitKeepsBot
  <2> QED
    BY <2>2, <2>3, <2>4
<1>5. Inv /\ [Next]_vars => Inv'
  <2> SUFFICES ASSUME Inv, [Next]_vars PROVE Inv'
    OBVIOUS
  <2>1. ASSUME job' = "regime" PROVE Alone!RegimeInv'
    <3>1. Alone!RegimeInv /\ [Alone!Regime!Next]_Alone!Regime!vars
      BY <2>1, JobSteps, SameRegime
    <3> QED
      BY <1>1, <3>1, Alone!NextKeepsRegime
  <2>2. ASSUME job' = "alarms" PROVE Told!Alarms!IInv'
    <3>1. Told!Alarms!IInv /\ [Told!Alarms!Next]_Told!Alarms!alarmVars
      BY <2>2, JobSteps, SameAlarms
    <3> QED
      BY <1>2, <3>1, Told!NextKeepsAlarms
  <2>3. ASSUME job' = "bot" PROVE Told!Bot!IInv'
    <3>1. Told!Bot!IInv /\ [Told!Bot!Next]_Told!Bot!botVars
      BY <2>3, JobSteps, SameBot
    <3> QED
      BY <1>3, <3>1, Told!NextKeepsBot
  <2> QED
    BY <2>1, <2>2, <2>3
<1>6. Inv => NothingForgotten
  <2> SUFFICES ASSUME Inv PROVE NothingForgotten
    OBVIOUS
  <2>1. job = "regime" => Regime!TypeOK /\ Regime!RegimeHeld
    BY SameRegime DEF Alone!RegimeInv, Alone!RegimeDomains, Alone!Regime!TypeOK
  <2>2. job = "alarms" => Alarms!TypeOK /\ Alarms!HitsAreNotForgotten
    BY SameAlarms DEF Told!Alarms!IInv
  <2>3. job = "bot" => Bot!TypeOK /\ Bot!NoCommandLost
    BY <1>3, SameBot, Told!IInvImpliesNoCommandLost DEF Told!Bot!IInv
  <2> QED
    BY <2>1, <2>2, <2>3 DEF NothingForgotten
<1> QED
  BY <1>4, <1>5, <1>6, PTL DEF Spec

-----------------------------------------------------------------------------
(* ShockWatch.                                                             *)
LEMMA SameWatch ==
    /\ Watch!Init <=> Told!Watch!Init
    /\ [Watch!Next]_Watch!vars <=> [Told!Watch!Next]_Told!Watch!vars
    /\ Watch!TypeOK <=> Told!Watch!TypeOK
    /\ Watch!RowsMatchPushes <=> Told!Watch!RowsMatchPushes
    /\ Watch!LadderClimbs <=> Told!Watch!LadderClimbs
    /\ Watch!RepeatedOnlyFromSnapshot <=> Told!Watch!RepeatedOnlyFromSnapshot
<1>1. \A S : Watch!Cardinality(S) = Told!Watch!Cardinality(S)
  BY DEF Watch!Cardinality, Told!Watch!Cardinality
<1>2. Watch!Init <=> Told!Watch!Init
  BY DEF Watch!Init, Told!Watch!Init, Watch!Noon, Told!Watch!Noon
<1>3. [Watch!Next]_Watch!vars <=> [Told!Watch!Next]_Told!Watch!vars
  <2>1. Watch!Tick <=> Told!Watch!Tick
    BY DEF Watch!Tick, Told!Watch!Tick, Watch!InSession, Told!Watch!InSession,
       Watch!QuartersPerDay, Told!Watch!QuartersPerDay
  <2>2. \A p : Watch!Trade(p) <=> Told!Watch!Trade(p)
    BY DEF Watch!Trade, Told!Watch!Trade, Watch!InSession,
       Told!Watch!InSession, Watch!QuartersPerDay,
       Told!Watch!QuartersPerDay
  <2>3. Watch!FastLoopSnapshot <=> Told!Watch!FastLoopSnapshot
    BY DEF Watch!FastLoopSnapshot, Told!Watch!FastLoopSnapshot, Watch!market,
       Told!Watch!market
  <2>4. \A history, window, rungs : Watch!Start(history, window, rungs) <=> Told!Watch!Start(history, window, rungs)
    BY DEF Watch!Start, Told!Watch!Start, Watch!market, Told!Watch!market,
       Watch!ROLLING_CHANGE_WINDOW, Told!Watch!ROLLING_CHANGE_WINDOW,
       Watch!Day, Told!Watch!Day, Watch!get_sent_shock_alerts,
       Told!Watch!get_sent_shock_alerts, Watch!get_shock_alert_times,
       Told!Watch!get_shock_alert_times, Watch!get_shock_alert_levels,
       Told!Watch!get_shock_alert_levels, Watch!QuartersPerDay,
       Told!Watch!QuartersPerDay
  <2>5. Watch!SkipSymbol <=> Told!Watch!SkipSymbol
    BY DEF Watch!SkipSymbol, Told!Watch!SkipSymbol, Watch!market,
       Told!Watch!market, Watch!At, Told!Watch!At, Watch!ToPortfolio,
       Told!Watch!ToPortfolio
  <2>6. \A reading : Watch!QuietSymbol(reading) <=> Told!Watch!QuietSymbol(reading)
    BY <1>1 DEF Watch!QuietSymbol, Told!Watch!QuietSymbol, Watch!market,
       Told!Watch!market, Watch!MeasureOnly, Told!Watch!MeasureOnly,
       Watch!ToPortfolio, Told!Watch!ToPortfolio, Watch!Reportable,
       Told!Watch!Reportable, Watch!Emit, Told!Watch!Emit,
       Watch!Escalating, Told!Watch!Escalating, Watch!Abs, Told!Watch!Abs,
       Watch!is_move_already_alerted, Told!Watch!is_move_already_alerted,
       Watch!should_escalate, Told!Watch!should_escalate,
       Watch!MAX_SHOCK_ALERTS_PER_DAY,
       Told!Watch!MAX_SHOCK_ALERTS_PER_DAY, Watch!ROLLING_CHANGE_WINDOW,
       Told!Watch!ROLLING_CHANGE_WINDOW,
       Watch!SHOCK_ESCALATION_MULTIPLIER,
       Told!Watch!SHOCK_ESCALATION_MULTIPLIER, Watch!DirectionOf,
       Told!Watch!DirectionOf, Watch!QuartersPerDay,
       Told!Watch!QuartersPerDay
  <2>7. \A reading : Watch!SymbolPushFails(reading) <=> Told!Watch!SymbolPushFails(reading)
    BY <1>1 DEF Watch!SymbolPushFails, Told!Watch!SymbolPushFails, Watch!market,
       Told!Watch!market, Watch!ToPortfolio, Told!Watch!ToPortfolio,
       Watch!Reportable, Told!Watch!Reportable, Watch!Abs, Told!Watch!Abs,
       Watch!is_move_already_alerted, Told!Watch!is_move_already_alerted,
       Watch!should_escalate, Told!Watch!should_escalate,
       Watch!Escalating, Told!Watch!Escalating, Watch!MeasureOnly,
       Told!Watch!MeasureOnly, Watch!ROLLING_CHANGE_WINDOW,
       Told!Watch!ROLLING_CHANGE_WINDOW, Watch!MAX_SHOCK_ALERTS_PER_DAY,
       Told!Watch!MAX_SHOCK_ALERTS_PER_DAY,
       Watch!SHOCK_ESCALATION_MULTIPLIER,
       Told!Watch!SHOCK_ESCALATION_MULTIPLIER, Watch!DirectionOf,
       Told!Watch!DirectionOf, Watch!Emit, Told!Watch!Emit,
       Watch!QuartersPerDay, Told!Watch!QuartersPerDay
  <2>8. \A reading : Watch!AlertSymbol(reading) <=> Told!Watch!AlertSymbol(reading)
    BY <1>1, ZenonT(60) DEF Watch!AlertSymbol, Told!Watch!AlertSymbol, Watch!market,
       Told!Watch!market, Watch!DirectionOf, Told!Watch!DirectionOf,
       Watch!next_shock_level, Told!Watch!next_shock_level, Watch!Today,
       Told!Watch!Today, Watch!Escalating, Told!Watch!Escalating,
       Watch!Reportable, Told!Watch!Reportable, Watch!Push,
       Told!Watch!Push, Watch!Day, Told!Watch!Day,
       Watch!MAX_SHOCK_ALERTS_PER_DAY,
       Told!Watch!MAX_SHOCK_ALERTS_PER_DAY, Watch!Emit, Told!Watch!Emit,
       Watch!Abs, Told!Watch!Abs, Watch!is_move_already_alerted,
       Told!Watch!is_move_already_alerted, Watch!should_escalate,
       Told!Watch!should_escalate, Watch!MeasureOnly,
       Told!Watch!MeasureOnly, Watch!SHOCK_ESCALATION_MULTIPLIER,
       Told!Watch!SHOCK_ESCALATION_MULTIPLIER, Watch!QuartersPerDay,
       Told!Watch!QuartersPerDay, Watch!ROLLING_CHANGE_WINDOW,
       Told!Watch!ROLLING_CHANGE_WINDOW
  <2>9. Watch!QuietPortfolio <=> Told!Watch!QuietPortfolio
    BY DEF Watch!QuietPortfolio, Told!Watch!QuietPortfolio, Watch!market,
       Told!Watch!market, Watch!At, Told!Watch!At, Watch!PortfolioShock,
       Told!Watch!PortfolioShock, Watch!Abs, Told!Watch!Abs
  <2>10. Watch!PortfolioPushFails <=> Told!Watch!PortfolioPushFails
    BY DEF Watch!PortfolioPushFails, Told!Watch!PortfolioPushFails,
       Watch!market, Told!Watch!market, Watch!At, Told!Watch!At,
       Watch!PortfolioShock, Told!Watch!PortfolioShock, Watch!Abs,
       Told!Watch!Abs
  <2>11. Watch!AlertPortfolio <=> Told!Watch!AlertPortfolio
    BY DEF Watch!AlertPortfolio, Told!Watch!AlertPortfolio, Watch!market,
       Told!Watch!market, Watch!DirectionOf, Told!Watch!DirectionOf,
       Watch!At, Told!Watch!At, Watch!Today, Told!Watch!Today, Watch!Push,
       Told!Watch!Push, Watch!PortfolioShock, Told!Watch!PortfolioShock,
       Watch!Day, Told!Watch!Day, Watch!SHOCK_ESCALATION_MULTIPLIER,
       Told!Watch!SHOCK_ESCALATION_MULTIPLIER, Watch!Abs, Told!Watch!Abs,
       Watch!QuartersPerDay, Told!Watch!QuartersPerDay
  <2>12. Watch!Persist <=> Told!Watch!Persist
    BY DEF Watch!Persist, Told!Watch!Persist, Watch!market, Told!Watch!market,
       Watch!At, Told!Watch!At, Watch!Collides, Told!Watch!Collides,
       Watch!Continue, Told!Watch!Continue
  <2>13. Watch!PersistFails <=> Told!Watch!PersistFails
    BY DEF Watch!PersistFails, Told!Watch!PersistFails, Watch!market,
       Told!Watch!market, Watch!At, Told!Watch!At, Watch!Today,
       Told!Watch!Today, Watch!Continue, Told!Watch!Continue, Watch!Day,
       Told!Watch!Day, Watch!QuartersPerDay, Told!Watch!QuartersPerDay
  <2>14. Watch!Cancelled <=> Told!Watch!Cancelled
    BY DEF Watch!Cancelled, Told!Watch!Cancelled, Watch!market,
       Told!Watch!market, Watch!At, Told!Watch!At, Watch!Today,
       Told!Watch!Today, Watch!Day, Told!Watch!Day, Watch!QuartersPerDay,
       Told!Watch!QuartersPerDay
  <2>15. Watch!Readings = Told!Watch!Readings
    BY DEF Watch!Readings, Told!Watch!Readings, Watch!At, Told!Watch!At,
       Watch!Daily, Told!Watch!Daily, Watch!Snapshot, Told!Watch!Snapshot,
       Watch!UsableDaily, Told!Watch!UsableDaily, Watch!UsableSnapshot,
       Told!Watch!UsableSnapshot, Watch!DailySince, Told!Watch!DailySince,
       Watch!EndOf, Told!Watch!EndOf, Watch!Midnight, Told!Watch!Midnight,
       Watch!ROLLING_CHANGE_WINDOW, Told!Watch!ROLLING_CHANGE_WINDOW,
       Watch!is_daily_change_fresh,
       Told!Watch!is_daily_change_fresh, Watch!AsOf, Told!Watch!AsOf,
       Watch!is_reference_stale, Told!Watch!is_reference_stale, Watch!Day,
       Told!Watch!Day, Watch!InSession, Told!Watch!InSession,
       Watch!SNAPSHOT_MAX_AGE, Told!Watch!SNAPSHOT_MAX_AGE,
       Watch!QuartersPerDay, Told!Watch!QuartersPerDay
  <2> QED
    BY <2>1, <2>2, <2>3, <2>4, <2>5, <2>6, <2>7, <2>8, <2>9, <2>10, <2>11, <2>12, <2>13, <2>14, <2>15
       DEF Watch!Next, Told!Watch!Next, Watch!vars, Told!Watch!vars, Watch!market,
           Told!Watch!market
<1>4. Watch!TypeOK <=> Told!Watch!TypeOK
  <2>1. Watch!Days = Told!Watch!Days
    BY DEF Watch!Days, Told!Watch!Days, Watch!Day, Told!Watch!Day,
       Watch!Times, Told!Watch!Times, Watch!Noon, Told!Watch!Noon, Watch!QuartersPerDay,
       Told!Watch!QuartersPerDay
  <2>2. Watch!Rungs = Told!Watch!Rungs
    BY DEF Watch!Rungs, Told!Watch!Rungs, Watch!MAX_SHOCK_ALERTS_PER_DAY,
       Told!Watch!MAX_SHOCK_ALERTS_PER_DAY, Watch!Directions,
       Told!Watch!Directions
  <2>3. Watch!Rows = Told!Watch!Rows
    BY DEF Watch!Rows, Told!Watch!Rows, Watch!MAX_SHOCK_ALERTS_PER_DAY,
       Told!Watch!MAX_SHOCK_ALERTS_PER_DAY, Watch!Times, Told!Watch!Times, Watch!Noon, Told!Watch!Noon,
       Watch!Days, Told!Watch!Days, Watch!Work, Told!Watch!Work,
       Watch!Directions, Told!Watch!Directions, Watch!Day, Told!Watch!Day,
       Watch!QuartersPerDay, Told!Watch!QuartersPerDay
  <2>4. Watch!Pushes = Told!Watch!Pushes
    BY DEF Watch!Pushes, Told!Watch!Pushes, Watch!MAX_SHOCK_ALERTS_PER_DAY,
       Told!Watch!MAX_SHOCK_ALERTS_PER_DAY, Watch!Times, Told!Watch!Times, Watch!Noon, Told!Watch!Noon,
       Watch!Days, Told!Watch!Days, Watch!Work, Told!Watch!Work,
       Watch!Directions, Told!Watch!Directions, Watch!Day, Told!Watch!Day,
       Watch!QuartersPerDay, Told!Watch!QuartersPerDay
  <2>5. Watch!Times = Told!Watch!Times
    BY DEF Watch!Times, Told!Watch!Times, Watch!Noon, Told!Watch!Noon
  <2>6. Watch!Work = Told!Watch!Work
    BY DEF Watch!Work, Told!Watch!Work
  <2> QED
    BY <2>1, <2>2, <2>3, <2>4, <2>5, <2>6 DEF Watch!TypeOK, Told!Watch!TypeOK
<1>5. Watch!RowsMatchPushes <=> Told!Watch!RowsMatchPushes
  BY <1>1 DEF Watch!RowsMatchPushes, Told!Watch!RowsMatchPushes, Watch!Days,
     Told!Watch!Days, Watch!Work, Told!Watch!Work, Watch!Sent,
     Told!Watch!Sent, Watch!Recorded, Told!Watch!Recorded, Watch!Pending,
     Told!Watch!Pending, Watch!Day, Told!Watch!Day, Watch!Times,
     Told!Watch!Times, Watch!Noon, Told!Watch!Noon, Watch!At, Told!Watch!At, Watch!QuartersPerDay,
     Told!Watch!QuartersPerDay
<1>6. Watch!LadderClimbs <=> Told!Watch!LadderClimbs
  BY DEF Watch!LadderClimbs, Told!Watch!LadderClimbs
<1>7. Watch!RepeatedOnlyFromSnapshot <=> Told!Watch!RepeatedOnlyFromSnapshot
  BY DEF Watch!RepeatedOnlyFromSnapshot, Told!Watch!RepeatedOnlyFromSnapshot
<1> QED
  BY <1>2, <1>3, <1>4, <1>5, <1>6, <1>7

(* The shock watch, for every price and in each configuration: a move is   *)
(* told once and its row says what was told, the second alert of a day     *)
(* climbs, and what is told again on a later day comes from a snapshot     *)
(* (scan_watch, _persist_shock_alert).                                     *)
THEOREM MovesToldOnce == Spec => []MovesAreToldOnce
<1> DEFINE Inv == job = "watch" => Told!Watch!IInv
<1>1. Told!WatchConstants
  <2> DEFINE Jobs == [kind : {"stock", "crypto"}, held : BOOLEAN, ladder : BOOLEAN,
                      horizon : Nat, pushes : Nat, trades : Nat]
  <2>1. WatchConfigs \subseteq Jobs
    <3>1. \A k \in {"stock", "crypto"}, h, l \in BOOLEAN, t, p, n \in Nat :
             Config(k, h, l, t, p, n) \in Jobs
      BY DEF Config
    <3> HIDE DEF Jobs
    <3> QED
      BY <3>1 DEF WatchConfigs
  <2>3. \A c \in WatchConfigs : c.horizon >= Told!Watch!Noon
    BY DEF WatchConfigs, Config, Told!Watch!Noon
  <2>2. /\ Watch!ToRecord(Nat) = Told!Watch!ToRecord(Nat)
        /\ Watch!WatchRuns(Nat, Nat) = Told!Watch!WatchRuns(Nat, Nat)
    BY DEF Watch!ToRecord, Told!Watch!ToRecord, Watch!WatchRuns, Told!Watch!WatchRuns,
           Watch!Work, Told!Watch!Work, Watch!Rungs, Told!Watch!Rungs,
           Watch!Directions, Told!Watch!Directions, Watch!MAX_SHOCK_ALERTS_PER_DAY, Told!Watch!MAX_SHOCK_ALERTS_PER_DAY
  <2> QED
    BY <2>1, <2>2, <2>3, WatchAssumption DEF Told!WatchConstants
<1>2. Init => Inv
  BY <1>1, SameWatch, Told!InitKeepsWatch DEF Init
<1>3. Inv /\ [Next]_vars => Inv'
  <2> SUFFICES ASSUME Inv, [Next]_vars, job' = "watch" PROVE Told!Watch!IInv'
    OBVIOUS
  <2>1. Told!Watch!IInv /\ [Told!Watch!Next]_Told!Watch!vars
    BY JobSteps, SameWatch
  <2> QED
    BY <1>1, <2>1, Told!NextKeepsWatch
<1>4. Inv => MovesAreToldOnce
  <2> SUFFICES ASSUME Told!Watch!IInv
               PROVE  /\ Watch!TypeOK /\ Watch!RowsMatchPushes
                      /\ Watch!LadderClimbs /\ Watch!RepeatedOnlyFromSnapshot
    BY DEF MovesAreToldOnce
  <2> QED
    BY SameWatch DEF Told!Watch!IInv
<1> QED
  BY <1>2, <1>3, <1>4, PTL DEF Spec
-----------------------------------------------------------------------------
(* CycleDelivery.                                                          *)
LEMMA SameDelivery ==
    /\ Delivery!Init <=> Told!Delivery!Init
    /\ [Delivery!Next]_Delivery!deliveryVars <=> [Told!Delivery!Next]_Told!Delivery!deliveryVars
    /\ Delivery!TypeOK <=> Told!Delivery!TypeOK
    /\ Delivery!DeliveryAccountedFor <=> Told!Delivery!DeliveryAccountedFor
<1>1. Delivery!Init <=> Told!Delivery!Init
  BY DEF Delivery!Init, Told!Delivery!Init, Delivery!Recipients,
     Told!Delivery!Recipients, Delivery!Setups, Told!Delivery!Setups
<1>2. [Delivery!Next]_Delivery!deliveryVars <=> [Told!Delivery!Next]_Told!Delivery!deliveryVars
  <2>1. Delivery!Record <=> Told!Delivery!Record
    BY DEF Delivery!Record, Told!Delivery!Record
  <2>2. Delivery!Dispatch <=> Told!Delivery!Dispatch
    BY DEF Delivery!Dispatch, Told!Delivery!Dispatch, Delivery!alertVars,
       Told!Delivery!alertVars
  <2>3. Delivery!Assemble <=> Told!Delivery!Assemble
    BY DEF Delivery!Assemble, Told!Delivery!Assemble, Delivery!Persist,
       Told!Delivery!Persist
  <2>4. Delivery!Archive <=> Told!Delivery!Archive
    BY DEF Delivery!Archive, Told!Delivery!Archive, Delivery!alertVars,
       Told!Delivery!alertVars
  <2>5. \A c : Delivery!Send(c) <=> Told!Delivery!Send(c)
    BY DEF Delivery!Send, Told!Delivery!Send, Delivery!alertVars,
       Told!Delivery!alertVars, Delivery!SkippedWithoutChannel,
       Told!Delivery!SkippedWithoutChannel
  <2>6. Delivery!ReportSent <=> Told!Delivery!ReportSent
    BY DEF Delivery!ReportSent, Told!Delivery!ReportSent, Delivery!alertVars,
       Told!Delivery!alertVars
  <2>7. Delivery!Artefacts <=> Told!Delivery!Artefacts
    BY DEF Delivery!Artefacts, Told!Delivery!Artefacts, Delivery!alertVars,
       Told!Delivery!alertVars
  <2>8. Delivery!Raises <=> Told!Delivery!Raises
    BY DEF Delivery!Raises, Told!Delivery!Raises, Delivery!alertVars,
       Told!Delivery!alertVars
  <2>9. Delivery!Finally <=> Told!Delivery!Finally
    BY DEF Delivery!Finally, Told!Delivery!Finally, Delivery!Persist,
       Told!Delivery!Persist, Delivery!SkippedWithoutChannel,
       Told!Delivery!SkippedWithoutChannel, Delivery!delivered,
       Told!Delivery!delivered, Delivery!email_delivered,
       Told!Delivery!email_delivered, Delivery!Recipients, Told!Delivery!Recipients
  <2>10. Delivery!Finish <=> Told!Delivery!Finish
    BY DEF Delivery!Finish, Told!Delivery!Finish, Delivery!alertVars,
       Told!Delivery!alertVars, Delivery!Persist, Told!Delivery!Persist
  <2>11. Delivery!Ended <=> Told!Delivery!Ended
    BY DEF Delivery!Ended, Told!Delivery!Ended, Delivery!deliveryVars,
       Told!Delivery!deliveryVars, Delivery!alertVars, Told!Delivery!alertVars
  <2> QED
    BY <2>1, <2>2, <2>3, <2>4, <2>5, <2>6, <2>7, <2>8, <2>9, <2>10, <2>11
       DEF Delivery!Next, Told!Delivery!Next, Delivery!deliveryVars, Told!Delivery!deliveryVars, Delivery!alertVars, Told!Delivery!alertVars, Delivery!Recipients, Told!Delivery!Recipients
<1>3. Delivery!TypeOK <=> Told!Delivery!TypeOK
  BY DEF Delivery!TypeOK, Told!Delivery!TypeOK, Delivery!Recipients,
     Told!Delivery!Recipients, Delivery!Outcomes, Told!Delivery!Outcomes,
     Delivery!Setups, Told!Delivery!Setups, Delivery!Steps, Told!Delivery!Steps
<1>4. Delivery!DeliveryAccountedFor <=> Told!Delivery!DeliveryAccountedFor
  BY DEF Delivery!DeliveryAccountedFor, Told!Delivery!DeliveryAccountedFor,
     Delivery!SkippedWithoutChannel, Told!Delivery!SkippedWithoutChannel,
     Delivery!Unreached, Told!Delivery!Unreached
<1> QED
  BY <1>1, <1>2, <1>3, <1>4

(* DeadMan.                                                                *)
LEMMA SameSwitch ==
    /\ Switch!Init <=> Told!Switch!Init
    /\ [Switch!Next]_Switch!vars <=> [Told!Switch!Next]_Told!Switch!vars
    /\ Switch!TypeOK <=> Told!Switch!TypeOK
    /\ Switch!SilenceIsTold <=> Told!Switch!SilenceIsTold
<1>1. \A S : Switch!Max(S) = Told!Switch!Max(S)
  BY DEF Switch!Max, Told!Switch!Max
<1>2. \A S : Switch!Min(S) = Told!Switch!Min(S)
  BY DEF Switch!Min, Told!Switch!Min
<1>3. Switch!Init <=> Told!Switch!Init
  BY DEF Switch!Init, Told!Switch!Init, Switch!Calendars, Told!Switch!Calendars,
     Switch!Limits, Told!Switch!Limits, Switch!Silence, Told!Switch!Silence,
     Switch!Weekdays, Told!Switch!Weekdays, Switch!Sundays, Told!Switch!Sundays,
     Switch!Told, Told!Switch!Told, Switch!Days, Told!Switch!Days, Switch!Weekday,
     Told!Switch!Weekday
<1>4. [Switch!Next]_Switch!vars <=> [Told!Switch!Next]_Told!Switch!vars
  <2>1. Switch!Pass <=> Told!Switch!Pass
    BY <1>2 DEF Switch!Pass, Told!Switch!Pass, Switch!Silence, Told!Switch!Silence,
       Switch!Later, Told!Switch!Later, Switch!Tomorrow, Told!Switch!Tomorrow,
       Switch!Told, Told!Switch!Told, Switch!Day, Told!Switch!Day, Switch!Slots,
       Told!Switch!Slots, Switch!Now, Told!Switch!Now, Switch!Today,
       Told!Switch!Today
  <2>2. Switch!FastLoop <=> Told!Switch!FastLoop
    BY DEF Switch!FastLoop, Told!Switch!FastLoop, Switch!Now, Told!Switch!Now,
       Switch!Day, Told!Switch!Day
  <2>3. Switch!SlowLoop <=> Told!Switch!SlowLoop
    BY DEF Switch!SlowLoop, Told!Switch!SlowLoop, Switch!Sundays, Told!Switch!Sundays,
       Switch!Now, Told!Switch!Now, Switch!Today, Told!Switch!Today, Switch!Days,
       Told!Switch!Days, Switch!Weekday, Told!Switch!Weekday, Switch!Day,
       Told!Switch!Day
  <2>4. Switch!ProbeFails <=> Told!Switch!ProbeFails
    BY DEF Switch!ProbeFails, Told!Switch!ProbeFails, Switch!Check, Told!Switch!Check,
       Switch!Mail, Told!Switch!Mail, Switch!Now, Told!Switch!Now, Switch!Silence,
       Told!Switch!Silence, Switch!Told, Told!Switch!Told, Switch!Day,
       Told!Switch!Day
  <2>5. Switch!ReadFails <=> Told!Switch!ReadFails
    BY DEF Switch!ReadFails, Told!Switch!ReadFails, Switch!Told, Told!Switch!Told,
       Switch!Check, Told!Switch!Check, Switch!Now, Told!Switch!Now, Switch!Silence,
       Told!Switch!Silence, Switch!Day, Told!Switch!Day
  <2>6. Switch!Compare <=> Told!Switch!Compare
    BY DEF Switch!Compare, Told!Switch!Compare, Switch!Told, Told!Switch!Told,
       Switch!overdue_jobs, Told!Switch!overdue_jobs, Switch!Check, Told!Switch!Check,
       Switch!Mail, Told!Switch!Mail, Switch!is_overdue, Told!Switch!is_overdue,
       Switch!is_overdue_on_trading_days, Told!Switch!is_overdue_on_trading_days,
       Switch!Now, Told!Switch!Now, Switch!Silence, Told!Switch!Silence,
       Switch!due_slots, Told!Switch!due_slots, Switch!Day, Told!Switch!Day,
       Switch!Midnight, Told!Switch!Midnight
  <2> QED
    BY <2>1, <2>2, <2>3, <2>4, <2>5, <2>6
       DEF Switch!Next, Told!Switch!Next, Switch!vars, Told!Switch!vars
<1>5. Switch!TypeOK <=> Told!Switch!TypeOK
  BY DEF Switch!TypeOK, Told!Switch!TypeOK, Switch!Calendars, Told!Switch!Calendars,
     Switch!Weekdays, Told!Switch!Weekdays, Switch!Sundays, Told!Switch!Sundays,
     Switch!Days, Told!Switch!Days, Switch!Weekday, Told!Switch!Weekday
<1>6. Switch!SilenceIsTold <=> Told!Switch!SilenceIsTold
  <2>1. /\ Switch!Day = Told!Switch!Day /\ Switch!Today = Told!Switch!Today
        /\ \A d : Switch!Midnight(d) = Told!Switch!Midnight(d)
        /\ Switch!Compared <=> Told!Switch!Compared
    BY DEF Switch!Day, Told!Switch!Day, Switch!Today, Told!Switch!Today, Switch!Midnight,
           Told!Switch!Midnight, Switch!Compared, Told!Switch!Compared
  <2>2. \A t : Switch!ExchangeDay(t) = Told!Switch!ExchangeDay(t)
    BY <2>1 DEF Switch!ExchangeDay, Told!Switch!ExchangeDay
  <2>3. \A d : Switch!PreviousTradingDay(d) = Told!Switch!PreviousTradingDay(d)
    BY <1>1 DEF Switch!PreviousTradingDay, Told!Switch!PreviousTradingDay
  <2> QED
    BY <2>1, <2>2, <2>3 DEF Switch!SilenceIsTold, Told!Switch!SilenceIsTold
<1> QED
  BY <1>3, <1>4, <1>5, <1>6

(* MailWindow.                                                             *)
LEMMA SameMail ==
    /\ Mail!Init <=> Told!Mail!Init
    /\ [Mail!Next]_Mail!vars <=> [Told!Mail!Next]_Told!Mail!vars
    /\ Mail!TypeOK <=> Told!Mail!TypeOK
    /\ Mail!MovesReachTheMail <=> Told!Mail!MovesReachTheMail
    /\ Mail!ToldAgainOnlyInOverlap <=> Told!Mail!ToldAgainOnlyInOverlap
<1>1. \A S : Mail!Max(S) = Told!Mail!Max(S)
  BY DEF Mail!Max, Told!Mail!Max
<1>2. \A S : Mail!Cardinality(S) = Told!Mail!Cardinality(S)
  BY DEF Mail!Cardinality, Told!Mail!Cardinality
<1>3. Mail!Init <=> Told!Mail!Init
  BY DEF Mail!Init, Told!Mail!Init
<1>4. [Mail!Next]_Mail!vars <=> [Told!Mail!Next]_Told!Mail!vars
  <2>1. Mail!Tick <=> Told!Mail!Tick
    BY DEF Mail!Tick, Told!Mail!Tick
  <2>2. Mail!StoreShock <=> Told!Mail!StoreShock
    BY <1>2 DEF Mail!StoreShock, Told!Mail!StoreShock
  <2>3. Mail!StartCycle <=> Told!Mail!StartCycle
    BY DEF Mail!StartCycle, Told!Mail!StartCycle
  <2>4. Mail!Assemble <=> Told!Mail!Assemble
    BY <1>1 DEF Mail!Assemble, Told!Mail!Assemble, Mail!get_last_report_at,
       Told!Mail!get_last_report_at, Mail!shocks_since_last_mail,
       Told!Mail!shocks_since_last_mail, Mail!get_shock_alerts_since,
       Told!Mail!get_shock_alerts_since, Mail!WindowStart, Told!Mail!WindowStart
  <2>5. Mail!Dispatch <=> Told!Mail!Dispatch
    BY DEF Mail!Dispatch, Told!Mail!Dispatch
  <2>6. Mail!persist_cycle_run <=> Told!Mail!persist_cycle_run
    BY DEF Mail!persist_cycle_run, Told!Mail!persist_cycle_run
  <2>7. Mail!CycleEnds <=> Told!Mail!CycleEnds
    BY DEF Mail!CycleEnds, Told!Mail!CycleEnds
  <2> QED
    BY <2>1, <2>2, <2>3, <2>4, <2>5, <2>6, <2>7
       DEF Mail!Next, Told!Mail!Next, Mail!vars, Told!Mail!vars
<1>5. Mail!TypeOK <=> Told!Mail!TypeOK
  BY DEF Mail!TypeOK, Told!Mail!TypeOK, Mail!Hours, Told!Mail!Hours, Mail!Mail,
     Told!Mail!Mail
<1>6. Mail!MovesReachTheMail <=> Told!Mail!MovesReachTheMail
  BY DEF Mail!MovesReachTheMail, Told!Mail!MovesReachTheMail, Mail!Tells,
     Told!Mail!Tells, Mail!LeavesOut, Told!Mail!LeavesOut
<1>7. Mail!ToldAgainOnlyInOverlap <=> Told!Mail!ToldAgainOnlyInOverlap
  BY DEF Mail!ToldAgainOnlyInOverlap, Told!Mail!ToldAgainOnlyInOverlap, Mail!Tells,
     Told!Mail!Tells
<1> QED
  BY <1>3, <1>4, <1>5, <1>6, <1>7

(* For every number of subscribers, alerts, hours, moves and cycles and    *)
(* the calendars and limits of the run: an alert is saved once and a missed*)
(* report accounted for, wherever the delivery phase stops; the dead man's *)
(* switch names the loop that left no trace and no other; a sudden move    *)
(* reaches the next mail, and a second one only for a reason               *)
(* (deliver_report, overdue_jobs, shocks_since_last_mail).                 *)
THEOREM EverythingIsAccountedFor == Spec => []DeliveryAccountedFor
<1> DEFINE Inv == /\ job = "delivery" => Told!Delivery!IInv
                  /\ job = "deadman" => Told!Switch!IInv
                  /\ job = "mail" => Told!Mail!IInv
<1>1. Told!DeliveryConstants
  BY DeliveryAssumption DEF Told!DeliveryConstants, Delivery!Outcomes, Told!Delivery!Outcomes
<1>2. Told!SwitchConstants
  <2>1. \A holidays \in Closures : 0 \notin holidays
    BY DEF Closures
  <2>2. GapChoices \subseteq [fast : {0} \cup 6 .. 28, slow : {0} \cup 175 .. 213]
    <3>1. 26 \in 6 .. 28 /\ 192 \in 175 .. 213
      OBVIOUS
    <3> QED
      BY <3>1 DEF GapChoices
  <2> QED
    BY <2>1, <2>2, SwitchAssumption DEF Told!SwitchConstants
<1>3. Told!MailConstants
  BY MailAssumption DEF Told!MailConstants
<1>4. Init => Inv
  <2> SUFFICES ASSUME Init PROVE Inv
    OBVIOUS
  <2>1. /\ job = "delivery" => Delivery!Init
        /\ job = "deadman" => Switch!Init
        /\ job = "mail" => Mail!Init
    BY DEF Init
  <2>2. job = "delivery" => Told!Delivery!IInv
    BY <1>1, <2>1, SameDelivery, Told!InitKeepsDelivery
  <2>3. job = "deadman" => Told!Switch!IInv
    BY <1>2, <2>1, SameSwitch, Told!InitKeepsSwitch
  <2>4. job = "mail" => Told!Mail!IInv
    BY <1>3, <2>1, SameMail, Told!InitKeepsMail
  <2> QED
    BY <2>2, <2>3, <2>4
<1>5. Inv /\ [Next]_vars => Inv'
  <2> SUFFICES ASSUME Inv, [Next]_vars PROVE Inv'
    OBVIOUS
  <2>1. ASSUME job' = "delivery" PROVE Told!Delivery!IInv'
    <3>1. Told!Delivery!IInv /\ [Told!Delivery!Next]_Told!Delivery!deliveryVars
      BY <2>1, JobSteps, SameDelivery
    <3> QED
      BY <1>1, <3>1, Told!NextKeepsDelivery
  <2>2. ASSUME job' = "deadman" PROVE Told!Switch!IInv'
    <3>1. Told!Switch!IInv /\ [Told!Switch!Next]_Told!Switch!vars
      BY <2>2, JobSteps, SameSwitch
    <3> QED
      BY <1>2, <3>1, Told!NextKeepsSwitch
  <2>3. ASSUME job' = "mail" PROVE Told!Mail!IInv'
    <3>1. Told!Mail!IInv /\ [Told!Mail!Next]_Told!Mail!vars
      BY <2>3, JobSteps, SameMail
    <3> QED
      BY <1>3, <3>1, Told!NextKeepsMail
  <2> QED
    BY <2>1, <2>2, <2>3
<1>6. Inv => DeliveryAccountedFor
  <2> SUFFICES ASSUME Inv PROVE DeliveryAccountedFor
    OBVIOUS
  <2>1. job = "delivery" => Delivery!TypeOK /\ Delivery!DeliveryAccountedFor
    BY <1>1, SameDelivery, Told!IInvImpliesDeliveryAccountedFor DEF Told!Delivery!IInv
  <2>2. job = "deadman" => Switch!TypeOK /\ Switch!SilenceIsTold
    BY <1>2, SameSwitch, Told!IInvImpliesSilenceIsTold DEF Told!Switch!IInv
  <2>3. job = "mail" => Mail!TypeOK /\ Mail!MovesReachTheMail /\ Mail!ToldAgainOnlyInOverlap
    BY <1>3, SameMail, Told!IInvImpliesMailProperties DEF Told!Mail!IInv
  <2> QED
    BY <2>1, <2>2, <2>3 DEF DeliveryAccountedFor
<1> QED
  BY <1>4, <1>5, <1>6, PTL DEF Spec

-----------------------------------------------------------------------------
(* DiagnosisDebt.                                                          *)
LEMMA SameDebt ==
    /\ Debt!Init <=> Alone!Debt!Init
    /\ [Debt!Next]_Debt!debtVars <=> [Alone!Debt!Next]_Alone!Debt!debtVars
    /\ Debt!TypeOK <=> Alone!Debt!TypeOK
    /\ Debt!PaidWithinCapAndKept <=> Alone!Debt!PaidWithinCapAndKept
<1>1. \A S : Debt!Min(S) = Alone!Debt!Min(S)
  BY DEF Debt!Min, Alone!Debt!Min
<1>2. \A S : Debt!Cardinality(S) = Alone!Debt!Cardinality(S)
  BY DEF Debt!Cardinality, Alone!Debt!Cardinality
<1>3. \A k, S : Debt!kSubset(k, S) = Alone!Debt!kSubset(k, S)
  BY <1>2 DEF Debt!kSubset, Alone!Debt!kSubset
<1>4. Debt!Left = Alone!Debt!Left
  BY DEF Debt!Left, Alone!Debt!Left, Debt!Min, Alone!Debt!Min
<1>5. Debt!Budget = Alone!Debt!Budget
  BY <1>4 DEF Debt!Budget, Alone!Debt!Budget, Debt!Jobs, Alone!Debt!Jobs
<1>6. Debt!Init <=> Alone!Debt!Init
  BY DEF Debt!Init, Alone!Debt!Init, Debt!Misses, Alone!Debt!Misses, Debt!Undiagnosed,
     Alone!Debt!Undiagnosed, Debt!Waiting, Alone!Debt!Waiting
<1>7. [Debt!Next]_Debt!debtVars <=> [Alone!Debt!Next]_Alone!Debt!debtVars
  <2>1. \A r : Debt!StartJob(r) <=> Alone!Debt!StartJob(r)
    BY <1>1, <1>2, <1>3, <1>4, <1>5 DEF Debt!StartJob, Alone!Debt!StartJob,
       Debt!debtTable, Alone!Debt!debtTable, Debt!Batches, Alone!Debt!Batches,
       Debt!Misses, Alone!Debt!Misses, Debt!Undiagnosed, Alone!Debt!Undiagnosed,
       Debt!substantive, Alone!Debt!substantive, Debt!First, Alone!Debt!First,
       Debt!Sample, Alone!Debt!Sample, Debt!Diagnoses, Alone!Debt!Diagnoses
  <2>2. \A r : Debt!Exhausted(r) <=> Alone!Debt!Exhausted(r)
    BY DEF Debt!Exhausted, Alone!Debt!Exhausted, Debt!debtTable, Alone!Debt!debtTable,
       Debt!ToJob, Alone!Debt!ToJob
  <2>3. \A r : Debt!Request(r) <=> Alone!Debt!Request(r)
    BY DEF Debt!Request, Alone!Debt!Request, Debt!debtTable, Alone!Debt!debtTable,
       Debt!Spend, Alone!Debt!Spend
  <2>4. \A r : Debt!RequestFails(r) <=> Alone!Debt!RequestFails(r)
    BY DEF Debt!RequestFails, Alone!Debt!RequestFails, Debt!debtTable,
       Alone!Debt!debtTable, Debt!Spend, Alone!Debt!Spend
  <2>5. \A r : Debt!FailOver(r) <=> Alone!Debt!FailOver(r)
    BY DEF Debt!FailOver, Alone!Debt!FailOver, Debt!debtTable, Alone!Debt!debtTable,
       Debt!Spend, Alone!Debt!Spend
  <2>6. \A r : Debt!Escalate(r) <=> Alone!Debt!Escalate(r)
    BY <1>5 DEF Debt!Escalate, Alone!Debt!Escalate, Debt!debtTable,
       Alone!Debt!debtTable, Debt!Spend, Alone!Debt!Spend
  <2>7. \A r : Debt!NoDiagnosis(r) <=> Alone!Debt!NoDiagnosis(r)
    BY <1>1 DEF Debt!NoDiagnosis, Alone!Debt!NoDiagnosis, Debt!debtTable,
       Alone!Debt!debtTable, Debt!Row, Alone!Debt!Row, Debt!NextRow, Alone!Debt!NextRow
  <2>8. \A r : Debt!Diagnose(r) <=> Alone!Debt!Diagnose(r)
    BY <1>1 DEF Debt!Diagnose, Alone!Debt!Diagnose, Debt!Row, Alone!Debt!Row,
       Debt!AfterSave, Alone!Debt!AfterSave, Debt!Text, Alone!Debt!Text
  <2>9. \A r : Debt!Score(r) <=> Alone!Debt!Score(r)
    BY <1>1 DEF Debt!Score, Alone!Debt!Score, Debt!Row, Alone!Debt!Row, Debt!AfterSave,
       Alone!Debt!AfterSave
  <2>10. \A r : Debt!Reject(r) <=> Alone!Debt!Reject(r)
    BY <1>1 DEF Debt!Reject, Alone!Debt!Reject, Debt!debtTable, Alone!Debt!debtTable,
       Debt!Rejected, Alone!Debt!Rejected, Debt!Row, Alone!Debt!Row, Debt!AfterSave,
       Alone!Debt!AfterSave
  <2>11. \A r : Debt!SaveFails(r) <=> Alone!Debt!SaveFails(r)
    BY <1>1 DEF Debt!SaveFails, Alone!Debt!SaveFails, Debt!debtTable,
       Alone!Debt!debtTable, Debt!AfterSave, Alone!Debt!AfterSave, Debt!Row,
       Alone!Debt!Row
  <2>12. \A r : Debt!RunEnds(r) <=> Alone!Debt!RunEnds(r)
    BY DEF Debt!RunEnds, Alone!Debt!RunEnds, Debt!debtVars, Alone!Debt!debtVars,
       Debt!debtTable, Alone!Debt!debtTable
  <2> QED
    BY <2>1, <2>2, <2>3, <2>4, <2>5, <2>6, <2>7, <2>8, <2>9, <2>10, <2>11, <2>12
    DEF Debt!Next, Alone!Debt!Next, Debt!debtVars, Alone!Debt!debtVars, Debt!debtTable, Alone!Debt!debtTable
<1>8. Debt!TypeOK <=> Alone!Debt!TypeOK
  BY DEF Debt!TypeOK, Alone!Debt!TypeOK, Debt!Misses, Alone!Debt!Misses,
     Debt!Undiagnosed, Alone!Debt!Undiagnosed, Debt!Rejected, Alone!Debt!Rejected,
     Debt!Diagnoses, Alone!Debt!Diagnoses
<1>9. Debt!PaidWithinCapAndKept <=> Alone!Debt!PaidWithinCapAndKept
  BY <1>2 DEF Debt!PaidWithinCapAndKept, Alone!Debt!PaidWithinCapAndKept, Debt!Rejected,
     Alone!Debt!Rejected
<1> QED
  BY <1>6, <1>7, <1>8, <1>9

(* SpendWindows.                                                           *)
LEMMA SameSpend ==
    /\ Spend!Init <=> Alone!Spend!Init
    /\ [Spend!Next]_Spend!vars <=> [Alone!Spend!Next]_Alone!Spend!vars
    /\ Spend!TypeOK <=> Alone!Spend!TypeOK
    /\ Spend!SpendWithinWindow <=> Alone!Spend!SpendWithinWindow
<1>1. \A S : Spend!Max(S) = Alone!Spend!Max(S)
  BY DEF Spend!Max, Alone!Spend!Max
<1>2. \A S : Spend!Cardinality(S) = Alone!Spend!Cardinality(S)
  BY DEF Spend!Cardinality, Alone!Spend!Cardinality
<1>3. \A f, days : Spend!Total(f, days) = Alone!Spend!Total(f, days)
  BY <1>2 DEF Spend!Total, Alone!Spend!Total, Spend!Units, Alone!Spend!Units
<1>4. Spend!Init <=> Alone!Spend!Init
  BY DEF Spend!Init, Alone!Spend!Init, Spend!Nothing, Alone!Spend!Nothing, Spend!Dates,
     Alone!Spend!Dates
<1>5. [Spend!Next]_Spend!vars <=> [Alone!Spend!Next]_Alone!Spend!vars
  <2>1. Spend!BeginFast <=> Alone!Spend!BeginFast
    BY <1>1, <1>3 DEF Spend!BeginFast, Alone!Spend!BeginFast, Spend!find_budget_breach,
       Alone!Spend!find_budget_breach, Spend!Begin, Alone!Spend!Begin, Spend!Exhausted,
       Alone!Spend!Exhausted, Spend!budget_exceeded, Alone!Spend!budget_exceeded,
       Spend!budget_window_start, Alone!Spend!budget_window_start,
       Spend!get_llm_cost_since, Alone!Spend!get_llm_cost_since
  <2>2. Spend!BeginSlow <=> Alone!Spend!BeginSlow
    BY DEF Spend!BeginSlow, Alone!Spend!BeginSlow, Spend!Begin, Alone!Spend!Begin
  <2>3. Spend!Pay <=> Alone!Spend!Pay
    BY DEF Spend!Pay, Alone!Spend!Pay
  <2>4. Spend!persist_llm_calls <=> Alone!Spend!persist_llm_calls
    BY DEF Spend!persist_llm_calls, Alone!Spend!persist_llm_calls
  <2>5. Spend!RowsLost <=> Alone!Spend!RowsLost
    BY DEF Spend!RowsLost, Alone!Spend!RowsLost
  <2>6. Spend!Midnight <=> Alone!Spend!Midnight
    BY DEF Spend!Midnight, Alone!Spend!Midnight
  <2> QED
    BY <2>1, <2>2, <2>3, <2>4, <2>5, <2>6
    DEF Spend!Next, Alone!Spend!Next, Spend!vars, Alone!Spend!vars
<1>6. Spend!TypeOK <=> Alone!Spend!TypeOK
  BY DEF Spend!TypeOK, Alone!Spend!TypeOK, Spend!Dates, Alone!Spend!Dates
<1>7. Spend!SpendWithinWindow <=> Alone!Spend!SpendWithinWindow
  BY <1>1, <1>3 DEF Spend!SpendWithinWindow, Alone!Spend!SpendWithinWindow, Spend!Dates,
     Alone!Spend!Dates, Spend!MonthFrom, Alone!Spend!MonthFrom, Spend!Within,
     Alone!Spend!Within, Spend!budget_window_start, Alone!Spend!budget_window_start
<1> QED
  BY <1>4, <1>5, <1>6, <1>7

(* FundamentalsRefresh.                                                    *)
LEMMA SameRefresh ==
    /\ Refresh!Init <=> Alone!Refresh!Init
    /\ [Refresh!Next]_Refresh!vars <=> [Alone!Refresh!Next]_Alone!Refresh!vars
    /\ Refresh!TypeOK <=> Alone!Refresh!TypeOK
    /\ Refresh!InTurn <=> Alone!Refresh!InTurn
<1>1. \A s : Refresh!ToSet(s) = Alone!Refresh!ToSet(s)
  BY DEF Refresh!ToSet, Alone!Refresh!ToSet
<1>2. \A S : Refresh!Cardinality(S) = Alone!Refresh!Cardinality(S)
  BY DEF Refresh!Cardinality, Alone!Refresh!Cardinality
<1>3. \A s : Refresh!IsInjective(s) <=> Alone!Refresh!IsInjective(s)
  BY DEF Refresh!IsInjective, Alone!Refresh!IsInjective
<1>4. \A s, i : Refresh!RemoveAt(s, i) = Alone!Refresh!RemoveAt(s, i)
  BY DEF Refresh!RemoveAt, Alone!Refresh!RemoveAt
<1>5. \A order : Refresh!First(order) = Alone!Refresh!First(order)
  BY DEF Refresh!First, Alone!Refresh!First, Refresh!refresh_budget,
     Alone!Refresh!refresh_budget, Refresh!FullQuota, Alone!Refresh!FullQuota
<1>6. Refresh!Missing = Alone!Refresh!Missing
  BY <1>1, <1>2 DEF Refresh!Missing, Alone!Refresh!Missing, Refresh!Companies,
     Alone!Refresh!Companies, Refresh!Known, Alone!Refresh!Known
<1>7. Refresh!Init <=> Alone!Refresh!Init
  BY DEF Refresh!Init, Alone!Refresh!Init, Refresh!Companies, Alone!Refresh!Companies,
     Refresh!FullQuota, Alone!Refresh!FullQuota
<1>8. [Refresh!Next]_Refresh!vars <=> [Alone!Refresh!Next]_Alone!Refresh!vars
  <2>1. Refresh!NewDay <=> Alone!Refresh!NewDay
    BY DEF Refresh!NewDay, Alone!Refresh!NewDay, Refresh!FullQuota,
       Alone!Refresh!FullQuota
  <2>2. Refresh!StartRun <=> Alone!Refresh!StartRun
    BY <1>5, <1>6 DEF Refresh!StartRun, Alone!Refresh!StartRun, Refresh!Batch,
       Alone!Refresh!Batch, Refresh!Start, Alone!Refresh!Start, Refresh!Companies,
       Alone!Refresh!Companies, Refresh!FullQuota, Alone!Refresh!FullQuota
  <2>3. Refresh!StartWithoutAges <=> Alone!Refresh!StartWithoutAges
    BY <1>5 DEF Refresh!StartWithoutAges, Alone!Refresh!StartWithoutAges,
       Refresh!BatchWithoutAges, Alone!Refresh!BatchWithoutAges, Refresh!Start,
       Alone!Refresh!Start, Refresh!Companies, Alone!Refresh!Companies,
       Refresh!FullQuota, Alone!Refresh!FullQuota
  <2>4. Refresh!Cached <=> Alone!Refresh!Cached
    BY DEF Refresh!Cached, Alone!Refresh!Cached, Refresh!company, Alone!Refresh!company,
       Refresh!Asking, Alone!Refresh!Asking, Refresh!Fresh, Alone!Refresh!Fresh,
       Refresh!TurnCame, Alone!Refresh!TurnCame
  <2>5. Refresh!Refresh <=> Alone!Refresh!Refresh
    BY <1>1, <1>4 DEF Refresh!Refresh, Alone!Refresh!Refresh, Refresh!Companies,
       Alone!Refresh!Companies, Refresh!company, Alone!Refresh!company, Refresh!Asking,
       Alone!Refresh!Asking, Refresh!Fresh, Alone!Refresh!Fresh, Refresh!Others,
       Alone!Refresh!Others, Refresh!TurnCame, Alone!Refresh!TurnCame, Refresh!Known,
       Alone!Refresh!Known
  <2>6. Refresh!NoEntry <=> Alone!Refresh!NoEntry
    BY DEF Refresh!NoEntry, Alone!Refresh!NoEntry, Refresh!company,
       Alone!Refresh!company, Refresh!Asking, Alone!Refresh!Asking, Refresh!Fresh,
       Alone!Refresh!Fresh, Refresh!TurnCame, Alone!Refresh!TurnCame
  <2>7. Refresh!KeysUnavailable <=> Alone!Refresh!KeysUnavailable
    BY DEF Refresh!KeysUnavailable, Alone!Refresh!KeysUnavailable, Refresh!company,
       Alone!Refresh!company, Refresh!Asking, Alone!Refresh!Asking, Refresh!Fresh,
       Alone!Refresh!Fresh
  <2>8. Refresh!NotAsked <=> Alone!Refresh!NotAsked
    BY DEF Refresh!NotAsked, Alone!Refresh!NotAsked, Refresh!company,
       Alone!Refresh!company, Refresh!Asking, Alone!Refresh!Asking, Refresh!Fresh,
       Alone!Refresh!Fresh
  <2>9. Refresh!End <=> Alone!Refresh!End
    BY DEF Refresh!End, Alone!Refresh!End, Refresh!Companies, Alone!Refresh!Companies
  <2> QED
    BY <2>1, <2>2, <2>3, <2>4, <2>5, <2>6, <2>7, <2>8, <2>9
    DEF Refresh!Next, Alone!Refresh!Next, Refresh!vars, Alone!Refresh!vars
<1>9. Refresh!TypeOK <=> Alone!Refresh!TypeOK
  <2>1. Refresh!Known = Alone!Refresh!Known /\ Refresh!Companies = Alone!Refresh!Companies
        /\ Refresh!FullQuota = Alone!Refresh!FullQuota
    BY <1>1 DEF Refresh!Known, Alone!Refresh!Known, Refresh!Companies, Alone!Refresh!Companies,
                Refresh!FullQuota, Alone!Refresh!FullQuota
  <2>2. Refresh!IsInjective(x1) <=> Alone!Refresh!IsInjective(x1)
    BY <1>3
  <2> QED
    BY <2>1, <2>2 DEF Refresh!TypeOK, Alone!Refresh!TypeOK
<1>10. Refresh!InTurn <=> Alone!Refresh!InTurn
  BY DEF Refresh!InTurn, Alone!Refresh!InTurn
<1> QED
  BY <1>7, <1>8, <1>9, <1>10

(* For every number of misses, runs and companies and the plans and caps of*)
(* the run: what was paid for is kept and within the cap of the week, the  *)
(* refresh of fundamentals goes round the companies in turn and within the *)
(* requests of the day, and the Fast Loops keep within the caps in USD     *)
(* (slow_loop_paid_budget, select_refresh_batch, find_budget_breach).      *)
THEOREM PaidIsKept == Spec => []PaidWithinCapAndKept
<1> DEFINE Inv == /\ job = "debt" => Alone!Debt!IInv
                  /\ job = "spend" => Alone!Spend!IInv
                  /\ job = "refresh" => Alone!Refresh!IInv
<1>1. Alone!DebtConstants
  <2>1. \A p \in Plans : p.cap \in Nat /\ p.requested \in [1 .. 4 -> Nat]
    BY DEF Plans
  <2> QED
    BY <2>1, DebtAssumption DEF Alone!DebtConstants, Alone!Debt!Jobs
<1>2. Alone!SpendConstants
  <2>1. \A pair \in CapPairs : \A window \in {"day", "month"} :
           pair[window] # None => pair[window] \in Nat
    BY DEF CapPairs, Caps
  <2> QED
    BY <2>1, SpendAssumption DEF Alone!SpendConstants, Spend!Spender, Alone!Spend!Spender,
       Spend!Dates, Alone!Spend!Dates
<1>3. Alone!RefreshConstants
  BY RefreshAssumption DEF Alone!RefreshConstants, Refresh!Companies, Alone!Refresh!Companies
<1>4. Init => Inv
  <2> SUFFICES ASSUME Init PROVE Inv
    OBVIOUS
  <2>1. /\ job = "debt" => Debt!Init
        /\ job = "spend" => Spend!Init
        /\ job = "refresh" => Refresh!Init
    BY DEF Init
  <2>2. job = "debt" => Alone!Debt!IInv
    BY <1>1, <2>1, SameDebt, Alone!InitKeepsDebt
  <2>3. job = "spend" => Alone!Spend!IInv
    BY <1>2, <2>1, SameSpend, Alone!InitKeepsSpend
  <2>4. job = "refresh" => Alone!Refresh!IInv
    BY <1>3, <2>1, SameRefresh, Alone!InitKeepsRefresh
  <2> QED
    BY <2>2, <2>3, <2>4
<1>5. Inv /\ [Next]_vars => Inv'
  <2> SUFFICES ASSUME Inv, [Next]_vars PROVE Inv'
    OBVIOUS
  <2>1. ASSUME job' = "debt" PROVE Alone!Debt!IInv'
    <3>1. Alone!Debt!IInv /\ [Alone!Debt!Next]_Alone!Debt!debtVars
      BY <2>1, JobSteps, SameDebt
    <3> QED
      BY <1>1, <3>1, Alone!NextKeepsDebt
  <2>2. ASSUME job' = "spend" PROVE Alone!Spend!IInv'
    <3>1. Alone!Spend!IInv /\ [Alone!Spend!Next]_Alone!Spend!vars
      BY <2>2, JobSteps, SameSpend
    <3> QED
      BY <1>2, <3>1, Alone!NextKeepsSpend
  <2>3. ASSUME job' = "refresh" PROVE Alone!Refresh!IInv'
    <3>1. Alone!Refresh!IInv /\ [Alone!Refresh!Next]_Alone!Refresh!vars
      BY <2>3, JobSteps, SameRefresh
    <3> QED
      BY <1>3, <3>1, Alone!NextKeepsRefresh
  <2> QED
    BY <2>1, <2>2, <2>3
<1>6. Inv => PaidWithinCapAndKept
  <2> SUFFICES ASSUME Inv PROVE PaidWithinCapAndKept
    OBVIOUS
  <2>1. job = "debt" => Debt!TypeOK /\ Debt!PaidWithinCapAndKept
    BY SameDebt DEF Alone!Debt!IInv
  <2>2. job = "spend" => Spend!TypeOK /\ Spend!SpendWithinWindow
    BY <1>2, SameSpend, Alone!IInvImpliesSpendWithinWindow
  <2>3. job = "refresh" => Refresh!TypeOK /\ Refresh!InTurn
    BY SameRefresh, Alone!IInvImpliesInTurn
  <2> QED
    BY <2>1, <2>2, <2>3 DEF PaidWithinCapAndKept
<1> QED
  BY <1>4, <1>5, <1>6, PTL DEF Spec

-----------------------------------------------------------------------------
(* ReferenceSignal.                                                        *)
LEMMA SameReference ==
    /\ Reference!Init <=> Alone!Reference!Init
    /\ [Reference!Next]_Reference!vars <=> [Alone!Reference!Next]_Alone!Reference!vars
    /\ Reference!TypeOK <=> Alone!Reference!TypeOK
    /\ Reference!CallsAWeekApart <=> Alone!Reference!CallsAWeekApart
    /\ Reference!JudgedByFirstRead <=> Alone!Reference!JudgedByFirstRead
<1>1. \A S : Reference!Max(S) = Alone!Reference!Max(S)
  BY DEF Reference!Max, Alone!Reference!Max
<1>2. \A S : Reference!Min(S) = Alone!Reference!Min(S)
  BY DEF Reference!Min, Alone!Reference!Min
<1>3. Reference!Init <=> Alone!Reference!Init
  BY DEF Reference!Init, Alone!Reference!Init
<1>4. [Reference!Next]_Reference!vars <=> [Alone!Reference!Next]_Alone!Reference!vars
  <2>1. \A price : Reference!Start(price) <=> Alone!Reference!Start(price)
    BY DEF Reference!Start, Alone!Reference!Start, Reference!get_open_reference_calls,
       Alone!Reference!get_open_reference_calls, Reference!Calls, Alone!Reference!Calls
  <2>2. Reference!SettleNext <=> Alone!Reference!SettleNext
    BY <1>2 DEF Reference!SettleNext, Alone!Reference!SettleNext, Reference!settle_call,
       Alone!Reference!settle_call, Reference!is_trend_correct,
       Alone!Reference!is_trend_correct
  <2>3. Reference!SaveRead <=> Alone!Reference!SaveRead
    BY <1>1 DEF Reference!SaveRead, Alone!Reference!SaveRead, Reference!NewCall,
       Alone!Reference!NewCall, Reference!select_baseline,
       Alone!Reference!select_baseline, Reference!may_call, Alone!Reference!may_call,
       Reference!momentum_call, Alone!Reference!momentum_call, Reference!WeekApart,
       Alone!Reference!WeekApart
  <2>4. Reference!SymbolFails <=> Alone!Reference!SymbolFails
    BY DEF Reference!SymbolFails, Alone!Reference!SymbolFails
  <2>5. Reference!NextDay <=> Alone!Reference!NextDay
    BY DEF Reference!NextDay, Alone!Reference!NextDay
  <2> QED
    BY <2>1, <2>2, <2>3, <2>4, <2>5 DEF Reference!Next, Alone!Reference!Next,
       Reference!vars, Alone!Reference!vars
<1>5. Reference!TypeOK <=> Alone!Reference!TypeOK
  BY DEF Reference!TypeOK, Alone!Reference!TypeOK, Reference!Read, Alone!Reference!Read,
     Reference!Calls, Alone!Reference!Calls, Reference!Trends, Alone!Reference!Trends,
     Reference!Judged, Alone!Reference!Judged
<1>6. Reference!CallsAWeekApart <=> Alone!Reference!CallsAWeekApart
  BY DEF Reference!CallsAWeekApart, Alone!Reference!CallsAWeekApart, Reference!Calls,
     Alone!Reference!Calls
<1>7. Reference!JudgedByFirstRead <=> Alone!Reference!JudgedByFirstRead
  BY DEF Reference!JudgedByFirstRead, Alone!Reference!JudgedByFirstRead,
     Reference!Judged, Alone!Reference!Judged, Reference!WeekApart,
     Alone!Reference!WeekApart, Reference!Calls, Alone!Reference!Calls
<1> QED
  BY <1>3, <1>4, <1>5, <1>6, <1>7

(* SessionSettlement.                                                      *)
LEMMA SameSession ==
    /\ Session!Init <=> Alone!Session!Init
    /\ [Session!Next]_Session!vars <=> [Alone!Session!Next]_Alone!Session!vars
    /\ Session!TypeOK <=> Alone!Session!TypeOK
    /\ Session!SessionPricesFollow <=> Alone!Session!SessionPricesFollow
<1>1. \A S : Session!Max(S) = Alone!Session!Max(S)
  BY DEF Session!Max, Alone!Session!Max
<1>2. \A S : Session!Min(S) = Alone!Session!Min(S)
  BY DEF Session!Min, Alone!Session!Min
<1>3. Session!Init <=> Alone!Session!Init
  BY DEF Session!Init, Alone!Session!Init, Session!Times, Alone!Session!Times,
     Session!Moments, Alone!Session!Moments
<1>4. \A t : Session!QuoteUntil(t) = Alone!Session!QuoteUntil(t)
  BY <1>1 DEF Session!QuoteUntil, Alone!Session!QuoteUntil,
     Session!Moments, Alone!Session!Moments, Session!DayOf, Alone!Session!DayOf,
     Session!opens_at, Alone!Session!opens_at, Session!closes_at,
     Alone!Session!closes_at, Session!TradingDays, Alone!Session!TradingDays,
     Session!Trades, Alone!Session!Trades, Session!Days, Alone!Session!Days,
     Session!is_trading_day, Alone!Session!is_trading_day
<1>5. [Session!Next]_Session!vars <=> [Alone!Session!Next]_Alone!Session!vars
  <2>1. Session!TimePasses <=> Alone!Session!TimePasses
    BY DEF Session!TimePasses, Alone!Session!TimePasses, Session!Times,
       Alone!Session!Times, Session!Moments, Alone!Session!Moments
  <2>2. Session!ReadPrice <=> Alone!Session!ReadPrice
    <3>1. \A q, now : Session!PriceRead(q, now) = Alone!Session!PriceRead(q, now)
      BY <1>1 DEF Session!PriceRead, Alone!Session!PriceRead,
         Session!is_stale, Alone!Session!is_stale, Session!opens_at, Alone!Session!opens_at,
         Session!last_started_session, Alone!Session!last_started_session,
         Session!Moments, Alone!Session!Moments,
         Session!TradingDays, Alone!Session!TradingDays, Session!Days, Alone!Session!Days,
         Session!is_trading_day, Alone!Session!is_trading_day
    <3> QED
      BY <1>4, <3>1 DEF Session!ReadPrice, Alone!Session!ReadPrice, Session!OneHour,
         Alone!Session!OneHour, Session!Times, Alone!Session!Times, Session!Moments,
         Alone!Session!Moments
  <2>3. Session!SavePrediction <=> Alone!Session!SavePrediction
    BY DEF Session!SavePrediction, Alone!Session!SavePrediction, Session!Row,
       Alone!Session!Row, Session!OneHour, Alone!Session!OneHour, Session!Moments,
       Alone!Session!Moments
  <2>4. Session!RunEnds <=> Alone!Session!RunEnds
    BY DEF Session!RunEnds, Alone!Session!RunEnds
  <2>5. Session!GetQuote <=> Alone!Session!GetQuote
    BY <1>4 DEF Session!GetQuote, Alone!Session!GetQuote, Session!Times,
       Alone!Session!Times, Session!Moments, Alone!Session!Moments
  <2>6. Session!CheckPrice <=> Alone!Session!CheckPrice
    BY <1>1 DEF Session!CheckPrice, Alone!Session!CheckPrice, Session!session_close_of,
       Alone!Session!session_close_of, Session!opens_at, Alone!Session!opens_at,
       Session!closes_at, Alone!Session!closes_at, Session!last_started_session,
       Alone!Session!last_started_session, Session!Moments, Alone!Session!Moments,
       Session!TradingDays, Alone!Session!TradingDays, Session!Days, Alone!Session!Days,
       Session!is_trading_day, Alone!Session!is_trading_day
  <2>7. Session!Reflect <=> Alone!Session!Reflect
    BY <1>1, <1>2 DEF Session!Reflect, Alone!Session!Reflect, Session!Settlement,
       Alone!Session!Settlement, Session!settles_on_stale_quote,
       Alone!Session!settles_on_stale_quote, Session!settles, Alone!Session!settles,
       Session!executable_entry, Alone!Session!executable_entry, Session!in_session,
       Alone!Session!in_session, Session!opens_at,
       Alone!Session!opens_at, Session!next_open, Alone!Session!next_open,
       Session!closes_at, Alone!Session!closes_at, Session!last_started_session,
       Alone!Session!last_started_session, Session!Moments, Alone!Session!Moments,
       Session!TradingDays, Alone!Session!TradingDays, Session!Days, Alone!Session!Days,
       Session!is_trading_day, Alone!Session!is_trading_day
  <2> QED
    BY <2>1, <2>2, <2>3, <2>4, <2>5, <2>6, <2>7 DEF Session!Next, Alone!Session!Next, Session!Times,
       Alone!Session!Times, Session!vars, Alone!Session!vars, Session!Moments,
       Alone!Session!Moments
<1>6. Session!TypeOK <=> Alone!Session!TypeOK
  BY DEF Session!TypeOK, Alone!Session!TypeOK, Session!Times, Alone!Session!Times,
     Session!Trades, Alone!Session!Trades, Session!Moments, Alone!Session!Moments,
     Session!opens_at, Alone!Session!opens_at, Session!closes_at,
     Alone!Session!closes_at, Session!TradingDays, Alone!Session!TradingDays,
     Session!Days, Alone!Session!Days, Session!is_trading_day,
     Alone!Session!is_trading_day
<1>7. Session!SessionPricesFollow <=> Alone!Session!SessionPricesFollow
  <2>1. \A p : Session!AfterThePrediction(p) <=> Alone!Session!AfterThePrediction(p)
    BY DEF Session!AfterThePrediction, Alone!Session!AfterThePrediction,
       Session!QuoteIsBehind, Alone!Session!QuoteIsBehind,
       Session!opens_at, Alone!Session!opens_at, Session!closes_at,
       Alone!Session!closes_at, Session!TradingDays, Alone!Session!TradingDays,
       Session!Trades, Alone!Session!Trades, Session!Moments, Alone!Session!Moments,
       Session!Days, Alone!Session!Days, Session!is_trading_day,
       Alone!Session!is_trading_day
  <2>2. \A p : Session!OfTheRunningSession(p) <=> Alone!Session!OfTheRunningSession(p)
    BY <1>1 DEF Session!OfTheRunningSession, Alone!Session!OfTheRunningSession,
       Session!opens_at, Alone!Session!opens_at, Session!last_started_session,
       Alone!Session!last_started_session, Session!Moments, Alone!Session!Moments,
       Session!TradingDays, Alone!Session!TradingDays, Session!Days, Alone!Session!Days,
       Session!is_trading_day, Alone!Session!is_trading_day
  <2>3. \A p : Session!FirstToTrade(p) <=> Alone!Session!FirstToTrade(p)
    BY DEF Session!FirstToTrade, Alone!Session!FirstToTrade,
       Session!opens_at, Alone!Session!opens_at, Session!closes_at,
       Alone!Session!closes_at, Session!TradingDays, Alone!Session!TradingDays,
       Session!Trades, Alone!Session!Trades, Session!Moments, Alone!Session!Moments,
       Session!Days, Alone!Session!Days, Session!is_trading_day,
       Alone!Session!is_trading_day
  <2>4. \A p : Session!in_session(p) <=> Alone!Session!in_session(p)
    BY <1>1 DEF Session!in_session, Alone!Session!in_session,
       Session!opens_at, Alone!Session!opens_at, Session!closes_at,
       Alone!Session!closes_at, Session!last_started_session,
       Alone!Session!last_started_session, Session!Moments, Alone!Session!Moments,
       Session!TradingDays, Alone!Session!TradingDays, Session!Days, Alone!Session!Days,
       Session!is_trading_day, Alone!Session!is_trading_day
  <2>5. \A p, q : Session!OpenedWithin(p, q) <=> Alone!Session!OpenedWithin(p, q)
    BY DEF Session!OpenedWithin, Alone!Session!OpenedWithin,
       Session!opens_at, Alone!Session!opens_at, Session!Moments, Alone!Session!Moments,
       Session!TradingDays, Alone!Session!TradingDays, Session!Days, Alone!Session!Days,
       Session!is_trading_day, Alone!Session!is_trading_day
  <2>6. /\ \A d : Session!opens_at(d) = Alone!Session!opens_at(d)
        /\ \A d : Session!closes_at(d) = Alone!Session!closes_at(d)
        /\ Session!QuoteIsBehind <=> Alone!Session!QuoteIsBehind
    BY DEF Session!opens_at, Alone!Session!opens_at, Session!closes_at,
       Alone!Session!closes_at, Session!QuoteIsBehind, Alone!Session!QuoteIsBehind,
       Session!TradingDays, Alone!Session!TradingDays,
       Session!Trades, Alone!Session!Trades, Session!Moments, Alone!Session!Moments,
       Session!Days, Alone!Session!Days, Session!is_trading_day,
       Alone!Session!is_trading_day
  <2> QED
    BY <2>1, <2>2, <2>3, <2>4, <2>5, <2>6
       DEF Session!SessionPricesFollow, Alone!Session!SessionPricesFollow
<1> QED
  BY <1>3, <1>5, <1>6, <1>7

(* WalkForward.                                                            *)
LEMMA SameFolding ==
    /\ Folding!Init <=> Alone!Folding!Init
    /\ [Folding!Next]_Folding!vars <=> [Alone!Folding!Next]_Alone!Folding!vars
    /\ Folding!TypeOK <=> Alone!Folding!TypeOK
    /\ Folding!NothingLearntAhead <=> Alone!Folding!NothingLearntAhead
    /\ Folding!BlocksTileTheTail <=> Alone!Folding!BlocksTileTheTail
<1>1. \A S : Folding!Cardinality(S) = Alone!Folding!Cardinality(S)
  BY DEF Folding!Cardinality, Alone!Folding!Cardinality
<1>2. \A S : Folding!Max(S) = Alone!Folding!Max(S)
  BY DEF Folding!Max, Alone!Folding!Max
<1>3. Folding!Init <=> Alone!Folding!Init
  <2>1. \A n : Folding!expanding_window_bounds(n) = Alone!Folding!expanding_window_bounds(n)
    BY <1>2 DEF Folding!expanding_window_bounds, Alone!Folding!expanding_window_bounds
  <2>2. \A n, same : [i \in 1 .. n |-> Folding!Cardinality({j \in 2 .. i : ~same[j]})]
                     = [i \in 1 .. n |-> Alone!Folding!Cardinality({j \in 2 .. i : ~same[j]})]
    BY <1>1
  <2> DEFINE Drawn(n, same, ages, times, bounds) ==
                 /\ x1 = times /\ same[1]
                 /\ x2 = [i \in 1 .. n |-> IF ages[i] = None THEN None ELSE x1[i] + ages[i]]
                 /\ x3 = bounds
  <2>3. Folding!Init <=>
           /\ \E n \in SampleSizes : \E same \in [1 .. n -> BOOLEAN], ages \in [1 .. n -> Settlements] :
                 Drawn(n, same, ages, [i \in 1 .. n |-> Folding!Cardinality({j \in 2 .. i : ~same[j]})],
                       Folding!expanding_window_bounds(n))
           /\ x4 = <<>>
    BY Zenon DEF Folding!Init
  <2>4. Alone!Folding!Init <=>
           /\ \E n \in SampleSizes : \E same \in [1 .. n -> BOOLEAN], ages \in [1 .. n -> Settlements] :
                 Drawn(n, same, ages,
                       [i \in 1 .. n |-> Alone!Folding!Cardinality({j \in 2 .. i : ~same[j]})],
                       Alone!Folding!expanding_window_bounds(n))
           /\ x4 = <<>>
    BY Zenon DEF Alone!Folding!Init
  <2> HIDE DEF Drawn
  <2>5. ASSUME NEW n, NEW same, NEW ages
        PROVE  Drawn(n, same, ages, [i \in 1 .. n |-> Folding!Cardinality({j \in 2 .. i : ~same[j]})],
                     Folding!expanding_window_bounds(n))
               <=> Drawn(n, same, ages,
                         [i \in 1 .. n |-> Alone!Folding!Cardinality({j \in 2 .. i : ~same[j]})],
                         Alone!Folding!expanding_window_bounds(n))
    <3>1. [i \in 1 .. n |-> Folding!Cardinality({j \in 2 .. i : ~same[j]})]
             = [i \in 1 .. n |-> Alone!Folding!Cardinality({j \in 2 .. i : ~same[j]})]
      BY <2>2
    <3>2. Folding!expanding_window_bounds(n) = Alone!Folding!expanding_window_bounds(n)
      BY <2>1
    <3> QED
      BY <3>1, <3>2
  <2> QED
    BY <2>3, <2>4, <2>5, Zenon
<1>4. [Folding!Next]_Folding!vars <=> [Alone!Folding!Next]_Alone!Folding!vars
  <2>1. Folding!NextFold <=> Alone!Folding!NextFold
    BY <1>2 DEF Folding!NextFold, Alone!Folding!NextFold,
       Folding!purge_training_indices, Alone!Folding!purge_training_indices,
       Folding!label_end, Alone!Folding!label_end
  <2> QED
    BY <2>1 DEF Folding!Next, Alone!Folding!Next, Folding!vars, Alone!Folding!vars
<1>5. Folding!TypeOK <=> Alone!Folding!TypeOK
  BY DEF Folding!TypeOK, Alone!Folding!TypeOK, Folding!NRows, Alone!Folding!NRows
<1>6. Folding!NothingLearntAhead <=> Alone!Folding!NothingLearntAhead
  BY DEF Folding!NothingLearntAhead, Alone!Folding!NothingLearntAhead
<1>7. Folding!BlocksTileTheTail <=> Alone!Folding!BlocksTileTheTail
  BY <1>1 DEF Folding!BlocksTileTheTail, Alone!Folding!BlocksTileTheTail, Folding!NRows,
     Alone!Folding!NRows, Folding!purged_train_end, Alone!Folding!purged_train_end
<1> QED
  BY <1>3, <1>4, <1>5, <1>6, <1>7

(* IsotonicFit.                                                            *)
LEMMA SameIsotonic ==
    /\ Isotonic!Init <=> Alone!Isotonic!Init
    /\ [Isotonic!Next]_Isotonic!vars <=> [Alone!Isotonic!Next]_Alone!Isotonic!vars
    /\ Isotonic!TypeOK <=> Alone!Isotonic!TypeOK
    /\ Isotonic!IsTheRegression <=> Alone!Isotonic!IsTheRegression
<1>1. \A S : Isotonic!Cardinality(S) = Alone!Isotonic!Cardinality(S)
  BY DEF Isotonic!Cardinality, Alone!Isotonic!Cardinality
<1>2. \A S : Isotonic!Min(S) = Alone!Isotonic!Min(S)
  BY DEF Isotonic!Min, Alone!Isotonic!Min
<1>3. Isotonic!Init <=> Alone!Isotonic!Init
  BY DEF Isotonic!Init, Alone!Isotonic!Init, Isotonic!Point, Alone!Isotonic!Point
<1>4. [Isotonic!Next]_Isotonic!vars <=> [Alone!Isotonic!Next]_Alone!Isotonic!vars
  <2>1. Isotonic!PushPoint <=> Alone!Isotonic!PushPoint
    BY DEF Isotonic!PushPoint, Alone!Isotonic!PushPoint, Isotonic!Violates,
       Alone!Isotonic!Violates, Isotonic!Above, Alone!Isotonic!Above
  <2>2. Isotonic!PoolLastTwo <=> Alone!Isotonic!PoolLastTwo
    BY DEF Isotonic!PoolLastTwo, Alone!Isotonic!PoolLastTwo, Isotonic!Violates,
       Alone!Isotonic!Violates, Isotonic!Above, Alone!Isotonic!Above
  <2> QED
    BY <2>1, <2>2 DEF Isotonic!Next, Alone!Isotonic!Next, Isotonic!vars,
       Alone!Isotonic!vars, Isotonic!Violates, Alone!Isotonic!Violates, Isotonic!Above,
       Alone!Isotonic!Above
<1>5. Isotonic!TypeOK <=> Alone!Isotonic!TypeOK
  BY <1>1 DEF Isotonic!TypeOK, Alone!Isotonic!TypeOK, Isotonic!EndOf,
     Alone!Isotonic!EndOf, Isotonic!Total, Alone!Isotonic!Total
<1>6. Isotonic!IsTheRegression <=> Alone!Isotonic!IsTheRegression
  <2>1. \A f, most : Isotonic!Total(f, most) = Alone!Isotonic!Total(f, most)
    BY <1>1 DEF Isotonic!Total, Alone!Isotonic!Total
  <2>2. \A b : Isotonic!EndOf(b) = Alone!Isotonic!EndOf(b)
    BY <2>1 DEF Isotonic!EndOf, Alone!Isotonic!EndOf
  <2>3. \A j, k : Isotonic!Sum(j, k) = Alone!Isotonic!Sum(j, k)
    BY <2>1 DEF Isotonic!Sum, Alone!Isotonic!Sum
  <2>4. \A i : Isotonic!BlockOf(i) = Alone!Isotonic!BlockOf(i)
    BY <1>2, <2>2 DEF Isotonic!BlockOf, Alone!Isotonic!BlockOf
  <2>5. \A a, b : Isotonic!Above(a, b) <=> Alone!Isotonic!Above(a, b)
    BY DEF Isotonic!Above, Alone!Isotonic!Above
  <2>6. Isotonic!Violates <=> Alone!Isotonic!Violates
    BY DEF Isotonic!Violates, Alone!Isotonic!Violates, Isotonic!Above, Alone!Isotonic!Above
  <2> QED
    BY <2>3, <2>4, <2>5, <2>6 DEF Isotonic!IsTheRegression, Alone!Isotonic!IsTheRegression
<1> QED
  BY <1>3, <1>4, <1>5, <1>6

(* CouncilDebate.                                                          *)
LEMMA SameDebate ==
    /\ Debate!Init <=> Alone!Debate!Init
    /\ [Debate!Next]_Debate!vars <=> [Alone!Debate!Next]_Alone!Debate!vars
    /\ Debate!TypeOK <=> Alone!Debate!TypeOK
    /\ Debate!VerdictOfRealVotes <=> Alone!Debate!VerdictOfRealVotes
<1>1. \A S : Debate!Cardinality(S) = Alone!Debate!Cardinality(S)
  BY DEF Debate!Cardinality, Alone!Debate!Cardinality
<1>2. Debate!Init <=> Alone!Debate!Init
  BY <1>1 DEF Debate!Init, Alone!Debate!Init, Debate!NoVotes, Alone!Debate!NoVotes,
     Debate!AllCalled, Alone!Debate!AllCalled
<1>3. [Debate!Next]_Debate!vars <=> [Alone!Debate!Next]_Alone!Debate!vars
  <2>1. \A p, answer : Debate!CallEnds(p, answer) <=> Alone!Debate!CallEnds(p, answer)
    BY DEF Debate!CallEnds, Alone!Debate!CallEnds, Debate!InRound, Alone!Debate!InRound
  <2>2. Debate!TotalTimeout <=> Alone!Debate!TotalTimeout
    BY DEF Debate!TotalTimeout, Alone!Debate!TotalTimeout, Debate!InRound,
       Alone!Debate!InRound, Debate!Running, Alone!Debate!Running
  <2>3. Debate!CouncilUnavailable <=> Alone!Debate!CouncilUnavailable
    BY DEF Debate!CouncilUnavailable, Alone!Debate!CouncilUnavailable, Debate!NoVotes,
       Alone!Debate!NoVotes, Debate!RoundOver, Alone!Debate!RoundOver,
       Debate!RoundVotes, Alone!Debate!RoundVotes, Debate!InRound, Alone!Debate!InRound,
       Debate!Running, Alone!Debate!Running
  <2>4. Debate!StartRevision <=> Alone!Debate!StartRevision
    BY <1>1 DEF Debate!StartRevision, Alone!Debate!StartRevision, Debate!AllCalled,
       Alone!Debate!AllCalled, Debate!RoundOver, Alone!Debate!RoundOver,
       Debate!RoundVotes, Alone!Debate!RoundVotes, Debate!is_split,
       Alone!Debate!is_split, Debate!InRound, Alone!Debate!InRound, Debate!Running,
       Alone!Debate!Running, Debate!Heard, Alone!Debate!Heard
  <2>5. Debate!CloseVote <=> Alone!Debate!CloseVote
    BY DEF Debate!CloseVote, Alone!Debate!CloseVote, Debate!NoVotes,
       Alone!Debate!NoVotes, Debate!RoundOver, Alone!Debate!RoundOver,
       Debate!RoundVotes, Alone!Debate!RoundVotes, Debate!is_split,
       Alone!Debate!is_split, Debate!InRound, Alone!Debate!InRound, Debate!Running,
       Alone!Debate!Running, Debate!Heard, Alone!Debate!Heard
  <2>6. Debate!Conclude <=> Alone!Debate!Conclude
    <3>1. \A personas : Debate!Units(personas) = Alone!Debate!Units(personas)
      BY DEF Debate!Units, Alone!Debate!Units, Debate!weight, Alone!Debate!weight
    <3>2. \A rec : Debate!Mass(rec) = Alone!Debate!Mass(rec)
      BY <1>1, <3>1 DEF Debate!Mass, Alone!Debate!Mass, Debate!Heard, Alone!Debate!Heard
    <3>3. Debate!derive_consensus = Alone!Debate!derive_consensus
      BY <3>2 DEF Debate!derive_consensus, Alone!Debate!derive_consensus,
         Debate!Recommendations, Alone!Debate!Recommendations
    <3> QED
      BY <1>1, <3>2, <3>3 DEF Debate!Conclude, Alone!Debate!Conclude,
         Debate!Recommendations, Alone!Debate!Recommendations, Debate!Heard,
         Alone!Debate!Heard
  <2>7. Debate!MalformedStory <=> Alone!Debate!MalformedStory
    BY DEF Debate!MalformedStory, Alone!Debate!MalformedStory
  <2> QED
    BY <2>1, <2>2, <2>3, <2>4, <2>5, <2>6, <2>7 DEF Debate!Next, Alone!Debate!Next,
       Debate!vars, Alone!Debate!vars
<1>4. Debate!TypeOK <=> Alone!Debate!TypeOK
  BY DEF Debate!TypeOK, Alone!Debate!TypeOK, Debate!Votes, Alone!Debate!Votes,
     Debate!Statuses, Alone!Debate!Statuses
<1>5. Debate!VerdictOfRealVotes <=> Alone!Debate!VerdictOfRealVotes
  BY <1>1 DEF Debate!VerdictOfRealVotes, Alone!Debate!VerdictOfRealVotes, Debate!Heard,
     Alone!Debate!Heard
<1> QED
  BY <1>2, <1>3, <1>4, <1>5

(* For every record of reads, calendar, table of samples, series of points *)
(* and council: no call is next to another or passed by a read, a          *)
(* settlement has a price of a session after the prediction, a fold learns *)
(* nothing ahead of its block, the calibration is the regression of its    *)
(* definition and the verdict of the council is of votes given (settle_    *)
(* call, reflect, purge_training_indices, fit_isotonic, derive_consensus). *)
THEOREM NothingIsMadeUp == Spec => []NothingMadeUp
<1> DEFINE Inv == /\ job = "reference" => Alone!Reference!IInv
                  /\ job = "session" => Alone!Session!IInv
                  /\ job = "folds" => Alone!Folding!IInv
                  /\ job = "isotonic" => Alone!Isotonic!IInv
                  /\ job = "council" => Alone!Debate!IInv
<1>1. Alone!ReferenceConstants
  BY CallsAssumption DEF Alone!ReferenceConstants
<1>2. Alone!SessionConstants
  <2>1. \A c \in Calendars : c.closed \subseteq {1}
    BY DEF Calendars, Calendar
  <2> QED
    BY <2>1, SessionAssumption DEF Alone!SessionConstants
<1>3. Alone!FoldConstants
  BY FoldsAssumption DEF Alone!FoldConstants
<1>4. Alone!FitConstants
  BY FitAssumption DEF Alone!FitConstants
<1>5. Alone!CouncilConstants
  <2>1. Opinions \subseteq [recommendation : Alone!Debate!Recs, confidence : Nat]
    BY DEF Opinions, Vote, Alone!Debate!Recs
  <2>2. \A w \in Weightings : w # None => w \in [Council -> Nat \ {0}]
    BY DEF Weightings
  <2>3. Debate!Recs = Alone!Debate!Recs
    BY DEF Debate!Recs, Alone!Debate!Recs
  <2>4. Alone!IsFiniteSet(Council)
    BY CouncilAssumption DEF IsFiniteSet, Alone!IsFiniteSet
  <2> QED
    BY <2>1, <2>2, <2>3, <2>4, CouncilAssumption DEF Alone!CouncilConstants
<1>6. Init => Inv
  <2> SUFFICES ASSUME Init PROVE Inv
    OBVIOUS
  <2>1. /\ job = "reference" => Reference!Init
        /\ job = "session" => Session!Init
        /\ job = "folds" => Folding!Init
        /\ job = "isotonic" => Isotonic!Init
        /\ job = "council" => Debate!Init
    BY DEF Init
  <2>2. job = "reference" => Alone!Reference!IInv
    BY <1>1, <2>1, SameReference, Alone!InitKeepsReference
  <2>3. job = "session" => Alone!Session!IInv
    BY <1>2, <2>1, SameSession, Alone!InitKeepsSession
  <2>4. job = "folds" => Alone!Folding!IInv
    BY <1>3, <2>1, SameFolding, Alone!InitKeepsFolding
  <2>5. job = "isotonic" => Alone!Isotonic!IInv
    BY <1>4, <2>1, SameIsotonic, Alone!InitKeepsFit
  <2>6. job = "council" => Alone!Debate!IInv
    BY <1>5, <2>1, SameDebate, Alone!InitKeepsDebate
  <2> QED
    BY <2>2, <2>3, <2>4, <2>5, <2>6
<1>7. Inv /\ [Next]_vars => Inv'
  <2> SUFFICES ASSUME Inv, [Next]_vars PROVE Inv'
    OBVIOUS
  <2>1. ASSUME job' = "reference" PROVE Alone!Reference!IInv'
    <3>1. Alone!Reference!IInv /\ [Alone!Reference!Next]_Alone!Reference!vars
      BY <2>1, JobSteps, SameReference
    <3> QED
      BY <1>1, <3>1, Alone!NextKeepsReference
  <2>2. ASSUME job' = "session" PROVE Alone!Session!IInv'
    <3>1. Alone!Session!IInv /\ [Alone!Session!Next]_Alone!Session!vars
      BY <2>2, JobSteps, SameSession
    <3> QED
      BY <1>2, <3>1, Alone!StepKeepsSession
  <2>3. ASSUME job' = "folds" PROVE Alone!Folding!IInv'
    <3>1. Alone!Folding!IInv /\ [Alone!Folding!Next]_Alone!Folding!vars
      BY <2>3, JobSteps, SameFolding
    <3> QED
      BY <1>3, <3>1, Alone!NextKeepsFolding
  <2>4. ASSUME job' = "isotonic" PROVE Alone!Isotonic!IInv'
    <3>1. Alone!Isotonic!IInv /\ [Alone!Isotonic!Next]_Alone!Isotonic!vars
      BY <2>4, JobSteps, SameIsotonic
    <3> QED
      BY <1>4, <3>1, Alone!NextKeepsFit
  <2>5. ASSUME job' = "council" PROVE Alone!Debate!IInv'
    <3>1. Alone!Debate!IInv /\ [Alone!Debate!Next]_Alone!Debate!vars
      BY <2>5, JobSteps, SameDebate
    <3> QED
      BY <1>5, <3>1, Alone!NextKeepsDebate
  <2> QED
    BY <2>1, <2>2, <2>3, <2>4, <2>5
<1>8. Inv => NothingMadeUp
  <2> SUFFICES ASSUME Inv PROVE NothingMadeUp
    OBVIOUS
  <2>1. job = "reference" => /\ Reference!TypeOK /\ Reference!CallsAWeekApart
                             /\ Reference!JudgedByFirstRead
    BY <1>1, SameReference, Alone!IInvImpliesJudgedByFirstRead
  <2>2. job = "session" => Session!TypeOK /\ Session!SessionPricesFollow
    BY <1>2, SameSession, Alone!SessionFollows
  <2>3. job = "folds" => /\ Folding!TypeOK /\ Folding!NothingLearntAhead
                         /\ Folding!BlocksTileTheTail
    BY <1>3, SameFolding, Alone!FoldsFollow
  <2>4. job = "isotonic" => Isotonic!TypeOK /\ Isotonic!IsTheRegression
    BY <1>4, SameIsotonic, Alone!FitIsTheRegression
  <2>5. job = "council" => Debate!TypeOK /\ Debate!VerdictOfRealVotes
    BY SameDebate DEF Alone!Debate!IInv
  <2> QED
    BY <2>1, <2>2, <2>3, <2>4, <2>5 DEF NothingMadeUp
<1> QED
  BY <1>6, <1>7, <1>8, PTL DEF Spec

-----------------------------------------------------------------------------
(* MerkleTree.                                                             *)
LEMMA SameTree ==
    /\ Tree!Init <=> Told!Tree!Init
    /\ [Tree!Next]_Tree!treeVars <=> [Told!Tree!Next]_Told!Tree!treeVars
    /\ Tree!VerifiedIffIncluded <=> Told!Tree!VerifiedIffIncluded
<1>1. Tree!SubtreeHash = Told!Tree!SubtreeHash
  BY DEF Tree!SubtreeHash, Told!Tree!SubtreeHash, Tree!Slices, Told!Tree!Slices,
     Tree!LeafHash, Told!Tree!LeafHash, Tree!NodeHash, Told!Tree!NodeHash, Tree!Leaf,
     Told!Tree!Leaf, Tree!Left, Told!Tree!Left, Tree!Right, Told!Tree!Right,
     Tree!Split, Told!Tree!Split, Tree!Power, Told!Tree!Power
<1>2. Tree!inclusion_proof = Told!Tree!inclusion_proof
  BY DEF Tree!inclusion_proof, Told!Tree!inclusion_proof,
     Tree!SubtreeHash, Told!Tree!SubtreeHash, Tree!Slices, Told!Tree!Slices,
     Tree!LeafHash, Told!Tree!LeafHash, Tree!NodeHash, Told!Tree!NodeHash, Tree!Leaf,
     Told!Tree!Leaf, Tree!Left, Told!Tree!Left, Tree!Right, Told!Tree!Right,
     Tree!Split, Told!Tree!Split, Tree!Power, Told!Tree!Power
<1>3. \A n : Tree!merkle_root(n) = Told!Tree!merkle_root(n)
  BY <1>1 DEF Tree!merkle_root, Told!Tree!merkle_root
<1>4. \A n : Tree!Proofs(n) = Told!Tree!Proofs(n)
  BY <1>2 DEF Tree!Proofs, Told!Tree!Proofs
<1>5. \A n : Tree!Claims(n) = Told!Tree!Claims(n)
  <2> TAKE n
  <2>1. Tree!Pieces(n) = Told!Tree!Pieces(n)
    BY <1>4 DEF Tree!Pieces, Told!Tree!Pieces
  <2>2. Tree!Nodes(n) = Told!Tree!Nodes(n)
    BY <1>3, <1>4 DEF Tree!Nodes, Told!Tree!Nodes
  <2> QED
    BY <2>1, <2>2 DEF Tree!Claims, Told!Tree!Claims, Tree!Leaf, Told!Tree!Leaf
<1>6. Tree!Init <=> Told!Tree!Init
  BY <1>5 DEF Tree!Init, Told!Tree!Init, Tree!LeafHash, Told!Tree!LeafHash
<1>7. [Tree!Next]_Tree!treeVars <=> [Told!Tree!Next]_Told!Tree!treeVars
  <2>1. Tree!TakeLeft <=> Told!Tree!TakeLeft
    BY DEF Tree!TakeLeft, Told!Tree!TakeLeft, Tree!NodeHash, Told!Tree!NodeHash,
       Tree!Climb, Told!Tree!Climb
  <2>2. Tree!TakeRight <=> Told!Tree!TakeRight
    BY DEF Tree!TakeRight, Told!Tree!TakeRight, Tree!NodeHash, Told!Tree!NodeHash
  <2>3. Tree!TooLong <=> Told!Tree!TooLong
    BY DEF Tree!TooLong, Told!Tree!TooLong, Tree!loop, Told!Tree!loop
  <2>4. Tree!Conclude <=> Told!Tree!Conclude
    BY <1>3 DEF Tree!Conclude, Told!Tree!Conclude, Tree!loop, Told!Tree!loop
  <2>5. Tree!Done <=> Told!Tree!Done
    BY DEF Tree!Done, Told!Tree!Done, Tree!treeVars, Told!Tree!treeVars, Tree!loop,
       Told!Tree!loop
  <2> QED
    BY <2>1, <2>2, <2>3, <2>4, <2>5 DEF Tree!Next, Told!Tree!Next, Tree!treeVars,
       Told!Tree!treeVars, Tree!loop, Told!Tree!loop
<1>8. Tree!VerifiedIffIncluded <=> Told!Tree!VerifiedIffIncluded
  BY <1>2 DEF Tree!VerifiedIffIncluded, Told!Tree!VerifiedIffIncluded, Tree!InTree,
     Told!Tree!InTree, Tree!Honest, Told!Tree!Honest, Tree!Leaf, Told!Tree!Leaf
<1> QED
  BY <1>6, <1>7, <1>8

(* For every size of the published tree and every claim about it: what the *)
(* verifier accepts is in the tree, and a claim that states its size is    *)
(* accepted exactly when it is honest (verify_inclusion).                  *)
THEOREM VerifiedIsIncluded == Spec => []VerifiedIffIncluded
<1> DEFINE Inv == job = "tree" => Told!TreeInv
<1>1. Told!TreeConstants
  BY TreeAssumption DEF Told!TreeConstants
<1>2. Init => Inv
  <2> SUFFICES ASSUME Init PROVE Inv
    OBVIOUS
  <2>1. job = "tree" => Tree!Init
    BY DEF Init
  <2> QED
    BY <1>1, <2>1, SameTree, Told!InitKeepsTree
<1>3. Inv /\ [Next]_vars => Inv'
  <2> SUFFICES ASSUME Inv, [Next]_vars, job' = "tree" PROVE Told!TreeInv'
    OBVIOUS
  <2>1. Told!TreeInv /\ [Told!Tree!Next]_Told!Tree!treeVars
    BY JobSteps, SameTree
  <2> QED
    BY <2>1, Told!NextKeepsTree
<1>4. Inv => VerifiedIffIncluded
  BY SameTree DEF Told!TreeInv, VerifiedIffIncluded
<1> QED
  BY <1>2, <1>3, <1>4, PTL DEF Spec
=============================================================================
