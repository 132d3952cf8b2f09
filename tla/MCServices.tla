----------------------------- MODULE MCServices -----------------------------
(***************************************************************************)
(* Eighteen jobs beside the analysis of symbols, one at a time: a behaviour*)
(* is one of the job it draws.  They share no state, so nothing is lost by *)
(* it, and x1, x2, ... hold the variables of the job, in the order it      *)
(* declares them; those it does not need stay None.                        *)
(***************************************************************************)
EXTENDS Integers, Sequences, FiniteSets

CONSTANTS None,
          BaselineMinAge, BaselineMaxAge, ReadPrices,     \* ReferenceSignal
          LastRun, MaxReads,
          MaxCost, MonthStarts, LastBooked, MaxRuns,      \* SpendWindows
          FallbackLookback, LastHour, MaxShocks, MaxMails, \* MailWindow
          LastSession,                                    \* SessionSettlement
          WALK_FORWARD_FOLDS, MIN_FOLD_SAMPLES,           \* WalkForward
          MIN_VALIDATION_SAMPLES, FractionOf, LABEL_HORIZON,
          SampleSizes, Settlements,
          MaxKnots, MaxCount,                             \* IsotonicFit
          Council,                                        \* CouncilDebate
          Threads, Tickers, NKeys,             \* NewsFeed
          MaxLeaves,                           \* MerkleTree
          PriceRange, Level, MaxAlarms,        \* PriceAlarms
          MaxUpdates, BatchLimit,              \* BotPolling
          Subscribers, MaxQuotaAlerts,         \* CycleDelivery
          Runs, NMisses,                       \* DiagnosisDebt
          ExitConfirmations, Voters,           \* MarketRegime
          LastDay,                             \* DeadMan
          NCompanies, DailyRequests, NApiKeys, \* FundamentalsRefresh
          MovePrices, FirstPrices,             \* ShockWatch
          Last, Prices, Levels, Challengers, Personas, Champion  \* HourRow

(* Calls asked for by recap, batch, backfill and judge.  In the first and  *)
(* the last plan the requests include a reserve for the fallback provider  *)
(* and are more than the cap allows.                                       *)
Plans == {[requested |-> <<2, 0, 3, 0>>, fallback |-> 1, cap |-> 4],
          [requested |-> <<0, 2, 2, 1>>, fallback |-> 0, cap |-> 4],
          [requested |-> <<0, 0, 3, 2>>, fallback |-> 1, cap |-> 4]}

(* In thresholds of the shock watch.                                       *)
MoveRange == -1 .. 2

(* Midweek, a Friday, a Monday, and both around a weekend.                 *)
Closures == {{}, {2}, {4}, {7}, {4, 7}}

(* One job is watched at a time, or none.                                  *)
GapChoices == {[fast |-> 26, slow |-> 0], [fast |-> 0, slow |-> 192], [fast |-> 0, slow |-> 0]}

(* A stock or a crypto in the first session, held, with the ladder; or up  *)
(* to the session of the next day, not held, with the ladder or without.   *)
(* Three alerts are two of the symbol and one of the portfolio.            *)
Config(k, h, l, t, p, n) ==
    [kind |-> k, held |-> h, ladder |-> l, horizon |-> t, pushes |-> p, trades |-> n]
WatchConfigs ==
    {Config("stock", TRUE, TRUE, 2, 3, 2), Config("crypto", TRUE, TRUE, 3, 2, 2),
     Config("stock", FALSE, FALSE, 6, 2, 2), Config("stock", FALSE, TRUE, 6, 2, 1),
     Config("crypto", FALSE, TRUE, 6, 2, 1)}

(* Both windows bind, the month alone with a cap of 0 for the day, and a   *)
(* month without a cap of the day.                                         *)
Caps(d, m) == [day |-> d, month |-> m]
CapPairs == {Caps(2, 3), Caps(0, None), Caps(None, 2)}

(* No holiday, a holiday, and an early close after a holiday.              *)
Calendar(c, e) == [closed |-> c, early |-> e]
Calendars == {Calendar({}, {1}), Calendar({1}, {}), Calendar({1}, {2})}

Vote(r, c) == [recommendation |-> r, confidence |-> c]
Opinions == {Vote("BUY", 1), Vote("SELL", 2), Vote("BUY", 0), Vote("HOLD", 0)}

(* The first persona weighs three times as much, or all the same.          *)
Leader == CHOOSE p \in Council : TRUE
Weightings == {None, [p \in Council |-> IF p = Leader THEN 3 ELSE 1]}

VARIABLES job, x1, x2, x3, x4, x5, x6, x7, x8, x9, x10, x11

vars == <<job, x1, x2, x3, x4, x5, x6, x7, x8, x9, x10, x11>>

News == INSTANCE NewsFeed WITH
    active_key <- x1, key_failures <- x2, reported <- x3, feeds <- x4,
    lock <- x5, worker <- x6, limited <- x7, answered <- x8

Tree == INSTANCE MerkleTree WITH
    n_leaves <- x1, claim <- x2, computed <- x3, path <- x4, fn <- x5,
    sn <- x6, verdict <- x7

Alarms == INSTANCE PriceAlarms WITH
    quote <- x1, levels <- x2, thesis <- x3, pushed <- x4, unmarked <- x5,
    missed <- x6, watch <- x7

Bot == INSTANCE BotPolling WITH
    chat <- x1, kept <- x2, expired <- x3, update_offset <- x4,
    symbol_mute <- x5, done <- x6, poll <- x7

Delivery == INSTANCE CycleDelivery WITH
    setup <- x1, step <- x2, recorded <- x3, persisted <- x4, saves <- x5,
    refused <- x6, todo <- x7, channels <- x8, report_sent <- x9,
    assembled <- x10, cycle_row <- x11

Debt == INSTANCE DiagnosisDebt WITH
    plan <- x1, insight <- x2, judge_score <- x3, rejected_text <- x4,
    slow <- x5, paid <- x6, escalated <- x7, stored <- x8

Regime == INSTANCE MarketRegime WITH
    last_row <- x1, raw <- x2, state <- x3, regime <- x4, change <- x5,
    outs <- x6, before <- x7, entry <- x8, exit_lost <- x9, row_lost <- x10

Switch == INSTANCE DeadMan WITH
    calendar <- x1, limits <- x2, clock <- x3, fast_seen <- x4,
    slow_seen <- x5, report <- x6

Refresh == INSTANCE FundamentalsRefresh WITH
    entries <- x1, n_fresh <- x2, quota <- x3, batch <- x4,
    keys_gone <- x5, aged <- x6, first_run <- x7, waiting <- x8,
    overtaken <- x9

Watch == INSTANCE ShockWatch WITH
    Configs <- WatchConfigs, Prices <- MovePrices, conf <- x1, time <- x2,
    price <- x3, trades <- x4, past <- x5, snapshot <- x6, alerts <- x7,
    log <- x8, faulty <- x9, run <- x10

Hour == INSTANCE HourRow WITH
    n <- x1, node <- x2, answer <- x3, row <- x4, shadow <- x5,
    votes <- x6, scan <- x7, alarms <- x8, lost <- x9, whole <- x10

Reference == INSTANCE ReferenceSignal WITH
    today <- x1, reads <- x2, running <- x3

Spend == INSTANCE SpendWindows WITH
    caps <- x1, date <- x2, booked <- x3, spender <- x4, fast_paid <- x5,
    untold <- x6, n_runs <- x7

Mail == INSTANCE MailWindow WITH
    hour <- x1, shock_alerts <- x2, cycle_runs <- x3, cycle <- x4,
    mails <- x5, n_cycles <- x6

Session == INSTANCE SessionSettlement WITH
    sessions_of <- x1, moment <- x2, current_price <- x3, prediction <- x4,
    fetched <- x5, price_checked <- x6, settled <- x7

Folding == INSTANCE WalkForward WITH
    stamps <- x1, settled_at <- x2, todo_folds <- x3, folds <- x4

Isotonic == INSTANCE IsotonicFit WITH
    points <- x1, taken <- x2, blocks <- x3

Debate == INSTANCE CouncilDebate WITH
    weights <- x1, debate_mode <- x2, phase <- x3, calls <- x4,
    first_round <- x5, opinions <- x6, council_verdict <- x7, asked <- x8

(* What the proofs assume of the constants: None is no value of the code,  *)
(* and counts are natural numbers.                                         *)
ASSUME FeedAssumption == NKeys \in Nat /\ None \notin News!Feeds \cup Threads
ASSUME RegimeAssumption ==
    ExitConfirmations \in Nat \ {0} /\ None \notin Regime!States \cup Regime!Regimes
ASSUME HourAssumption ==
    /\ Last \in Nat /\ MaxAlarms \in Nat
    /\ None \notin Hour!Answers \cup Hour!Theses
    /\ \A k \in 0 .. Last : None \notin Hour!Rows(k)
ASSUME AlarmAssumption ==
    /\ Level \in Int /\ PriceRange \subseteq Int /\ MaxAlarms \in Nat
    /\ None \notin PriceRange \cup Alarms!LevelRows \cup Alarms!Theses
ASSUME BotAssumption ==
    /\ MaxUpdates \in Nat /\ BatchLimit \in Nat
    /\ None \notin Int /\ None \notin {"applied", "failed"}
ASSUME WatchAssumption ==
    /\ MovePrices \subseteq Int /\ FirstPrices \subseteq MovePrices
    /\ None \notin Watch!ToRecord(Nat) \cup Watch!WatchRuns(Nat, Nat)
ASSUME DeliveryAssumption == MaxQuotaAlerts \in Nat /\ None \notin Delivery!Outcomes
ASSUME SwitchAssumption == LastDay \in Nat /\ None \notin {"calm", "mail", "exit_1"}
ASSUME MailAssumption == LastHour \in Nat /\ MaxMails \in Nat /\ FallbackLookback \in Int
ASSUME DebtAssumption == NMisses \in Nat \ {0}
ASSUME SpendAssumption ==
    /\ MaxCost \in Nat /\ LastBooked \in Nat \ {0} /\ MaxRuns \in Nat
    /\ MonthStarts \subseteq Nat \ {0} /\ 1 \in MonthStarts
    /\ None \notin Spend!Spender
ASSUME RefreshAssumption ==
    /\ NCompanies \in Nat /\ DailyRequests \in Nat \ {0} /\ NApiKeys \in Nat \ {0}
    /\ None \notin Seq(Refresh!Companies)
ASSUME CallsAssumption ==
    /\ BaselineMinAge \in Nat \ {0} /\ BaselineMaxAge \in Nat /\ BaselineMinAge <= BaselineMaxAge
    /\ LastRun \in Nat /\ MaxReads \in Nat
    /\ None \notin {"BULLISH", "BEARISH", "HIT", "MISS", "EXPIRED"}
    /\ None \notin [price : ReadPrices, open : SUBSET Nat, todo : SUBSET Nat]
ASSUME CouncilAssumption ==
    /\ IsFiniteSet(Council) /\ None \notin Opinions
    /\ None \notin [final : Debate!Recs, mass : Nat, total : Nat, failed_personas : Int]
ASSUME SessionAssumption == LastSession \in Nat \ {0, 1}
ASSUME FoldsAssumption ==
    /\ WALK_FORWARD_FOLDS \in Nat \ {0} /\ MIN_FOLD_SAMPLES \in Nat
    /\ WALK_FORWARD_FOLDS < MIN_FOLD_SAMPLES
    /\ MIN_VALIDATION_SAMPLES \in Nat \ {0} /\ FractionOf \in Nat \ {0}
    /\ LABEL_HORIZON \in Nat /\ SampleSizes \subseteq Nat \ {0}
    /\ Settlements \subseteq Int \cup {None} /\ None \notin Int
ASSUME FitAssumption == MaxKnots \in Nat /\ MaxCount \in Nat
ASSUME TreeAssumption == MaxLeaves \in Nat

(* The variables behind the first ones of a job, all of them off.          *)
Behind10 == <<x11>>
Behind9 == <<x10, Behind10>>
Behind8 == <<x9, Behind9>>
Behind7 == <<x8, Behind8>>
Behind6 == <<x7, Behind7>>
Behind4 == <<x5, x6, Behind6>>
Behind3 == <<x4, Behind4>>
Off10 == x11 = None
Off9 == x10 = None /\ Off10
Off8 == x9 = None /\ Off9
Off7 == x8 = None /\ Off8
Off6 == x7 = None /\ Off7
Off4 == x5 = None /\ x6 = None /\ Off6
Off3 == x4 = None /\ Off4

Init ==
    \/ job = "news" /\ News!Init /\ Off8
    \/ job = "tree" /\ Tree!Init /\ Off7
    \/ job = "alarms" /\ Alarms!Init /\ Off7
    \/ job = "bot" /\ Bot!Init /\ Off7
    \/ job = "delivery" /\ Delivery!Init
    \/ job = "debt" /\ Debt!Init /\ Off8
    \/ job = "regime" /\ Regime!Init /\ Off10
    \/ job = "deadman" /\ Switch!Init /\ Off6
    \/ job = "refresh" /\ Refresh!Init /\ Off9
    \/ job = "watch" /\ Watch!Init /\ Off10
    \/ job = "hour" /\ Hour!Init /\ Off10
    \/ job = "reference" /\ Reference!Init /\ Off3
    \/ job = "spend" /\ Spend!Init /\ Off7
    \/ job = "mail" /\ Mail!Init /\ Off6
    \/ job = "session" /\ Session!Init /\ Off7
    \/ job = "folds" /\ Folding!Init /\ Off4
    \/ job = "isotonic" /\ Isotonic!Init /\ Off3
    \/ job = "council" /\ Debate!Init /\ Off8

Next ==
    /\ UNCHANGED job
    /\ \/ job = "news" /\ News!Next /\ UNCHANGED Behind8
       \/ job = "tree" /\ Tree!Next /\ UNCHANGED Behind7
       \/ job = "alarms" /\ Alarms!Next /\ UNCHANGED Behind7
       \/ job = "bot" /\ Bot!Next /\ UNCHANGED Behind7
       \/ job = "delivery" /\ Delivery!Next
       \/ job = "debt" /\ Debt!Next /\ UNCHANGED Behind8
       \/ job = "regime" /\ Regime!Next /\ UNCHANGED Behind10
       \/ job = "deadman" /\ Switch!Next /\ UNCHANGED Behind6
       \/ job = "refresh" /\ Refresh!Next /\ UNCHANGED Behind9
       \/ job = "watch" /\ Watch!Next /\ UNCHANGED Behind10
       \/ job = "hour" /\ Hour!Next /\ UNCHANGED Behind10
       \/ job = "reference" /\ Reference!Next /\ UNCHANGED Behind3
       \/ job = "spend" /\ Spend!Next /\ UNCHANGED Behind7
       \/ job = "mail" /\ Mail!Next /\ UNCHANGED Behind6
       \/ job = "session" /\ Session!Next /\ UNCHANGED Behind7
       \/ job = "folds" /\ Folding!Next /\ UNCHANGED Behind4
       \/ job = "isotonic" /\ Isotonic!Next /\ UNCHANGED Behind3
       \/ job = "council" /\ Debate!Next /\ UNCHANGED Behind8

Spec == Init /\ [][Next]_vars

-----------------------------------------------------------------------------
(* Alpha Vantage: no API key is passed over before it answered with a      *)
(* limit, no symbol is given up before all keys did, none is paid twice.   *)
NoKeyWasted == job = "news" => News!TypeOK /\ News!NoKeyWasted

(* The verifier accepts exactly the leaves under the published root.       *)
VerifiedIffIncluded == job = "tree" => Tree!VerifiedIffIncluded

(* What a run could not finish is still there for the next: an alarm that  *)
(* went to nobody stays armed, a command not answered is fetched again, a  *)
(* risk-off reading keeps the gate tight until its end is confirmed.       *)
NothingForgotten ==
    /\ job = "alarms" => Alarms!TypeOK /\ Alarms!HitsAreNotForgotten
    /\ job = "bot" => Bot!TypeOK /\ Bot!NoCommandLost
    /\ job = "regime" => Regime!TypeOK /\ Regime!RegimeHeld

(* Every alert of a cycle is saved once and a missed report is accounted   *)
(* for, wherever the delivery phase stops; a loop that leaves no trace is  *)
(* reported, one that does is not; a sudden move reaches the next mail, and*)
(* a second one only for a reason.                                         *)
DeliveryAccountedFor ==
    /\ job = "delivery" => Delivery!TypeOK /\ Delivery!DeliveryAccountedFor
    /\ job = "deadman" => Switch!TypeOK /\ Switch!SilenceIsTold
    /\ job = "mail" => /\ Mail!TypeOK /\ Mail!MovesReachTheMail
                       /\ Mail!ToldAgainOnlyInOverlap

(* The Slow Loop keeps within its weekly cap and keeps what it paid for;   *)
(* its free requests fit the day and go to each company in its turn.  The  *)
(* Fast Loops of a day and of a month keep within their caps in USD.       *)
PaidWithinCapAndKept ==
    /\ job = "debt" => Debt!TypeOK /\ Debt!PaidWithinCapAndKept
    /\ job = "refresh" => Refresh!TypeOK /\ Refresh!InTurn
    /\ job = "spend" => Spend!TypeOK /\ Spend!SpendWithinWindow

(* A move is told once and its row says what was told; the ladder only     *)
(* climbs; a move told on an earlier day is told again only by a snapshot. *)
MovesAreToldOnce ==
    job = "watch" => /\ Watch!TypeOK /\ Watch!RowsMatchPushes
                     /\ Watch!LadderClimbs /\ Watch!RepeatedOnlyFromSnapshot

(* The last run of an hour replaces what the run before it answered, and   *)
(* the watch that reads the row in between announces it once.              *)
LastAnswerStands ==
    job = "hour" => /\ Hour!TypeOK /\ Hour!AnswersReplaceOlder
                    /\ Hour!OneAlarmPerRow

(* What the project judges itself by is made of what was known and said:   *)
(* the baseline has no near duplicates and no call that a read passed by,  *)
(* a settlement that counts has a price of a session after the prediction, *)
(* which was itself made on a price of the last session, a fold learns     *)
(* nothing ahead of its block, the calibration is the regression of its    *)
(* definition, and the verdict of the council is of votes given.           *)
NothingMadeUp ==
    /\ job = "reference" => /\ Reference!TypeOK /\ Reference!CallsAWeekApart
                            /\ Reference!JudgedByFirstRead
    /\ job = "session" => Session!TypeOK /\ Session!SessionPricesFollow
    /\ job = "folds" => /\ Folding!TypeOK /\ Folding!NothingLearntAhead
                        /\ Folding!BlocksTileTheTail
    /\ job = "isotonic" => Isotonic!TypeOK /\ Isotonic!IsTheRegression
    /\ job = "council" => Debate!TypeOK /\ Debate!VerdictOfRealVotes
=============================================================================
