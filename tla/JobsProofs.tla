----------------------------- MODULE JobsProofs -----------------------------
(***************************************************************************)
(* Proofs about jobs beside the analysis of symbols, each for every value  *)
(* of its own constants.  A job is an instance of its module; its          *)
(* variables have the names they have there.                               *)
(***************************************************************************)
EXTENDS Integers, FiniteSets, Sequences, FiniteSetTheorems, WellFoundedInduction, TLAPS

CONSTANTS None,
          Threads, Tickers, NKeys,             \* NewsFeed
          ExitConfirmations, Voters,           \* MarketRegime
          Last, MaxAlarms, Prices, Levels,
          Challengers, Personas, Champion,     \* HourRow
          Runs, NMisses, Plans,                \* DiagnosisDebt
          CapPairs, MaxCost, MonthStarts, LastBooked, MaxRuns, \* SpendWindows
          NCompanies, DailyRequests, NApiKeys, \* FundamentalsRefresh
          BaselineMinAge, BaselineMaxAge, ReadPrices,
          LastRun, MaxReads,                   \* ReferenceSignal
          Council, Opinions, Weightings,       \* CouncilDebate
          LastSession, Calendars,              \* SessionSettlement
          WALK_FORWARD_FOLDS, MIN_FOLD_SAMPLES, MIN_VALIDATION_SAMPLES,
          FractionOf, LABEL_HORIZON, SampleSizes, Settlements, \* WalkForward
          MaxKnots, MaxCount                   \* IsotonicFit

VARIABLES active_key, key_failures, reported, feeds, lock, worker, limited, answered,
          last_row, raw, state, regime, change, outs, before, entry, exit_lost, row_lost,
          n_hour, node, answer, row, shadow, votes, scan, alarms, lost, whole,
          plan, insight, judge_score, rejected_text, slow, paid, escalated, stored,
          caps, date, booked, spender, fast_paid, untold, n_runs,
          entries, n_fresh, quota, batch, keys_gone, aged, first_run, waiting, overtaken,
          today, reads, running,
          weights, debate_mode, phase, calls, first_round, opinions, council_verdict, asked,
          sessions_of, moment, current_price, prediction, fetched, price_checked, settled,
          stamps, settled_at, todo_folds, folds,
          points, taken, blocks

News == INSTANCE NewsFeed
Regime == INSTANCE MarketRegime
Hour == INSTANCE HourRow WITH n <- n_hour
Debt == INSTANCE DiagnosisDebt
Spend == INSTANCE SpendWindows
Refresh == INSTANCE FundamentalsRefresh
Reference == INSTANCE ReferenceSignal
Debate == INSTANCE CouncilDebate
Session == INSTANCE SessionSettlement
Folding == INSTANCE WalkForward
Isotonic == INSTANCE IsotonicFit

-----------------------------------------------------------------------------
(* NewsFeed: the rotation of the Alpha Vantage keys.  NoKeyWasted rests on *)
(* two facts about a thread in the loop of _fetch_batch_with_rotation: the *)
(* key it has read is not ahead of the active one, and it alone holds a    *)
(* ticker that has no feed yet.                                            *)

(* What the proofs assume of the constants.                                *)
FeedConstants ==
    /\ NKeys \in Nat
    /\ None \notin News!Feeds /\ None \notin Threads

Fetching == {"key", "request", "rotate", "mark"}

(* A thread in the loop: what it holds, and how its key stands.            *)
LoopOK(t) ==
    LET w == worker[t] IN
       /\ w.node # "idle" => w.ticker \in Tickers
       /\ w.node \in Fetching => lock[w.ticker] = t /\ feeds[w.ticker] = None
       /\ w.node \in {"request", "rotate"} => w.key \in News!Keys /\ w.key <= active_key
       /\ w.node = "rotate" => w.key \in limited
       /\ w.node = "mark" => active_key = NKeys + 1

(* A ticker without a feed was not answered; one given up had no key left. *)
FeedOK(s) ==
    /\ feeds[s] = None => answered[s] = 0
    /\ answered[s] \in 0 .. 1
    /\ feeds[s] = "keys_exhausted" => active_key = NKeys + 1 /\ reported = 1

FailuresOK == key_failures = 1 .. active_key - 1 /\ key_failures \subseteq limited

NewsInv ==
    /\ News!TypeOK
    /\ FailuresOK
    /\ \A t \in Threads : LoopOK(t)
    /\ \A s \in Tickers : FeedOK(s)

-----------------------------------------------------------------------------
LEMMA InitKeepsNews == ASSUME FeedConstants PROVE News!Init => NewsInv
<1> SUFFICES ASSUME News!Init PROVE NewsInv
  OBVIOUS
<1>1. News!TypeOK
  BY DEF News!Init, News!TypeOK, FeedConstants, News!Idle, News!Workers
<1>2. FailuresOK
  BY DEF News!Init, FailuresOK
<1>3. \A t \in Threads : LoopOK(t)
  BY DEF News!Init, LoopOK, News!Idle, Fetching
<1>4. \A s \in Tickers : FeedOK(s)
  BY DEF News!Init, FeedOK, FeedConstants, News!Feeds
<1> QED
  BY <1>1, <1>2, <1>3, <1>4 DEF NewsInv

(* A step that moves only the worker of one thread, and takes or frees at  *)
(* most the lock that thread may have, leaves the other threads in order.  *)
LEMMA AskKeepsNews ==
    ASSUME FeedConstants, NewsInv, NEW t \in Threads, NEW s \in Tickers, News!Ask(t, s)
    PROVE  NewsInv'
<1> DEFINE w == [node |-> "lock", ticker |-> s, key |-> None]
<1>1. worker' = [worker EXCEPT ![t] = w] /\ UNCHANGED <<active_key, key_failures, reported, feeds, lock, limited, answered>>
  BY DEF News!Ask, News!shared, News!history
<1>2. w \in News!Workers
  BY DEF News!Workers
<1>3. News!TypeOK'
  BY <1>1, <1>2 DEF NewsInv, News!TypeOK
<1>4. ASSUME NEW u \in Threads PROVE LoopOK(u)'
  <2>1. CASE u = t
    <3>1. worker'[u] = w
      BY <1>1, <2>1 DEF NewsInv, News!TypeOK
    <3> QED
      BY <3>1 DEF LoopOK, Fetching
  <2>2. CASE u # t
    <3>1. worker'[u] = worker[u]
      BY <1>1, <2>2 DEF NewsInv, News!TypeOK
    <3>2. LoopOK(u)
      BY DEF NewsInv
    <3> QED
      BY <1>1, <3>1, <3>2 DEF LoopOK
  <2> QED
    BY <2>1, <2>2
<1> QED
  BY <1>1, <1>3, <1>4 DEF NewsInv, FailuresOK, FeedOK

(* Under the lock the feed is still missing, and nobody else holds it.     *)
LEMMA LockKeepsNews ==
    ASSUME FeedConstants, NewsInv, NEW t \in Threads, News!Lock(t)
    PROVE  NewsInv'
<1> DEFINE s == worker[t].ticker
<1>1. UNCHANGED <<active_key, key_failures, reported, feeds, limited, answered>> /\ lock[s] = None
  BY DEF News!Lock, News!shared, News!history
<1>2. worker[t] \in News!Workers /\ s \in Tickers
  BY DEF NewsInv, News!TypeOK, LoopOK, News!Lock
<1>3. CASE feeds[s] # None /\ News!Return(t) /\ UNCHANGED lock
  <2>1. worker' = [worker EXCEPT ![t] = News!Idle]
    BY <1>3 DEF News!Return
  <2>2. News!TypeOK'
    BY <1>1, <1>3, <2>1 DEF NewsInv, News!TypeOK, News!Idle, News!Workers
  <2>3. ASSUME NEW u \in Threads PROVE LoopOK(u)'
    <3>1. worker'[u] = IF u = t THEN News!Idle ELSE worker[u]
      BY <2>1 DEF NewsInv, News!TypeOK
    <3>2. LoopOK(u)
      BY DEF NewsInv
    <3> QED
      BY <1>1, <1>3, <3>1, <3>2 DEF LoopOK, News!Idle, Fetching
  <2> QED
    BY <1>1, <2>2, <2>3 DEF NewsInv, FailuresOK, FeedOK
<1>4. CASE feeds[s] = None /\ lock' = [lock EXCEPT ![s] = t] /\ News!Go(t, "key")
  <2>1. worker' = [worker EXCEPT ![t].node = "key"]
    BY <1>4 DEF News!Go
  <2>2. worker'[t] \in News!Workers /\ worker'[t].node = "key" /\ worker'[t].ticker = s
    BY <1>2, <2>1 DEF NewsInv, News!TypeOK, News!Workers
  <2>3. \A u \in Threads : u # t => worker'[u] = worker[u]
    BY <2>1 DEF NewsInv, News!TypeOK
  <2>4. News!TypeOK'
    <3>1. worker' \in [Threads -> News!Workers]
      BY <2>1, <2>2, <2>3 DEF NewsInv, News!TypeOK
    <3>2. lock' \in [Tickers -> Threads \cup {None}]
      BY <1>2, <1>4 DEF NewsInv, News!TypeOK
    <3> QED
      BY <1>1, <3>1, <3>2 DEF NewsInv, News!TypeOK
  <2>5. lock'[s] = t /\ \A o \in Tickers : o # s => lock'[o] = lock[o]
    BY <1>2, <1>4 DEF NewsInv, News!TypeOK
  <2>6. ASSUME NEW u \in Threads PROVE LoopOK(u)'
    <3>1. CASE u = t
      BY <1>1, <1>2, <1>4, <2>2, <2>5, <3>1 DEF LoopOK, Fetching
    <3>2. CASE u # t
      <4>1. LoopOK(u) /\ worker'[u] = worker[u]
        BY <2>3, <3>2 DEF NewsInv
      <4>2. worker[u].node \in Fetching => worker[u].ticker # s
        BY <1>1, <4>1 DEF LoopOK, FeedConstants
      <4> QED
        BY <1>1, <2>5, <4>1, <4>2 DEF LoopOK, Fetching
    <3> QED
      BY <3>1, <3>2
  <2> QED
    BY <1>1, <2>4, <2>6 DEF NewsInv, FailuresOK, FeedOK
<1> QED
  BY <1>3, <1>4 DEF News!Lock

(* A step of the loop before the feed is known: the keys may move, up, and *)
(* the thread's own record; the locks and the feeds stay.                  *)
StepInLoopOf(t) ==
    /\ worker' \in [Threads -> News!Workers]
    /\ \A u \in Threads \ {t} : worker'[u] = worker[u]
    /\ worker'[t].ticker = worker[t].ticker
    /\ worker[t].node \in Fetching /\ worker'[t].node \in Fetching
    /\ UNCHANGED <<feeds, lock>>
    /\ limited \subseteq limited'
    /\ active_key' \in 1 .. NKeys + 1 /\ active_key <= active_key'

LEMMA StepInLoop ==
    ASSUME FeedConstants, NewsInv, NEW t \in Threads, StepInLoopOf(t),
           worker'[t].node \in {"request", "rotate"} => worker'[t].key \in News!Keys /\ worker'[t].key <= active_key',
           worker'[t].node = "rotate" => worker'[t].key \in limited',
           worker'[t].node = "mark" => active_key' = NKeys + 1
    PROVE  \A u \in Threads : LoopOK(u)'
<1>1. active_key \in 1 .. NKeys + 1 /\ active_key' \in 1 .. NKeys + 1 /\ active_key <= active_key' /\ NKeys \in Nat
  BY DEF NewsInv, News!TypeOK, FeedConstants, StepInLoopOf
<1>2. ASSUME NEW u \in Threads PROVE LoopOK(u)'
  <2>1. LoopOK(u) /\ LoopOK(t)
    BY DEF NewsInv
  <2>2. CASE u = t
    BY <2>1, <2>2 DEF LoopOK, Fetching, StepInLoopOf
  <2>3. CASE u # t
    <3>1. worker'[u] = worker[u]
      BY <2>3 DEF StepInLoopOf
    <3>2. worker[u].node \in {"request", "rotate"} => worker[u].key \in News!Keys /\ worker[u].key <= active_key'
      BY <1>1, <2>1 DEF LoopOK, News!Keys
    <3>3. worker[u].node = "mark" => active_key' = NKeys + 1
      BY <1>1, <2>1 DEF LoopOK
    <3> QED
      BY <2>1, <3>1, <3>2, <3>3 DEF LoopOK, StepInLoopOf
  <2> QED
    BY <2>2, <2>3
<1> QED
  BY <1>2

LEMMA ReadKeyKeepsNews ==
    ASSUME FeedConstants, NewsInv, NEW t \in Threads, News!ReadKey(t)
    PROVE  NewsInv'
<1>1. /\ worker[t].node = "key" /\ worker[t] \in News!Workers
      /\ UNCHANGED <<active_key, key_failures, reported, feeds, lock, limited, answered>>
      /\ active_key \in 1 .. NKeys + 1 /\ NKeys \in Nat
  BY DEF News!ReadKey, NewsInv, News!TypeOK, FeedConstants, News!shared, News!history
<1>2. /\ \A u \in Threads \ {t} : worker'[u] = worker[u]
      /\ worker' \in [Threads -> News!Workers] /\ worker'[t].ticker = worker[t].ticker
      /\ \/ worker'[t].node = "request" /\ worker'[t].key = active_key /\ active_key \in News!Keys
         \/ worker'[t].node = "mark" /\ active_key = NKeys + 1
  <2>1. CASE active_key <= NKeys
    <3>1. worker' = [worker EXCEPT ![t].node = "request", ![t].key = active_key]
      BY <2>1 DEF News!ReadKey
    <3>2. active_key \in News!Keys
      BY <1>1, <2>1 DEF News!Keys
    <3>3. /\ worker'[t] \in News!Workers /\ worker'[t].ticker = worker[t].ticker
          /\ worker'[t].node = "request" /\ worker'[t].key = active_key
      BY <1>1, <3>1, <3>2 DEF NewsInv, News!TypeOK, News!Workers
    <3> QED
      BY <3>1, <3>2, <3>3 DEF NewsInv, News!TypeOK
  <2>2. CASE ~ active_key <= NKeys
    <3>1. worker' = [worker EXCEPT ![t].node = "mark", ![t].key = None]
      BY <2>2 DEF News!ReadKey
    <3>2. /\ worker'[t] \in News!Workers /\ worker'[t].ticker = worker[t].ticker
          /\ worker'[t].node = "mark" /\ worker'[t].key = None
      BY <1>1, <3>1 DEF NewsInv, News!TypeOK, News!Workers
    <3>3. active_key = NKeys + 1
      BY <1>1, <2>2
    <3> QED
      BY <3>1, <3>2, <3>3 DEF NewsInv, News!TypeOK
  <2> QED
    BY <2>1, <2>2
<1>3. StepInLoopOf(t)
  BY <1>1, <1>2 DEF StepInLoopOf, Fetching
<1>4. worker'[t].node \in {"request", "rotate"} => worker'[t].key \in News!Keys /\ worker'[t].key <= active_key'
  BY <1>1, <1>2
<1>5. worker'[t].node # "rotate" /\ (worker'[t].node = "mark" => active_key' = NKeys + 1)
  BY <1>1, <1>2
<1>6. \A u \in Threads : LoopOK(u)'
  BY <1>3, <1>4, <1>5, StepInLoop
<1> QED
  BY <1>1, <1>2, <1>6 DEF NewsInv, News!TypeOK, FailuresOK, FeedOK

LEMMA LimitKeepsNews ==
    ASSUME FeedConstants, NewsInv, NEW t \in Threads, News!Limit(t)
    PROVE  NewsInv'
<1>1. /\ worker[t].node = "request" /\ worker[t] \in News!Workers
      /\ UNCHANGED <<active_key, key_failures, reported, feeds, lock, answered>>
      /\ limited' = limited \cup {worker[t].key}
      /\ active_key \in 1 .. NKeys + 1 /\ NKeys \in Nat
  BY DEF News!Limit, NewsInv, News!TypeOK, FeedConstants, News!shared
<1>2. worker[t].key \in News!Keys /\ worker[t].key <= active_key
  BY <1>1 DEF NewsInv, LoopOK
<1>3. worker' = [worker EXCEPT ![t].node = "rotate"]
  BY DEF News!Limit, News!Go
<1>4. /\ worker'[t] \in News!Workers /\ worker'[t].ticker = worker[t].ticker
      /\ worker'[t].node = "rotate" /\ worker'[t].key = worker[t].key
  BY <1>1, <1>3 DEF NewsInv, News!TypeOK, News!Workers
<1>5. worker' \in [Threads -> News!Workers] /\ \A u \in Threads \ {t} : worker'[u] = worker[u]
  BY <1>3, <1>4 DEF NewsInv, News!TypeOK
<1>6. StepInLoopOf(t)
  BY <1>1, <1>4, <1>5 DEF StepInLoopOf, Fetching
<1>7. /\ worker'[t].key \in News!Keys /\ worker'[t].key <= active_key' /\ worker'[t].key \in limited'
      /\ worker'[t].node # "mark"
  BY <1>1, <1>2, <1>4
<1>8. \A u \in Threads : LoopOK(u)'
  BY <1>6, <1>7, StepInLoop
<1> QED
  BY <1>1, <1>2, <1>5, <1>8 DEF NewsInv, News!TypeOK, FailuresOK, FeedOK

(* The index moves past the key that answered with a limit, and no other.  *)
LEMMA RotatePastKeepsNews ==
    ASSUME FeedConstants, NewsInv, NEW t \in Threads, News!RotatePast(t)
    PROVE  NewsInv'
<1>1. /\ worker[t].node = "rotate" /\ worker[t] \in News!Workers
      /\ UNCHANGED <<reported, feeds, lock, limited, answered>>
      /\ active_key \in 1 .. NKeys + 1 /\ NKeys \in Nat
  BY DEF News!RotatePast, NewsInv, News!TypeOK, FeedConstants, News!history
<1>2. worker[t].key \in 1 .. NKeys /\ worker[t].key \in limited
  BY <1>1 DEF NewsInv, LoopOK, News!Keys
<1>3. worker' = [worker EXCEPT ![t].node = "key"]
  BY DEF News!RotatePast, News!Go
<1>4. /\ worker'[t] \in News!Workers /\ worker'[t].ticker = worker[t].ticker
      /\ worker'[t].node = "key"
  BY <1>1, <1>3 DEF NewsInv, News!TypeOK, News!Workers
<1>5. worker' \in [Threads -> News!Workers] /\ \A u \in Threads \ {t} : worker'[u] = worker[u]
  BY <1>3, <1>4 DEF NewsInv, News!TypeOK
<1>6. /\ active_key' \in 1 .. NKeys + 1 /\ active_key <= active_key'
      /\ key_failures' = 1 .. active_key' - 1 /\ key_failures' \subseteq limited
  <2>1. CASE active_key = worker[t].key
    <3>1. active_key' = active_key + 1 /\ key_failures' = key_failures \cup {active_key}
      BY <2>1 DEF News!RotatePast
    <3>2. (1 .. active_key - 1) \cup {active_key} = 1 .. active_key
      BY <1>1
    <3> QED
      BY <1>1, <1>2, <2>1, <3>1, <3>2 DEF NewsInv, FailuresOK
  <2>2. CASE active_key # worker[t].key
    BY <1>1, <2>2 DEF News!RotatePast, NewsInv, FailuresOK
  <2> QED
    BY <2>1, <2>2
<1>7. StepInLoopOf(t)
  BY <1>1, <1>4, <1>5, <1>6 DEF StepInLoopOf, Fetching
<1>8. \A u \in Threads : LoopOK(u)'
  BY <1>4, <1>7, StepInLoop
<1>9. News!TypeOK'
  BY <1>1, <1>5, <1>6 DEF NewsInv, News!TypeOK, News!Keys
<1>10. \A s \in Tickers : FeedOK(s)'
  BY <1>1, <1>6 DEF NewsInv, FeedOK
<1> QED
  BY <1>1, <1>6, <1>8, <1>9, <1>10 DEF NewsInv, FailuresOK

(* The end of a fetch: the thread that caches the feed is the only one     *)
(* that held the ticker.                                                   *)
LEMMA CacheEndsFetch ==
    ASSUME FeedConstants, NewsInv, NEW t \in Threads, worker[t].node \in Fetching,
           NEW feed \in News!Feeds, News!Cache(t, feed), UNCHANGED <<active_key, limited>>
    PROVE  /\ worker' \in [Threads -> News!Workers] /\ \A u \in Threads : LoopOK(u)'
           /\ feeds' \in [Tickers -> News!Feeds \cup {None}]
           /\ lock' \in [Tickers -> Threads \cup {None}]
           /\ worker[t].ticker \in Tickers /\ feeds[worker[t].ticker] = None
           /\ feeds'[worker[t].ticker] = feed
           /\ \A o \in Tickers \ {worker[t].ticker} : feeds'[o] = feeds[o]
<1> DEFINE s == worker[t].ticker
<1>1. s \in Tickers /\ lock[s] = t /\ feeds[s] = None
  BY DEF NewsInv, LoopOK, Fetching
<1>2. /\ feeds' = [feeds EXCEPT ![s] = feed] /\ lock' = [lock EXCEPT ![s] = None]
      /\ worker' = [worker EXCEPT ![t] = News!Idle]
  BY DEF News!Cache, News!Return
<1>3. News!Idle \in News!Workers
  BY DEF News!Idle, News!Workers
<1>4. worker' \in [Threads -> News!Workers] /\ worker'[t] = News!Idle /\ \A u \in Threads : u # t => worker'[u] = worker[u]
  BY <1>2, <1>3 DEF NewsInv, News!TypeOK
<1>5. /\ feeds' \in [Tickers -> News!Feeds \cup {None}] /\ lock' \in [Tickers -> Threads \cup {None}]
      /\ feeds'[s] = feed
      /\ \A o \in Tickers \ {s} : feeds'[o] = feeds[o] /\ lock'[o] = lock[o]
  BY <1>1, <1>2 DEF NewsInv, News!TypeOK
<1>6. ASSUME NEW u \in Threads PROVE LoopOK(u)'
  <2>1. CASE u = t
    BY <1>4, <2>1 DEF LoopOK, News!Idle, Fetching
  <2>2. CASE u # t
    <3>1. LoopOK(u) /\ worker'[u] = worker[u]
      BY <1>4, <2>2 DEF NewsInv
    <3>2. worker[u].node \in Fetching => worker[u].ticker \in Tickers \ {s}
      BY <1>1, <2>2, <3>1 DEF LoopOK, Fetching
    <3> QED
      BY <1>5, <3>1, <3>2 DEF LoopOK
  <2> QED
    BY <2>1, <2>2
<1> QED
  BY <1>1, <1>4, <1>5, <1>6

LEMMA AnswerKeepsNews ==
    ASSUME FeedConstants, NewsInv, NEW t \in Threads,
           NEW feed \in {"articles", "unexpected", "fetch_error"}, News!Answer(t, feed)
    PROVE  NewsInv'
<1> DEFINE s == worker[t].ticker
<1>1. /\ worker[t].node = "request" /\ News!Cache(t, feed)
      /\ UNCHANGED <<active_key, key_failures, reported, limited>>
      /\ answered' = [answered EXCEPT ![s] = @ + 1]
  BY DEF News!Answer
<1>2. feed \in News!Feeds /\ feed # "keys_exhausted" /\ feed # None
  BY DEF News!Feeds, FeedConstants
<1>3. /\ worker' \in [Threads -> News!Workers] /\ \A u \in Threads : LoopOK(u)'
      /\ feeds' \in [Tickers -> News!Feeds \cup {None}] /\ lock' \in [Tickers -> Threads \cup {None}]
      /\ s \in Tickers /\ feeds[s] = None /\ feeds'[s] = feed
      /\ \A o \in Tickers \ {s} : feeds'[o] = feeds[o]
  BY <1>1, <1>2, CacheEndsFetch DEF Fetching
<1> HIDE DEF s
<1>4. answered[s] = 0
  BY <1>3 DEF NewsInv, FeedOK
<1>5. answered' \in [Tickers -> Nat] /\ answered'[s] = 1 /\ \A o \in Tickers \ {s} : answered'[o] = answered[o]
  BY <1>1, <1>3, <1>4 DEF NewsInv, News!TypeOK
<1>6. News!TypeOK'
  BY <1>1, <1>3, <1>5 DEF NewsInv, News!TypeOK
<1>7. ASSUME NEW o \in Tickers PROVE FeedOK(o)'
  <2>1. CASE o = s
    BY <1>2, <1>3, <1>5, <2>1 DEF FeedOK
  <2>2. CASE o # s
    BY <1>1, <1>3, <1>5, <2>2 DEF NewsInv, FeedOK
  <2> QED
    BY <2>1, <2>2
<1> QED
  BY <1>1, <1>3, <1>6, <1>7 DEF NewsInv, FailuresOK

LEMMA MarkExhaustedKeepsNews ==
    ASSUME FeedConstants, NewsInv, NEW t \in Threads, News!MarkExhausted(t)
    PROVE  NewsInv'
<1> DEFINE s == worker[t].ticker
<1>1. /\ worker[t].node = "mark" /\ News!Cache(t, "keys_exhausted")
      /\ UNCHANGED <<active_key, key_failures, limited, answered>>
      /\ reported' = IF reported = 0 THEN 1 ELSE reported
  BY DEF News!MarkExhausted, News!history
<1>2. reported' = 1 /\ active_key = NKeys + 1 /\ "keys_exhausted" \in News!Feeds
  BY <1>1 DEF NewsInv, News!TypeOK, LoopOK, News!Feeds
<1>3. /\ worker' \in [Threads -> News!Workers] /\ \A u \in Threads : LoopOK(u)'
      /\ feeds' \in [Tickers -> News!Feeds \cup {None}] /\ lock' \in [Tickers -> Threads \cup {None}]
      /\ s \in Tickers /\ feeds'[s] = "keys_exhausted"
      /\ \A o \in Tickers \ {s} : feeds'[o] = feeds[o]
  BY <1>1, <1>2, CacheEndsFetch DEF Fetching
<1> HIDE DEF s
<1>4. News!TypeOK'
  BY <1>1, <1>2, <1>3 DEF NewsInv, News!TypeOK
<1>5. ASSUME NEW o \in Tickers PROVE FeedOK(o)'
  <2>1. CASE o = s
    BY <1>1, <1>2, <1>3, <2>1 DEF NewsInv, FeedOK, FeedConstants
  <2>2. CASE o # s
    BY <1>1, <1>2, <1>3, <2>2 DEF NewsInv, FeedOK
  <2> QED
    BY <2>1, <2>2
<1> QED
  BY <1>1, <1>3, <1>4, <1>5 DEF NewsInv, FailuresOK

LEMMA NextKeepsNews ==
    ASSUME FeedConstants, NewsInv, [News!Next]_News!feedVars
    PROVE  NewsInv'
<1>1. CASE UNCHANGED News!feedVars
  BY <1>1 DEF News!feedVars, News!shared, News!history, NewsInv, News!TypeOK, FailuresOK, LoopOK, FeedOK
<1>2. CASE \E t \in Threads, s \in Tickers : News!Ask(t, s)
  BY <1>2, AskKeepsNews
<1>3. ASSUME NEW t \in Threads, News!Lock(t) \/ News!ReadKey(t) \/ News!Limit(t) \/ News!RotatePast(t) \/ News!MarkExhausted(t)
      PROVE  NewsInv'
  BY <1>3, LockKeepsNews, ReadKeyKeepsNews, LimitKeepsNews, RotatePastKeepsNews, MarkExhaustedKeepsNews
<1>4. CASE \E t \in Threads, feed \in {"articles", "unexpected", "fetch_error"} : News!Answer(t, feed)
  BY <1>4, AnswerKeepsNews
<1> QED
  BY <1>1, <1>2, <1>3, <1>4 DEF News!Next, News!Done

LEMMA NewsInvImpliesNoKeyWasted ==
    ASSUME FeedConstants, NewsInv
    PROVE  News!NoKeyWasted
<1>1. key_failures = 1 .. active_key - 1 /\ key_failures \subseteq limited
  BY DEF NewsInv, FailuresOK
<1>2. limited \subseteq News!Keys /\ NKeys \in Nat
  BY DEF NewsInv, News!TypeOK, FeedConstants
<1>3. ASSUME NEW s \in Tickers PROVE feeds[s] = "keys_exhausted" => limited = News!Keys /\ reported = 1
  <2>1. FeedOK(s)
    BY DEF NewsInv
  <2>2. active_key = NKeys + 1 => 1 .. active_key - 1 = News!Keys
    BY <1>2 DEF News!Keys
  <2> QED
    BY <1>1, <1>2, <2>1, <2>2 DEF FeedOK
<1>4. \A s \in Tickers : answered[s] <= 1
  BY DEF NewsInv, FeedOK
<1> QED
  BY <1>1, <1>3, <1>4 DEF News!NoKeyWasted

-----------------------------------------------------------------------------
(* For every number of threads, tickers and keys: the variables of the     *)
(* client hold what the code's values stand for.                           *)
THEOREM FeedTypes ==
    ASSUME FeedConstants
    PROVE  News!Spec => []News!TypeOK
<1>1. News!Init => NewsInv
  BY InitKeepsNews
<1>2. NewsInv /\ [News!Next]_News!feedVars => NewsInv'
  BY NextKeepsNews
<1>3. NewsInv => News!TypeOK
  BY DEF NewsInv
<1> QED
  BY <1>1, <1>2, <1>3, PTL DEF News!Spec

(* For every number of threads, tickers and keys: no key is passed over    *)
(* before it answered with a limit, no ticker given up before all did, and *)
(* none is paid twice (_rotate_past, _fetch_symbol).                       *)
THEOREM KeysAreUsedUp ==
    ASSUME FeedConstants
    PROVE  News!Spec => []News!NoKeyWasted
<1>1. News!Init => NewsInv
  BY InitKeepsNews
<1>2. NewsInv /\ [News!Next]_News!feedVars => NewsInv'
  BY NextKeepsNews
<1>3. NewsInv => News!NoKeyWasted
  BY NewsInvImpliesNoKeyWasted
<1> QED
  BY <1>1, <1>2, <1>3, PTL DEF News!Spec

-----------------------------------------------------------------------------
(* MarketRegime: the hysteresis, for every number of confirmations and     *)
(* every set of voters.  RegimeHeld speaks of the decision of a run; what  *)
(* carries it over is the streak of the newest row: not above the calm     *)
(* readings counted since the last risk-off one as long as that one's row  *)
(* was written, not below them as long as no calm one's row was lost.      *)

(* What the proofs assume of the constants.                                *)
RegimeConstants ==
    /\ ExitConfirmations \in Nat \ {0}
    /\ None \notin Regime!States /\ None \notin Regime!Regimes

RegimeDomains ==
    /\ last_row \in Regime!States \cup {None} /\ state \in Regime!States \cup {None}
    /\ raw \in Regime!Regimes \cup {None} /\ regime \in Regime!Regimes \cup {None}
    /\ change \in Regime!Regimes \cup {None} /\ before \in Regime!Regimes \cup {None}
    /\ outs \in 0..ExitConfirmations
    /\ entry \in {"written", "unwritten", "unread"}
    /\ exit_lost \in BOOLEAN /\ row_lost \in BOOLEAN

HeldRow == last_row /= None /\ ~Regime!Out(last_row.regime)

(* A row of RISK_OFF counts the calm readings since the last risk-off one. *)
RowCounts ==
    HeldRow =>
        /\ entry = "written" /\ (state = None \/ Regime!Out(raw)) => last_row.streak <= outs
        /\ ~exit_lost /\ state = None => outs <= last_row.streak

(* So does the decision a run is about to write.                           *)
StateCounts ==
    state /= None =>
        /\ raw /= None /\ regime = state.regime
        /\ raw = "RISK_OFF" => outs = 0 /\ ~Regime!Out(state.regime) /\ state.streak = 0
        /\ ~Regime!Out(state.regime) =>
              (entry = "written" => state.streak <= outs) /\ (~exit_lost => outs <= state.streak)

(* A regime of RISK_OFF stands in the newest row.                          *)
RegimeInRow ==
    entry = "written" /\ regime = "RISK_OFF" /\ (state = None \/ Regime!Out(raw)) => HeldRow

(* With no row lost the newest row has the regime of the newest cycle.     *)
RowIsRegime ==
    ~row_lost /\ regime /= None /\ state = None => last_row /= None /\ last_row.regime = regime

RegimeInv == RegimeDomains /\ RowCounts /\ StateCounts /\ RegimeInRow /\ RowIsRegime /\ Regime!RegimeHeld

-----------------------------------------------------------------------------
(* What apply_hysteresis decides from a reading and the newest row: a      *)
(* risk-off reading is adopted, a calm one too unless the row holds        *)
(* RISK_OFF and lacks a confirmation; then its streak grows by one.        *)
LEMMA HysteresisDecides ==
    ASSUME RegimeConstants, NEW p \in Regime!States \cup {None}, NEW r \in Regime!Regimes
    PROVE  LET d == Regime!apply_hysteresis(p, r) IN
              /\ d \in Regime!States
              /\ ~Regime!Out(r) => d.regime = r /\ d.streak = 0
              /\ Regime!Out(r) /\ (p = None \/ Regime!Out(p.regime)) => d.regime = r /\ d.streak = 0
              /\ Regime!Out(r) /\ p /= None /\ ~Regime!Out(p.regime) =>
                    \/ p.streak + 1 >= ExitConfirmations /\ d.regime = r
                    \/ p.streak + 1 < ExitConfirmations /\ d.regime = "RISK_OFF" /\ d.streak = p.streak + 1
<1> DEFINE d == Regime!apply_hysteresis(p, r)
<1>1. p /= None => p.regime \in Regime!Regimes /\ p.streak \in 0..(ExitConfirmations - 1)
  BY DEF Regime!States
<1>2. CASE ~Regime!Out(r) \/ p = None \/ Regime!Out(p.regime) \/ p.streak + 1 >= ExitConfirmations
  <2>1. d = [regime |-> r, streak |-> 0]
    BY <1>2 DEF Regime!apply_hysteresis, Regime!Decided, Regime!Out
  <2>2. d \in Regime!States /\ d.regime = r /\ d.streak = 0
    BY <2>1 DEF Regime!States, RegimeConstants
  <2>3. Regime!Out(r) /\ p /= None /\ ~Regime!Out(p.regime) => p.streak + 1 >= ExitConfirmations
    BY <1>2
  <2> QED
    BY <2>2, <2>3
<1>3. CASE Regime!Out(r) /\ p /= None /\ ~Regime!Out(p.regime) /\ ~(p.streak + 1 >= ExitConfirmations)
  <2>1. d = [regime |-> "RISK_OFF", streak |-> p.streak + 1]
    BY <1>3 DEF Regime!apply_hysteresis, Regime!Decided, Regime!Out
  <2>2. p.streak + 1 \in 0..(ExitConfirmations - 1) /\ p.streak + 1 < ExitConfirmations
    BY <1>1, <1>3 DEF RegimeConstants
  <2>3. d \in Regime!States /\ d.regime = "RISK_OFF" /\ d.streak = p.streak + 1
    BY <2>1, <2>2 DEF Regime!States, Regime!Regimes
  <2> QED
    BY <1>3, <2>2, <2>3
<1> QED
  BY <1>2, <1>3

LEMMA InitKeepsRegime == RegimeConstants /\ Regime!Init => RegimeInv
<1> SUFFICES ASSUME RegimeConstants, Regime!Init PROVE RegimeInv
  OBVIOUS
<1>1. 0 \in 0..ExitConfirmations
  BY DEF RegimeConstants
<1>2. RegimeDomains
  BY <1>1 DEF Regime!Init, RegimeDomains
<1>3. RowCounts /\ StateCounts /\ RowIsRegime /\ Regime!RegimeHeld
  BY DEF Regime!Init, RowCounts, StateCounts, RowIsRegime, Regime!RegimeHeld, HeldRow
<1>4. regime /= "RISK_OFF"
  BY DEF Regime!Init, RegimeConstants, Regime!Regimes
<1> QED
  BY <1>2, <1>3, <1>4 DEF RegimeInv, RegimeInRow

(* A reading leaves everything but raw alone.                              *)
LEMMA ClassifyKeepsRegime == RegimeConstants /\ RegimeInv /\ Regime!Classify => RegimeInv'
<1> SUFFICES ASSUME RegimeConstants, RegimeInv, Regime!Classify PROVE RegimeInv'
  OBVIOUS
<1>1. \A macro, v : Regime!classify(macro, v) \in Regime!Regimes
  BY DEF Regime!classify, Regime!Regimes
<1>2. raw' \in Regime!Regimes /\ UNCHANGED <<last_row, state, regime, change, outs, before, entry, exit_lost, row_lost>>
  BY <1>1 DEF Regime!Classify
<1>3. state = None
  BY DEF RegimeInv, StateCounts, Regime!Classify
<1> QED
  BY <1>2, <1>3 DEF RegimeInv, RegimeDomains, RowCounts, StateCounts, RegimeInRow, RowIsRegime, Regime!RegimeHeld, HeldRow

(* The decision: the row's streak bounds the readings from both sides.     *)
LEMMA DecideKeepsRegime == RegimeConstants /\ RegimeInv /\ Regime!Decide => RegimeInv'
<1> SUFFICES ASSUME RegimeConstants, RegimeInv, Regime!Decide PROVE RegimeInv'
  OBVIOUS
<1> DEFINE d == Regime!apply_hysteresis(last_row, raw)
<1>1. /\ raw \in Regime!Regimes /\ last_row \in Regime!States \cup {None} /\ state = None
      /\ UNCHANGED <<last_row, raw, entry, exit_lost, row_lost>>
  BY DEF RegimeInv, RegimeDomains, Regime!Decide
<1>2. /\ state' = d /\ regime' = d.regime /\ before' = regime
      /\ change' = Regime!risk_off_change(last_row, d.regime) /\ outs' = Regime!Count(raw)
  BY DEF Regime!Decide
<1>3. /\ d \in Regime!States /\ d /= None
      /\ ~Regime!Out(raw) => d.regime = raw /\ d.streak = 0
      /\ Regime!Out(raw) /\ ~HeldRow => d.regime = raw /\ d.streak = 0
      /\ Regime!Out(raw) /\ HeldRow =>
            \/ last_row.streak + 1 >= ExitConfirmations /\ d.regime = raw
            \/ last_row.streak + 1 < ExitConfirmations /\ d.regime = "RISK_OFF" /\ d.streak = last_row.streak + 1
  BY <1>1, HysteresisDecides DEF HeldRow, RegimeConstants
<1> HIDE DEF d
<1>4. /\ outs \in 0..ExitConfirmations /\ ExitConfirmations \in Nat \ {0}
      /\ ~Regime!Out(raw) => outs' = 0
      /\ Regime!Out(raw) => outs' = (IF outs < ExitConfirmations THEN outs + 1 ELSE outs)
  BY <1>2 DEF Regime!Count, RegimeInv, RegimeDomains, RegimeConstants
<1>5. d.regime \in Regime!Regimes /\ d.streak \in 0..(ExitConfirmations - 1)
  BY <1>3 DEF Regime!States
<1>6. last_row /= None => last_row.regime \in Regime!Regimes /\ last_row.streak \in 0..(ExitConfirmations - 1)
  BY <1>1 DEF Regime!States
<1>7. change' \in Regime!Regimes \cup {None}
  BY <1>2, <1>5 DEF Regime!risk_off_change
<1>8. RegimeDomains'
  BY <1>1, <1>2, <1>3, <1>4, <1>5, <1>7 DEF RegimeInv, RegimeDomains, RegimeConstants
<1>9. RowCounts'
  <2>1. HeldRow /\ entry = "written" => last_row.streak <= outs
    BY <1>1 DEF RegimeInv, RowCounts
  <2>2. HeldRow' = HeldRow
    BY <1>1 DEF HeldRow
  <2>3. state' /= None
    BY <1>2, <1>3
  <2> QED
    BY <1>1, <1>4, <1>6, <2>1, <2>2, <2>3 DEF RowCounts, HeldRow
<1>10. StateCounts'
  <2>1. HeldRow /\ ~exit_lost => outs <= last_row.streak
    BY <1>1 DEF RegimeInv, RowCounts
  <2>2. raw \in Regime!Regimes /\ raw' = raw /\ raw /= None /\ exit_lost' = exit_lost
    BY <1>1 DEF RegimeConstants
  <2>3. ~Regime!Out(raw) => outs' = 0 /\ ~Regime!Out(d.regime) /\ d.streak = 0
    BY <1>3, <1>4
  <2>4. Regime!Out(raw) /\ ~Regime!Out(d.regime) => HeldRow /\ d.streak = last_row.streak + 1
    BY <1>3 DEF Regime!Out
  <2>5. CASE ~Regime!Out(raw)
    BY <1>2, <1>3, <2>2, <2>3, <2>5 DEF StateCounts, Regime!Out
  <2>6. CASE Regime!Out(raw)
    <3>1. HeldRow /\ entry = "written" => last_row.streak <= outs
      BY <1>1 DEF RegimeInv, RowCounts
    <3>2. ~Regime!Out(d.regime) /\ entry = "written" => d.streak <= outs'
      BY <1>3, <1>4, <1>6, <2>4, <2>6, <3>1 DEF HeldRow, Regime!Out
    <3>3. ~Regime!Out(d.regime) => (~exit_lost => outs' <= d.streak)
      BY <1>4, <1>6, <2>1, <2>4, <2>6 DEF HeldRow
    <3> QED
      BY <1>1, <1>2, <1>3, <2>2, <2>4, <2>6, <3>2, <3>3 DEF StateCounts, Regime!Out
  <2> QED
    BY <2>5, <2>6
<1>11. RegimeInRow'
  BY <1>1, <1>2, <1>3 DEF RegimeInRow, HeldRow, Regime!Out
<1>12. RowIsRegime'
  BY <1>2, <1>3 DEF RowIsRegime
<1>13. Regime!RegimeHeld'
  <2>1. raw = "RISK_OFF" => regime' = "RISK_OFF"
    BY <1>2, <1>3 DEF Regime!Out
  <2>2. regime = "RISK_OFF" /\ entry = "written" => HeldRow /\ last_row.streak <= outs
    BY <1>1 DEF RegimeInv, RegimeInRow, RowCounts
  <2>3. regime = "RISK_OFF" /\ entry = "written" /\ Regime!Out(d.regime) => outs' = ExitConfirmations
    BY <1>3, <1>4, <1>6, <2>2 DEF Regime!Out, HeldRow
  <2>4. HeldRow /\ ~exit_lost => outs <= last_row.streak
    BY <1>1 DEF RegimeInv, RowCounts
  <2>5. outs' = ExitConfirmations /\ ~exit_lost => d.regime = raw
    BY <1>3, <1>4, <1>6, <2>4 DEF HeldRow
  <2>6. ~row_lost /\ regime /= None => last_row /= None /\ last_row.regime = regime
    BY <1>1 DEF RegimeInv, RowIsRegime
  <2>7. ~row_lost /\ regime /= None => (change' /= None) = (Regime!Out(regime) /= Regime!Out(d.regime))
    BY <1>2, <1>5, <2>6 DEF Regime!risk_off_change, RegimeConstants, Regime!Out
  <2> QED
    BY <1>1, <1>2, <2>1, <2>3, <2>5, <2>7 DEF Regime!RegimeHeld
<1> QED
  BY <1>8, <1>9, <1>10, <1>11, <1>12, <1>13 DEF RegimeInv

(* A history that cannot be read: no row, the raw regime.                  *)
LEMMA DecideRawKeepsRegime == RegimeConstants /\ RegimeInv /\ Regime!DecideRaw => RegimeInv'
<1> SUFFICES ASSUME RegimeConstants, RegimeInv, Regime!DecideRaw PROVE RegimeInv'
  OBVIOUS
<1>1. /\ raw \in Regime!Regimes /\ state = None /\ state' = None /\ raw' = None
      /\ regime' = raw /\ change' = None /\ before' = None /\ last_row' = last_row
      /\ outs' = Regime!Count(raw) /\ row_lost' = TRUE
      /\ entry' = (IF Regime!Out(raw) THEN entry ELSE "unread")
      /\ exit_lost' = (exit_lost \/ Regime!Out(raw))
  BY DEF RegimeInv, RegimeDomains, Regime!DecideRaw, Regime!RowLost
<1>2. /\ outs \in 0..ExitConfirmations /\ ExitConfirmations \in Nat \ {0}
      /\ ~Regime!Out(raw) => outs' = 0
      /\ Regime!Out(raw) => outs' \in 0..ExitConfirmations /\ outs' >= outs
  BY <1>1 DEF Regime!Count, RegimeInv, RegimeDomains, RegimeConstants
<1>3. RegimeDomains'
  BY <1>1, <1>2 DEF RegimeInv, RegimeDomains, RegimeConstants
<1>4. RowCounts'
  <2>1. HeldRow => last_row.streak \in Nat
    BY DEF RegimeInv, RegimeDomains, Regime!States, HeldRow
  <2>2. HeldRow' => HeldRow
    BY <1>1 DEF HeldRow
  <2>3. HeldRow /\ entry = "written" => last_row.streak <= outs
    BY <1>1 DEF RegimeInv, RowCounts
  <2>4. CASE Regime!Out(raw)
    <3>1. entry' = entry /\ exit_lost'
      BY <1>1, <2>4
    <3>2. outs' \in Nat /\ outs \in Nat /\ outs <= outs'
      BY <1>2, <2>4
    <3>3. HeldRow /\ entry = "written" => last_row.streak <= outs'
      BY <2>1, <2>3, <3>2
    <3> QED
      BY <1>1, <2>2, <3>1, <3>3 DEF RowCounts
  <2>5. CASE ~Regime!Out(raw)
    BY <1>1, <1>2, <2>1, <2>2, <2>5 DEF RowCounts
  <2> QED
    BY <2>4, <2>5
<1>5. RegimeInRow'
  BY <1>1 DEF RegimeInRow, Regime!Out
<1> QED
  BY <1>1, <1>3, <1>4, <1>5 DEF RegimeInv, StateCounts, RowIsRegime, Regime!RegimeHeld

(* The row is written: it becomes what the next run reads.                 *)
LEMMA SaveKeepsRegime == RegimeConstants /\ RegimeInv /\ Regime!save_regime_state => RegimeInv'
<1> SUFFICES ASSUME RegimeConstants, RegimeInv, Regime!save_regime_state PROVE RegimeInv'
  OBVIOUS
<1>1. /\ state \in Regime!States /\ last_row' = state /\ state' = None /\ raw' = None
      /\ row_lost' = FALSE /\ regime' = regime
      /\ entry' = (IF Regime!Out(raw) THEN entry ELSE "written")
      /\ exit_lost' = (exit_lost /\ Regime!Out(raw))
      /\ UNCHANGED <<regime, change, outs, before>>
  BY DEF RegimeInv, RegimeDomains, Regime!save_regime_state
<1>2. /\ raw \in Regime!Regimes /\ regime = state.regime /\ state /= None
      /\ ~Regime!Out(raw) => outs = 0 /\ ~Regime!Out(state.regime) /\ state.streak = 0
      /\ ~Regime!Out(state.regime) =>
            (entry = "written" => state.streak <= outs) /\ (~exit_lost => outs <= state.streak)
  BY <1>1 DEF RegimeInv, RegimeDomains, StateCounts, RegimeConstants, Regime!Out
<1>3. RegimeDomains'
  BY <1>1 DEF RegimeInv, RegimeDomains
<1>4. RowCounts'
  <2>1. CASE Regime!Out(raw)
    <3>1. ~exit_lost' => ~exit_lost
      BY <1>1, <2>1
    <3>2. entry' = entry /\ outs' = outs
      BY <1>1, <2>1
    <3> QED
      BY <1>1, <1>2, <3>1, <3>2 DEF RowCounts, HeldRow
  <2>2. CASE ~Regime!Out(raw)
    <3>1. outs' = 0 /\ last_row'.streak = 0
      BY <1>1, <1>2, <2>2
    <3> QED
      BY <3>1 DEF RowCounts
  <2> QED
    BY <2>1, <2>2
<1>5. RegimeInRow'
  BY <1>1, <1>2 DEF RegimeInRow, HeldRow, Regime!Out
<1>6. RowIsRegime'
  BY <1>1, <1>2 DEF RowIsRegime
<1> QED
  BY <1>1, <1>3, <1>4, <1>5, <1>6 DEF RegimeInv, StateCounts, Regime!RegimeHeld

(* The row is lost: the older one stays, and the history flags say so.     *)
LEMMA SaveFailsKeepsRegime == RegimeConstants /\ RegimeInv /\ Regime!SaveFails => RegimeInv'
<1> SUFFICES ASSUME RegimeConstants, RegimeInv, Regime!SaveFails PROVE RegimeInv'
  OBVIOUS
<1>1. /\ state \in Regime!States /\ last_row' = last_row /\ state' = None /\ raw' = None
      /\ row_lost' = TRUE
      /\ entry' = (IF Regime!Out(raw) THEN entry ELSE "unwritten")
      /\ exit_lost' = (exit_lost \/ Regime!Out(raw))
      /\ UNCHANGED <<regime, change, outs, before>>
  BY DEF RegimeInv, RegimeDomains, Regime!SaveFails, Regime!RowLost
<1>2. state /= None /\ (~Regime!Out(raw) => outs = 0)
  BY <1>1 DEF RegimeInv, StateCounts, RegimeConstants, Regime!Out
<1>3. RegimeDomains'
  BY <1>1 DEF RegimeInv, RegimeDomains
<1>4. RowCounts'
  <2>1. HeldRow => last_row.streak \in Nat
    BY DEF RegimeInv, RegimeDomains, Regime!States, HeldRow, RegimeConstants
  <2>2. HeldRow /\ entry = "written" /\ Regime!Out(raw) => last_row.streak <= outs
    BY DEF RegimeInv, RowCounts
  <2>3. HeldRow' => HeldRow
    BY <1>1 DEF HeldRow
  <2>4. CASE Regime!Out(raw)
    BY <1>1, <2>2, <2>3, <2>4 DEF RowCounts
  <2>5. CASE ~Regime!Out(raw)
    BY <1>1, <1>2, <2>1, <2>3, <2>5 DEF RowCounts
  <2> QED
    BY <2>4, <2>5
<1>5. RegimeInRow'
  BY <1>1 DEF RegimeInv, RegimeInRow, HeldRow
<1> QED
  BY <1>1, <1>3, <1>4, <1>5 DEF RegimeInv, StateCounts, RowIsRegime, Regime!RegimeHeld

LEMMA NextKeepsRegime == RegimeConstants /\ RegimeInv /\ [Regime!Next]_Regime!vars => RegimeInv'
<1> SUFFICES ASSUME RegimeConstants, RegimeInv, [Regime!Next]_Regime!vars PROVE RegimeInv'
  OBVIOUS
<1>1. CASE Regime!Next
  BY <1>1, ClassifyKeepsRegime, DecideKeepsRegime, DecideRawKeepsRegime, SaveKeepsRegime, SaveFailsKeepsRegime DEF Regime!Next
<1>2. CASE UNCHANGED Regime!vars
  BY <1>2 DEF Regime!vars, RegimeInv, RegimeDomains, RowCounts, StateCounts, RegimeInRow, RowIsRegime, Regime!RegimeHeld, HeldRow
<1> QED
  BY <1>1, <1>2

-----------------------------------------------------------------------------
(* For every number of confirmations: the variables of the regime stay     *)
(* within the code's enums and the streak below the confirmations.         *)
THEOREM RegimeTypes ==
    ASSUME RegimeConstants
    PROVE  Regime!Spec => []Regime!TypeOK
<1>1. RegimeInv => Regime!TypeOK
  BY DEF RegimeInv, RegimeDomains, Regime!TypeOK
<1>2. Regime!Init => RegimeInv
  BY InitKeepsRegime
<1>3. RegimeInv /\ [Regime!Next]_Regime!vars => RegimeInv'
  BY NextKeepsRegime
<1> QED
  BY <1>1, <1>2, <1>3, PTL DEF Regime!Spec

(* For every number of confirmations: a risk-off reading tightens the gate *)
(* in its own cycle, RISK_OFF ends after the confirmations, neither before *)
(* nor after while the rows are written, and the mail tells the crossing.  *)
THEOREM RegimeIsHeld ==
    ASSUME RegimeConstants
    PROVE  Regime!Spec => []Regime!RegimeHeld
<1>1. RegimeInv => Regime!RegimeHeld
  BY DEF RegimeInv
<1>2. Regime!Init => RegimeInv
  BY InitKeepsRegime
<1>3. RegimeInv /\ [Regime!Next]_Regime!vars => RegimeInv'
  BY NextKeepsRegime
<1> QED
  BY <1>1, <1>2, <1>3, PTL DEF Regime!Spec

-----------------------------------------------------------------------------
(* HourRow: the row of an hour, for any number of runs, prices, levels,    *)
(* models and personas.                                                    *)
HourConstants ==
    /\ Last \in Nat /\ MaxAlarms \in Nat
    /\ None \notin Hour!Answers \cup Hour!Theses
    /\ \A k \in 0 .. Last : None \notin Hour!Rows(k)

LEMMA InitKeepsHour == HourConstants /\ Hour!Init => Hour!IInv
<1> SUFFICES ASSUME HourConstants, Hour!Init PROVE Hour!IInv
  OBVIOUS
<1>1. Hour!TypeOK
  <2>1. /\ shadow \in [Hour!Models -> 0 .. n_hour] /\ votes \in [Personas -> 0 .. n_hour]
        /\ n_hour \in 0 .. Last /\ alarms \in 0 .. MaxAlarms
    BY DEF HourConstants, Hour!Init
  <2> QED
    BY <2>1 DEF Hour!Init, Hour!TypeOK, Hour!Nodes
<1>2. Hour!Written /\ Hour!ToldOnce /\ Hour!AnswersReplaceOlder
  BY DEF Hour!Init, Hour!Written, Hour!ToldOnce, Hour!AnswersReplaceOlder
<1> QED
  BY <1>1, <1>2 DEF Hour!IInv

(* A run begins: the row of the hour, if there is one, is of a run before. *)
LEMMA AnalyseKeepsHour ==
    ASSUME HourConstants, Hour!IInv, Hour!Analyse
    PROVE  Hour!IInv'
<1>1. /\ n_hour \in 0 .. Last /\ n_hour < Last /\ n_hour' = n_hour + 1 /\ Last \in Nat
      /\ node' = "save"
      /\ row' = row /\ shadow' = shadow /\ votes' = votes /\ whole' = whole
      /\ scan' = scan /\ alarms' = alarms /\ lost' = lost
  BY DEF HourConstants, Hour!IInv, Hour!TypeOK, Hour!Analyse, Hour!hourVars, Hour!watchVars
<1>2. answer' \in Hour!Answers /\ answer' # None
  <2>1. PICK trend \in Hour!Trends, price \in Prices, level \in Levels \cup {None},
             forecasts \in SUBSET Hour!Models, given \in SUBSET Personas :
           answer' = [trend |-> trend, price |-> price,
                      invalidation |-> Hour!_parse_invalidation(trend, price, level),
                      shadow_forecasts |-> forecasts, opinions |-> given]
    BY DEF Hour!Analyse
  <2>2. Hour!_parse_invalidation(trend, price, level) \in Levels \cup {None}
    BY DEF Hour!_parse_invalidation
  <2>3. answer' \in Hour!Answers
    BY <2>1, <2>2 DEF Hour!Answers
  <2> QED
    BY <2>3 DEF HourConstants
<1>3. row = None \/ (row \in Hour!Rows(n_hour) /\ row.by \in 1 .. n_hour /\ row \in Hour!Rows(n_hour + 1))
  BY <1>1 DEF Hour!IInv, Hour!TypeOK, Hour!Rows
<1>4. Hour!TypeOK'
  <2>1. shadow \in [Hour!Models -> 0 .. n_hour + 1] /\ votes \in [Personas -> 0 .. n_hour + 1]
    BY <1>1 DEF Hour!IInv, Hour!TypeOK
  <2>2. /\ scan \in Hour!Theses \cup {None} /\ alarms \in 0 .. MaxAlarms /\ lost \in BOOLEAN
        /\ whole \in BOOLEAN
    BY DEF Hour!IInv, Hour!TypeOK
  <2> QED
    BY <1>1, <1>2, <1>3, <2>1, <2>2 DEF Hour!TypeOK, Hour!Nodes, Hour!Rows, Hour!Models
<1>5. Hour!Written'
  BY <1>1, <1>2, <1>3 DEF Hour!Written
<1>6. Hour!ToldOnce' /\ Hour!AnswersReplaceOlder'
  BY <1>1 DEF Hour!IInv, Hour!ToldOnce, Hour!AnswersReplaceOlder
<1> QED
  BY <1>4, <1>5, <1>6 DEF Hour!IInv

(* The upsert keeps the stamp of the row it merges into.                   *)
LEMMA SaveKeepsHour ==
    ASSUME HourConstants, Hour!IInv, Hour!save_prediction
    PROVE  Hour!IInv'
<1>1. /\ node = "save" /\ node' = "shadow" /\ whole' = TRUE
      /\ n_hour' = n_hour /\ answer' = answer /\ shadow' = shadow /\ votes' = votes
      /\ scan' = scan /\ alarms' = alarms /\ lost' = lost
  BY DEF Hour!save_prediction, Hour!watchVars
<1>2. n_hour \in 1 .. Last /\ answer \in Hour!Answers
  BY <1>1 DEF HourConstants, Hour!IInv, Hour!TypeOK, Hour!Written
<1>3. Hour!MergedLevel \in Levels \cup {None}
      /\ (answer.invalidation # None => Hour!MergedLevel = answer.invalidation)
  BY <1>2 DEF Hour!MergedLevel, Hour!IInv, Hour!TypeOK, Hour!Answers, Hour!Rows
<1>4. row' = [by |-> n_hour, trend |-> answer.trend, price |-> answer.price,
              level |-> Hour!MergedLevel, alerted |-> row # None /\ row.alerted]
  BY DEF Hour!save_prediction, Hour!Merged
<1>5. (row # None /\ row.alerted) \in BOOLEAN
  BY DEF Hour!IInv, Hour!TypeOK, Hour!Rows
<1>6. row' \in Hour!Rows(n_hour) /\ row' # None
  <2>1. n_hour \in 1 .. n_hour /\ n_hour \in Nat
    BY <1>2 DEF HourConstants
  <2>2. answer.trend \in Hour!Trends /\ answer.price \in Prices
    BY <1>2 DEF Hour!Answers
  <2>3. row' \in Hour!Rows(n_hour)
    BY <2>1, <2>2, <1>3, <1>4, <1>5 DEF Hour!Rows
  <2>4. n_hour \in 0 .. Last
    BY <1>2
  <2> QED
    BY <2>3, <2>4 DEF HourConstants
<1>7. /\ row'.by = n_hour /\ row'.trend = answer.trend /\ row'.price = answer.price
      /\ row'.level = Hour!MergedLevel /\ (row'.alerted <=> row # None /\ row.alerted)
  BY <1>4
<1>8. Hour!TypeOK'
  <2>1. /\ shadow \in [Hour!Models -> 0 .. n_hour] /\ votes \in [Personas -> 0 .. n_hour]
        /\ scan \in Hour!Theses \cup {None} /\ alarms \in 0 .. MaxAlarms /\ lost \in BOOLEAN
        /\ n_hour \in 0 .. Last
    BY DEF Hour!IInv, Hour!TypeOK
  <2> QED
    BY <1>1, <1>2, <1>6, <2>1 DEF Hour!TypeOK, Hour!Nodes, Hour!Models
<1>9. Hour!Written'
  <2>1. answer # None
    BY <1>1 DEF Hour!IInv, Hour!Written
  <2> QED
    BY <1>1, <1>2, <1>3, <1>6, <1>7, <2>1 DEF Hour!Written
<1>10. Hour!ToldOnce' /\ Hour!AnswersReplaceOlder'
  BY <1>1, <1>6, <1>7 DEF Hour!IInv, Hour!ToldOnce, Hour!AnswersReplaceOlder
<1> QED
  BY <1>8, <1>9, <1>10 DEF Hour!IInv

(* The children of the row: each call goes through or fails as one.        *)
LEMMA ShadowKeepsHour ==
    ASSUME HourConstants, Hour!IInv, Hour!_persist_shadow_predictions
    PROVE  Hour!IInv'
<1>1. /\ node = "shadow" /\ node' = "votes"
      /\ n_hour' = n_hour /\ answer' = answer /\ row' = row /\ votes' = votes
      /\ scan' = scan /\ alarms' = alarms /\ lost' = lost
  BY DEF Hour!_persist_shadow_predictions, Hour!watchVars
<1>2. \/ shadow' = Hour!save_shadow_predictions /\ whole' = whole
      \/ shadow' = shadow /\ whole' = FALSE
  BY DEF Hour!_persist_shadow_predictions
<1>3. n_hour \in Nat /\ answer \in Hour!Answers /\ row # None /\ row.by = n_hour
  BY <1>1 DEF HourConstants, Hour!IInv, Hour!TypeOK, Hour!Written
<1>4. shadow' \in [Hour!Models -> 0 .. n_hour] /\ whole' \in BOOLEAN
  <2>1. /\ shadow \in [Hour!Models -> 0 .. n_hour] /\ whole \in BOOLEAN
        /\ n_hour \in 0 .. n_hour
    BY <1>3 DEF Hour!IInv, Hour!TypeOK
  <2>2. Hour!save_shadow_predictions \in [Hour!Models -> 0 .. n_hour]
    BY <2>1 DEF Hour!save_shadow_predictions
  <2> QED
    BY <1>2, <2>1, <2>2
<1>5. whole' => \A m \in answer.shadow_forecasts : shadow'[m] = n_hour
  <2>1. answer.shadow_forecasts \subseteq Hour!Models
    BY <1>3 DEF Hour!Answers
  <2>2. Hour!save_shadow_predictions =
            [m \in Hour!Models |-> IF m \in answer.shadow_forecasts THEN n_hour ELSE shadow[m]]
    BY DEF Hour!save_shadow_predictions
  <2> QED
    BY <1>2, <2>1, <2>2
<1>6. Hour!TypeOK'
  BY <1>1, <1>4 DEF Hour!IInv, Hour!TypeOK, Hour!Nodes, Hour!Models, Hour!Rows
<1>7. Hour!Written'
  BY <1>1, <1>3, <1>5 DEF Hour!IInv, Hour!Written
<1>8. Hour!ToldOnce' /\ Hour!AnswersReplaceOlder'
  BY <1>1 DEF Hour!IInv, Hour!ToldOnce, Hour!AnswersReplaceOlder
<1> QED
  BY <1>6, <1>7, <1>8 DEF Hour!IInv

LEMMA VotesKeepHour ==
    ASSUME HourConstants, Hour!IInv, Hour!save_council_votes
    PROVE  Hour!IInv'
<1>1. /\ node = "votes" /\ node' = "idle"
      /\ n_hour' = n_hour /\ answer' = answer /\ row' = row /\ shadow' = shadow
      /\ scan' = scan /\ alarms' = alarms /\ lost' = lost
  BY DEF Hour!save_council_votes, Hour!watchVars
<1>2. \/ /\ votes' = [p \in Personas |-> IF p \in answer.opinions THEN n_hour ELSE votes[p]]
         /\ whole' = whole
      \/ votes' = votes /\ whole' = FALSE
  BY DEF Hour!save_council_votes
<1>3. n_hour \in Nat /\ answer \in Hour!Answers /\ row # None /\ row.by = n_hour
  BY <1>1 DEF HourConstants, Hour!IInv, Hour!TypeOK, Hour!Written
<1>4. votes' \in [Personas -> 0 .. n_hour] /\ whole' \in BOOLEAN
  <2>1. /\ votes \in [Personas -> 0 .. n_hour] /\ whole \in BOOLEAN
        /\ n_hour \in 0 .. n_hour
    BY <1>3 DEF Hour!IInv, Hour!TypeOK
  <2> QED
    BY <1>2, <2>1
<1>5. whole' => \A p \in answer.opinions : votes'[p] = n_hour
  <2>1. answer.opinions \subseteq Personas
    BY <1>3 DEF Hour!Answers
  <2> QED
    BY <1>2, <2>1
<1>6. Hour!TypeOK'
  BY <1>1, <1>4 DEF Hour!IInv, Hour!TypeOK, Hour!Nodes, Hour!Models, Hour!Rows
<1>7. whole' => whole
  BY <1>2
<1>8. Hour!Written' /\ Hour!AnswersReplaceOlder'
  BY <1>1, <1>3, <1>5, <1>7 DEF Hour!IInv, Hour!Written, Hour!AnswersReplaceOlder
<1>9. Hour!ToldOnce'
  BY <1>1 DEF Hour!IInv, Hour!ToldOnce
<1> QED
  BY <1>6, <1>8, <1>9 DEF Hour!IInv

(* A run cut before its row leaves an older row; one cut behind it did not *)
(* write everything.                                                       *)
LEMMA CutKeepsHour ==
    ASSUME HourConstants, Hour!IInv, Hour!Cut
    PROVE  Hour!IInv'
<1>1. /\ node \in {"save", "shadow", "votes"} /\ node' = "idle"
      /\ (whole' <=> whole /\ node = "save") /\ whole' \in BOOLEAN
      /\ n_hour' = n_hour /\ answer' = answer
      /\ row' = row /\ shadow' = shadow /\ votes' = votes
      /\ scan' = scan /\ alarms' = alarms /\ lost' = lost
  BY DEF Hour!Cut, Hour!hourVars, Hour!watchVars, Hour!IInv, Hour!TypeOK
<1>2. node = "save" /\ row # None => row.by < n_hour
  BY DEF Hour!IInv, Hour!Written
<1>3. node = "save" /\ row # None => row.by # n_hour
  BY <1>2 DEF Hour!IInv, Hour!TypeOK, Hour!Rows
<1>4. Hour!TypeOK'
  BY <1>1 DEF Hour!IInv, Hour!TypeOK, Hour!Nodes, Hour!Models, Hour!Rows
<1>5. Hour!Written' /\ Hour!AnswersReplaceOlder'
  BY <1>1, <1>3 DEF Hour!IInv, Hour!Written, Hour!AnswersReplaceOlder
<1>6. Hour!ToldOnce'
  BY <1>1 DEF Hour!IInv, Hour!ToldOnce
<1> QED
  BY <1>4, <1>5, <1>6 DEF Hour!IInv

LEMMA SettleKeepsHour ==
    ASSUME HourConstants, Hour!IInv, Hour!Settle \/ Hour!ReviewChallengers \/ UNCHANGED Hour!vars
    PROVE  Hour!IInv'
<1>1. /\ node' = node \/ (node = "idle" /\ node' = "settled")
      /\ n_hour' = n_hour /\ answer' = answer
      /\ row' = row /\ shadow' = shadow /\ votes' = votes /\ whole' = whole
      /\ scan' = scan /\ alarms' = alarms /\ lost' = lost
  BY DEF Hour!Settle, Hour!ReviewChallengers, Hour!vars, Hour!runVars, Hour!hourVars, Hour!watchVars
<1>2. Hour!TypeOK'
  BY <1>1 DEF Hour!IInv, Hour!TypeOK, Hour!Nodes, Hour!Models, Hour!Rows
<1>3. Hour!Written' /\ Hour!AnswersReplaceOlder'
  BY <1>1 DEF Hour!IInv, Hour!Written, Hour!AnswersReplaceOlder
<1>4. Hour!ToldOnce'
  BY <1>1 DEF Hour!IInv, Hour!ToldOnce
<1> QED
  BY <1>2, <1>3, <1>4 DEF Hour!IInv

(* The watch reads a thesis that nobody announced, or whose stamp is lost. *)
LEMMA ReadKeepsHour ==
    ASSUME HourConstants, Hour!IInv, Hour!get_open_invalidations
    PROVE  Hour!IInv'
<1>1. /\ row # None /\ row.level # None /\ ~ row.alerted /\ alarms < MaxAlarms
      /\ scan' = [trend |-> row.trend, price |-> row.price, level |-> row.level]
      /\ node' = node /\ n_hour' = n_hour /\ answer' = answer
      /\ row' = row /\ shadow' = shadow /\ votes' = votes /\ whole' = whole
      /\ alarms' = alarms /\ lost' = lost
  BY DEF Hour!get_open_invalidations, Hour!runVars, Hour!hourVars
<1>2. row \in Hour!Rows(n_hour)
  BY <1>1 DEF Hour!IInv, Hour!TypeOK
<1>3. scan' \in Hour!Theses
  BY <1>1, <1>2 DEF Hour!Rows, Hour!Theses
<1>4. Hour!TypeOK'
  BY <1>1, <1>3 DEF Hour!IInv, Hour!TypeOK, Hour!Nodes, Hour!Models, Hour!Rows, Hour!Theses
<1>5. Hour!Written' /\ Hour!AnswersReplaceOlder'
  BY <1>1 DEF Hour!IInv, Hour!Written, Hour!AnswersReplaceOlder
<1>6. Hour!ToldOnce'
  BY <1>1 DEF Hour!IInv, Hour!ToldOnce
<1> QED
  BY <1>4, <1>5, <1>6 DEF Hour!IInv

(* It announces the thesis and stamps the row, by then perhaps another     *)
(* run's; the next reading passes a stamped row by.                        *)
LEMMA ScanKeepsHour ==
    ASSUME HourConstants, Hour!IInv, Hour!scan_invalidations
    PROVE  Hour!IInv'
<1>1. /\ scan # None /\ scan' = None
      /\ node' = node /\ n_hour' = n_hour /\ answer' = answer
      /\ shadow' = shadow /\ votes' = votes /\ whole' = whole
  BY DEF Hour!scan_invalidations, Hour!runVars
<1>2. \/ row' = row /\ alarms' = alarms /\ lost' = lost
      \/ row' = [row EXCEPT !.alerted = TRUE] /\ alarms' = alarms + 1 /\ lost' = lost
      \/ row' = row /\ alarms' = alarms + 1 /\ lost' = TRUE
  BY DEF Hour!scan_invalidations
<1>3. /\ row # None /\ row \in Hour!Rows(n_hour) /\ n_hour \in 0 .. Last
      /\ alarms \in 0 .. MaxAlarms /\ alarms < MaxAlarms /\ MaxAlarms \in Nat /\ Last \in Nat
  BY <1>1 DEF HourConstants, Hour!IInv, Hour!TypeOK, Hour!ToldOnce
<1>4. /\ row' \in Hour!Rows(n_hour)
      /\ row'.by = row.by /\ row'.trend = row.trend /\ row'.price = row.price
      /\ row'.level = row.level
      /\ alarms' # alarms /\ ~ lost' => row'.alerted
  <2>1. CASE row' = row /\ (alarms' = alarms \/ lost' = TRUE)
    BY <2>1, <1>3
  <2>2. CASE row' = [row EXCEPT !.alerted = TRUE]
    BY <2>2, <1>3 DEF Hour!Rows
  <2> QED
    BY <1>2, <2>1, <2>2
<1>5. row' # None
  BY <1>3, <1>4 DEF HourConstants
<1>6. alarms' \in 0 .. MaxAlarms /\ lost' \in BOOLEAN /\ (lost => lost')
  <2>1. lost \in BOOLEAN
    BY DEF Hour!IInv, Hour!TypeOK
  <2>2. alarms' \in 0 .. MaxAlarms
    BY <1>2, <1>3
  <2>3. lost' = lost \/ lost' = TRUE
    BY <1>2
  <2> QED
    BY <2>1, <2>2, <2>3
<1>7. Hour!TypeOK'
  BY <1>1, <1>4, <1>6 DEF Hour!IInv, Hour!TypeOK, Hour!Nodes, Hour!Models
<1>8. Hour!Written' /\ Hour!AnswersReplaceOlder'
  BY <1>1, <1>3, <1>4, <1>5 DEF Hour!IInv, Hour!Written, Hour!AnswersReplaceOlder
<1>9. Hour!ToldOnce'
  <2>1. lost \/ alarms = 0
    BY <1>1 DEF Hour!IInv, Hour!ToldOnce
  <2> QED
    BY <1>1, <1>2, <1>3, <1>4, <1>5, <1>6, <2>1 DEF Hour!ToldOnce
<1> QED
  BY <1>7, <1>8, <1>9 DEF Hour!IInv

LEMMA NextKeepsHour == HourConstants /\ Hour!IInv /\ [Hour!Next]_Hour!vars => Hour!IInv'
  BY AnalyseKeepsHour, SaveKeepsHour, ShadowKeepsHour, VotesKeepHour, CutKeepsHour,
     SettleKeepsHour, ReadKeepsHour, ScanKeepsHour DEF Hour!Next

(* For every number of runs, whatever prices and levels they see: what the *)
(* last run answered is what the row and its children hold, unless one of  *)
(* its writes failed (save_prediction and the two upserts behind it); and  *)
(* the row is announced once, unless a stamp was lost (scan_invalidations).*)
THEOREM HourHolds ==
    ASSUME HourConstants
    PROVE  Hour!Spec => [](Hour!TypeOK /\ Hour!AnswersReplaceOlder /\ Hour!OneAlarmPerRow)
<1>1. Hour!Init => Hour!IInv
  BY InitKeepsHour
<1>2. Hour!IInv /\ [Hour!Next]_Hour!vars => Hour!IInv'
  BY NextKeepsHour
<1>3. Hour!IInv => Hour!TypeOK /\ Hour!AnswersReplaceOlder /\ Hour!OneAlarmPerRow
  BY DEF Hour!IInv, Hour!ToldOnce, Hour!OneAlarmPerRow, Hour!TypeOK
<1> QED
  BY <1>1, <1>2, <1>3, PTL DEF Hour!Spec

-----------------------------------------------------------------------------
(* A set of natural numbers below a bound has a greatest element.          *)
LEMMA GreatestNumber ==
    ASSUME NEW n \in Nat, NEW S \in SUBSET (0 .. n), S # {}
    PROVE  \E m \in S : \A y \in S : y <= m
<1> DEFINE T == {x .. n : x \in S}
<1>1. T \subseteq FiniteSubsetsOf(Nat) /\ T # {}
  <2>1. ASSUME NEW x \in S PROVE x .. n \in FiniteSubsetsOf(Nat)
    BY FS_Interval, x .. n \subseteq Nat, x \in Int, n \in Int DEF FiniteSubsetsOf
  <2> QED
    BY <2>1
<1>2. \E a \in T : \A b \in T : ~ (<<b, a>> \in StrictSubsetOrdering(Nat))
  <2> HIDE DEF T
  <2> QED
    BY <1>1, FS_StrictSubsetOrderingWellFounded, WFMin
<1>3. PICK m \in S : \A y \in S : <<y .. n, m .. n>> \notin StrictSubsetOrdering(Nat)
  BY <1>2
<1>4. \A y \in S : y <= m
  <2> SUFFICES ASSUME NEW y \in S, m < y PROVE FALSE
    OBVIOUS
  <2>1. y .. n \subseteq m .. n /\ m \in m .. n /\ m \notin y .. n
    OBVIOUS
  <2>2. y .. n \in SUBSET Nat /\ m .. n \in SUBSET Nat
    OBVIOUS
  <2> QED
    BY <1>3, <2>1, <2>2 DEF StrictSubsetOrdering
<1> QED
  BY <1>4

(* And a least one: what is left below the bound has a greatest element.   *)
LEMMA LeastNumber ==
    ASSUME NEW n \in Nat, NEW S \in SUBSET (0 .. n), S # {}
    PROVE  \E m \in S : \A y \in S : m <= y
<1> DEFINE below == {n - x : x \in S}
<1>1. \A x \in S : x \in Int /\ n - x \in 0 .. n
  OBVIOUS
<1>2. PICK b \in below : \A y \in below : y <= b
  <2>1. below \in SUBSET (0 .. n) /\ below # {}
    BY <1>1
  <2> HIDE DEF below
  <2> QED
    BY <2>1, GreatestNumber
<1>3. PICK m \in S : b = n - m
  BY <1>2
<1>4. \A y \in S : m <= y
  BY <1>1, <1>2, <1>3
<1> QED
  BY <1>4

-----------------------------------------------------------------------------
(* DiagnosisDebt: the paid jobs of the Slow Loop.  A run may replace what  *)
(* it read of a miss; what it read says that it is nothing that was paid   *)
(* for, or goes on in rejected_diagnosis.                                  *)

(* What the proofs assume of the constants.                                *)
DebtConstants ==
    /\ NMisses \in Nat \ {0}
    /\ \A p \in Plans : p.cap \in Nat /\ p.requested \in [Debt!Jobs -> Nat]

LEMMA LesserOfTwo ==
    ASSUME NEW a \in Nat, NEW b \in Nat
    PROVE  /\ Debt!Min({a, b}) \in Nat
           /\ Debt!Min({a, b}) <= a /\ Debt!Min({a, b}) <= b
<1>1. \E x \in {a, b} : \A y \in {a, b} : x <= y
  OBVIOUS
<1>2. Debt!Min({a, b}) \in {a, b} /\ \A y \in {a, b} : Debt!Min({a, b}) <= y
  BY <1>1 DEF Debt!Min
<1> QED
  BY <1>2

LEMMA SameCardinality == \A S : Debt!Cardinality(S) = Cardinality(S)
BY DEF Debt!Cardinality, Cardinality

(* The allowances of the jobs: what is left never grows.                   *)
LEMMA LeftIsTheRest ==
    ASSUME DebtConstants, plan \in Plans
    PROVE  /\ Debt!Left \in [0 .. 4 -> 0 .. plan.cap] /\ Debt!Left[0] = plan.cap
           /\ \A j \in Debt!Jobs : Debt!Left[j] <= Debt!Left[j - 1]
<1> DEFINE cut(j, rest) == rest - Debt!Min({plan.requested[j], rest})
<1>1. plan.cap \in Nat /\ plan.requested \in [Debt!Jobs -> Nat]
  BY DEF DebtConstants
<1>2. \A j \in Debt!Jobs : \A rest \in Nat : cut(j, rest) \in Nat /\ cut(j, rest) <= rest
  BY <1>1, LesserOfTwo
<1>3. \A F : F = [j \in 0 .. 4 |-> IF j = 0 THEN plan.cap ELSE cut(j, F[j - 1])]
              => /\ F \in [0 .. 4 -> 0 .. plan.cap] /\ F[0] = plan.cap
                 /\ \A j \in Debt!Jobs : F[j] <= F[j - 1]
  <2> HIDE DEF cut
  <2> SUFFICES ASSUME NEW F, F = [j \in 0 .. 4 |-> IF j = 0 THEN plan.cap ELSE cut(j, F[j - 1])]
               PROVE  /\ F \in [0 .. 4 -> 0 .. plan.cap] /\ F[0] = plan.cap
                      /\ \A j \in Debt!Jobs : F[j] <= F[j - 1]
    OBVIOUS
  <2>1. F[0] = plan.cap /\ F[1] = cut(1, F[0]) /\ F[2] = cut(2, F[1]) /\ F[3] = cut(3, F[2])
        /\ F[4] = cut(4, F[3])
    OBVIOUS
  <2>2. F[0] \in Nat /\ F[1] \in Nat /\ F[1] <= F[0]
    BY <1>1, <1>2, <2>1 DEF Debt!Jobs
  <2>3. F[2] \in Nat /\ F[2] <= F[1]
    BY <1>2, <2>1, <2>2 DEF Debt!Jobs
  <2>4. F[3] \in Nat /\ F[3] <= F[2]
    BY <1>2, <2>1, <2>3 DEF Debt!Jobs
  <2>5. F[4] \in Nat /\ F[4] <= F[3]
    BY <1>2, <2>1, <2>4 DEF Debt!Jobs
  <2>6. \A j \in 0 .. 4 : F[j] \in 0 .. plan.cap
    BY <2>1, <2>2, <2>3, <2>4, <2>5
  <2> QED
    BY <2>1, <2>2, <2>3, <2>4, <2>5, <2>6 DEF Debt!Jobs
<1>4. \E F : F = [j \in 0 .. 4 |-> IF j = 0 THEN plan.cap ELSE cut(j, F[j - 1])]
  <2> DEFINE a == cut(1, plan.cap)
             b == cut(2, a)
             c == cut(3, b)
             F == [j \in 0 .. 4 |-> CASE j = 0 -> plan.cap [] j = 1 -> a [] j = 2 -> b
                                      [] j = 3 -> c [] OTHER -> cut(4, c)]
  <2> HIDE DEF cut
  <2>1. \A j \in 0 .. 4 : F[j] = IF j = 0 THEN plan.cap ELSE cut(j, F[j - 1])
    OBVIOUS
  <2>2. F = [j \in 0 .. 4 |-> F[j]]
    OBVIOUS
  <2> HIDE DEF F
  <2> QED
    BY <2>1, <2>2
<1>5. Debt!Left = CHOOSE F : F = [j \in 0 .. 4 |-> IF j = 0 THEN plan.cap ELSE cut(j, F[j - 1])]
  BY DEF Debt!Left
<1> HIDE DEF cut
<1>6. Debt!Left = [j \in 0 .. 4 |-> IF j = 0 THEN plan.cap ELSE cut(j, Debt!Left[j - 1])]
  BY <1>4, <1>5
<1> QED
  BY <1>3, <1>6

(* The miss in hand is one of those to do.                                 *)
LEMMA RowInHand ==
    ASSUME DebtConstants, NEW T \in SUBSET Debt!Misses, T # {}
    PROVE  Debt!Min(T) \in T
<1> DEFINE below == {NMisses - x : x \in T}
<1>1. NMisses \in Nat /\ T \subseteq Int /\ \A x \in T : NMisses - x \in 0 .. NMisses
  BY DEF Debt!Misses, DebtConstants
<1>2. PICK b \in below : \A y \in below : y <= b
  <2>1. below \in SUBSET (0 .. NMisses) /\ below # {}
    BY <1>1
  <2> HIDE DEF below
  <2> QED
    BY <1>1, <2>1, GreatestNumber
<1>3. PICK m \in T : b = NMisses - m
  BY <1>2
<1>4. \A y \in T : m <= y
  BY <1>1, <1>2, <1>3
<1> QED
  BY <1>4 DEF Debt!Min

-----------------------------------------------------------------------------
(* The parts of the invariant that an action disturbs.                     *)
LEMMA InitKeepsDebt == DebtConstants /\ Debt!Init => Debt!IInv
<1> SUFFICES ASSUME DebtConstants, Debt!Init PROVE Debt!IInv
  OBVIOUS
<1>1. plan \in Plans /\ plan.cap \in Nat
  BY DEF Debt!Init, DebtConstants
<1>2. Debt!Left[0] = plan.cap
  BY <1>1, LeftIsTheRest
<1>3. Debt!Waiting \in Debt!SlowRun
  BY <1>1 DEF Debt!Init, Debt!Waiting, Debt!SlowRun, Debt!Texts
<1>4. slow \in [Runs -> Debt!SlowRun] /\ \A r \in Runs : slow[r] = Debt!Waiting
  BY <1>3 DEF Debt!Init
<1>5. paid \in [Runs -> Nat] /\ \A r \in Runs : paid[r] = 0
  BY DEF Debt!Init
<1>6. \A r \in Runs : Cardinality(escalated \cap {r}) = 0
  <2>1. \A r \in Runs : escalated \cap {r} = {}
    BY DEF Debt!Init
  <2> QED
    BY <2>1, FS_EmptySet
<1>7. \A r \in Runs : Debt!ReadsOK(r) /\ Debt!SpendOK(r)
  <2> SUFFICES ASSUME NEW r \in Runs PROVE Debt!ReadsOK(r) /\ Debt!SpendOK(r)
    OBVIOUS
  <2>1. slow[r].job = 0 /\ slow[r].node = "job" /\ slow[r].remaining = 0
    BY <1>4 DEF Debt!Waiting
  <2>2. Debt!SpendOK(r)
    BY <1>1, <1>2, <1>5, <1>6, <2>1, SameCardinality DEF Debt!SpendOK
  <2> QED
    BY <2>1, <2>2 DEF Debt!ReadsOK
<1>8. Debt!TypeOK
  BY <1>1, <1>4 DEF Debt!TypeOK, Debt!Init, Debt!Waiting
<1>9. Debt!PaidWithinCapAndKept
  BY <1>1, <1>5, <1>6, SameCardinality DEF Debt!PaidWithinCapAndKept, Debt!Init
<1> QED
  BY <1>4, <1>5, <1>7, <1>8, <1>9 DEF Debt!IInv

(* The table: a diagnosis that was saved is where it was saved, or it was  *)
(* rejected and is kept beside.                                            *)
TableOK ==
    /\ insight \in [Debt!Misses -> Debt!Texts]
    /\ judge_score \in [Debt!Misses -> BOOLEAN \cup {None}]
    /\ rejected_text \in [Debt!Misses -> Debt!Diagnoses \cup {None}]
    /\ stored \subseteq Debt!Diagnoses
    /\ \A t \in stored :
          \/ insight[t[3]] = t
          \/ insight[t[3]] = Debt!Rejected /\ rejected_text[t[3]] = t

LEMMA DebtTableOK == Debt!IInv => TableOK
BY DEF Debt!IInv, Debt!TypeOK, Debt!PaidWithinCapAndKept, TableOK, Debt!Texts

LEMMA TableStays ==
    ASSUME Debt!IInv, UNCHANGED <<insight, judge_score, rejected_text, stored>>
    PROVE  TableOK'
<1>1. TableOK
  BY DebtTableOK
<1>2. Debt!Misses' = Debt!Misses /\ Debt!Texts' = Debt!Texts /\ Debt!Rejected' = Debt!Rejected
      /\ Debt!Diagnoses' = Debt!Diagnoses
  BY DEF Debt!Misses, Debt!Texts, Debt!Undiagnosed, Debt!Diagnoses, Debt!Rejected
<1> QED
  BY <1>1, <1>2 DEF TableOK

(* A step of one run: the table, its new record and what it has sent have  *)
(* to fit.                                                                 *)
LEMMA RunKeepsDebt ==
    ASSUME DebtConstants, Debt!IInv, NEW r \in Runs, NEW w \in Debt!SlowRun,
           slow' = [slow EXCEPT ![r] = w], plan' = plan, TableOK',
           paid' \in [Runs -> Nat], escalated' \subseteq Runs,
           \A q \in Runs \ {r} : paid'[q] = paid[q] /\ escalated' \cap {q} = escalated \cap {q},
           Debt!ReadsOK(r)', Debt!SpendOK(r)'
    PROVE  Debt!IInv'
<1>2. plan \in Plans /\ slow \in [Runs -> Debt!SlowRun]
  BY DEF Debt!IInv, Debt!TypeOK
<1>3. Debt!SlowRun' = Debt!SlowRun /\ Debt!Left' = Debt!Left
  BY DEF Debt!SlowRun, Debt!Texts, Debt!Left
<1>4. slow' \in [Runs -> Debt!SlowRun] /\ \A q \in Runs \ {r} : slow'[q] = slow[q]
  BY <1>2
<1>5. \A q \in Runs : Debt!ReadsOK(q)' /\ Debt!SpendOK(q)'
  <2> SUFFICES ASSUME NEW q \in Runs, q # r PROVE Debt!ReadsOK(q)' /\ Debt!SpendOK(q)'
    OBVIOUS
  <2>1. Debt!ReadsOK(q) /\ Debt!SpendOK(q)
    BY DEF Debt!IInv
  <2>2. slow'[q] = slow[q] /\ paid'[q] = paid[q] /\ escalated' \cap {q} = escalated \cap {q}
    BY <1>4
  <2>3. Debt!ReadsOK(q)'
    BY <2>1, <2>2 DEF Debt!ReadsOK
  <2>4. Debt!SpendOK(q)'
    BY <1>3, <2>1, <2>2 DEF Debt!SpendOK
  <2> QED
    BY <2>3, <2>4
<1>6. Debt!TypeOK'
  <2>1. \A q \in Runs : slow'[q] \in Debt!SlowRun
    BY <1>4
  <2> QED
    BY <1>2, <2>1 DEF Debt!TypeOK, Debt!SlowRun, TableOK, Debt!Texts
<1>7. Debt!PaidWithinCapAndKept'
  <2>1. \A q \in Runs : paid'[q] <= plan.cap + Cardinality(escalated' \cap {q})
    <3> SUFFICES ASSUME NEW q \in Runs
                 PROVE  paid'[q] <= plan.cap + Cardinality(escalated' \cap {q})
      OBVIOUS
    <3>1. slow'[q] \in Debt!SlowRun /\ paid'[q] \in Nat
      BY <1>4
    <3>2. /\ slow'[q].job \in 0 .. 4 /\ slow'[q].remaining \in 0 .. plan.cap
          /\ Debt!Left[slow'[q].job] \in 0 .. plan.cap /\ plan.cap \in Nat
      BY <1>2, <3>1, LeftIsTheRest DEF Debt!SlowRun, DebtConstants
    <3>3. Cardinality(escalated' \cap {q}) \in Nat
      BY FS_Singleton, FS_Intersection, FS_CardinalityType
    <3>4. paid'[q] + slow'[q].remaining
             <= plan.cap - Debt!Left[slow'[q].job] + Cardinality(escalated' \cap {q})
      BY <1>3, <1>5, SameCardinality DEF Debt!SpendOK
    <3> QED
      BY <3>1, <3>2, <3>3, <3>4
  <2> QED
    BY <2>1, SameCardinality DEF Debt!PaidWithinCapAndKept, TableOK
<1> QED
  BY <1>3, <1>4, <1>5, <1>6, <1>7 DEF Debt!IInv

(* Nothing is sent: the run has no more left than before, in the same job. *)
LEMMA StepKeepsDebt ==
    ASSUME DebtConstants, Debt!IInv, NEW r \in Runs,
           NEW n \in {"job", "call", "failed", "answered"}, NEW T \in SUBSET slow[r].todo,
           slow' = [slow EXCEPT ![r].todo = T, ![r].node = n], n # "job" => T # {},
           plan' = plan, paid' = paid, escalated' = escalated, TableOK'
    PROVE  Debt!IInv'
<1>1. slow \in [Runs -> Debt!SlowRun] /\ paid \in [Runs -> Nat] /\ escalated \subseteq Runs
      /\ Debt!ReadsOK(r) /\ Debt!SpendOK(r)
  BY DEF Debt!IInv, Debt!TypeOK
<1> DEFINE w == [slow[r] EXCEPT !.todo = T, !.node = n]
<1>2. slow[r] \in Debt!SlowRun
  BY <1>1
<1>3. /\ w \in Debt!SlowRun /\ w.job = slow[r].job /\ w.read = slow[r].read
      /\ w.todo = T /\ w.node = n /\ w.remaining = slow[r].remaining
  BY <1>2 DEF Debt!SlowRun
<1>4. slow' = [slow EXCEPT ![r] = w] /\ slow'[r] = w
  BY <1>1
<1> HIDE DEF w
<1>5. Debt!Left' = Debt!Left
  BY DEF Debt!Left
<1>6. Debt!SpendOK(r)'
  BY <1>1, <1>3, <1>4, <1>5 DEF Debt!SpendOK
<1>7. Debt!ReadsOK(r)'
  <2>1. Debt!Undiagnosed' = Debt!Undiagnosed /\ Debt!Diagnoses' = Debt!Diagnoses
    BY DEF Debt!Undiagnosed, Debt!Diagnoses, Debt!Misses
  <2> QED
    BY <1>1, <1>3, <1>4, <2>1 DEF Debt!ReadsOK
<1> QED
  BY <1>1, <1>3, <1>4, <1>6, <1>7, RunKeepsDebt

(* A job reads the rows it may replace.                                    *)
LEMMA BatchesAreOpen ==
    ASSUME NEW j \in Debt!Jobs, NEW rows \in Debt!Batches(j), DebtConstants
    PROVE  /\ rows \subseteq Debt!Misses
           /\ j \in {2, 3} => \A m \in rows : insight[m] \in Debt!Undiagnosed
           /\ j = 4 => \A m \in rows : insight[m] \in Debt!Diagnoses
<1>1. CASE plan.requested[j] = 0
  BY <1>1 DEF Debt!Batches
<1>2. CASE plan.requested[j] # 0 /\ j = 1
  <2>1. rows = {1}
    BY <1>2 DEF Debt!Batches
  <2>2. 1 \in Debt!Misses
    BY DEF Debt!Misses, DebtConstants
  <2> QED
    BY <1>2, <2>1, <2>2
<1>3. CASE plan.requested[j] # 0 /\ j = 2
  BY <1>3 DEF Debt!Batches
<1>4. CASE plan.requested[j] # 0 /\ j = 3
  <2>1. rows = Debt!First(Debt!Sample(3), {m \in Debt!Misses : insight[m] \in Debt!Undiagnosed})
    BY <1>4 DEF Debt!Batches
  <2>2. \A n, R : Debt!First(n, R) \subseteq R
    BY DEF Debt!First
  <2> QED
    BY <1>4, <2>1, <2>2
<1>5. CASE plan.requested[j] # 0 /\ j = 4
  BY <1>5 DEF Debt!Batches, Debt!kSubset, Debt!substantive
<1> QED
  BY <1>1, <1>2, <1>3, <1>4, <1>5 DEF Debt!Jobs

LEMMA StartJobKeepsDebt ==
    ASSUME DebtConstants, Debt!IInv, NEW r \in Runs, Debt!StartJob(r)
    PROVE  Debt!IInv'
<1>1. /\ slow \in [Runs -> Debt!SlowRun] /\ paid \in [Runs -> Nat] /\ escalated \subseteq Runs
      /\ Debt!SpendOK(r) /\ plan \in Plans /\ insight \in [Debt!Misses -> Debt!Texts]
  BY DebtTableOK DEF Debt!IInv, Debt!TypeOK, TableOK
<1> DEFINE j == slow[r].job + 1
<1>2. /\ slow[r].job \in 0 .. 4 /\ slow[r].job < 4 /\ slow[r].remaining \in 0 .. plan.cap
      /\ j \in Debt!Jobs /\ j - 1 = slow[r].job
  BY <1>1 DEF Debt!StartJob, Debt!SlowRun, Debt!Jobs
<1>3. PICK rows \in Debt!Batches(j) :
         slow' = [slow EXCEPT ![r] =
                    [job |-> j, todo |-> rows, read |-> insight, remaining |-> Debt!Budget[j],
                     node |-> IF rows = {} THEN "job" ELSE "call"]]
  BY DEF Debt!StartJob
<1> DEFINE w == [job |-> j, todo |-> rows, read |-> insight, remaining |-> Debt!Budget[j],
                 node |-> IF rows = {} THEN "job" ELSE "call"]
<1>4. /\ plan' = plan /\ insight' = insight /\ judge_score' = judge_score /\ paid' = paid
      /\ rejected_text' = rejected_text /\ escalated' = escalated /\ stored' = stored
  BY DEF Debt!StartJob, Debt!debtTable
<1>5. /\ plan.cap \in Nat /\ Debt!Left[j - 1] \in 0 .. plan.cap
      /\ Debt!Left[j] \in 0 .. plan.cap /\ Debt!Left[j] <= Debt!Left[j - 1]
  BY <1>1, <1>2, LeftIsTheRest DEF DebtConstants, Debt!Jobs
<1>6. Debt!Budget[j] = Debt!Left[j - 1] - Debt!Left[j]
  BY <1>2 DEF Debt!Budget
<1>7. Debt!Budget[j] \in 0 .. plan.cap
  BY <1>5, <1>6
<1>8. /\ rows \subseteq Debt!Misses
      /\ j \in {2, 3} => \A m \in rows : insight[m] \in Debt!Undiagnosed
      /\ j = 4 => \A m \in rows : insight[m] \in Debt!Diagnoses
  BY <1>2, BatchesAreOpen
<1>9. w \in Debt!SlowRun
  BY <1>1, <1>2, <1>7, <1>8 DEF Debt!SlowRun, Debt!Jobs
<1>10. slow' = [slow EXCEPT ![r] = w] /\ slow'[r] = w
  BY <1>1, <1>3
<1>11. Debt!ReadsOK(r)'
  <2>1. Debt!Undiagnosed' = Debt!Undiagnosed /\ Debt!Diagnoses' = Debt!Diagnoses
    BY DEF Debt!Undiagnosed, Debt!Diagnoses, Debt!Misses
  <2>2. (rows = {} => w.node = "job") /\ w.todo = rows /\ w.job = j /\ w.read = insight
    OBVIOUS
  <2> HIDE DEF w, j
  <2> QED
    BY <1>8, <1>10, <2>1, <2>2 DEF Debt!ReadsOK
<1>12. Debt!SpendOK(r)'
  <2>1. Debt!Left' = Debt!Left
    BY <1>4 DEF Debt!Left
  <2>2. w.job = j /\ w.remaining = Debt!Budget[j]
    OBVIOUS
  <2>3. paid[r] + slow[r].remaining
           <= plan.cap - Debt!Left[j - 1] + Debt!Cardinality(escalated \cap {r})
    BY <1>1, <1>2 DEF Debt!SpendOK
  <2>4. Debt!Cardinality(escalated \cap {r}) \in Nat /\ paid[r] \in Nat
    BY <1>1, FS_Singleton, FS_Intersection, FS_CardinalityType, SameCardinality
  <2> HIDE DEF w, j
  <2>5. paid[r] + Debt!Budget[j] <= plan.cap - Debt!Left[j] + Debt!Cardinality(escalated \cap {r})
    BY <1>2, <1>5, <1>6, <2>3, <2>4
  <2> QED
    BY <1>4, <1>10, <2>1, <2>2, <2>5 DEF Debt!SpendOK
<1> HIDE DEF w
<1> QED
  BY <1>1, <1>4, <1>9, <1>10, <1>11, <1>12, TableStays, RunKeepsDebt

(* A request, answered or not: one call less of the allowance.             *)
LEMMA CallKeepsDebt ==
    ASSUME DebtConstants, Debt!IInv, NEW r \in Runs, NEW n \in {"failed", "answered"},
           slow[r].node # "job", slow[r].remaining > 0,
           slow' = [slow EXCEPT ![r].remaining = @ - 1, ![r].node = n],
           paid' = [paid EXCEPT ![r] = @ + 1],
           UNCHANGED <<plan, insight, judge_score, rejected_text, escalated, stored>>
    PROVE  Debt!IInv'
<1>1. /\ slow \in [Runs -> Debt!SlowRun] /\ paid \in [Runs -> Nat] /\ escalated \subseteq Runs
      /\ Debt!ReadsOK(r) /\ Debt!SpendOK(r) /\ plan \in Plans
  BY DEF Debt!IInv, Debt!TypeOK
<1> DEFINE w == [slow[r] EXCEPT !.remaining = @ - 1, !.node = n]
<1>2. slow[r] \in Debt!SlowRun /\ plan.cap \in Nat
  BY <1>1 DEF DebtConstants
<1>3. /\ w \in Debt!SlowRun /\ w.job = slow[r].job /\ w.read = slow[r].read
      /\ w.todo = slow[r].todo /\ w.node = n /\ w.remaining = slow[r].remaining - 1
      /\ slow[r].remaining \in 0 .. plan.cap /\ slow[r].job \in 0 .. 4
  <2>1. slow[r].remaining \in 0 .. plan.cap /\ slow[r].job \in 0 .. 4
    BY <1>2 DEF Debt!SlowRun
  <2>2. slow[r].remaining - 1 \in 0 .. plan.cap
    BY <1>2, <2>1
  <2> QED
    BY <1>2, <2>1, <2>2 DEF Debt!SlowRun
<1>4. slow' = [slow EXCEPT ![r] = w] /\ slow'[r] = w
  BY <1>1
<1>5. paid' \in [Runs -> Nat] /\ paid'[r] = paid[r] + 1 /\ \A q \in Runs \ {r} : paid'[q] = paid[q]
  BY <1>1
<1> HIDE DEF w
<1>6. Debt!Left' = Debt!Left
  BY DEF Debt!Left
<1>7. Debt!SpendOK(r)'
  <2>1. paid[r] \in Nat /\ slow[r].remaining \in Nat
    BY <1>1, <1>2, <1>3
  <2>5. Debt!Cardinality(escalated \cap {r}) \in Nat
    BY <1>1, FS_Singleton, FS_Intersection, FS_CardinalityType, SameCardinality
  <2>2. Debt!Left[slow[r].job] \in 0 .. plan.cap
    BY <1>1, <1>3, LeftIsTheRest
  <2>3. paid[r] + slow[r].remaining
           <= plan.cap - Debt!Left[slow[r].job] + Debt!Cardinality(escalated \cap {r})
    BY <1>1 DEF Debt!SpendOK
  <2>4. (paid[r] + 1) + (slow[r].remaining - 1)
           <= plan.cap - Debt!Left[slow[r].job] + Debt!Cardinality(escalated \cap {r})
    BY <1>2, <2>1, <2>2, <2>3, <2>5
  <2> QED
    BY <1>3, <1>4, <1>5, <1>6, <2>4 DEF Debt!SpendOK
<1>8. Debt!ReadsOK(r)'
  <2>1. Debt!Undiagnosed' = Debt!Undiagnosed /\ Debt!Diagnoses' = Debt!Diagnoses
    BY DEF Debt!Undiagnosed, Debt!Diagnoses, Debt!Misses
  <2> QED
    BY <1>1, <1>3, <1>4, <2>1 DEF Debt!ReadsOK
<1> QED
  BY <1>1, <1>3, <1>4, <1>5, <1>7, <1>8, TableStays, RunKeepsDebt

(* The escalation of the recap is paid beside the allowance, once.         *)
LEMMA EscalateKeepsDebt ==
    ASSUME DebtConstants, Debt!IInv, NEW r \in Runs, Debt!Escalate(r)
    PROVE  Debt!IInv'
<1>1. /\ slow \in [Runs -> Debt!SlowRun] /\ paid \in [Runs -> Nat] /\ escalated \subseteq Runs
      /\ Debt!ReadsOK(r) /\ Debt!SpendOK(r) /\ plan \in Plans
  BY DEF Debt!IInv, Debt!TypeOK
<1>2. /\ plan' = plan /\ insight' = insight /\ judge_score' = judge_score /\ slow' = slow
      /\ rejected_text' = rejected_text /\ stored' = stored
      /\ paid' = [paid EXCEPT ![r] = @ + 1]
      /\ r \notin escalated /\ escalated' = escalated \cup {r}
  BY DEF Debt!Escalate, Debt!debtTable, Debt!Spend
<1>3. /\ slow[r] \in Debt!SlowRun /\ slow' = [slow EXCEPT ![r] = slow[r]] /\ plan.cap \in Nat
      /\ slow[r].remaining \in 0 .. plan.cap /\ slow[r].job \in 0 .. 4
  BY <1>1, <1>2 DEF Debt!SlowRun, DebtConstants
<1>4. /\ paid' \in [Runs -> Nat] /\ paid'[r] = paid[r] + 1
      /\ \A q \in Runs \ {r} : paid'[q] = paid[q] /\ escalated' \cap {q} = escalated \cap {q}
  BY <1>1, <1>2
<1>5. escalated \cap {r} = {} /\ escalated' \cap {r} = {r}
  BY <1>2
<1>6. Debt!SpendOK(r)'
  <2>1. Debt!Left' = Debt!Left
    BY <1>2 DEF Debt!Left
  <2>2. paid[r] + slow[r].remaining <= plan.cap - Debt!Left[slow[r].job] + Debt!Cardinality({})
    BY <1>1, <1>5 DEF Debt!SpendOK
  <2>3. Debt!Cardinality({}) = 0 /\ Debt!Cardinality({r}) = 1
    BY FS_EmptySet, FS_Singleton, SameCardinality
  <2>4. Debt!Left[slow[r].job] \in 0 .. plan.cap /\ paid[r] \in Nat
    BY <1>1, <1>3, LeftIsTheRest
  <2>5. (paid[r] + 1) + slow[r].remaining
           <= plan.cap - Debt!Left[slow[r].job] + Debt!Cardinality({r})
    BY <1>3, <2>2, <2>3, <2>4
  <2> QED
    BY <1>2, <1>4, <1>5, <2>1, <2>5 DEF Debt!SpendOK
<1>7. Debt!ReadsOK(r)'
  BY <1>1, <1>2 DEF Debt!ReadsOK, Debt!Undiagnosed, Debt!Diagnoses, Debt!Misses
<1> QED
  BY <1>1, <1>2, <1>3, <1>4, <1>6, <1>7, TableStays, RunKeepsDebt

(* After a save, or without one, the run goes on with its other rows.      *)
LEMMA AfterSaveKeepsDebt ==
    ASSUME DebtConstants, Debt!IInv, NEW r \in Runs, slow[r].node = "answered",
           Debt!AfterSave(r), UNCHANGED <<plan, paid, escalated>>, TableOK'
    PROVE  Debt!IInv'
<1>1. slow \in [Runs -> Debt!SlowRun] /\ slow[r].todo # {}
  BY DEF Debt!IInv, Debt!ReadsOK
<1> DEFINE T == slow[r].todo \ {Debt!Row(r)}
           n == IF slow[r].todo = {Debt!Row(r)} THEN "job"
                ELSE IF slow[r].job = 2 THEN "answered" ELSE "call"
<1>2. slow' = [slow EXCEPT ![r].todo = T, ![r].node = n]
  BY <1>1 DEF Debt!AfterSave
<1>3. n # "job" => T # {}
  BY <1>1
<1>4. n \in {"job", "call", "failed", "answered"} /\ T \in SUBSET slow[r].todo
  OBVIOUS
<1> HIDE DEF T, n
<1> QED
  BY <1>2, <1>3, <1>4, StepKeepsDebt

(* The row in hand and what the run has read of it.                        *)
LEMMA RowRead ==
    ASSUME DebtConstants, Debt!IInv, NEW r \in Runs, slow[r].node = "answered"
    PROVE  /\ Debt!Row(r) \in Debt!Misses
           /\ slow[r].job \in {2, 3} =>
                 /\ slow[r].read[Debt!Row(r)] \in Debt!Undiagnosed
                 /\ Debt!Text(r) \in Debt!Diagnoses /\ Debt!Text(r)[3] = Debt!Row(r)
           /\ slow[r].job = 4 => slow[r].read[Debt!Row(r)] \in Debt!Diagnoses
<1>1. slow[r] \in Debt!SlowRun /\ Debt!ReadsOK(r)
  BY DEF Debt!IInv
<1>2. slow[r].todo \in SUBSET Debt!Misses /\ slow[r].todo # {}
  BY <1>1 DEF Debt!SlowRun, Debt!ReadsOK
<1>3. Debt!Row(r) \in slow[r].todo
  BY <1>2, RowInHand DEF Debt!Row
<1> QED
  BY <1>1, <1>2, <1>3 DEF Debt!ReadsOK, Debt!Text, Debt!Diagnoses

LEMMA TextsDiffer ==
    /\ \A t \in Debt!Diagnoses : t \notin Debt!Undiagnosed /\ t # Debt!Rejected
                                 /\ t[3] \in Debt!Misses
    /\ Debt!Rejected \notin Debt!Undiagnosed
<1>1. \A t \in Debt!Diagnoses : Len(t) = 3 /\ t[3] \in Debt!Misses
  BY DEF Debt!Diagnoses
<1>2. \A t \in Debt!Undiagnosed \cup {Debt!Rejected} : Len(t) = 1
  BY DEF Debt!Undiagnosed, Debt!Rejected
<1>3. Debt!Rejected[1] = "rejected" /\ \A t \in Debt!Undiagnosed : t[1] # "rejected"
  BY DEF Debt!Undiagnosed, Debt!Rejected
<1> QED
  BY <1>1, <1>2, <1>3

(* A diagnosis replaces a placeholder only.                                *)
LEMMA DiagnoseKeepsDebt ==
    ASSUME DebtConstants, Debt!IInv, NEW r \in Runs, Debt!Diagnose(r)
    PROVE  Debt!IInv'
<1> DEFINE m == Debt!Row(r)
<1>1. /\ slow[r].node = "answered" /\ slow[r].job \in {2, 3} /\ Debt!AfterSave(r)
      /\ plan' = plan /\ judge_score' = judge_score /\ rejected_text' = rejected_text
      /\ paid' = paid /\ escalated' = escalated
  BY DEF Debt!Diagnose
<1>2. /\ m \in Debt!Misses /\ slow[r].read[m] \in Debt!Undiagnosed
      /\ Debt!Text(r) \in Debt!Diagnoses /\ Debt!Text(r)[3] = m
  BY <1>1, RowRead
<1>3. TableOK
  BY DebtTableOK
<1>4. Debt!Misses' = Debt!Misses /\ Debt!Texts' = Debt!Texts /\ Debt!Rejected' = Debt!Rejected
      /\ Debt!Diagnoses' = Debt!Diagnoses
  BY DEF Debt!Misses, Debt!Texts, Debt!Undiagnosed, Debt!Diagnoses, Debt!Rejected
<1> HIDE DEF m
<1>5. TableOK'
  <2>1. CASE insight[m] = slow[r].read[m]
    <3>1. insight' = [insight EXCEPT ![m] = Debt!Text(r)] /\ stored' = stored \cup {Debt!Text(r)}
      BY <2>1 DEF Debt!Diagnose, m
    <3>2. insight' \in [Debt!Misses -> Debt!Texts] /\ stored' \subseteq Debt!Diagnoses
      BY <1>2, <1>3, <3>1 DEF TableOK, Debt!Texts
    <3>3. ASSUME NEW t \in stored PROVE insight[t[3]] = t \/ insight[t[3]] = Debt!Rejected
      BY <1>3 DEF TableOK
    <3>4. \A t \in stored : t[3] # m
      BY <1>2, <1>3, <2>1, <3>3, TextsDiffer DEF TableOK
    <3>5. insight'[m] = Debt!Text(r) /\ \A k \in Debt!Misses \ {m} : insight'[k] = insight[k]
      BY <1>2, <1>3, <3>1 DEF TableOK
    <3>6. \A t \in stored' : \/ insight'[t[3]] = t
                             \/ insight'[t[3]] = Debt!Rejected /\ rejected_text[t[3]] = t
      <4> SUFFICES ASSUME NEW t \in stored'
                   PROVE  \/ insight'[t[3]] = t
                          \/ insight'[t[3]] = Debt!Rejected /\ rejected_text[t[3]] = t
        OBVIOUS
      <4>1. CASE t = Debt!Text(r)
        BY <1>2, <3>5, <4>1
      <4>2. CASE t \in stored
        <5>1. t[3] \in Debt!Misses \ {m}
          BY <1>3, <3>4, <4>2, TextsDiffer DEF TableOK
        <5> QED
          BY <1>3, <3>5, <4>2, <5>1 DEF TableOK
      <4> QED
        BY <3>1, <4>1, <4>2
    <3> QED
      BY <1>1, <1>3, <1>4, <3>2, <3>6 DEF TableOK
  <2>2. CASE insight[m] # slow[r].read[m]
    <3>1. insight' = insight /\ stored' = stored
      BY <2>2 DEF Debt!Diagnose, m
    <3> QED
      BY <1>1, <3>1, TableStays
  <2> QED
    BY <2>1, <2>2
<1> QED
  BY <1>1, <1>5, AfterSaveKeepsDebt

LEMMA ScoreKeepsDebt ==
    ASSUME DebtConstants, Debt!IInv, NEW r \in Runs, Debt!Score(r)
    PROVE  Debt!IInv'
<1>1. /\ slow[r].node = "answered" /\ Debt!AfterSave(r)
      /\ plan' = plan /\ insight' = insight /\ rejected_text' = rejected_text
      /\ paid' = paid /\ escalated' = escalated /\ stored' = stored
      /\ \E passes \in BOOLEAN : judge_score' = [judge_score EXCEPT ![Debt!Row(r)] = passes]
  BY DEF Debt!Score
<1>2. TableOK
  BY DebtTableOK
<1>3. Debt!Misses' = Debt!Misses /\ Debt!Texts' = Debt!Texts /\ Debt!Rejected' = Debt!Rejected
      /\ Debt!Diagnoses' = Debt!Diagnoses
  BY DEF Debt!Misses, Debt!Texts, Debt!Undiagnosed, Debt!Diagnoses, Debt!Rejected
<1>4. judge_score' \in [Debt!Misses -> BOOLEAN \cup {None}]
  BY <1>1, <1>2 DEF TableOK
<1>5. TableOK'
  BY <1>1, <1>2, <1>3, <1>4 DEF TableOK
<1> QED
  BY <1>1, <1>5, AfterSaveKeepsDebt

(* A rejected diagnosis moves beside: what the judge read is still there.  *)
LEMMA RejectKeepsDebt ==
    ASSUME DebtConstants, Debt!IInv, NEW r \in Runs, Debt!Reject(r)
    PROVE  Debt!IInv'
<1> DEFINE m == Debt!Row(r)
<1>1. /\ slow[r].node = "answered" /\ slow[r].job = 4 /\ Debt!AfterSave(r)
      /\ plan' = plan /\ paid' = paid /\ escalated' = escalated /\ stored' = stored
  BY DEF Debt!Reject
<1>2. m \in Debt!Misses /\ slow[r].read[m] \in Debt!Diagnoses
  BY <1>1, RowRead
<1>3. TableOK
  BY DebtTableOK
<1>4. Debt!Misses' = Debt!Misses /\ Debt!Texts' = Debt!Texts /\ Debt!Rejected' = Debt!Rejected
      /\ Debt!Diagnoses' = Debt!Diagnoses
  BY DEF Debt!Misses, Debt!Texts, Debt!Undiagnosed, Debt!Diagnoses, Debt!Rejected
<1> HIDE DEF m
<1>5. TableOK'
  <2>1. CASE insight[m] = slow[r].read[m]
    <3>1. /\ insight' = [insight EXCEPT ![m] = Debt!Rejected]
          /\ judge_score' = [judge_score EXCEPT ![m] = FALSE]
          /\ rejected_text' = [rejected_text EXCEPT ![m] = insight[m]]
      BY <2>1 DEF Debt!Reject, m
    <3>2. /\ insight' \in [Debt!Misses -> Debt!Texts]
          /\ judge_score' \in [Debt!Misses -> BOOLEAN \cup {None}]
          /\ rejected_text' \in [Debt!Misses -> Debt!Diagnoses \cup {None}]
      BY <1>2, <1>3, <2>1, <3>1 DEF TableOK, Debt!Texts
    <3>3. /\ insight'[m] = Debt!Rejected /\ rejected_text'[m] = insight[m]
          /\ \A k \in Debt!Misses \ {m} : insight'[k] = insight[k]
                                          /\ rejected_text'[k] = rejected_text[k]
      BY <1>2, <1>3, <3>1 DEF TableOK
    <3>4. \A t \in stored : \/ insight'[t[3]] = t
                            \/ insight'[t[3]] = Debt!Rejected /\ rejected_text'[t[3]] = t
      <4> SUFFICES ASSUME NEW t \in stored
                   PROVE  \/ insight'[t[3]] = t
                          \/ insight'[t[3]] = Debt!Rejected /\ rejected_text'[t[3]] = t
        OBVIOUS
      <4>1. /\ t[3] \in Debt!Misses
            /\ \/ insight[t[3]] = t
               \/ insight[t[3]] = Debt!Rejected /\ rejected_text[t[3]] = t
        BY <1>3, TextsDiffer DEF TableOK
      <4>2. CASE t[3] = m
        <5>1. insight[m] # Debt!Rejected
          BY <1>2, <2>1, TextsDiffer
        <5> QED
          BY <3>3, <4>1, <4>2, <5>1
      <4>3. CASE t[3] # m
        BY <3>3, <4>1, <4>3
      <4> QED
        BY <4>2, <4>3
    <3> QED
      BY <1>1, <1>3, <1>4, <3>2, <3>4 DEF TableOK
  <2>2. CASE insight[m] # slow[r].read[m]
    <3>1. insight' = insight /\ judge_score' = judge_score /\ rejected_text' = rejected_text
      BY <2>2 DEF Debt!Reject, Debt!debtTable, m
    <3> QED
      BY <1>1, <3>1, TableStays
  <2> QED
    BY <2>1, <2>2
<1> QED
  BY <1>1, <1>5, AfterSaveKeepsDebt

(* No answer, or no allowance left.                                        *)
LEMMA NoDiagnosisKeepsDebt ==
    ASSUME DebtConstants, Debt!IInv, NEW r \in Runs, Debt!NoDiagnosis(r)
    PROVE  Debt!IInv'
<1> DEFINE T == slow[r].todo \ (IF slow[r].job \in {1, 2} THEN slow[r].todo ELSE {Debt!Row(r)})
           n == IF T = {} THEN "job" ELSE "call"
<1>1. slow \in [Runs -> Debt!SlowRun]
  BY DEF Debt!IInv
<1>2. slow' = [slow EXCEPT ![r].todo = T, ![r].node = n]
  BY <1>1 DEF Debt!NoDiagnosis, Debt!NextRow
<1>3. /\ plan' = plan /\ paid' = paid /\ escalated' = escalated
      /\ UNCHANGED <<insight, judge_score, rejected_text, stored>>
  BY DEF Debt!NoDiagnosis, Debt!debtTable
<1>4. /\ n \in {"job", "call", "failed", "answered"} /\ T \in SUBSET slow[r].todo
      /\ n # "job" => T # {}
  OBVIOUS
<1> HIDE DEF T, n
<1> QED
  BY <1>2, <1>3, <1>4, TableStays, StepKeepsDebt

LEMMA ExhaustedKeepsDebt ==
    ASSUME DebtConstants, Debt!IInv, NEW r \in Runs, Debt!Exhausted(r)
    PROVE  Debt!IInv'
<1>1. slow \in [Runs -> Debt!SlowRun]
  BY DEF Debt!IInv
<1>2. slow' = [slow EXCEPT ![r].todo = slow[r].todo, ![r].node = "job"]
  <2>1. slow[r] \in Debt!SlowRun
    BY <1>1
  <2>2. [slow[r] EXCEPT !.node = "job"] = [slow[r] EXCEPT !.todo = slow[r].todo, !.node = "job"]
    BY <2>1 DEF Debt!SlowRun
  <2> QED
    BY <1>1, <2>2 DEF Debt!Exhausted, Debt!ToJob
<1>3. /\ plan' = plan /\ paid' = paid /\ escalated' = escalated
      /\ UNCHANGED <<insight, judge_score, rejected_text, stored>>
  BY DEF Debt!Exhausted, Debt!debtTable
<1> QED
  BY <1>2, <1>3, TableStays, StepKeepsDebt

LEMMA NextKeepsDebt == DebtConstants /\ Debt!IInv /\ [Debt!Next]_Debt!debtVars => Debt!IInv'
<1> SUFFICES ASSUME DebtConstants, Debt!IInv, [Debt!Next]_Debt!debtVars PROVE Debt!IInv'
  OBVIOUS
<1>1. CASE UNCHANGED Debt!debtVars
  <2>1. UNCHANGED <<plan, insight, judge_score, rejected_text, slow, paid, escalated, stored>>
    BY <1>1 DEF Debt!debtVars, Debt!debtTable
  <2>2. Debt!TypeOK' /\ Debt!PaidWithinCapAndKept'
    BY <2>1 DEF Debt!IInv, Debt!TypeOK, Debt!PaidWithinCapAndKept, Debt!Misses, Debt!Rejected,
                Debt!Undiagnosed, Debt!Diagnoses
  <2>3. Debt!SlowRun' = Debt!SlowRun /\ Debt!Left' = Debt!Left
    BY <2>1 DEF Debt!SlowRun, Debt!Texts, Debt!Left
  <2>4. \A r \in Runs : Debt!ReadsOK(r)' /\ Debt!SpendOK(r)'
    BY <2>1, <2>3 DEF Debt!IInv, Debt!ReadsOK, Debt!SpendOK, Debt!Undiagnosed, Debt!Diagnoses,
                      Debt!Misses
  <2> QED
    BY <2>1, <2>2, <2>3, <2>4 DEF Debt!IInv
<1>2. ASSUME NEW r \in Runs, Debt!StartJob(r) PROVE Debt!IInv'
  BY <1>2, StartJobKeepsDebt
<1>3. ASSUME NEW r \in Runs, Debt!Exhausted(r) PROVE Debt!IInv'
  BY <1>3, ExhaustedKeepsDebt
<1>4. ASSUME NEW r \in Runs, Debt!Request(r) PROVE Debt!IInv'
  <2>1. /\ slow[r].node # "job" /\ slow[r].remaining > 0 /\ paid' = [paid EXCEPT ![r] = @ + 1]
        /\ slow' = [slow EXCEPT ![r].remaining = @ - 1, ![r].node = "answered"]
        /\ UNCHANGED <<plan, insight, judge_score, rejected_text, escalated, stored>>
    BY <1>4 DEF Debt!Request, Debt!Spend, Debt!debtTable
  <2> QED
    BY <2>1, CallKeepsDebt
<1>5. ASSUME NEW r \in Runs, Debt!RequestFails(r) PROVE Debt!IInv'
  <2>1. /\ slow[r].node # "job" /\ slow[r].remaining > 0 /\ paid' = [paid EXCEPT ![r] = @ + 1]
        /\ slow' = [slow EXCEPT ![r].remaining = @ - 1, ![r].node = "failed"]
        /\ UNCHANGED <<plan, insight, judge_score, rejected_text, escalated, stored>>
    BY <1>5 DEF Debt!RequestFails, Debt!Spend, Debt!debtTable
  <2> QED
    BY <2>1, CallKeepsDebt
<1>6. ASSUME NEW r \in Runs, Debt!FailOver(r) PROVE Debt!IInv'
  <2>1. /\ slow[r].node # "job" /\ slow[r].remaining > 0 /\ paid' = [paid EXCEPT ![r] = @ + 1]
        /\ slow' = [slow EXCEPT ![r].remaining = @ - 1, ![r].node = "answered"]
        /\ UNCHANGED <<plan, insight, judge_score, rejected_text, escalated, stored>>
    BY <1>6 DEF Debt!FailOver, Debt!Spend, Debt!debtTable
  <2> QED
    BY <2>1, CallKeepsDebt
<1>7. ASSUME NEW r \in Runs, Debt!Escalate(r) PROVE Debt!IInv'
  BY <1>7, EscalateKeepsDebt
<1>8. ASSUME NEW r \in Runs, Debt!NoDiagnosis(r) PROVE Debt!IInv'
  BY <1>8, NoDiagnosisKeepsDebt
<1>9. ASSUME NEW r \in Runs, Debt!Diagnose(r) PROVE Debt!IInv'
  BY <1>9, DiagnoseKeepsDebt
<1>10. ASSUME NEW r \in Runs, Debt!Score(r) PROVE Debt!IInv'
  BY <1>10, ScoreKeepsDebt
<1>11. ASSUME NEW r \in Runs, Debt!Reject(r) PROVE Debt!IInv'
  BY <1>11, RejectKeepsDebt
<1>12. ASSUME NEW r \in Runs, Debt!SaveFails(r) PROVE Debt!IInv'
  <2>1. /\ slow[r].node = "answered" /\ Debt!AfterSave(r) /\ plan' = plan /\ paid' = paid
        /\ escalated' = escalated /\ UNCHANGED <<insight, judge_score, rejected_text, stored>>
    BY <1>12 DEF Debt!SaveFails, Debt!debtTable
  <2> QED
    BY <2>1, TableStays, AfterSaveKeepsDebt
<1>13. ASSUME NEW r \in Runs, Debt!RunEnds(r) PROVE Debt!IInv'
  BY <1>1, <1>13 DEF Debt!RunEnds
<1> QED
  BY <1>1, <1>2, <1>3, <1>4, <1>5, <1>6, <1>7, <1>8, <1>9, <1>10, <1>11, <1>12, <1>13
     DEF Debt!Next

(* For every number of misses, runs and plans: a diagnosis that was paid   *)
(* for and saved stays with its miss or in rejected_diagnosis, whatever    *)
(* another run read before, and a run sends no more requests than the cap  *)
(* of the week and the escalation of its recap (save_backfilled_diagnosis, *)
(* save_diagnosis_judgement, slow_loop_paid_budget).                       *)
THEOREM DebtHolds ==
    ASSUME DebtConstants
    PROVE  Debt!Spec => [](Debt!TypeOK /\ Debt!PaidWithinCapAndKept)
<1>1. Debt!Init => Debt!IInv
  BY InitKeepsDebt
<1>2. Debt!IInv /\ [Debt!Next]_Debt!debtVars => Debt!IInv'
  BY NextKeepsDebt
<1>3. Debt!IInv => Debt!TypeOK /\ Debt!PaidWithinCapAndKept
  BY DEF Debt!IInv
<1> QED
  BY <1>1, <1>2, <1>3, PTL DEF Debt!Spec

-----------------------------------------------------------------------------
(* SpendWindows: the caps in USD.  A window is a set of days with the day  *)
(* its rows are read from.                                                 *)

(* What the proofs assume of the constants.                                *)
SpendConstants ==
    /\ MaxCost \in Nat /\ LastBooked \in Nat /\ MaxRuns \in Nat
    /\ MonthStarts \subseteq Nat \ {0} /\ 1 \in MonthStarts /\ 1 <= LastBooked
    /\ \A pair \in CapPairs : \A window \in {"day", "month"} :
          pair[window] # None => pair[window] \in Nat
    /\ None \notin Spend!Spender

LEMMA TotalIsNatural ==
    ASSUME SpendConstants, NEW f \in [Spend!Dates -> Nat], NEW days \in SUBSET Spend!Dates
    PROVE  IsFiniteSet(Spend!Units(f, days)) /\ Spend!Total(f, days) \in Nat
<1> DEFINE units == [d \in days |-> {d} \X (1 .. f[d])]
           T == {units[d] : d \in days}
<1>1. IsFiniteSet(days)
  <2>1. IsFiniteSet(Spend!Dates)
    BY FS_Interval DEF SpendConstants, Spend!Dates
  <2> QED
    BY <2>1, FS_Subset
<1>2. units \in Surjection(days, T)
  <2>1. units \in [days -> T] /\ \A t \in T : \E d \in days : units[d] = t
    OBVIOUS
  <2> HIDE DEF units, T
  <2> QED
    BY <2>1 DEF Surjection
<1>3. IsFiniteSet(T)
  BY <1>1, <1>2, FS_Surjection
<1>4. \A t \in T : IsFiniteSet(t)
  <2> SUFFICES ASSUME NEW d \in days PROVE IsFiniteSet({d} \X (1 .. f[d]))
    OBVIOUS
  <2>1. f[d] \in Int /\ 1 \in Int
    OBVIOUS
  <2>2. IsFiniteSet(1 .. f[d]) /\ IsFiniteSet({d})
    BY <2>1, FS_Interval, FS_Singleton
  <2> QED
    BY <2>2, FS_Product
<1>5. Spend!Units(f, days) = UNION T
  BY DEF Spend!Units
<1> HIDE DEF T
<1>6. IsFiniteSet(Spend!Units(f, days)) /\ Cardinality(Spend!Units(f, days)) \in Nat
  BY <1>3, <1>4, <1>5, FS_UNION, FS_CardinalityType
<1> QED
  BY <1>6 DEF Spend!Total, Spend!Cardinality, Cardinality

LEMMA NothingTotal ==
    ASSUME NEW days \in SUBSET Spend!Dates
    PROVE  Spend!Total(Spend!Nothing, days) = 0
<1>1. \A d \in days : 1 .. Spend!Nothing[d] = {}
  BY DEF Spend!Nothing
<1>2. Spend!Units(Spend!Nothing, days) = {}
  BY <1>1 DEF Spend!Units
<1> QED
  BY <1>2, FS_EmptySet DEF Spend!Total, Spend!Cardinality, Cardinality

(* What is added on one day is added to the windows of that day.           *)
LEMMA AddToTotal ==
    ASSUME SpendConstants, NEW f \in [Spend!Dates -> Nat], NEW g \in [Spend!Dates -> Nat],
           NEW days \in SUBSET Spend!Dates, NEW e \in Spend!Dates, NEW k \in Nat,
           g[e] = f[e] + k, \A d \in Spend!Dates : d # e => g[d] = f[d]
    PROVE  /\ e \in days => Spend!Total(g, days) = Spend!Total(f, days) + k
           /\ e \notin days => Spend!Total(g, days) = Spend!Total(f, days)
<1>1. \A d \in days : d # e => g[d] = f[d]
  OBVIOUS
<1>2. g[e] = f[e] + k /\ f[e] \in Nat
  OBVIOUS
<1>3. CASE e \notin days
  <2>1. Spend!Units(g, days) = Spend!Units(f, days)
    BY <1>1, <1>3 DEF Spend!Units
  <2> QED
    BY <1>3, <2>1, TotalIsNatural DEF Spend!Total
<1>4. CASE e \in days
  <2> DEFINE New == {e} \X (f[e] + 1 .. f[e] + k)
  <2>1. {e} \X (1 .. g[e]) = ({e} \X (1 .. f[e])) \cup New
    BY <1>2
  <2>2. Spend!Units(g, days) = Spend!Units(f, days) \cup New
    BY <1>1, <1>4, <2>1 DEF Spend!Units
  <2>3. Spend!Units(f, days) \cap New = {}
    <3> SUFFICES ASSUME NEW u \in Spend!Units(f, days), u \in New PROVE FALSE
      OBVIOUS
    <3>1. PICK d \in days : u \in {d} \X (1 .. f[d])
      BY DEF Spend!Units
    <3>2. u[1] = e /\ u[2] \in f[e] + 1 .. f[e] + k
      OBVIOUS
    <3>3. u[1] = d /\ u[2] \in 1 .. f[d]
      BY <3>1
    <3> HIDE DEF New
    <3> QED
      BY <1>2, <3>2, <3>3
  <2>4. IsFiniteSet({e}) /\ Cardinality({e}) = 1
    BY FS_Singleton
  <2>5. IsFiniteSet(f[e] + 1 .. f[e] + k) /\ Cardinality(f[e] + 1 .. f[e] + k) = k
    <3>1. f[e] + 1 \in Int /\ f[e] + k \in Int
      BY <1>2
    <3>2. f[e] + 1 > f[e] + k => k = 0
      BY <1>2
    <3>3. f[e] + k - (f[e] + 1) + 1 = k
      BY <1>2
    <3> QED
      BY <3>1, <3>2, <3>3, FS_Interval
  <2>6. IsFiniteSet(New) /\ Cardinality(New) = k
    <3> DEFINE T == f[e] + 1 .. f[e] + k
    <3>2. IsFiniteSet(T) /\ Cardinality(T) = k /\ New = {e} \X T
      BY <2>5
    <3> HIDE DEF T, New
    <3>3. IsFiniteSet({e} \X T) /\ Cardinality({e} \X T) = Cardinality({e}) * Cardinality(T)
      BY <2>4, <3>2, FS_Product
    <3>1. IsFiniteSet(New) /\ Cardinality(New) = 1 * k
      BY <2>4, <3>2, <3>3
    <3> QED
      BY <3>1
  <2> HIDE DEF New
  <2>7. IsFiniteSet(Spend!Units(f, days)) /\ Spend!Total(f, days) \in Nat
    BY TotalIsNatural
  <2>8. Cardinality(Spend!Units(g, days)) = Cardinality(Spend!Units(f, days)) + k - Cardinality({})
    BY <2>2, <2>3, <2>6, <2>7, FS_Union
  <2>9. /\ Spend!Total(g, days) = Cardinality(Spend!Units(g, days))
        /\ Spend!Total(f, days) = Cardinality(Spend!Units(f, days))
    BY DEF Spend!Total, Spend!Cardinality, Cardinality
  <2> QED
    BY <1>4, <2>7, <2>8, <2>9, FS_EmptySet
<1> QED
  BY <1>3, <1>4

-----------------------------------------------------------------------------
(* The first day of the month of a day.                                    *)
LEMMA MonthBegins ==
    ASSUME SpendConstants, NEW d \in Spend!Dates
    PROVE  /\ Spend!budget_window_start("month", d) \in MonthStarts
           /\ Spend!budget_window_start("month", d) <= d
<1> DEFINE S == {m \in MonthStarts : m <= d}
<1>1. d \in Nat /\ S \in SUBSET (0 .. d) /\ S # {}
  <2>1. d \in Nat /\ 1 <= d
    BY DEF SpendConstants, Spend!Dates
  <2>2. 1 \in S
    BY <2>1 DEF SpendConstants
  <2>3. \A m \in S : m \in 0 .. d
    BY <2>1 DEF SpendConstants
  <2> QED
    BY <2>1, <2>2, <2>3
<1>2. \E m \in S : \A y \in S : y <= m
  <2> HIDE DEF S
  <2> QED
    BY <1>1, GreatestNumber
<1>3. Spend!Max(S) \in S
  <2> HIDE DEF S
  <2>1. \A y \in S : y \in Int
    BY <1>1
  <2> QED
    BY <1>2, <2>1 DEF Spend!Max
<1> QED
  BY <1>3 DEF Spend!budget_window_start

Most == MaxRuns * MaxCost

LEMMA TimesCost ==
    ASSUME SpendConstants, NEW n \in Nat
    PROVE  /\ n * MaxCost \in Nat /\ (n + 1) * MaxCost = n * MaxCost + MaxCost
           /\ n <= MaxRuns => n * MaxCost <= Most
<1>1. MaxCost \in Nat /\ MaxRuns \in Nat
  BY DEF SpendConstants
<1>2. n * MaxCost \in Nat /\ (n + 1) * MaxCost = n * MaxCost + MaxCost
  BY <1>1
<1>3. ASSUME n <= MaxRuns PROVE n * MaxCost <= MaxRuns * MaxCost
  <2>1. PICK k \in Nat : MaxRuns = n + k
    <3>1. MaxRuns - n \in Nat /\ MaxRuns = n + (MaxRuns - n)
      BY <1>1, <1>3
    <3> QED
      BY <3>1
  <2>2. MaxRuns * MaxCost = n * MaxCost + k * MaxCost /\ k * MaxCost \in Nat
    BY <1>1, <2>1
  <2> QED
    BY <1>2, <2>2
<1> QED
  BY <1>1, <1>2, <1>3 DEF Most

(* The windows of the caps: their days are not before the day their rows   *)
(* are read from.                                                          *)
IsWindow(days, since, window) ==
    /\ days \in SUBSET Spend!Dates /\ since \in Nat \ {0} /\ window \in {"day", "month"}
    /\ \A d \in days : since = Spend!budget_window_start(window, d) /\ since <= d

(* What a run has in hand, and what the runs that ended have paid at most. *)
Paid == IF spender = None THEN 0 ELSE spender.paid

LEMMA BookkeepingTypes ==
    ASSUME SpendConstants, Spend!BookkeepingOK
    PROVE  Spend!TypeOK
<1>1. MaxCost \in Nat /\ MaxRuns \in Nat /\ n_runs \in Nat /\ n_runs <= MaxRuns /\ Most \in Nat
  BY DEF SpendConstants, Spend!BookkeepingOK, Most
<1>2. Paid \in 0 .. MaxCost /\ Spend!Ended \in Nat /\ Spend!Ended <= MaxRuns
      /\ Spend!Ended * MaxCost + Paid <= Most
  <2>1. CASE spender = None
    BY <1>1, <2>1, TimesCost DEF Paid, Spend!Ended
  <2>2. CASE spender # None
    <3>1. spender.paid \in 0 .. MaxCost /\ n_runs > 0
      BY <2>2 DEF Spend!BookkeepingOK, Spend!SpenderOK, Spend!Spender
    <3>2. n_runs - 1 \in Nat /\ (n_runs - 1) + 1 = n_runs
      BY <1>1, <3>1
    <3>3. n_runs * MaxCost = (n_runs - 1) * MaxCost + MaxCost /\ n_runs * MaxCost <= Most
          /\ (n_runs - 1) * MaxCost \in Nat
      BY <1>1, <3>2, TimesCost
    <3> QED
      BY <1>1, <2>2, <3>1, <3>2, <3>3 DEF Paid, Spend!Ended
  <2> QED
    BY <2>1, <2>2
<1>3. ASSUME NEW d \in Spend!Dates
      PROVE  booked[d] \in 0 .. Most /\ fast_paid[d] \in 0 .. Most /\ untold[d] \in 0 .. Most
  <2>1. booked[d] \in Nat /\ fast_paid[d] \in Nat /\ untold[d] \in Nat
    BY DEF Spend!BookkeepingOK
  <2>2. /\ booked[d] <= Spend!Ended * MaxCost
        /\ fast_paid[d] <= Spend!Ended * MaxCost + Paid
        /\ untold[d] + Spend!InHand({d}) <= fast_paid[d]
    BY DEF Spend!BookkeepingOK, Spend!CountsOK, Paid
  <2>3. Spend!InHand({d}) \in Nat
    BY <1>1, <1>2 DEF Spend!InHand, Spend!Admitted, Paid
  <2>4. Spend!Ended * MaxCost \in Nat
    BY <1>2, TimesCost
  <2> QED
    BY <1>1, <1>2, <2>1, <2>2, <2>3, <2>4
<1>4. /\ booked \in [Spend!Dates -> 0 .. Most] /\ fast_paid \in [Spend!Dates -> 0 .. Most]
      /\ untold \in [Spend!Dates -> 0 .. Most]
  BY <1>3 DEF Spend!BookkeepingOK
<1> QED
  BY <1>4 DEF Spend!BookkeepingOK, Spend!SpenderOK, Spend!TypeOK, Spend!Spender, Most

(* What the totals of a window are: natural numbers, and so is a cap.      *)
LEMMA WindowNumbers ==
    ASSUME SpendConstants, Spend!BookkeepingOK, NEW days \in SUBSET Spend!Dates, NEW since \in Nat \ {0},
           NEW window \in {"day", "month"}
    PROVE  /\ Spend!Total(fast_paid, days) \in Nat /\ Spend!Total(untold, days) \in Nat
           /\ Spend!Total(booked, since .. LastBooked) \in Nat
           /\ caps[window] # None => caps[window] \in Nat
           /\ MaxCost \in Nat /\ Spend!InHand(days) \in 0 .. MaxCost
<1>1. /\ booked \in [Spend!Dates -> Nat] /\ fast_paid \in [Spend!Dates -> Nat]
      /\ untold \in [Spend!Dates -> Nat] /\ caps \in CapPairs /\ MaxCost \in Nat
  BY DEF Spend!BookkeepingOK, SpendConstants
<1>2. since .. LastBooked \in SUBSET Spend!Dates
  BY DEF Spend!Dates, SpendConstants
<1>3. Spend!InHand(days) \in 0 .. MaxCost
  BY <1>1 DEF Spend!BookkeepingOK, Spend!SpenderOK, Spend!InHand, Spend!Admitted, Spend!Spender
<1> QED
  BY <1>1, <1>2, <1>3, TotalIsNatural DEF SpendConstants

-----------------------------------------------------------------------------
LEMMA InitKeepsSpend == SpendConstants /\ Spend!Init => Spend!IInv
<1> SUFFICES ASSUME SpendConstants, Spend!Init PROVE Spend!IInv
  OBVIOUS
<1>1. /\ caps \in CapPairs /\ date = 1 /\ booked = Spend!Nothing /\ spender = None
      /\ fast_paid = Spend!Nothing /\ untold = Spend!Nothing /\ n_runs = 0
  BY DEF Spend!Init
<1>2. /\ Spend!Nothing \in [Spend!Dates -> Nat] /\ \A d \in Spend!Dates : Spend!Nothing[d] = 0
      /\ 1 \in Spend!Dates /\ MaxCost \in Nat /\ MaxRuns \in Nat
  BY DEF Spend!Nothing, SpendConstants, Spend!Dates
<1>3. \A days : Spend!InHand(days) = 0 /\ ~ Spend!Admitted(days)
  BY <1>1 DEF Spend!InHand, Spend!Admitted
<1>4. \A d \in Spend!Dates : Spend!CountsOK(d)
  BY <1>1, <1>2, <1>3 DEF Spend!CountsOK, Spend!Ended
<1>5. Spend!BookkeepingOK
  BY <1>1, <1>2, <1>4 DEF Spend!BookkeepingOK, Spend!SpenderOK
<1>6. ASSUME NEW days \in SUBSET Spend!Dates, NEW since \in Nat \ {0},
             NEW window \in {"day", "month"}
      PROVE  Spend!WindowOK(days, since, window)
  <2>1. Spend!Total(fast_paid, days) = 0 /\ Spend!Total(untold, days) = 0
    BY <1>1, NothingTotal
  <2>2. /\ Spend!Total(booked, since .. LastBooked) \in Nat /\ MaxCost \in Nat
        /\ caps[window] # None => caps[window] \in Nat
    BY <1>5, WindowNumbers
  <2>3. Spend!AllBooked(days, since)
    BY <1>3, <2>1, <2>2 DEF Spend!AllBooked
  <2>4. Spend!Within(days, caps[window])
    BY <2>1, <2>2 DEF Spend!Within
  <2> QED
    BY <1>3, <2>3, <2>4 DEF Spend!WindowOK, Spend!AdmittedBelow
<1>7. Spend!WindowsOK
  <2>1. \A d \in Spend!Dates : {d} \in SUBSET Spend!Dates /\ d \in Nat \ {0}
    BY DEF Spend!Dates, SpendConstants
  <2>2. \A m \in MonthStarts : Spend!MonthFrom(m) \in SUBSET Spend!Dates /\ m \in Nat \ {0}
    BY DEF Spend!MonthFrom, SpendConstants
  <2> QED
    BY <1>6, <2>1, <2>2 DEF Spend!WindowsOK
<1> QED
  BY <1>5, <1>7 DEF Spend!IInv

(* The days of a month and a day alone are windows.                        *)
LEMMA DaysAndMonths ==
    ASSUME SpendConstants
    PROVE  /\ \A d \in Spend!Dates : IsWindow({d}, d, "day")
           /\ \A m \in MonthStarts : IsWindow(Spend!MonthFrom(m), m, "month")
<1>1. \A d \in Spend!Dates : d \in Nat \ {0} /\ Spend!budget_window_start("day", d) = d
  BY DEF Spend!Dates, SpendConstants, Spend!budget_window_start
<1>2. ASSUME NEW m \in MonthStarts PROVE IsWindow(Spend!MonthFrom(m), m, "month")
  <2>1. m \in Nat \ {0}
    BY DEF SpendConstants
  <2>2. \A d \in Spend!MonthFrom(m) : d \in Spend!Dates /\ Spend!budget_window_start("month", d) = m
    BY DEF Spend!MonthFrom
  <2>3. \A d \in Spend!MonthFrom(m) : m <= d
    BY <2>2, MonthBegins
  <2> QED
    BY <2>1, <2>2, <2>3 DEF IsWindow
<1> QED
  BY <1>1, <1>2 DEF IsWindow

(* It is enough to look at one window.                                     *)
LEMMA AllWindows ==
    ASSUME SpendConstants, Spend!IInv,
           \A days, since, window :
              IsWindow(days, since, window) /\ Spend!WindowOK(days, since, window)
                 => Spend!WindowOK(days, since, window)'
    PROVE  Spend!WindowsOK'
BY DaysAndMonths DEF Spend!IInv, Spend!WindowsOK, Spend!Dates, Spend!MonthFrom

(* A run begins: nothing is booked or paid.                                *)
LEMMA BeginBooks ==
    ASSUME SpendConstants, Spend!IInv, NEW loop \in {"fast", "slow"},
           NEW check \in {"open", "spent", "blind"}, Spend!Begin(loop, check)
    PROVE  Spend!BookkeepingOK'
<1> DEFINE w == [loop |-> loop, check |-> check, day |-> date, paid |-> 0]
<1>1. /\ spender = None /\ n_runs < MaxRuns /\ spender' = w /\ n_runs' = n_runs + 1
      /\ caps' = caps /\ date' = date /\ booked' = booked /\ fast_paid' = fast_paid
      /\ untold' = untold
  BY DEF Spend!Begin
<1>2. /\ caps \in CapPairs /\ date \in Spend!Dates /\ n_runs \in 0 .. MaxRuns /\ MaxRuns \in Nat
      /\ booked \in [Spend!Dates -> Nat] /\ fast_paid \in [Spend!Dates -> Nat]
      /\ untold \in [Spend!Dates -> Nat] /\ MaxCost \in Nat
      /\ \A d \in Spend!Dates : Spend!CountsOK(d)
  BY DEF Spend!IInv, Spend!BookkeepingOK, SpendConstants
<1>3. w \in Spend!Spender /\ date \in Int
  BY <1>2 DEF Spend!Spender, Spend!Dates, SpendConstants
<1>4. w # None /\ w.paid = 0 /\ w.day = date
  BY <1>3 DEF SpendConstants
<1> HIDE DEF w
<1>5. Spend!SpenderOK'
  BY <1>1, <1>2, <1>3, <1>4 DEF Spend!SpenderOK, Spend!Spender, Spend!Dates
<1>6. Spend!Ended' = Spend!Ended /\ \A days : Spend!InHand(days)' = Spend!InHand(days)
  BY <1>1, <1>2, <1>4 DEF Spend!Ended, Spend!InHand, Spend!Admitted
<1>7. \A d \in Spend!Dates : Spend!CountsOK(d)'
  <2> SUFFICES ASSUME NEW d \in Spend!Dates PROVE Spend!CountsOK(d)'
    OBVIOUS
  <2>1. Spend!CountsOK(d)
    BY <1>2
  <2> QED
    BY <1>1, <1>2, <1>4, <1>6, <2>1 DEF Spend!CountsOK
<1> QED
  BY <1>1, <1>2, <1>5, <1>7 DEF Spend!BookkeepingOK, Spend!Dates

(* What the check has read of a window when it is open.                    *)
LEMMA OpenMeansBelow ==
    ASSUME NEW failing \in SUBSET {"day", "month"}, NEW window \in {"day", "month"},
           Spend!find_budget_breach(failing) = "open"
    PROVE  ~ Spend!Exhausted(window)
BY DEF Spend!find_budget_breach

LEMMA FastRunBegins ==
    ASSUME SpendConstants, Spend!IInv, NEW days, NEW since, NEW window,
           IsWindow(days, since, window), Spend!WindowOK(days, since, window),
           NEW failing \in SUBSET {"day", "month"},
           Spend!Begin("fast", Spend!find_budget_breach(failing))
    PROVE  Spend!WindowOK(days, since, window)'
<1>1. /\ spender = None /\ caps' = caps /\ booked' = booked /\ fast_paid' = fast_paid
      /\ untold' = untold
      /\ spender' = [loop |-> "fast", check |-> Spend!find_budget_breach(failing),
                     day |-> date, paid |-> 0]
  BY DEF Spend!Begin
<1>2. spender'.paid = 0 /\ spender'.day = date
      /\ spender'.check = Spend!find_budget_breach(failing)
  BY <1>1
<1>3. /\ window \in {"day", "month"} /\ days \in SUBSET Spend!Dates /\ since \in Nat \ {0}
      /\ \A d \in days : since = Spend!budget_window_start(window, d)
  BY DEF IsWindow
<1>4. Spend!InHand(days)' = 0 /\ Spend!InHand(days) = 0
  BY <1>1, <1>2 DEF Spend!InHand, Spend!Admitted
<1>5. /\ Spend!Total(fast_paid, days) \in Nat /\ Spend!Total(untold, days) \in Nat
      /\ Spend!Total(booked, since .. LastBooked) \in Nat
      /\ caps[window] # None => caps[window] \in Nat
  BY <1>3, WindowNumbers DEF Spend!IInv
<1>6. Spend!AllBooked(days, since) /\ Spend!AllBooked(days, since)'
  BY <1>1, <1>4 DEF Spend!WindowOK, Spend!AllBooked
<1>7. Spend!AdmittedBelow(days, window)'
  <2> SUFFICES ASSUME Spend!Admitted(days)', caps[window] # None
               PROVE  /\ caps[window] > 0
                      /\ Spend!Total(fast_paid, days)
                            <= caps[window] - 1 + 0 + Spend!Total(untold, days)
    BY <1>1, <1>2 DEF Spend!AdmittedBelow
  <2>1. Spend!find_budget_breach(failing) = "open" /\ date \in days
    BY <1>2 DEF Spend!Admitted
  <2>2. ~ Spend!Exhausted(window) /\ since = Spend!budget_window_start(window, date)
    BY <1>3, <2>1, OpenMeansBelow
  <2>3. ~ (Spend!Total(booked, since .. LastBooked) >= caps[window])
    BY <2>2 DEF Spend!Exhausted, Spend!budget_exceeded, Spend!get_llm_cost_since
  <2>4. Spend!Total(fast_paid, days)
           <= Spend!Total(booked, since .. LastBooked) + Spend!Total(untold, days)
    BY <1>4, <1>5, <1>6 DEF Spend!AllBooked
  <2> QED
    BY <1>5, <2>3, <2>4
<1>8. Spend!Within(days, caps[window])'
  BY <1>1 DEF Spend!WindowOK, Spend!Within
<1> QED
  BY <1>6, <1>7, <1>8 DEF Spend!WindowOK

LEMMA SlowRunBegins ==
    ASSUME NEW days, NEW since, NEW window, Spend!WindowOK(days, since, window),
           Spend!Begin("slow", "open")
    PROVE  Spend!WindowOK(days, since, window)'
<1>1. /\ spender = None /\ caps' = caps /\ booked' = booked /\ fast_paid' = fast_paid
      /\ untold' = untold /\ spender'.loop = "slow"
  BY DEF Spend!Begin
<1>2. Spend!InHand(days)' = Spend!InHand(days) /\ ~ Spend!Admitted(days)'
  BY <1>1 DEF Spend!InHand, Spend!Admitted
<1> QED
  BY <1>1, <1>2 DEF Spend!WindowOK, Spend!AllBooked, Spend!AdmittedBelow, Spend!Within

-----------------------------------------------------------------------------
(* A run pays a unit.                                                      *)
LEMMA PayBooks ==
    ASSUME SpendConstants, Spend!IInv, Spend!Pay
    PROVE  Spend!BookkeepingOK'
<1>1. /\ spender # None /\ spender.check # "spent" /\ spender.paid < MaxCost
      /\ spender' = [spender EXCEPT !.paid = @ + 1]
      /\ fast_paid' = IF spender.loop = "slow" THEN fast_paid
                      ELSE [fast_paid EXCEPT ![spender.day] = @ + 1]
      /\ untold' = IF spender.loop = "slow" \/ spender.check # "blind" THEN untold
                   ELSE [untold EXCEPT ![spender.day] = @ + 1]
      /\ caps' = caps /\ date' = date /\ booked' = booked /\ n_runs' = n_runs
  BY DEF Spend!Pay
<1>2. /\ caps \in CapPairs /\ date \in Spend!Dates /\ n_runs \in 0 .. MaxRuns
      /\ booked \in [Spend!Dates -> Nat] /\ fast_paid \in [Spend!Dates -> Nat]
      /\ untold \in [Spend!Dates -> Nat] /\ MaxCost \in Nat /\ MaxRuns \in Nat
      /\ spender \in Spend!Spender /\ spender.day <= date /\ n_runs > 0
      /\ \A d \in Spend!Dates : Spend!CountsOK(d)
  BY <1>1 DEF Spend!IInv, Spend!BookkeepingOK, Spend!SpenderOK, SpendConstants
<1>3. /\ spender.loop \in {"fast", "slow"} /\ spender.check \in {"open", "blind"}
      /\ spender.day \in Spend!Dates /\ spender.paid \in 0 .. MaxCost
  BY <1>1, <1>2 DEF Spend!Spender
<1>4. /\ spender' \in Spend!Spender /\ spender'.loop = spender.loop
      /\ spender'.check = spender.check /\ spender'.day = spender.day
      /\ spender'.paid = spender.paid + 1 /\ spender' # None
  <2>1. spender' = [loop |-> spender.loop, check |-> spender.check, day |-> spender.day,
                    paid |-> spender.paid + 1]
    BY <1>1, <1>2 DEF Spend!Spender
  <2>2. spender.paid + 1 \in 0 .. MaxCost
    BY <1>1, <1>2, <1>3
  <2>3. spender' \in Spend!Spender
    BY <1>3, <2>1, <2>2 DEF Spend!Spender
  <2> QED
    BY <2>1, <2>3 DEF SpendConstants
<1>5. fast_paid' \in [Spend!Dates -> Nat] /\ untold' \in [Spend!Dates -> Nat]
  BY <1>1, <1>2, <1>3
<1>6. Spend!SpenderOK'
  BY <1>1, <1>2, <1>3, <1>4 DEF Spend!SpenderOK
<1>7. Spend!Ended' = Spend!Ended
  BY <1>1, <1>4 DEF Spend!Ended
<1>8. ASSUME NEW d \in Spend!Dates PROVE Spend!CountsOK(d)'
  <2>1. /\ booked[d] <= Spend!Ended * MaxCost
        /\ fast_paid[d] <= Spend!Ended * MaxCost + spender.paid
        /\ untold[d] + Spend!InHand({d}) <= fast_paid[d]
    BY <1>1, <1>2 DEF Spend!CountsOK
  <2>2. Spend!Ended * MaxCost \in Nat
    <3>1. Spend!Ended \in Nat
      BY <1>1, <1>2 DEF Spend!Ended
    <3> QED
      BY <3>1, TimesCost
  <2>3. fast_paid[d] \in Nat /\ untold[d] \in Nat
    BY <1>2
  <2>4. fast_paid'[d] <= Spend!Ended * MaxCost + (spender.paid + 1)
    BY <1>1, <1>2, <1>3, <2>1, <2>2, <2>3
  <2>5. untold'[d] + Spend!InHand({d})' <= fast_paid'[d]
    <3>1. CASE spender.loop = "slow" \/ spender.day # d
      <4>1. Spend!InHand({d})' = 0 /\ Spend!InHand({d}) = 0
        BY <1>4, <3>1 DEF Spend!InHand, Spend!Admitted
      <4>2. fast_paid'[d] = fast_paid[d] /\ untold'[d] = untold[d]
        BY <1>1, <1>2, <1>3, <3>1
      <4> QED
        BY <2>1, <2>3, <4>1, <4>2
    <3>2. CASE spender.loop # "slow" /\ spender.day = d
      <4>1. fast_paid'[d] = fast_paid[d] + 1
        BY <1>1, <1>2, <1>3, <3>2
      <4>2. CASE spender.check = "blind"
        <5>1. Spend!InHand({d})' = 0 /\ Spend!InHand({d}) = 0
          BY <1>4, <4>2 DEF Spend!InHand, Spend!Admitted
        <5>2. untold'[d] = untold[d] + 1
          BY <1>1, <1>2, <1>3, <3>2, <4>2
        <5> QED
          BY <2>1, <2>3, <4>1, <5>1, <5>2
      <4>3. CASE spender.check = "open"
        <5>1. Spend!InHand({d})' = spender.paid + 1 /\ Spend!InHand({d}) = spender.paid
          BY <1>1, <1>3, <1>4, <3>2, <4>3 DEF Spend!InHand, Spend!Admitted
        <5>2. untold'[d] = untold[d]
          BY <1>1, <4>3
        <5> QED
          BY <1>3, <2>1, <2>3, <4>1, <5>1, <5>2
      <4> QED
        BY <1>3, <4>2, <4>3
    <3> QED
      BY <3>1, <3>2
  <2> QED
    BY <1>1, <1>4, <1>7, <2>1, <2>4, <2>5 DEF Spend!CountsOK
<1> QED
  BY <1>1, <1>2, <1>5, <1>6, <1>8 DEF Spend!BookkeepingOK, Spend!Dates

LEMMA PayInWindow ==
    ASSUME SpendConstants, Spend!IInv, NEW days, NEW since, NEW window,
           IsWindow(days, since, window), Spend!WindowOK(days, since, window), Spend!Pay
    PROVE  Spend!WindowOK(days, since, window)'
<1>1. /\ spender # None /\ spender.check # "spent" /\ spender.paid < MaxCost
      /\ spender' = [spender EXCEPT !.paid = @ + 1]
      /\ fast_paid' = IF spender.loop = "slow" THEN fast_paid
                      ELSE [fast_paid EXCEPT ![spender.day] = @ + 1]
      /\ untold' = IF spender.loop = "slow" \/ spender.check # "blind" THEN untold
                   ELSE [untold EXCEPT ![spender.day] = @ + 1]
      /\ caps' = caps /\ booked' = booked
  BY DEF Spend!Pay
<1>2. /\ fast_paid \in [Spend!Dates -> Nat] /\ untold \in [Spend!Dates -> Nat]
      /\ spender \in Spend!Spender /\ MaxCost \in Nat
  BY <1>1 DEF Spend!IInv, Spend!BookkeepingOK, Spend!SpenderOK, SpendConstants
<1>3. /\ spender.loop \in {"fast", "slow"} /\ spender.check \in {"open", "blind"}
      /\ spender.day \in Spend!Dates /\ spender.paid \in 0 .. MaxCost
  BY <1>1, <1>2 DEF Spend!Spender
<1>4. /\ spender'.loop = spender.loop /\ spender'.check = spender.check
      /\ spender'.day = spender.day /\ spender'.paid = spender.paid + 1 /\ spender' # None
  <2>1. spender' = [loop |-> spender.loop, check |-> spender.check, day |-> spender.day,
                    paid |-> spender.paid + 1]
    BY <1>1, <1>2 DEF Spend!Spender
  <2>2. spender.paid + 1 \in 0 .. MaxCost
    BY <1>1, <1>2, <1>3
  <2>3. spender' \in Spend!Spender
    BY <1>3, <2>1, <2>2 DEF Spend!Spender
  <2> QED
    BY <2>1, <2>3 DEF SpendConstants
<1>5. fast_paid' \in [Spend!Dates -> Nat] /\ untold' \in [Spend!Dates -> Nat]
  BY <1>1, <1>2, <1>3
<1>6. days \in SUBSET Spend!Dates /\ since \in Nat \ {0} /\ window \in {"day", "month"}
  BY DEF IsWindow
<1>7. /\ Spend!Total(fast_paid, days) \in Nat /\ Spend!Total(untold, days) \in Nat
      /\ Spend!Total(booked, since .. LastBooked) \in Nat
      /\ caps[window] # None => caps[window] \in Nat
      /\ Spend!InHand(days) \in 0 .. MaxCost
  BY <1>6, WindowNumbers DEF Spend!IInv
<1>8. Spend!AllBooked(days, since) /\ Spend!AdmittedBelow(days, window)
      /\ Spend!Within(days, caps[window])
  BY DEF Spend!WindowOK
<1>11. spender.loop # "slow" =>
          /\ fast_paid'[spender.day] = fast_paid[spender.day] + 1
          /\ \A d \in Spend!Dates : d # spender.day => fast_paid'[d] = fast_paid[d]
  BY <1>1, <1>2, <1>3
<1>12. spender.loop # "slow" /\ spender.check = "blind" =>
          /\ untold'[spender.day] = untold[spender.day] + 1
          /\ \A d \in Spend!Dates : d # spender.day => untold'[d] = untold[d]
  BY <1>1, <1>2, <1>3
<1>9. CASE spender.loop = "slow" \/ spender.day \notin days
  <2>1. Spend!Total(fast_paid', days) = Spend!Total(fast_paid, days)
    <3>1. CASE spender.loop = "slow"
      BY <1>1, <3>1
    <3>2. CASE spender.loop # "slow"
      <4>1. /\ spender.day \notin days
            /\ fast_paid'[spender.day] = fast_paid[spender.day] + 1
            /\ \A d \in Spend!Dates : d # spender.day => fast_paid'[d] = fast_paid[d]
        BY <1>9, <1>11, <3>2
      <4>2. fast_paid \in [Spend!Dates -> Nat] /\ spender.day \in Spend!Dates
        BY <1>2, <1>3
      <4> QED
        BY <1>5, <1>6, <4>1, <4>2, AddToTotal
    <3> QED
      BY <3>1, <3>2
  <2>2. Spend!Total(untold', days) = Spend!Total(untold, days)
    <3>1. CASE spender.loop = "slow" \/ spender.check # "blind"
      BY <1>1, <3>1
    <3>2. CASE spender.loop # "slow" /\ spender.check = "blind"
      <4>1. /\ spender.day \notin days
            /\ untold'[spender.day] = untold[spender.day] + 1
            /\ \A d \in Spend!Dates : d # spender.day => untold'[d] = untold[d]
        BY <1>9, <1>12, <3>2
      <4>2. untold \in [Spend!Dates -> Nat] /\ spender.day \in Spend!Dates
        BY <1>2, <1>3
      <4> QED
        BY <1>5, <1>6, <4>1, <4>2, AddToTotal
    <3> QED
      BY <3>1, <3>2
  <2>3. ~ Spend!Admitted(days) /\ ~ Spend!Admitted(days)'
    BY <1>4, <1>9 DEF Spend!Admitted
  <2> QED
    BY <1>1, <1>8, <2>1, <2>2, <2>3
    DEF Spend!WindowOK, Spend!AllBooked, Spend!InHand, Spend!AdmittedBelow, Spend!Within
<1>10. CASE spender.loop = "fast" /\ spender.day \in days
  <2>1. Spend!Total(fast_paid', days) = Spend!Total(fast_paid, days) + 1
    BY <1>2, <1>3, <1>5, <1>6, <1>10, <1>11, AddToTotal
  <2>2. CASE spender.check = "blind"
    <3>1. Spend!Total(untold', days) = Spend!Total(untold, days) + 1
      BY <1>2, <1>3, <1>5, <1>6, <1>10, <1>12, <2>2, AddToTotal
    <3>2. ~ Spend!Admitted(days) /\ ~ Spend!Admitted(days)'
      BY <1>4, <2>2 DEF Spend!Admitted
    <3>3. Spend!AllBooked(days, since)'
      BY <1>1, <1>7, <1>8, <2>1, <3>1, <3>2 DEF Spend!AllBooked, Spend!InHand
    <3>4. Spend!Within(days, caps[window])'
      BY <1>1, <1>2, <1>7, <1>8, <2>1, <3>1 DEF Spend!Within
    <3> QED
      BY <3>2, <3>3, <3>4 DEF Spend!WindowOK, Spend!AdmittedBelow
  <2>3. CASE spender.check = "open"
    <3>1. untold' = untold
      BY <1>1, <2>3
    <3>2. Spend!Admitted(days) /\ Spend!Admitted(days)'
      BY <1>1, <1>4, <1>10, <2>3 DEF Spend!Admitted
    <3>3. Spend!AllBooked(days, since)'
      BY <1>1, <1>3, <1>4, <1>7, <1>8, <2>1, <3>1, <3>2 DEF Spend!AllBooked, Spend!InHand
    <3>4. caps[window] # None =>
             /\ caps[window] > 0
             /\ Spend!Total(fast_paid, days) + 1
                   <= caps[window] - 1 + (spender.paid + 1) + Spend!Total(untold, days)
      <4>1. caps[window] # None =>
               /\ caps[window] > 0
               /\ Spend!Total(fast_paid, days)
                     <= caps[window] - 1 + spender.paid + Spend!Total(untold, days)
        BY <1>8, <3>2 DEF Spend!AdmittedBelow
      <4>2. spender.paid \in Nat /\ Spend!Total(fast_paid, days) \in Nat
            /\ Spend!Total(untold, days) \in Nat /\ (caps[window] # None => caps[window] \in Nat)
        BY <1>3, <1>7
      <4> QED
        BY <4>1, <4>2
    <3>5. Spend!AdmittedBelow(days, window)'
      BY <1>1, <1>4, <2>1, <3>1, <3>4 DEF Spend!AdmittedBelow
    <3>6. ASSUME caps[window] # None
          PROVE  Spend!Total(fast_paid, days) + 1
                    <= caps[window] - 1 + MaxCost + Spend!Total(untold, days)
      <4> DEFINE cap == caps[window]
                 so_far == Spend!Total(fast_paid, days)
                 unseen == Spend!Total(untold, days)
                 in_hand == spender.paid
      <4>1. in_hand + 1 <= MaxCost /\ in_hand \in Nat /\ MaxCost \in Nat
        BY <1>1, <1>2, <1>3
      <4>2. cap \in Nat /\ so_far \in Nat /\ unseen \in Nat
        BY <1>7, <3>6
      <4>3. so_far + 1 <= cap - 1 + (in_hand + 1) + unseen
        BY <3>4, <3>6
      <4> HIDE DEF cap, so_far, unseen, in_hand
      <4>4. so_far + 1 <= cap - 1 + MaxCost + unseen
        BY <4>1, <4>2, <4>3
      <4> QED
        BY <4>4 DEF cap, so_far, unseen, in_hand
    <3>7. Spend!Within(days, caps[window])'
      BY <1>1, <1>7, <2>1, <3>1, <3>4, <3>6 DEF Spend!Within
    <3> QED
      BY <3>3, <3>5, <3>7 DEF Spend!WindowOK
  <2> QED
    BY <1>3, <2>2, <2>3
<1> QED
  BY <1>3, <1>9, <1>10

(* The rows of a run that ends are in the ledger, or they are lost.        *)
LEMMA EndBooks ==
    ASSUME SpendConstants, Spend!IInv, Spend!persist_llm_calls \/ Spend!RowsLost
    PROVE  Spend!BookkeepingOK'
<1>1. /\ spender # None /\ spender' = None /\ n_runs' = n_runs /\ caps' = caps
      /\ date' = date /\ fast_paid' = fast_paid
      /\ \/ booked' = [booked EXCEPT ![date] = @ + spender.paid] /\ untold' = untold
         \/ /\ booked' = booked
            /\ untold' = IF spender.loop = "slow" \/ spender.check # "open" THEN untold
                         ELSE [untold EXCEPT ![spender.day] = @ + spender.paid]
  BY DEF Spend!persist_llm_calls, Spend!RowsLost
<1>2. /\ caps \in CapPairs /\ date \in Spend!Dates /\ n_runs \in 0 .. MaxRuns
      /\ booked \in [Spend!Dates -> Nat] /\ fast_paid \in [Spend!Dates -> Nat]
      /\ untold \in [Spend!Dates -> Nat] /\ MaxCost \in Nat /\ MaxRuns \in Nat
      /\ spender \in Spend!Spender /\ n_runs > 0
      /\ \A d \in Spend!Dates : Spend!CountsOK(d)
  BY <1>1 DEF Spend!IInv, Spend!BookkeepingOK, Spend!SpenderOK, SpendConstants
<1>3. /\ spender.day \in Spend!Dates /\ spender.paid \in 0 .. MaxCost
      /\ spender.loop \in {"fast", "slow"}
  BY <1>2 DEF Spend!Spender
<1>4. booked' \in [Spend!Dates -> Nat] /\ untold' \in [Spend!Dates -> Nat]
  <2>1. spender.paid \in Nat
    BY <1>2, <1>3
  <2> QED
    BY <1>1, <1>2, <1>3, <2>1
<1>5. /\ Spend!Ended = n_runs - 1 /\ Spend!Ended' = n_runs /\ n_runs - 1 \in Nat
      /\ (n_runs - 1) * MaxCost \in Nat /\ n_runs * MaxCost = (n_runs - 1) * MaxCost + MaxCost
  <2>1. n_runs - 1 \in Nat /\ (n_runs - 1) + 1 = n_runs
    BY <1>2
  <2> QED
    BY <1>1, <2>1, TimesCost DEF Spend!Ended
<1>6. \A days : Spend!InHand(days)' = 0
  BY <1>1 DEF Spend!InHand, Spend!Admitted
<1>7. ASSUME NEW d \in Spend!Dates PROVE Spend!CountsOK(d)'
  <2>1. /\ booked[d] <= (n_runs - 1) * MaxCost
        /\ fast_paid[d] <= (n_runs - 1) * MaxCost + spender.paid
        /\ untold[d] + Spend!InHand({d}) <= fast_paid[d]
    BY <1>1, <1>2, <1>5 DEF Spend!CountsOK
  <2>2. booked[d] \in Nat /\ fast_paid[d] \in Nat /\ untold[d] \in Nat
    BY <1>2
  <2>3. booked'[d] <= booked[d] + spender.paid
    BY <1>1, <1>2, <1>3, <2>2
  <2>4. booked'[d] <= n_runs * MaxCost /\ fast_paid'[d] <= n_runs * MaxCost
    <3>1. booked'[d] \in Nat
      BY <1>4
    <3> QED
      BY <1>1, <1>2, <1>3, <1>5, <2>1, <2>2, <2>3, <3>1
  <2>5. untold'[d] <= fast_paid[d]
    <3>1. CASE untold'[d] = untold[d]
      <4>1. Spend!InHand({d}) \in Nat
        BY <1>2, <1>3 DEF Spend!InHand
      <4> QED
        BY <2>1, <2>2, <3>1, <4>1
    <3>2. CASE untold'[d] # untold[d]
      <4>1. /\ spender.loop # "slow" /\ spender.check = "open" /\ spender.day = d
            /\ untold'[d] = untold[d] + spender.paid
        BY <1>1, <1>2, <1>3, <3>2
      <4>2. Spend!InHand({d}) = spender.paid
        BY <1>1, <1>3, <4>1 DEF Spend!InHand, Spend!Admitted
      <4> QED
        BY <2>1, <4>1, <4>2
    <3> QED
      BY <3>1, <3>2
  <2>6. untold'[d] \in Nat
    BY <1>4
  <2> QED
    BY <1>1, <1>2, <1>5, <1>6, <2>4, <2>5, <2>6 DEF Spend!CountsOK
<1> QED
  BY <1>1, <1>2, <1>4, <1>7 DEF Spend!BookkeepingOK, Spend!SpenderOK, Spend!Dates

LEMMA EndInWindow ==
    ASSUME SpendConstants, Spend!IInv, NEW days, NEW since, NEW window,
           IsWindow(days, since, window), Spend!WindowOK(days, since, window),
           Spend!persist_llm_calls \/ Spend!RowsLost
    PROVE  Spend!WindowOK(days, since, window)'
<1>1. /\ spender # None /\ spender' = None /\ caps' = caps /\ fast_paid' = fast_paid
      /\ \/ booked' = [booked EXCEPT ![date] = @ + spender.paid] /\ untold' = untold
         \/ /\ booked' = booked
            /\ untold' = IF spender.loop = "slow" \/ spender.check # "open" THEN untold
                         ELSE [untold EXCEPT ![spender.day] = @ + spender.paid]
  BY DEF Spend!persist_llm_calls, Spend!RowsLost
<1>2. /\ booked \in [Spend!Dates -> Nat] /\ untold \in [Spend!Dates -> Nat]
      /\ date \in Spend!Dates /\ spender \in Spend!Spender /\ spender.day <= date
      /\ MaxCost \in Nat /\ LastBooked \in Nat
  BY <1>1 DEF Spend!IInv, Spend!BookkeepingOK, Spend!SpenderOK, SpendConstants
<1>3. spender.day \in Spend!Dates /\ spender.paid \in Nat /\ spender.paid <= MaxCost
  BY <1>2 DEF Spend!Spender
<1>4. /\ days \in SUBSET Spend!Dates /\ since \in Nat \ {0} /\ window \in {"day", "month"}
      /\ \A d \in days : since <= d
  BY DEF IsWindow
<1>5. since .. LastBooked \in SUBSET Spend!Dates
  BY <1>2, <1>4 DEF Spend!Dates
<1>6. /\ Spend!Total(fast_paid, days) \in Nat /\ Spend!Total(untold, days) \in Nat
      /\ Spend!Total(booked, since .. LastBooked) \in Nat
      /\ caps[window] # None => caps[window] \in Nat
  BY <1>4, WindowNumbers DEF Spend!IInv
<1>7. Spend!AllBooked(days, since) /\ Spend!Within(days, caps[window])
  BY DEF Spend!WindowOK
<1>8. ~ Spend!Admitted(days)' /\ Spend!InHand(days)' = 0
  BY <1>1 DEF Spend!InHand, Spend!Admitted
<1>9. CASE booked' = [booked EXCEPT ![date] = @ + spender.paid] /\ untold' = untold
  <2>1. booked' \in [Spend!Dates -> Nat]
    BY <1>2, <1>3, <1>9
  <2>2. /\ date \in since .. LastBooked =>
              Spend!Total(booked', since .. LastBooked)
                 = Spend!Total(booked, since .. LastBooked) + spender.paid
        /\ date \notin since .. LastBooked =>
              Spend!Total(booked', since .. LastBooked)
                 = Spend!Total(booked, since .. LastBooked)
    <3>1. /\ booked'[date] = booked[date] + spender.paid
          /\ \A d \in Spend!Dates : d # date => booked'[d] = booked[d]
      BY <1>2, <1>3, <1>9
    <3>2. booked \in [Spend!Dates -> Nat] /\ date \in Spend!Dates /\ spender.paid \in Nat
      BY <1>2, <1>3
    <3> DEFINE span == since .. LastBooked
    <3>3. span \in SUBSET Spend!Dates
      BY <1>5
    <3> HIDE DEF span
    <3>4. /\ date \in span => Spend!Total(booked', span) = Spend!Total(booked, span) + spender.paid
          /\ date \notin span => Spend!Total(booked', span) = Spend!Total(booked, span)
      BY <2>1, <3>1, <3>2, <3>3, AddToTotal
    <3> QED
      BY <3>4 DEF span
  <2>3. Spend!Admitted(days) => date \in since .. LastBooked
    <3> SUFFICES ASSUME Spend!Admitted(days) PROVE date \in since .. LastBooked
      OBVIOUS
    <3>1. spender.day \in days /\ since <= spender.day
      BY <1>4 DEF Spend!Admitted
    <3>2. date \in Int /\ spender.day \in Int /\ date <= LastBooked
      BY <1>2, <1>3 DEF Spend!Dates
    <3> QED
      BY <1>2, <1>4, <3>1, <3>2
  <2>4. Spend!Total(booked', since .. LastBooked)
           >= Spend!Total(booked, since .. LastBooked) + Spend!InHand(days)
    BY <1>3, <1>6, <2>2, <2>3 DEF Spend!InHand
  <2>5. Spend!InHand(days) \in Nat /\ Spend!Total(booked', since .. LastBooked) \in Nat
    BY <1>3, <1>6, <2>2 DEF Spend!InHand
  <2>6. Spend!AllBooked(days, since)'
    BY <1>1, <1>6, <1>7, <1>8, <1>9, <2>4, <2>5 DEF Spend!AllBooked
  <2>7. Spend!Within(days, caps[window])'
    BY <1>1, <1>7, <1>9 DEF Spend!Within
  <2> QED
    BY <1>8, <2>6, <2>7 DEF Spend!WindowOK, Spend!AdmittedBelow
<1>10. CASE /\ booked' = booked
            /\ untold' = IF spender.loop = "slow" \/ spender.check # "open" THEN untold
                         ELSE [untold EXCEPT ![spender.day] = @ + spender.paid]
  <2>1. Spend!Total(untold', days) = Spend!Total(untold, days) + Spend!InHand(days)
    <3>1. CASE spender.loop = "slow" \/ spender.check # "open"
      <4>1. Spend!InHand(days) = 0 /\ untold' = untold
        BY <1>10, <3>1 DEF Spend!InHand, Spend!Admitted
      <4> QED
        BY <1>6, <4>1
    <3>2. CASE ~ (spender.loop = "slow" \/ spender.check # "open")
      <4>1. untold' = [untold EXCEPT ![spender.day] = @ + spender.paid]
            /\ untold' \in [Spend!Dates -> Nat]
        BY <1>2, <1>3, <1>10, <3>2
      <4>2. /\ spender.day \in days =>
                  Spend!Total(untold', days) = Spend!Total(untold, days) + spender.paid
            /\ spender.day \notin days =>
                  Spend!Total(untold', days) = Spend!Total(untold, days)
        <5>1. /\ untold'[spender.day] = untold[spender.day] + spender.paid
              /\ \A d \in Spend!Dates : d # spender.day => untold'[d] = untold[d]
          BY <1>2, <1>3, <4>1
        <5>2. untold \in [Spend!Dates -> Nat] /\ spender.day \in Spend!Dates
          BY <1>2, <1>3
        <5>3. /\ spender.paid \in Nat /\ days \in SUBSET Spend!Dates
              /\ untold' \in [Spend!Dates -> Nat]
          BY <1>3, <1>4, <4>1
        <5> QED
          BY <5>1, <5>2, <5>3, AddToTotal
      <4>3. spender.loop = "fast"
        BY <1>2, <3>2 DEF Spend!Spender
      <4>4. spender.day \in days => Spend!InHand(days) = spender.paid
        BY <1>1, <3>2, <4>3 DEF Spend!InHand, Spend!Admitted
      <4>5. spender.day \notin days => Spend!InHand(days) = 0
        BY DEF Spend!InHand, Spend!Admitted
      <4> QED
        BY <1>6, <4>2, <4>4, <4>5
    <3> QED
      BY <3>1, <3>2
  <2>2. Spend!InHand(days) \in Nat
    BY <1>3 DEF Spend!InHand
  <2>3. Spend!AllBooked(days, since)'
    BY <1>1, <1>6, <1>7, <1>8, <1>10, <2>1, <2>2 DEF Spend!AllBooked
  <2>4. Spend!Within(days, caps[window])'
    <3>1. caps[window] # None =>
             Spend!Total(fast_paid, days)
                <= (IF caps[window] = 0 THEN 0 ELSE caps[window] - 1 + MaxCost)
                   + Spend!Total(untold, days)
      BY <1>7 DEF Spend!Within
    <3>2. caps[window] # None =>
             Spend!Total(fast_paid, days)
                <= (IF caps[window] = 0 THEN 0 ELSE caps[window] - 1 + MaxCost)
                   + Spend!Total(untold', days)
      <4>1. Spend!Total(untold, days) <= Spend!Total(untold', days)
        BY <1>6, <2>1, <2>2
      <4>2. Spend!Total(untold, days) \in Nat /\ Spend!Total(untold', days) \in Nat
            /\ Spend!Total(fast_paid, days) \in Nat
        BY <1>6, <2>1, <2>2
      <4>3. caps[window] # None =>
               (IF caps[window] = 0 THEN 0 ELSE caps[window] - 1 + MaxCost) \in Int
        BY <1>2, <1>6
      <4> QED
        BY <3>1, <4>1, <4>2, <4>3
    <3> QED
      BY <1>1, <3>2 DEF Spend!Within
  <2> QED
    BY <1>8, <2>3, <2>4 DEF Spend!WindowOK, Spend!AdmittedBelow
<1> QED
  BY <1>1, <1>9, <1>10

LEMMA MidnightBooks ==
    ASSUME SpendConstants, Spend!IInv, Spend!Midnight
    PROVE  Spend!BookkeepingOK'
<1>1. /\ date < LastBooked /\ date' = date + 1 /\ caps' = caps /\ booked' = booked
      /\ spender' = spender /\ fast_paid' = fast_paid /\ untold' = untold /\ n_runs' = n_runs
  BY DEF Spend!Midnight
<1>2. Spend!BookkeepingOK /\ LastBooked \in Nat /\ date \in Spend!Dates
  BY DEF Spend!IInv, Spend!BookkeepingOK, SpendConstants
<1>3. date' \in Spend!Dates /\ date \in Int
  BY <1>1, <1>2 DEF Spend!Dates
<1>4. spender # None => spender.day \in Int
  BY <1>2 DEF Spend!BookkeepingOK, Spend!SpenderOK, Spend!Spender, Spend!Dates
<1>5. Spend!SpenderOK'
  BY <1>1, <1>2, <1>3, <1>4 DEF Spend!BookkeepingOK, Spend!SpenderOK, Spend!Spender, Spend!Dates
<1>6. \A d \in Spend!Dates : Spend!CountsOK(d)'
  BY <1>1, <1>2
  DEF Spend!BookkeepingOK, Spend!CountsOK, Spend!Ended, Spend!InHand, Spend!Admitted
<1> QED
  BY <1>1, <1>2, <1>3, <1>5, <1>6 DEF Spend!BookkeepingOK, Spend!Dates

LEMMA SameWindow ==
    ASSUME NEW days, NEW since, NEW window, Spend!WindowOK(days, since, window),
           caps' = caps, booked' = booked, spender' = spender, fast_paid' = fast_paid,
           untold' = untold
    PROVE  Spend!WindowOK(days, since, window)'
BY DEF Spend!WindowOK, Spend!AllBooked, Spend!AdmittedBelow, Spend!Within, Spend!InHand,
       Spend!Admitted

LEMMA CheckSays ==
    ASSUME NEW failing \in SUBSET {"day", "month"}
    PROVE  Spend!find_budget_breach(failing) \in {"open", "spent", "blind"}
BY DEF Spend!find_budget_breach

LEMMA NextKeepsSpend ==
    SpendConstants /\ Spend!IInv /\ [Spend!Next]_(Spend!vars) => Spend!IInv'
<1> SUFFICES ASSUME SpendConstants, Spend!IInv, [Spend!Next]_(Spend!vars) PROVE Spend!IInv'
  OBVIOUS
<1>1. CASE Spend!BeginFast
  <2>1. PICK failing \in SUBSET {"day", "month"} :
           Spend!Begin("fast", Spend!find_budget_breach(failing))
    BY <1>1 DEF Spend!BeginFast
  <2>2. Spend!BookkeepingOK'
    BY <2>1, CheckSays, BeginBooks
  <2> QED
    BY <2>1, <2>2, FastRunBegins, AllWindows DEF Spend!IInv
<1>2. CASE Spend!BeginSlow
  <2>1. Spend!Begin("slow", "open")
    BY <1>2 DEF Spend!BeginSlow
  <2>2. Spend!BookkeepingOK'
    BY <2>1, BeginBooks
  <2> QED
    BY <2>1, <2>2, SlowRunBegins, AllWindows DEF Spend!IInv
<1>3. CASE Spend!Pay
  BY <1>3, PayBooks, PayInWindow, AllWindows DEF Spend!IInv
<1>4. CASE Spend!persist_llm_calls \/ Spend!RowsLost
  BY <1>4, EndBooks, EndInWindow, AllWindows DEF Spend!IInv
<1>5. CASE Spend!Midnight
  <2>1. Spend!BookkeepingOK'
    BY <1>5, MidnightBooks
  <2>2. /\ caps' = caps /\ booked' = booked /\ spender' = spender /\ fast_paid' = fast_paid
        /\ untold' = untold
    BY <1>5 DEF Spend!Midnight
  <2> QED
    BY <2>1, <2>2, SameWindow, AllWindows DEF Spend!IInv
<1>6. CASE UNCHANGED Spend!vars
  <2>1. /\ caps' = caps /\ booked' = booked /\ spender' = spender /\ fast_paid' = fast_paid
        /\ untold' = untold /\ date' = date /\ n_runs' = n_runs
    BY <1>6 DEF Spend!vars
  <2>2. Spend!BookkeepingOK'
    BY <2>1 DEF Spend!IInv, Spend!BookkeepingOK, Spend!SpenderOK, Spend!CountsOK, Spend!Ended,
                Spend!InHand, Spend!Admitted, Spend!Spender, Spend!Dates
  <2> QED
    BY <2>1, <2>2, SameWindow, AllWindows DEF Spend!IInv
<1> QED
  BY <1>1, <1>2, <1>3, <1>4, <1>5, <1>6 DEF Spend!Next

LEMMA IInvImpliesSpendWithinWindow ==
    ASSUME SpendConstants, Spend!IInv
    PROVE  Spend!TypeOK /\ Spend!SpendWithinWindow
<1>1. Spend!TypeOK
  BY BookkeepingTypes DEF Spend!IInv
<1>2. /\ \A d \in Spend!Dates : Spend!Within({d}, caps["day"])
      /\ \A m \in MonthStarts : Spend!Within(Spend!MonthFrom(m), caps["month"])
  BY DEF Spend!IInv, Spend!WindowsOK, Spend!WindowOK
<1> QED
  BY <1>1, <1>2 DEF Spend!SpendWithinWindow

(* With any caps the Fast Loops begun in a day or a month pay no more than *)
(* the cap and one run, but for what the ledger was not told or not asked. *)
THEOREM SpendHolds ==
    ASSUME SpendConstants
    PROVE  Spend!Spec => [](Spend!TypeOK /\ Spend!SpendWithinWindow)
<1>1. Spend!Init => Spend!IInv
  BY InitKeepsSpend
<1>2. Spend!IInv /\ [Spend!Next]_(Spend!vars) => Spend!IInv'
  BY NextKeepsSpend
<1>3. Spend!IInv => Spend!TypeOK /\ Spend!SpendWithinWindow
  BY IInvImpliesSpendWithinWindow
<1> QED
  BY <1>1, <1>2, <1>3, PTL DEF Spend!Spec

-----------------------------------------------------------------------------
(* FundamentalsRefresh: the weekly refresh of fundamentals.                *)

(* What the proofs assume of the constants: a run without a key does not   *)
(* begin.                                                                  *)
RefreshConstants ==
    /\ NCompanies \in Nat /\ DailyRequests \in Nat \ {0} /\ NApiKeys \in Nat \ {0}
    /\ None \notin Seq(Refresh!Companies)

LEMMA RequestsOfADay ==
    ASSUME RefreshConstants
    PROVE  /\ Refresh!FullQuota \in Nat \ {0} /\ Refresh!refresh_budget \in Nat
           /\ 2 * Refresh!refresh_budget <= Refresh!FullQuota
<1>1. Refresh!FullQuota \in Nat \ {0}
  BY DEF RefreshConstants, Refresh!FullQuota
<1> QED
  BY <1>1 DEF Refresh!refresh_budget

(* What the first of a sequence without repetitions leaves behind.         *)
LEMMA WithoutTheFirst ==
    ASSUME NEW s \in Seq(Refresh!Companies), Refresh!IsInjective(s), s # <<>>
    PROVE  /\ Head(s) \in Refresh!Companies
           /\ Tail(s) \in Seq(Refresh!Companies) /\ Refresh!IsInjective(Tail(s))
           /\ Len(s) \in Nat \ {0} /\ Len(Tail(s)) = Len(s) - 1
           /\ \A d \in Refresh!ToSet(Tail(s)) : d # Head(s) /\ d \in Refresh!ToSet(s)
           /\ \A c, d : Refresh!Before(c, d, s) /\ c # Head(s) => Refresh!Before(c, d, Tail(s))
<1>1. /\ Head(s) = s[1] /\ Len(s) \in Nat /\ Len(s) >= 1 /\ Tail(s) \in Seq(Refresh!Companies)
      /\ Len(Tail(s)) = Len(s) - 1 /\ \A i \in 1 .. Len(s) - 1 : Tail(s)[i] = s[i + 1]
      /\ s[1] \in Refresh!Companies
  OBVIOUS
<1>2. \A i, j \in 1 .. Len(s) : s[i] = s[j] => i = j
  BY DEF Refresh!IsInjective
<1>3. Refresh!IsInjective(Tail(s))
  <2> SUFFICES ASSUME NEW i \in 1 .. Len(Tail(s)), NEW j \in 1 .. Len(Tail(s)),
                      Tail(s)[i] = Tail(s)[j]
               PROVE  i = j
    BY <1>1 DEF Refresh!IsInjective
  <2>1. i + 1 \in 1 .. Len(s) /\ j + 1 \in 1 .. Len(s) /\ s[i + 1] = s[j + 1]
    BY <1>1
  <2> QED
    BY <1>2, <2>1
<1>4. ASSUME NEW d \in Refresh!ToSet(Tail(s)) PROVE d # Head(s) /\ d \in Refresh!ToSet(s)
  <2>1. PICK i \in 1 .. Len(s) - 1 : d = s[i + 1]
    BY <1>1 DEF Refresh!ToSet
  <2>2. i + 1 \in 1 .. Len(s) /\ 1 \in 1 .. Len(s) /\ i + 1 # 1
    BY <1>1
  <2> QED
    BY <1>1, <1>2, <2>1, <2>2 DEF Refresh!ToSet
<1>5. ASSUME NEW c, NEW d, Refresh!Before(c, d, s), c # Head(s)
      PROVE  Refresh!Before(c, d, Tail(s))
  <2>1. PICK i \in 1 .. Len(s), j \in 1 .. Len(s) : i < j /\ s[i] = c /\ s[j] = d
    BY <1>5 DEF Refresh!Before
  <2>2. i # 1
    BY <1>1, <1>5, <2>1
  <2>3. i - 1 \in 1 .. Len(Tail(s)) /\ j - 1 \in 1 .. Len(Tail(s)) /\ i - 1 < j - 1
    BY <1>1, <2>1, <2>2
  <2>4. Tail(s)[i - 1] = c /\ Tail(s)[j - 1] = d
    BY <1>1, <2>1, <2>3
  <2> QED
    BY <2>3, <2>4 DEF Refresh!Before
<1> QED
  BY <1>1, <1>3, <1>4, <1>5

(* A batch is the beginning of the order of the companies.                 *)
LEMMA TheFirstOnes ==
    ASSUME RefreshConstants, NEW order \in Seq(Refresh!Companies), Refresh!IsInjective(order)
    PROVE  /\ Refresh!First(order) \in Seq(Refresh!Companies)
           /\ Refresh!IsInjective(Refresh!First(order))
           /\ Len(Refresh!First(order)) <= Refresh!refresh_budget
           /\ \A c, d : Refresh!Before(c, d, order) /\ d \in Refresh!ToSet(Refresh!First(order))
                           => Refresh!Before(c, d, Refresh!First(order))
<1> DEFINE k == IF Refresh!refresh_budget < Len(order) THEN Refresh!refresh_budget ELSE Len(order)
           s == SubSeq(order, 1, k)
<1>1. k \in Nat /\ k <= Len(order) /\ k <= Refresh!refresh_budget /\ Len(order) \in Nat
  BY RequestsOfADay
<1>2. Refresh!First(order) = s
  BY DEF Refresh!First
<1> HIDE DEF k
<1>3. s \in Seq(Refresh!Companies) /\ Len(s) = k /\ \A i \in 1 .. k : s[i] = order[i]
  BY <1>1
<1>4. \A i, j \in 1 .. Len(order) : order[i] = order[j] => i = j
  BY DEF Refresh!IsInjective
<1> HIDE DEF s
<1>5. \A i \in 1 .. k : i \in 1 .. Len(order)
  BY <1>1
<1>6. Refresh!IsInjective(s)
  BY <1>3, <1>4, <1>5 DEF Refresh!IsInjective
<1>7. ASSUME NEW c, NEW d, Refresh!Before(c, d, order), d \in Refresh!ToSet(s)
      PROVE  Refresh!Before(c, d, s)
  <2>1. PICK i \in 1 .. Len(order), j \in 1 .. Len(order) : i < j /\ order[i] = c /\ order[j] = d
    BY <1>7 DEF Refresh!Before
  <2>2. PICK n \in 1 .. k : s[n] = d
    BY <1>3, <1>7 DEF Refresh!ToSet
  <2>3. n = j
    BY <1>3, <1>4, <1>5, <2>1, <2>2
  <2>4. i \in 1 .. k /\ j \in 1 .. k
    BY <1>1, <2>1, <2>2, <2>3
  <2> QED
    BY <1>3, <2>1, <2>4 DEF Refresh!Before
<1> QED
  BY <1>1, <1>2, <1>3, <1>6, <1>7

(* The companies without an entry come before the others, each once.       *)
LEMMA MissingFirst ==
    ASSUME RefreshConstants, entries \in Seq(Refresh!Companies), Refresh!IsInjective(entries),
           NEW missing \in Refresh!Missing
    PROVE  /\ missing \o entries \in Seq(Refresh!Companies)
           /\ Refresh!IsInjective(missing \o entries)
           /\ \A c, d \in Refresh!Companies :
                 d \in Refresh!Known /\ (c \in Refresh!Known => Refresh!Before(c, d, entries))
                    => Refresh!Before(c, d, missing \o entries)
<1> DEFINE without == Refresh!Companies \ Refresh!Known
           m == Refresh!Cardinality(without)
<1>1. m \in Nat
  <2>1. IsFiniteSet(Refresh!Companies)
    BY FS_Interval DEF RefreshConstants, Refresh!Companies
  <2>2. IsFiniteSet(without)
    BY <2>1, FS_Subset
  <2> QED
    BY <2>2, FS_CardinalityType DEF Refresh!Cardinality, Cardinality
<1>2. /\ missing \in [1 .. m -> without] /\ Refresh!ToSet(missing) = without
      /\ \A i, j \in DOMAIN missing : i < j => missing[i] < missing[j]
  BY DEF Refresh!Missing
<1> HIDE DEF m
<1>3. missing \in Seq(Refresh!Companies) /\ Len(missing) = m
  BY <1>1, <1>2
<1>4. \A i, j \in 1 .. m : missing[i] = missing[j] => i = j
  <2> SUFFICES ASSUME NEW i \in 1 .. m, NEW j \in 1 .. m, missing[i] = missing[j], i < j
               PROVE  FALSE
    BY <1>1
  <2>1. missing[i] < missing[j] /\ missing[i] \in Int
    BY <1>2 DEF Refresh!Companies
  <2> QED
    BY <2>1
<1> DEFINE order == missing \o entries
           n == Len(entries)
<1>5. /\ order \in Seq(Refresh!Companies) /\ Len(order) = m + n /\ n \in Nat
      /\ \A i \in 1 .. m : order[i] = missing[i]
      /\ \A i \in 1 .. n : order[m + i] = entries[i]
  BY <1>1, <1>3
<1>6. \A i, j \in 1 .. n : entries[i] = entries[j] => i = j
  BY DEF Refresh!IsInjective
<1>7. (\A i \in 1 .. m : missing[i] \notin Refresh!Known) /\ \A i \in 1 .. n : entries[i] \in Refresh!Known
  BY <1>2 DEF Refresh!Known, Refresh!ToSet
<1>11. \A i \in 1 .. m + n : i \in 1 .. m \/ (i - m \in 1 .. n /\ order[i] = entries[i - m])
  <2> SUFFICES ASSUME NEW i \in 1 .. m + n, i \notin 1 .. m
               PROVE  i - m \in 1 .. n /\ order[i] = entries[i - m]
    OBVIOUS
  <2>1. i - m \in 1 .. n /\ m + (i - m) = i
    BY <1>1, <1>5
  <2> HIDE DEF order
  <2> QED
    BY <1>5, <2>1
<1> HIDE DEF order, without
<1>8. Refresh!IsInjective(order)
  <2> SUFFICES ASSUME NEW i \in 1 .. m + n, NEW j \in 1 .. m + n, order[i] = order[j]
               PROVE  i = j
    BY <1>5 DEF Refresh!IsInjective
  <2>1. CASE i \in 1 .. m /\ j \in 1 .. m
    BY <1>4, <1>5, <2>1
  <2>2. CASE i - m \in 1 .. n /\ order[i] = entries[i - m] /\ j - m \in 1 .. n
             /\ order[j] = entries[j - m]
    <3>1. i - m = j - m
      BY <1>6, <2>2
    <3> QED
      BY <1>1, <3>1
  <2>3. CASE i \in 1 .. m /\ j - m \in 1 .. n /\ order[j] = entries[j - m]
    BY <1>5, <1>7, <2>3
  <2>4. CASE j \in 1 .. m /\ i - m \in 1 .. n /\ order[i] = entries[i - m]
    BY <1>5, <1>7, <2>4
  <2> QED
    BY <1>11, <2>1, <2>2, <2>3, <2>4
<1>9. ASSUME NEW c \in Refresh!Companies, NEW d \in Refresh!Companies, d \in Refresh!Known,
             c \in Refresh!Known => Refresh!Before(c, d, entries)
      PROVE  Refresh!Before(c, d, order)
  <2>1. CASE c \in Refresh!Known
    <3>1. PICK i \in 1 .. n, j \in 1 .. n : i < j /\ entries[i] = c /\ entries[j] = d
      BY <1>9, <2>1 DEF Refresh!Before
    <3>2. m + i \in 1 .. m + n /\ m + j \in 1 .. m + n /\ m + i < m + j
      BY <1>1, <1>5, <3>1
    <3> QED
      BY <1>5, <3>1, <3>2 DEF Refresh!Before
  <2>2. CASE c \notin Refresh!Known
    <3>1. PICK i \in 1 .. m : missing[i] = c
      BY <1>2, <2>2 DEF Refresh!ToSet, without
    <3>2. PICK j \in 1 .. n : entries[j] = d
      BY <1>9 DEF Refresh!Known, Refresh!ToSet
    <3>3. i \in 1 .. m + n /\ m + j \in 1 .. m + n /\ i < m + j
      BY <1>1, <1>5, <3>1, <3>2
    <3> QED
      BY <1>5, <3>1, <3>2, <3>3 DEF Refresh!Before
  <2> QED
    BY <2>1, <2>2
<1> QED
  BY <1>5, <1>8, <1>9 DEF order

(* The entry of a company that is saved again goes to the end.             *)
LEMMA SavedLast ==
    ASSUME entries \in Seq(Refresh!Companies), Refresh!IsInjective(entries),
           Refresh!company \in Refresh!Companies
    PROVE  LET saved == Append(Refresh!Others, Refresh!company)
           IN  /\ saved \in Seq(Refresh!Companies) /\ Refresh!IsInjective(saved)
               /\ Len(saved) = IF Refresh!company \in Refresh!Known THEN Len(entries)
                               ELSE Len(entries) + 1
               /\ Refresh!ToSet(saved) = Refresh!Known \cup {Refresh!company}
               /\ \A c, d : Refresh!Before(c, d, entries) /\ c # Refresh!company
                               /\ d # Refresh!company
                               => Refresh!Before(c, d, saved)
               /\ \A c \in Refresh!Known : c # Refresh!company
                               => Refresh!Before(c, Refresh!company, saved)
<1> DEFINE x == Refresh!company
           n == Len(entries)
           saved == Append(Refresh!Others, x)
<1>1. /\ n \in Nat /\ \A i \in 1 .. n : entries[i] \in Refresh!Companies
      /\ \A i, j \in 1 .. n : entries[i] = entries[j] => i = j
      /\ Refresh!Known = {entries[i] : i \in 1 .. n}
  BY DEF Refresh!IsInjective, Refresh!Known, Refresh!ToSet
<1>2. CASE x \notin Refresh!Known
  <2>1. /\ saved = Append(entries, x) /\ Len(saved) = n + 1 /\ saved \in Seq(Refresh!Companies)
        /\ \A i \in 1 .. n : saved[i] = entries[i]
        /\ saved[n + 1] = x
    BY <1>2 DEF Refresh!Others
  <2> HIDE DEF saved, x
  <2>2. \A i \in 1 .. n + 1 : i \in 1 .. n \/ i = n + 1
    BY <1>1
  <2>8. 1 .. n \subseteq 1 .. n + 1 /\ n + 1 \in 1 .. n + 1
    BY <1>1
  <2>3. \A i \in 1 .. n : entries[i] # x
    BY <1>1, <1>2
  <2>4. Refresh!IsInjective(saved)
    <3> SUFFICES ASSUME NEW i \in 1 .. n + 1, NEW j \in 1 .. n + 1, saved[i] = saved[j]
                 PROVE  i = j
      BY <2>1 DEF Refresh!IsInjective
    <3> QED
      BY <1>1, <2>1, <2>2, <2>3
  <2>5. Refresh!ToSet(saved) = Refresh!Known \cup {x}
    <3>1. DOMAIN saved = 1 .. n + 1
      BY <2>1
    <3> QED
      BY <1>1, <2>1, <2>2, <2>8, <3>1 DEF Refresh!ToSet
  <2>6. ASSUME NEW c, NEW d, Refresh!Before(c, d, entries) PROVE Refresh!Before(c, d, saved)
    <3>1. PICK i \in 1 .. n, j \in 1 .. n : i < j /\ entries[i] = c /\ entries[j] = d
      BY <2>6 DEF Refresh!Before
    <3> QED
      BY <2>1, <2>8, <3>1 DEF Refresh!Before
  <2>7. ASSUME NEW c \in Refresh!Known PROVE Refresh!Before(c, x, saved)
    <3>1. PICK i \in 1 .. n : entries[i] = c
      BY <1>1
    <3>2. i < n + 1
      BY <1>1
    <3> QED
      BY <2>1, <2>8, <3>1, <3>2 DEF Refresh!Before
  <2> QED
    BY <1>2, <2>1, <2>4, <2>5, <2>6, <2>7 DEF saved, x
<1>3. CASE x \in Refresh!Known
  <2> DEFINE k == CHOOSE i \in 1 .. n : entries[i] = x
  <2>1. k \in 1 .. n /\ entries[k] = x
    BY <1>1, <1>3
  <2>2. Refresh!Others = SubSeq(entries, 1, k - 1) \o SubSeq(entries, k + 1, n)
    BY <1>3 DEF Refresh!Others, Refresh!RemoveAt
  <2> HIDE DEF k, x
  <2> DEFINE front == SubSeq(entries, 1, k - 1)
             back == SubSeq(entries, k + 1, n)
  <2>3. /\ front \in Seq(Refresh!Companies) /\ Len(front) = k - 1
        /\ \A i \in 1 .. k - 1 : front[i] = entries[i]
    BY <1>1, <2>1
  <2>4. /\ back \in Seq(Refresh!Companies) /\ Len(back) = n - k
        /\ \A i \in 1 .. n - k : back[i] = entries[i + k]
    BY <1>1, <2>1
  <2> HIDE DEF front, back
  <2>5. /\ front \o back \in Seq(Refresh!Companies) /\ Len(front \o back) = n - 1
        /\ \A i \in 1 .. k - 1 : (front \o back)[i] = entries[i]
        /\ \A i \in k .. n - 1 : (front \o back)[i] = entries[i + 1]
    <3>1. front \o back \in Seq(Refresh!Companies) /\ Len(front \o back) = n - 1
      <4>1. front \o back \in Seq(Refresh!Companies) /\ Len(front \o back) = Len(front) + Len(back)
        <5>1. front \o back \in Seq(Refresh!Companies)
          BY <2>3, <2>4
        <5>2. front \in Seq(Refresh!Companies) /\ back \in Seq(Refresh!Companies)
                 => Len(front \o back) = Len(front) + Len(back)
          OBVIOUS
        <5> QED
          BY <2>3, <2>4, <5>1, <5>2
      <4>2. (k - 1) + (n - k) = n - 1
        BY <1>1, <2>1
      <4> QED
        BY <2>3, <2>4, <4>1, <4>2
    <3>2. \A i \in 1 .. k - 1 : (front \o back)[i] = entries[i]
      BY <1>1, <2>1, <2>3, <2>4
    <3>3. ASSUME NEW i \in k .. n - 1 PROVE (front \o back)[i] = entries[i + 1]
      <4>1. i - (k - 1) \in 1 .. n - k /\ i - (k - 1) + k = i + 1 /\ i \in 1 .. n - 1 /\ i > k - 1
        <5>1. n \in Nat /\ k \in Nat /\ 1 <= k /\ k <= n /\ i \in Int /\ k <= i /\ i <= n - 1
          BY <1>1, <2>1
        <5> HIDE DEF n
        <5> QED
          BY <5>1
      <4>2. (front \o back)[i] = back[i - (k - 1)]
        BY <1>1, <2>1, <2>3, <2>4, <4>1
      <4> QED
        BY <2>4, <4>1, <4>2
    <3> QED
      BY <3>1, <3>2, <3>3
  <2>6. /\ saved \in Seq(Refresh!Companies) /\ Len(saved) = n
        /\ \A i \in 1 .. k - 1 : saved[i] = entries[i]
        /\ \A i \in k .. n - 1 : saved[i] = entries[i + 1]
        /\ saved[n] = x
    <3>1. saved = Append(front \o back, x)
      BY <2>2 DEF front, back, x
    <3> HIDE DEF saved
    <3>2. saved \in Seq(Refresh!Companies) /\ Len(saved) = n /\ saved[n] = x
      BY <1>1, <2>1, <2>5, <3>1 DEF x
    <3>3. \A i \in 1 .. n - 1 : saved[i] = (front \o back)[i]
      BY <1>1, <2>1, <2>5, <3>1
    <3>4. 1 .. k - 1 \subseteq 1 .. n - 1 /\ k .. n - 1 \subseteq 1 .. n - 1
      BY <1>1, <2>1
    <3> QED
      BY <2>5, <3>2, <3>3, <3>4
  <2> HIDE DEF saved
  <2> DEFINE old == [i \in 1 .. n |-> IF i < k THEN i ELSE IF i < n THEN i + 1 ELSE k]
             new == [i \in 1 .. n |-> IF i < k THEN i ELSE IF i = k THEN n ELSE i - 1]
  <2>7. \A i \in 1 .. n : old[i] \in 1 .. n /\ saved[i] = entries[old[i]]
    <3> SUFFICES ASSUME NEW i \in 1 .. n
                 PROVE  old[i] \in 1 .. n /\ saved[i] = entries[old[i]]
      OBVIOUS
    <3>1. CASE i < k
      BY <1>1, <2>1, <2>6, <3>1
    <3>2. CASE ~ (i < k) /\ i < n
      BY <1>1, <2>1, <2>6, <3>2
    <3>3. CASE ~ (i < k) /\ ~ (i < n)
      <4>1. i = n /\ old[i] = k
        BY <1>1, <2>1, <3>3
      <4> QED
        BY <2>1, <2>6, <4>1
    <3> QED
      BY <3>1, <3>2, <3>3
  <2>8. \A i \in 1 .. n : new[i] \in 1 .. n /\ old[new[i]] = i
    BY <1>1, <2>1
  <2>10. \A i, j \in 1 .. n : i < j /\ i # k /\ j # k => new[i] < new[j]
    BY <1>1, <2>1
  <2>11. \A i \in 1 .. n : i # k => new[i] < n
    BY <1>1, <2>1
  <2>12. \A i, j \in 1 .. n : old[i] = old[j] => i = j
    BY <1>1, <2>1
  <2> HIDE DEF old, new
  <2>9. \A i \in 1 .. n : saved[new[i]] = entries[i]
    BY <2>7, <2>8
  <2>13. Refresh!IsInjective(saved)
    <3>1. DOMAIN saved = 1 .. n
      BY <2>6
    <3> QED
      BY <1>1, <2>7, <2>12, <3>1 DEF Refresh!IsInjective
  <2>14. Refresh!ToSet(saved) = Refresh!Known \cup {x}
    <3>1. DOMAIN saved = 1 .. n
      BY <2>6
    <3>2. \A c \in Refresh!Known : \E i \in 1 .. n : saved[i] = c
      BY <1>1, <2>8, <2>9
    <3>3. \A i \in 1 .. n : saved[i] \in Refresh!Known
      BY <1>1, <2>7
    <3> QED
      BY <1>3, <3>1, <3>2, <3>3 DEF Refresh!ToSet
  <2>15. ASSUME NEW c, NEW d, Refresh!Before(c, d, entries), c # x, d # x
         PROVE  Refresh!Before(c, d, saved)
    <3>1. PICK i \in 1 .. n, j \in 1 .. n : i < j /\ entries[i] = c /\ entries[j] = d
      BY <2>15 DEF Refresh!Before
    <3>2. i # k /\ j # k
      BY <2>1, <2>15, <3>1
    <3>3. new[i] \in 1 .. n /\ new[j] \in 1 .. n /\ new[i] < new[j] /\ saved[new[i]] = c
          /\ saved[new[j]] = d
      BY <2>8, <2>9, <2>10, <3>1, <3>2
    <3> QED
      BY <2>6, <3>3 DEF Refresh!Before
  <2>16. ASSUME NEW c \in Refresh!Known, c # x PROVE Refresh!Before(c, x, saved)
    <3>1. PICK i \in 1 .. n : entries[i] = c
      BY <1>1
    <3>2. new[i] \in 1 .. n /\ new[i] < n /\ saved[new[i]] = c
      BY <2>1, <2>8, <2>9, <2>11, <2>16, <3>1
    <3>3. n \in 1 .. n
      BY <1>1, <2>1
    <3> QED
      BY <2>6, <3>2, <3>3 DEF Refresh!Before
  <2> QED
    BY <1>3, <2>6, <2>13, <2>14, <2>15, <2>16 DEF saved, x
<1> QED
  BY <1>2, <1>3

-----------------------------------------------------------------------------
LEMMA InitKeepsRefresh == RefreshConstants /\ Refresh!Init => Refresh!IInv
<1> SUFFICES ASSUME RefreshConstants, Refresh!Init PROVE Refresh!IInv
  OBVIOUS
<1>1. /\ entries = <<>> /\ n_fresh = 0 /\ quota = Refresh!FullQuota /\ batch = None
      /\ keys_gone = FALSE /\ aged = TRUE /\ first_run = FALSE
      /\ waiting = [c \in Refresh!Companies |-> {}] /\ overtaken = {}
  BY DEF Refresh!Init
<1>2. /\ <<>> \in Seq(Refresh!Companies) /\ Refresh!IsInjective(<<>>) /\ 0 \in 0 .. Len(<<>>)
  BY DEF Refresh!IsInjective
<1>3. Refresh!WaitingOK /\ Refresh!BatchOK
  BY <1>1 DEF Refresh!WaitingOK, Refresh!BatchOK
<1>4. Refresh!FullQuota \in Nat
  BY RequestsOfADay
<1>5. entries \in Seq(Refresh!Companies) /\ n_fresh \in 0 .. Len(entries)
      /\ Refresh!IsInjective(entries)
  BY <1>1, <1>2
<1>6. waiting \in [Refresh!Companies -> SUBSET Refresh!Companies]
  BY <1>1
<1>7. quota \in 0 .. Refresh!FullQuota
  BY <1>1, <1>4
<1>8. {aged, first_run, keys_gone} \subseteq BOOLEAN /\ (aged => overtaken = {})
  BY <1>1
<1> QED
  BY <1>3, <1>5, <1>6, <1>7, <1>8 DEF Refresh!IInv

(* The cache and its history at the end of a step that saves nothing.      *)
LEMMA NothingSaved ==
    ASSUME Refresh!IInv, entries' = entries, waiting' \in [Refresh!Companies -> SUBSET Refresh!Companies],
           \A c \in Refresh!Companies : waiting'[c] \subseteq waiting[c]
    PROVE  Refresh!WaitingOK'
BY DEF Refresh!IInv, Refresh!WaitingOK, Refresh!Known, Refresh!Before, Refresh!Companies, Refresh!ToSet

(* What is left of the batch after a company had its turn.                 *)
LEMMA NextOfTheBatch ==
    ASSUME Refresh!IInv, Refresh!Asking
    PROVE  /\ batch \in Seq(Refresh!Companies) /\ Refresh!company \in Refresh!Companies
           /\ Tail(batch) \in Seq(Refresh!Companies) /\ Refresh!IsInjective(Tail(batch))
           /\ Len(batch) \in Nat \ {0} /\ Len(Tail(batch)) = Len(batch) - 1
           /\ Refresh!company \in Refresh!ToSet(batch)
           /\ \A d \in Refresh!ToSet(Tail(batch)) : d # Refresh!company /\ d \in Refresh!ToSet(batch)
           /\ \A c, d : Refresh!Before(c, d, batch) /\ c # Refresh!company
                           => Refresh!Before(c, d, Tail(batch))
           /\ \A c : ~ Refresh!Before(c, Refresh!company, batch)
<1>1. batch # None /\ batch # <<>> /\ batch \in Seq(Refresh!Companies) /\ Refresh!IsInjective(batch)
  BY DEF Refresh!IInv, Refresh!BatchOK, Refresh!Asking
<1>2. Len(batch) \in Nat /\ Len(batch) >= 1 /\ Head(batch) = batch[1]
  BY <1>1
<1>3. Head(batch) \in Refresh!ToSet(batch)
  BY <1>1, <1>2 DEF Refresh!ToSet
<1>4. ASSUME NEW c, Refresh!Before(c, Head(batch), batch) PROVE FALSE
  <2>1. PICK i \in 1 .. Len(batch), j \in 1 .. Len(batch) : i < j /\ batch[j] = batch[1]
    BY <1>2, <1>4 DEF Refresh!Before
  <2>2. 1 \in 1 .. Len(batch)
    BY <1>2
  <2>3. j = 1
    BY <1>1, <2>1, <2>2 DEF Refresh!IsInjective
  <2> QED
    BY <1>2, <2>1, <2>3
<1> QED
  BY <1>1, <1>3, <1>4, WithoutTheFirst DEF Refresh!company

(* The batch stays in the order of the turns when a company had its own.   *)
LEMMA TurnsInBatch ==
    ASSUME Refresh!IInv, Refresh!Asking, batch' = Tail(batch), None \notin Seq(Refresh!Companies),
           waiting' \in [Refresh!Companies -> SUBSET Refresh!Companies],
           aged' = aged, first_run' = first_run, keys_gone' \in BOOLEAN,
           aged /\ ~keys_gone' =>
              /\ ~keys_gone /\ waiting'[Refresh!company] = {}
              /\ \A c \in Refresh!Companies : waiting'[c] \subseteq waiting[c] \cup {Refresh!company},
           first_run => quota' >= 2 * (Len(batch) - 1) /\ (keys_gone' => quota' >= 2)
    PROVE  Refresh!BatchOK'
<1>1. batch' \in Seq(Refresh!Companies) /\ batch' # None /\ Refresh!IsInjective(batch')
      /\ Len(batch') = Len(batch) - 1
  BY NextOfTheBatch
<1>2. ASSUME aged, ~keys_gone', NEW c \in Refresh!Companies, NEW d \in Refresh!Companies,
             d \in waiting'[c], d \in Refresh!ToSet(batch')
      PROVE  Refresh!Before(c, d, batch')
  <2>1. d # Refresh!company /\ d \in Refresh!ToSet(batch)
    BY <1>2, NextOfTheBatch
  <2>2. c # Refresh!company /\ d \in waiting[c] /\ ~ keys_gone
    BY <1>2, <2>1
  <2>3. Refresh!Before(c, d, batch)
    BY <1>2, <2>1, <2>2 DEF Refresh!IInv, Refresh!BatchOK, Refresh!Asking
  <2> QED
    BY <2>2, <2>3, NextOfTheBatch
<1>3. aged' /\ ~keys_gone' =>
         \A c, d \in Refresh!Companies :
            d \in waiting'[c] /\ d \in Refresh!ToSet(batch') => Refresh!Before(c, d, batch')
  BY <1>2
<1>4. first_run' => quota' >= 2 * Len(batch') /\ (keys_gone' => quota' >= 2)
  BY <1>1
<1> QED
  BY <1>1, <1>3, <1>4 DEF Refresh!BatchOK, Refresh!Companies, Refresh!IsInjective, Refresh!ToSet, Refresh!Before

(* A step that neither asks nor saves.                                     *)
LEMMA SameCache ==
    ASSUME Refresh!IInv, entries' = entries, n_fresh' = n_fresh, quota' \in 0 .. Refresh!FullQuota,
           waiting' \in [Refresh!Companies -> SUBSET Refresh!Companies],
           \A c \in Refresh!Companies : waiting'[c] \subseteq waiting[c],
           {aged', first_run', keys_gone'} \subseteq BOOLEAN, aged' => overtaken' = {},
           Refresh!BatchOK'
    PROVE  Refresh!IInv'
<1>1. Refresh!WaitingOK'
  BY NothingSaved DEF Refresh!IInv
<1> QED
  BY <1>1 DEF Refresh!IInv, Refresh!Companies, Refresh!FullQuota, Refresh!IsInjective

LEMMA RunBegins ==
    ASSUME RefreshConstants, Refresh!IInv, NEW order \in Seq(Refresh!Companies),
           Refresh!IsInjective(order), NEW ages_read \in BOOLEAN,
           Refresh!Start(Refresh!First(order), ages_read),
           ages_read => \A c, d \in Refresh!Companies :
                           d \in waiting[c] => Refresh!Before(c, d, order)
    PROVE  Refresh!IInv'
<1>1. /\ batch' = Refresh!First(order) /\ keys_gone' = FALSE /\ aged' = ages_read
      /\ first_run' = (quota = Refresh!FullQuota) /\ overtaken' = {}
      /\ waiting' = IF ages_read THEN waiting ELSE [c \in Refresh!Companies |-> {}]
      /\ entries' = entries /\ n_fresh' = n_fresh /\ quota' = quota
  BY DEF Refresh!Start
<1>2. /\ batch' \in Seq(Refresh!Companies) /\ Refresh!IsInjective(batch') /\ batch' # None
      /\ Len(batch') <= Refresh!refresh_budget /\ Len(batch') \in Nat
  BY <1>1, TheFirstOnes DEF RefreshConstants
<1>3. ages_read => \A c, d \in Refresh!Companies :
                      d \in waiting'[c] /\ d \in Refresh!ToSet(batch') => Refresh!Before(c, d, batch')
  BY <1>1, TheFirstOnes
<1>4. first_run' => quota' >= 2 * Len(batch')
  <2>1. first_run' => quota' = Refresh!FullQuota
    BY <1>1
  <2>2. 2 * Len(batch') <= Refresh!FullQuota
    BY <1>2, RequestsOfADay
  <2> QED
    BY <1>2, <2>1, <2>2, RequestsOfADay
<1>5. Refresh!BatchOK'
  BY <1>1, <1>2, <1>3, <1>4
  DEF Refresh!BatchOK, Refresh!Companies, Refresh!IsInjective, Refresh!ToSet, Refresh!Before
<1>6. /\ waiting' \in [Refresh!Companies -> SUBSET Refresh!Companies]
      /\ \A c \in Refresh!Companies : waiting'[c] \subseteq waiting[c]
      /\ quota' \in 0 .. Refresh!FullQuota
  BY <1>1 DEF Refresh!IInv
<1> QED
  BY <1>1, <1>5, <1>6, SameCache

LEMMA StartsKeepRefresh ==
    ASSUME RefreshConstants, Refresh!IInv, Refresh!StartRun \/ Refresh!StartWithoutAges
    PROVE  Refresh!IInv'
<1>1. entries \in Seq(Refresh!Companies) /\ Refresh!IsInjective(entries) /\ Refresh!WaitingOK
  BY DEF Refresh!IInv
<1>2. CASE Refresh!StartRun
  <2>1. PICK missing \in Refresh!Missing : Refresh!Start(Refresh!Batch(missing), TRUE)
    BY <1>2 DEF Refresh!StartRun
  <2>2. /\ missing \o entries \in Seq(Refresh!Companies)
        /\ Refresh!IsInjective(missing \o entries)
        /\ \A c, d \in Refresh!Companies :
              d \in waiting[c] => Refresh!Before(c, d, missing \o entries)
    BY <1>1, MissingFirst DEF Refresh!WaitingOK
  <2>3. Refresh!Start(Refresh!First(missing \o entries), TRUE)
    BY <2>1 DEF Refresh!Batch
  <2> QED
    BY <2>2, <2>3, RunBegins
<1>3. CASE Refresh!StartWithoutAges
  <2> DEFINE order == [i \in Refresh!Companies |-> i]
  <2>1. order \in Seq(Refresh!Companies) /\ Refresh!IsInjective(order)
    BY DEF Refresh!Companies, Refresh!IsInjective, RefreshConstants
  <2>2. Refresh!Start(Refresh!First(order), FALSE)
    BY <1>3 DEF Refresh!StartWithoutAges, Refresh!BatchWithoutAges
  <2> HIDE DEF order
  <2> QED
    BY <2>1, <2>2, RunBegins
<1> QED
  BY <1>2, <1>3

(* The turn of a company without a save.                                   *)
LEMMA TurnsKeepRefresh ==
    ASSUME RefreshConstants, Refresh!IInv,
           \/ Refresh!Cached \/ Refresh!NoEntry \/ Refresh!KeysUnavailable \/ Refresh!NotAsked
    PROVE  Refresh!IInv'
<1>1. /\ Refresh!Asking /\ batch' = Tail(batch) /\ entries' = entries /\ n_fresh' = n_fresh
      /\ aged' = aged /\ first_run' = first_run /\ overtaken' = overtaken
      /\ \/ keys_gone' = keys_gone /\ waiting' = Refresh!TurnCame
         \/ keys_gone' = TRUE /\ waiting' = waiting
      /\ \/ quota' = quota
         \/ ~keys_gone /\ keys_gone' = TRUE /\ quota < 2 /\ quota' = 0
         \/ /\ ~keys_gone /\ keys_gone' = keys_gone
            /\ \E used \in 1 .. 2 : quota >= used /\ quota' = quota - used
  <2>1. CASE Refresh!Cached
    BY <2>1 DEF Refresh!Cached
  <2>2. CASE Refresh!NoEntry
    BY <2>2 DEF Refresh!NoEntry
  <2>3. CASE Refresh!KeysUnavailable
    BY <2>3 DEF Refresh!KeysUnavailable
  <2>4. CASE Refresh!NotAsked
    <3>1. keys_gone \in BOOLEAN
      BY DEF Refresh!IInv
    <3> QED
      BY <2>4, <3>1 DEF Refresh!NotAsked
  <2> QED
    BY <2>1, <2>2, <2>3, <2>4
<1>2. /\ waiting \in [Refresh!Companies -> SUBSET Refresh!Companies] /\ quota \in 0 .. Refresh!FullQuota
      /\ {aged, first_run, keys_gone} \subseteq BOOLEAN /\ (aged => overtaken = {})
      /\ first_run => quota >= 2 * Len(batch) /\ (keys_gone => quota >= 2)
      /\ Len(batch) \in Nat /\ Len(batch) >= 1
      /\ Refresh!company \in Refresh!Companies
      /\ Refresh!FullQuota \in Nat
  BY <1>1, NextOfTheBatch, RequestsOfADay DEF Refresh!IInv, Refresh!BatchOK, Refresh!Asking
<1>3. /\ waiting' \in [Refresh!Companies -> SUBSET Refresh!Companies]
      /\ \A c \in Refresh!Companies : waiting'[c] \subseteq waiting[c]
  BY <1>1, <1>2 DEF Refresh!TurnCame
<1>4. quota' \in 0 .. Refresh!FullQuota
  BY <1>1, <1>2
<1>5. first_run => quota' >= 2 * (Len(batch) - 1) /\ (keys_gone' => quota' >= 2)
  BY <1>1, <1>2
<1>6. ~keys_gone' => ~keys_gone /\ waiting'[Refresh!company] = {}
  BY <1>1, <1>2 DEF Refresh!TurnCame
<1>7. keys_gone' \in BOOLEAN /\ {aged', first_run', keys_gone'} \subseteq BOOLEAN
  BY <1>1, <1>2
<1>8. Refresh!BatchOK'
  BY <1>1, <1>3, <1>5, <1>6, <1>7, TurnsInBatch DEF RefreshConstants
<1> QED
  BY <1>1, <1>2, <1>3, <1>4, <1>7, <1>8, SameCache

(* A company is saved.                                                     *)
LEMMA SaveKeepsRefresh ==
    ASSUME RefreshConstants, Refresh!IInv, Refresh!Refresh
    PROVE  Refresh!IInv'
<1> DEFINE x == Refresh!company
           saved == Append(Refresh!Others, x)
<1>1. /\ Refresh!Asking /\ x \notin Refresh!Fresh /\ ~keys_gone /\ quota >= 2
      /\ entries' = saved /\ n_fresh' = n_fresh + 1 /\ quota' = quota - 2
      /\ batch' = Tail(batch) /\ keys_gone' = keys_gone /\ aged' = aged /\ first_run' = first_run
      /\ waiting' = [c \in Refresh!Companies |->
                        IF c = x THEN {} ELSE waiting[c] \cup {x}]
      /\ overtaken' = {c \in Refresh!Companies : x \in Refresh!TurnCame[c]}
  BY DEF Refresh!Refresh
<1>2. /\ entries \in Seq(Refresh!Companies) /\ Refresh!IsInjective(entries)
      /\ n_fresh \in 0 .. Len(entries) /\ quota \in 0 .. Refresh!FullQuota
      /\ waiting \in [Refresh!Companies -> SUBSET Refresh!Companies]
      /\ {aged, first_run, keys_gone} \subseteq BOOLEAN
      /\ Refresh!WaitingOK /\ Refresh!BatchOK
  BY DEF Refresh!IInv
<1>3. /\ x \in Refresh!Companies /\ Len(batch) \in Nat /\ Len(batch) >= 1
      /\ x \in Refresh!ToSet(batch) /\ \A c : ~ Refresh!Before(c, x, batch)
      /\ Refresh!FullQuota \in Nat
  BY <1>1, NextOfTheBatch, RequestsOfADay
<1>4. /\ saved \in Seq(Refresh!Companies) /\ Refresh!IsInjective(saved)
      /\ Len(saved) = IF x \in Refresh!Known THEN Len(entries) ELSE Len(entries) + 1
      /\ Refresh!ToSet(saved) = Refresh!Known \cup {x}
      /\ \A c, d : Refresh!Before(c, d, entries) /\ c # x /\ d # x => Refresh!Before(c, d, saved)
      /\ \A c \in Refresh!Known : c # x => Refresh!Before(c, x, saved)
  BY <1>2, <1>3, SavedLast
<1>5. n_fresh' \in 0 .. Len(saved)
  <2>1. x \in Refresh!Known => n_fresh # Len(entries)
    <3> SUFFICES ASSUME x \in Refresh!Known, n_fresh = Len(entries) PROVE FALSE
      OBVIOUS
    <3>1. PICK i \in 1 .. Len(entries) : entries[i] = x
      BY DEF Refresh!Known, Refresh!ToSet
    <3>2. i \in (Len(entries) - n_fresh + 1) .. Len(entries)
      BY <1>2, <3>1
    <3> QED
      BY <1>1, <3>1, <3>2 DEF Refresh!Fresh
  <2> HIDE DEF saved, x
  <2> QED
    BY <1>1, <1>2, <1>4, <2>1
<1> HIDE DEF saved
<1>6. waiting' \in [Refresh!Companies -> SUBSET Refresh!Companies] /\ quota' \in 0 .. Refresh!FullQuota
  BY <1>1, <1>2, <1>3
<1>7. Refresh!WaitingOK'
  <2> SUFFICES ASSUME NEW c \in Refresh!Companies, NEW d \in Refresh!Companies, d \in waiting'[c]
               PROVE  /\ c # d /\ d \in Refresh!ToSet(saved)
                      /\ c \in Refresh!ToSet(saved) => Refresh!Before(c, d, saved)
    BY <1>1 DEF Refresh!WaitingOK, Refresh!Companies, Refresh!Known, Refresh!ToSet, Refresh!Before
  <2>1. c # x /\ (d = x \/ d \in waiting[c])
    BY <1>1, <1>3
  <2>2. CASE d = x
    BY <1>4, <2>1, <2>2
  <2>3. CASE d # x
    <3>1. c # d /\ d \in Refresh!Known /\ (c \in Refresh!Known => Refresh!Before(c, d, entries))
      BY <1>2, <2>1, <2>3 DEF Refresh!WaitingOK
    <3> QED
      BY <1>4, <2>1, <2>3, <3>1
  <2> QED
    BY <2>2, <2>3
<1>8. aged' => overtaken' = {}
  <2> SUFFICES ASSUME aged, NEW c \in Refresh!Companies, x \in Refresh!TurnCame[c] PROVE FALSE
    BY <1>1
  <2>1. c # x /\ x \in waiting[c]
    BY <1>2, <1>3 DEF Refresh!TurnCame
  <2>2. Refresh!Before(c, x, batch)
    BY <1>1, <1>2, <1>3, <2>1 DEF Refresh!BatchOK, Refresh!Asking
  <2> QED
    BY <1>3, <2>2
<1>9. Refresh!BatchOK'
  <2>1. waiting'[x] = {} /\ \A c \in Refresh!Companies : waiting'[c] \subseteq waiting[c] \cup {x}
    BY <1>1, <1>3
  <2>2. first_run => quota' >= 2 * (Len(batch) - 1)
    BY <1>1, <1>2, <1>3 DEF Refresh!BatchOK, Refresh!Asking
  <2>3. keys_gone' \in BOOLEAN
    BY <1>1, <1>2
  <2> QED
    BY <1>1, <1>6, <2>1, <2>2, <2>3, TurnsInBatch DEF RefreshConstants
<1> QED
  BY <1>1, <1>2, <1>4, <1>5, <1>6, <1>7, <1>8, <1>9
  DEF Refresh!IInv, Refresh!Companies, Refresh!FullQuota, Refresh!IsInjective

LEMMA NextKeepsRefresh ==
    RefreshConstants /\ Refresh!IInv /\ [Refresh!Next]_(Refresh!vars) => Refresh!IInv'
<1> SUFFICES ASSUME RefreshConstants, Refresh!IInv, [Refresh!Next]_(Refresh!vars)
             PROVE  Refresh!IInv'
  OBVIOUS
<1>1. CASE Refresh!NewDay
  <2>1. /\ batch = None /\ n_fresh' \in 0 .. n_fresh
        /\ quota' \in {Refresh!FullQuota - 1, Refresh!FullQuota}
        /\ entries' = entries /\ batch' = batch /\ keys_gone' = keys_gone /\ aged' = aged
        /\ first_run' = first_run /\ waiting' = waiting /\ overtaken' = overtaken
    BY <1>1 DEF Refresh!NewDay
  <2>2. quota' \in 0 .. Refresh!FullQuota
    BY <2>1, RequestsOfADay
  <2>3. n_fresh' \in 0 .. Len(entries)
    BY <2>1 DEF Refresh!IInv
  <2>4. Refresh!WaitingOK'
    BY <2>1, NothingSaved DEF Refresh!IInv
  <2>5. Refresh!BatchOK'
    BY <2>1 DEF Refresh!IInv, Refresh!BatchOK
  <2> QED
    BY <2>1, <2>2, <2>3, <2>4, <2>5
    DEF Refresh!IInv, Refresh!Companies, Refresh!FullQuota, Refresh!IsInjective
<1>2. CASE Refresh!StartRun \/ Refresh!StartWithoutAges
  BY <1>2, StartsKeepRefresh
<1>3. CASE \/ Refresh!Cached \/ Refresh!NoEntry \/ Refresh!KeysUnavailable \/ Refresh!NotAsked
  BY <1>3, TurnsKeepRefresh
<1>4. CASE Refresh!Refresh
  BY <1>4, SaveKeepsRefresh
<1>5. CASE Refresh!End
  <2>1. /\ batch' = None /\ aged' = TRUE /\ keys_gone' = FALSE /\ first_run' = FALSE
        /\ waiting' = IF aged THEN waiting ELSE [c \in Refresh!Companies |-> {}]
        /\ overtaken' = {} /\ entries' = entries /\ n_fresh' = n_fresh /\ quota' = quota
    BY <1>5 DEF Refresh!End
  <2>2. Refresh!BatchOK'
    BY <2>1 DEF Refresh!BatchOK
  <2>3. /\ waiting' \in [Refresh!Companies -> SUBSET Refresh!Companies]
        /\ \A c \in Refresh!Companies : waiting'[c] \subseteq waiting[c]
        /\ quota' \in 0 .. Refresh!FullQuota
    BY <2>1 DEF Refresh!IInv
  <2> QED
    BY <2>1, <2>2, <2>3, SameCache
<1>6. CASE UNCHANGED Refresh!vars
  <2>1. /\ entries' = entries /\ n_fresh' = n_fresh /\ quota' = quota /\ batch' = batch
        /\ keys_gone' = keys_gone /\ aged' = aged /\ first_run' = first_run
        /\ waiting' = waiting /\ overtaken' = overtaken
    BY <1>6 DEF Refresh!vars
  <2>2. Refresh!BatchOK'
    BY <2>1 DEF Refresh!IInv, Refresh!BatchOK, Refresh!IsInjective, Refresh!ToSet, Refresh!Before,
                Refresh!Companies
  <2> QED
    BY <2>1, <2>2, SameCache DEF Refresh!IInv
<1> QED
  BY <1>1, <1>2, <1>3, <1>4, <1>5, <1>6 DEF Refresh!Next

LEMMA IInvImpliesInTurn ==
    ASSUME Refresh!IInv
    PROVE  Refresh!TypeOK /\ Refresh!InTurn
<1>1. Refresh!Known \subseteq Refresh!Companies
  BY DEF Refresh!IInv, Refresh!Known, Refresh!ToSet
<1>2. batch \in Seq(Refresh!Companies) \cup {None}
  BY DEF Refresh!IInv, Refresh!BatchOK
<1>3. first_run /\ keys_gone => quota >= 2
  BY DEF Refresh!IInv, Refresh!BatchOK
<1> QED
  BY <1>1, <1>2, <1>3 DEF Refresh!IInv, Refresh!TypeOK, Refresh!InTurn

(* With any companies, keys and requests of a day: while the ages can be   *)
(* read no company is refreshed twice between two turns of another, and a  *)
(* run that began with all the requests never meets a key without any.     *)
THEOREM RefreshHolds ==
    ASSUME RefreshConstants
    PROVE  Refresh!Spec => [](Refresh!TypeOK /\ Refresh!InTurn)
<1>1. Refresh!Init => Refresh!IInv
  BY InitKeepsRefresh
<1>2. Refresh!IInv /\ [Refresh!Next]_(Refresh!vars) => Refresh!IInv'
  BY NextKeepsRefresh
<1>3. Refresh!IInv => Refresh!TypeOK /\ Refresh!InTurn
  BY IInvImpliesInTurn
<1> QED
  BY <1>1, <1>2, <1>3, PTL DEF Refresh!Spec

-----------------------------------------------------------------------------
(* ReferenceSignal: the calls of the free rule and their judgements.       *)

(* What the proofs assume of the constants.                                *)
ReferenceConstants ==
    /\ BaselineMinAge \in Nat \ {0} /\ BaselineMaxAge \in Nat /\ BaselineMinAge <= BaselineMaxAge
    /\ LastRun \in Nat /\ MaxReads \in Nat
    /\ None \notin {"BULLISH", "BEARISH", "HIT", "MISS", "EXPIRED"}
    /\ None \notin [price : ReadPrices, open : SUBSET Nat, todo : SUBSET Nat]

LEMMA InitKeepsReference == ReferenceConstants /\ Reference!Init => Reference!IInv
<1> SUFFICES ASSUME ReferenceConstants, Reference!Init PROVE Reference!IInv
  OBVIOUS
<1>1. today = 0 /\ reads = <<>> /\ running = None
  BY DEF Reference!Init
<1>2. DOMAIN reads = {} /\ Len(reads) = 0 /\ reads \in Seq(Reference!Read)
  BY <1>1
<1>3. Reference!Calls = {}
  BY <1>2 DEF Reference!Calls
<1> QED
  BY <1>1, <1>2, <1>3 DEF Reference!IInv, Reference!RunOK, Reference!CallsAWeekApart,
     ReferenceConstants

(* What the rows of the table are.                                         *)
LEMMA RowsRead ==
    ASSUME ReferenceConstants, Reference!IInv
    PROVE  /\ today \in 0 .. LastRun /\ reads \in Seq(Reference!Read) /\ Len(reads) \in Nat
           /\ DOMAIN reads = 1 .. Len(reads)
           /\ \A i \in DOMAIN reads : reads[i] \in Reference!Read /\ reads[i].read_at \in 0 .. LastRun
                                      /\ reads[i].read_at \in Int
           /\ Reference!Calls \subseteq DOMAIN reads
           /\ \A i \in DOMAIN reads :
                 reads[i].outcome \in Reference!Judged \cup {"EXPIRED", None}
<1>1. today \in 0 .. LastRun /\ reads \in Seq(Reference!Read) /\ LastRun \in Nat
  BY DEF Reference!IInv, ReferenceConstants
<1>2. DOMAIN reads = 1 .. Len(reads) /\ Len(reads) \in Nat
      /\ \A i \in 1 .. Len(reads) : reads[i] \in Reference!Read
  BY <1>1
<1>3. \A r \in Reference!Read : r.read_at \in 0 .. LastRun /\ r.read_at \in Int
         /\ r.outcome \in Reference!Judged \cup {"EXPIRED", None}
  BY <1>1 DEF Reference!Read
<1> QED
  BY <1>1, <1>2, <1>3 DEF Reference!Calls

LEMMA StartKeepsReference ==
    ASSUME ReferenceConstants, Reference!IInv, NEW price \in ReadPrices, Reference!Start(price)
    PROVE  Reference!IInv'
<1>1. /\ running' = [price |-> price, open |-> Reference!get_open_reference_calls,
                     todo |-> Reference!get_open_reference_calls]
      /\ today' = today /\ reads' = reads /\ Len(reads) < MaxReads
  BY DEF Reference!Start
<1>2. Reference!Calls' = Reference!Calls
  BY <1>1 DEF Reference!Calls
<1> DEFINE open == Reference!get_open_reference_calls
<1>3. open \in SUBSET Reference!Calls /\ \A i \in Reference!Calls : i \in open <=> reads[i].outcome = None
  BY DEF Reference!get_open_reference_calls
<1>4. /\ running'.open = open /\ running'.todo = open
      /\ running' \in [price : ReadPrices, open : SUBSET Reference!Calls, todo : SUBSET Reference!Calls]
  BY <1>1, <1>3
<1> HIDE DEF open
<1>5. Reference!RunOK'
  BY <1>1, <1>2, <1>3, <1>4 DEF Reference!RunOK
<1> QED
  BY <1>1, <1>2, <1>5 DEF Reference!IInv, Reference!SettledOK, Reference!JudgedInTime,
     Reference!WeekApart, Reference!CallsAWeekApart

(* What a settlement decides of an open call.                              *)
LEMMA Settling ==
    ASSUME ReferenceConstants, Reference!IInv, NEW i \in Reference!Calls, NEW price
    PROVE  LET outcome == Reference!settle_call(reads[i], price)
               age == today - reads[i].read_at
           IN  /\ outcome \in Reference!Judged \cup {"EXPIRED", "PENDING"}
               /\ outcome = "PENDING" <=> age < BaselineMinAge
               /\ outcome = "EXPIRED" => age > BaselineMaxAge
               /\ outcome \in Reference!Judged => Reference!WeekApart(reads[i].read_at, today)
<1>1. reads[i].read_at \in Int /\ today \in Int
  BY RowsRead
<1>2. BaselineMinAge \in Int /\ BaselineMaxAge \in Int /\ BaselineMinAge <= BaselineMaxAge
  BY DEF ReferenceConstants
<1> DEFINE right == Reference!is_trend_correct(reads[i], price)
           age == today - reads[i].read_at
<1>3. Reference!settle_call(reads[i], price) =
         CASE age < BaselineMinAge -> "PENDING"
           [] age > BaselineMaxAge -> "EXPIRED"
           [] OTHER -> IF right THEN "HIT" ELSE "MISS"
  BY DEF Reference!settle_call
<1>4. age \in Int
  BY <1>1
<1>5. \/ age < BaselineMinAge /\ Reference!settle_call(reads[i], price) = "PENDING"
      \/ age > BaselineMaxAge /\ Reference!settle_call(reads[i], price) = "EXPIRED"
      \/ /\ BaselineMinAge <= age /\ age <= BaselineMaxAge
         /\ Reference!settle_call(reads[i], price) \in {"HIT", "MISS"}
  <2> HIDE DEF right, age
  <2>1. CASE age < BaselineMinAge
    BY <1>2, <1>3, <1>4, <2>1
  <2>2. CASE age > BaselineMaxAge
    BY <1>2, <1>3, <1>4, <2>2
  <2>3. CASE BaselineMinAge <= age /\ age <= BaselineMaxAge
    BY <1>2, <1>3, <1>4, <2>3
  <2> QED
    BY <1>2, <1>4, <2>1, <2>2, <2>3
<1>6. \A o \in {"HIT", "MISS"} : o \in Reference!Judged /\ o \notin {"EXPIRED", "PENDING"}
  BY DEF Reference!Judged
<1>7. Reference!WeekApart(reads[i].read_at, today) <=> BaselineMinAge <= age /\ age <= BaselineMaxAge
  BY DEF Reference!WeekApart
<1> HIDE DEF age, right
<1>8. {"EXPIRED", "PENDING"} \cap Reference!Judged = {} /\ "EXPIRED" # "PENDING"
  BY DEF Reference!Judged
<1> DEFINE outcome == Reference!settle_call(reads[i], price)
<1>9. /\ outcome \in Reference!Judged \cup {"EXPIRED", "PENDING"}
      /\ outcome = "PENDING" <=> age < BaselineMinAge
      /\ outcome = "EXPIRED" => age > BaselineMaxAge
      /\ outcome \in Reference!Judged => Reference!WeekApart(reads[i].read_at, today)
  <2> HIDE DEF outcome
  <2>1. \/ age < BaselineMinAge /\ outcome = "PENDING"
        \/ age > BaselineMaxAge /\ outcome = "EXPIRED"
        \/ BaselineMinAge <= age /\ age <= BaselineMaxAge /\ outcome \in {"HIT", "MISS"}
    BY <1>5 DEF outcome
  <2> QED
    BY <1>2, <1>4, <1>6, <1>7, <1>8, <2>1
<1> QED
  BY <1>9 DEF age

(* The next open call is settled or left open as too young.                *)
LEMMA SettleKeepsReference ==
    ASSUME ReferenceConstants, Reference!IInv, Reference!SettleNext
    PROVE  Reference!IInv'
<1> DEFINE i == Reference!Min(running.todo)
           outcome == Reference!settle_call(reads[i], running.price)
<1>1. /\ running # None /\ running.todo # {} /\ today' = today
      /\ reads' = IF outcome = "PENDING" THEN reads
                  ELSE [reads EXCEPT ![i].outcome = outcome, ![i].settled_at = today]
      /\ running' = [running EXCEPT !.todo = @ \ {i}]
  BY DEF Reference!SettleNext
<1>2. /\ running \in [price : ReadPrices, open : SUBSET Reference!Calls, todo : SUBSET Reference!Calls]
      /\ \A k \in running.todo : reads[k].outcome = None
      /\ Reference!RunOK
  BY <1>1 DEF Reference!IInv, Reference!RunOK
<1>3. /\ reads \in Seq(Reference!Read) /\ Len(reads) \in Nat /\ DOMAIN reads = 1 .. Len(reads)
      /\ Reference!Calls \subseteq 1 .. Len(reads) /\ today \in Int
  BY RowsRead
<1>4. i \in running.todo /\ i \in Reference!Calls /\ i \in DOMAIN reads /\ reads[i].outcome = None
  <2>1. running.todo \in SUBSET (0 .. Len(reads))
    BY <1>2, <1>3
  <2>2. \E m \in running.todo : \A y \in running.todo : m <= y
    BY <1>1, <1>3, <2>1, LeastNumber
  <2>3. i \in running.todo
    BY <2>2 DEF Reference!Min
  <2> QED
    BY <1>2, <1>3, <2>3
<1>5. /\ outcome \in Reference!Judged \cup {"EXPIRED", "PENDING"}
      /\ outcome = "PENDING" <=> today - reads[i].read_at < BaselineMinAge
      /\ outcome = "EXPIRED" => today - reads[i].read_at > BaselineMaxAge
      /\ outcome \in Reference!Judged => Reference!WeekApart(reads[i].read_at, today)
  <2> HIDE DEF i
  <2> QED
    BY <1>4, Settling
<1> HIDE DEF i, outcome
<1>6. /\ reads' \in Seq(Reference!Read) /\ Len(reads') = Len(reads) /\ DOMAIN reads' = DOMAIN reads
      /\ \A k \in DOMAIN reads : /\ reads'[k].read_at = reads[k].read_at
                                 /\ reads'[k].predicted_trend = reads[k].predicted_trend
                                 /\ k # i => reads'[k] = reads[k]
      /\ outcome = "PENDING" => reads'[i] = reads[i]
      /\ outcome # "PENDING" => reads'[i].outcome = outcome /\ reads'[i].settled_at = today
  <2>1. CASE outcome = "PENDING"
    BY <1>1, <1>3, <2>1
  <2>2. CASE outcome # "PENDING"
    <3> DEFINE record == [reads[i] EXCEPT !.outcome = outcome, !.settled_at = today]
    <3>1. reads' = [reads EXCEPT ![i] = record]
      BY <1>1, <2>2
    <3>2. reads[i] \in Reference!Read /\ today \in 0 .. LastRun
      BY <1>4, RowsRead
    <3>3. /\ record \in Reference!Read /\ record.read_at = reads[i].read_at
          /\ record.predicted_trend = reads[i].predicted_trend
          /\ record.outcome = outcome /\ record.settled_at = today
      BY <1>5, <2>2, <3>2 DEF Reference!Read
    <3> HIDE DEF record
    <3>4. reads' \in Seq(Reference!Read) /\ Len(reads') = Len(reads) /\ DOMAIN reads' = DOMAIN reads
          /\ reads'[i] = record /\ \A k \in DOMAIN reads : k # i => reads'[k] = reads[k]
      BY <1>3, <1>4, <3>1, <3>3
    <3> QED
      BY <2>2, <3>3, <3>4
  <2> QED
    BY <2>1, <2>2
<1>7. Reference!Calls' = Reference!Calls
  BY <1>6 DEF Reference!Calls
<1>8. \A k \in Reference!Calls : Reference!SettledOK(k)'
  <2> SUFFICES ASSUME NEW k \in Reference!Calls PROVE Reference!SettledOK(k)'
    OBVIOUS
  <2>1. Reference!SettledOK(k) /\ k \in DOMAIN reads
    BY <1>3 DEF Reference!IInv
  <2>2. CASE k # i \/ outcome = "PENDING"
    <3>1. reads'[k] = reads[k]
      BY <1>6, <2>1, <2>2
    <3> QED
      BY <1>1, <2>1, <3>1 DEF Reference!SettledOK, Reference!WeekApart
  <2>3. CASE k = i /\ outcome # "PENDING"
    <3>1. reads'[k].outcome = outcome /\ reads'[k].settled_at = today /\ reads'[k].read_at = reads[k].read_at
      BY <1>4, <1>6, <2>3
    <3>2. today \in 0 .. today /\ reads[k].read_at \in Int /\ BaselineMinAge \in Int
      BY <2>1, RowsRead DEF ReferenceConstants
    <3> QED
      BY <1>1, <1>3, <1>5, <2>3, <3>1, <3>2 DEF Reference!SettledOK, Reference!WeekApart
  <2> QED
    BY <2>2, <2>3
<1>9. \A k \in Reference!Calls : \A j \in DOMAIN reads : Reference!JudgedInTime(k, j)'
  <2> SUFFICES ASSUME NEW k \in Reference!Calls, NEW j \in DOMAIN reads
               PROVE  Reference!JudgedInTime(k, j)'
    OBVIOUS
  <2>1. Reference!JudgedInTime(k, j) /\ k \in DOMAIN reads
    BY <1>3 DEF Reference!IInv
  <2>2. CASE k # i
    BY <1>6, <2>1, <2>2 DEF Reference!JudgedInTime, Reference!WeekApart
  <2>3. CASE k = i
    <3>1. None \notin Reference!Judged
      BY DEF ReferenceConstants, Reference!Judged
    <3>2. ~ Reference!WeekApart(reads[k].read_at, reads[j].read_at)
      BY <1>4, <2>1, <2>3, <3>1 DEF Reference!JudgedInTime
    <3> QED
      BY <1>6, <2>1, <3>2 DEF Reference!JudgedInTime, Reference!WeekApart
  <2> QED
    BY <2>2, <2>3
<1>10. Reference!RunOK'
  <2>1. /\ running' \in [price : ReadPrices, open : SUBSET Reference!Calls, todo : SUBSET Reference!Calls]
        /\ running'.todo = running.todo \ {i} /\ running'.open = running.open
    BY <1>1, <1>2
  <2>2. \A k \in Reference!Calls \ {i} : reads'[k] = reads[k]
    BY <1>3, <1>6
  <2>3. \A k \in running.todo \ {i} : reads'[k].outcome = None
    BY <1>2, <2>2
  <2>4. reads'[i].outcome = None => today - reads'[i].read_at < BaselineMinAge
    <3>1. outcome # "PENDING" => outcome # None
      BY <1>5 DEF ReferenceConstants, Reference!Judged
    <3> QED
      BY <1>4, <1>5, <1>6, <3>1
  <2>5. \A k \in Reference!Calls \ (running.todo \ {i}) :
           reads'[k].outcome = None => today' - reads'[k].read_at < BaselineMinAge
    BY <1>1, <1>2, <2>2, <2>4 DEF Reference!RunOK
  <2>6. \A k \in Reference!Calls : reads'[k].outcome = None => k \in running.open
    <3>1. i \in running.open
      BY <1>1, <1>2, <1>4 DEF Reference!RunOK
    <3> QED
      BY <1>1, <1>2, <2>2, <3>1 DEF Reference!RunOK
  <2> QED
    BY <1>1, <1>2, <1>6, <1>7, <2>1, <2>3, <2>5, <2>6 DEF Reference!RunOK
<1>11. Reference!CallsAWeekApart'
  BY <1>3, <1>6, <1>7 DEF Reference!CallsAWeekApart, Reference!IInv
<1>12. /\ \A k, j \in DOMAIN reads' : k < j => reads'[k].read_at <= reads'[j].read_at
       /\ \A k \in DOMAIN reads' : reads'[k].read_at <= today'
  BY <1>1, <1>6 DEF Reference!IInv
<1> QED
  BY <1>1, <1>6, <1>7, <1>8, <1>9, <1>10, <1>11, <1>12 DEF Reference!IInv

(* The row of the run: its read judges what became due, its call is a week *)
(* from every other one.                                                   *)
LEMMA SaveKeepsReference ==
    ASSUME ReferenceConstants, Reference!IInv, Reference!SaveRead
    PROVE  Reference!IInv'
<1> DEFINE call == Reference!NewCall(running.open, running.price)
           record == [read_at |-> today, price |-> running.price, predicted_trend |-> call,
                   outcome |-> None, settled_at |-> None]
<1>0. PICK n \in Nat : n = Len(reads) + 1
  BY RowsRead
<1>1. /\ running # None /\ running.todo = {} /\ today' = today /\ running' = None
      /\ reads' = Append(reads, record)
  BY DEF Reference!SaveRead
<1>2. /\ running.price \in ReadPrices /\ running.open \in SUBSET Reference!Calls
      /\ \A i \in Reference!Calls :
            reads[i].outcome = None => /\ today - reads[i].read_at < BaselineMinAge
                                       /\ i \in running.open
      /\ Len(reads) < MaxReads
  BY <1>1 DEF Reference!IInv, Reference!RunOK
<1>3. /\ reads \in Seq(Reference!Read) /\ Len(reads) \in Nat /\ DOMAIN reads = 1 .. Len(reads)
      /\ Reference!Calls \subseteq DOMAIN reads /\ today \in 0 .. LastRun /\ today \in Int
      /\ \A i \in DOMAIN reads : reads[i].read_at \in Int
  BY RowsRead DEF ReferenceConstants
<1>4. call \in Reference!Trends \cup {None}
  BY DEF Reference!NewCall, Reference!momentum_call, Reference!Trends
<1>5. call # None => \A i \in running.open : today - reads[i].read_at >= BaselineMinAge
  BY DEF Reference!NewCall, Reference!may_call
<1> HIDE DEF call
<1>6. /\ record \in Reference!Read /\ record.read_at = today /\ record.outcome = None
      /\ record.predicted_trend = call
  BY <1>2, <1>3, <1>4 DEF Reference!Read
<1> HIDE DEF record
<1>7. /\ reads' \in Seq(Reference!Read) /\ Len(reads') = n /\ DOMAIN reads' = 1 .. n
      /\ reads'[n] = record /\ \A i \in DOMAIN reads : reads'[i] = reads[i]
      /\ n \in Nat /\ n \notin DOMAIN reads /\ DOMAIN reads' = DOMAIN reads \cup {n}
      /\ \A i \in DOMAIN reads : i < n
  BY <1>0, <1>1, <1>3, <1>6
<1>8. Reference!Calls' = Reference!Calls \cup (IF call = None THEN {} ELSE {n})
  BY <1>3, <1>6, <1>7 DEF Reference!Calls
<1>9. \A i \in Reference!Calls' : Reference!SettledOK(i)'
  <2>1. ASSUME NEW i \in Reference!Calls PROVE Reference!SettledOK(i)'
    <3>1. Reference!SettledOK(i)
      BY DEF Reference!IInv
    <3> QED
      BY <1>1, <1>3, <1>7, <3>1 DEF Reference!SettledOK, Reference!WeekApart
  <2>2. Reference!SettledOK(n)'
    <3>1. None # "EXPIRED" /\ None \notin Reference!Judged
      BY DEF ReferenceConstants, Reference!Judged
    <3> QED
      BY <1>6, <1>7, <3>1 DEF Reference!SettledOK
  <2> QED
    BY <1>8, <2>1, <2>2
<1>10. \A i \in Reference!Calls' : \A j \in DOMAIN reads' : Reference!JudgedInTime(i, j)'
  <2>1. ASSUME NEW i \in Reference!Calls, NEW j \in DOMAIN reads PROVE Reference!JudgedInTime(i, j)'
    <3>1. Reference!JudgedInTime(i, j)
      BY DEF Reference!IInv
    <3> QED
      BY <1>3, <1>7, <3>1 DEF Reference!JudgedInTime, Reference!WeekApart
  <2>2. ASSUME NEW i \in Reference!Calls PROVE Reference!JudgedInTime(i, n)'
    <3>1. i \in DOMAIN reads /\ reads'[i] = reads[i] /\ reads'[n].read_at = today
          /\ reads[i].read_at \in Int
      BY <1>3, <1>6, <1>7
    <3>2. SUFFICES ASSUME Reference!WeekApart(reads[i].read_at, today)
                   PROVE  reads[i].outcome \in Reference!Judged /\ reads[i].settled_at <= today
      BY <3>1 DEF Reference!JudgedInTime, Reference!WeekApart
    <3>3. /\ BaselineMinAge <= today - reads[i].read_at
          /\ today - reads[i].read_at <= BaselineMaxAge
          /\ BaselineMinAge \in Int /\ BaselineMaxAge \in Int
      BY <3>2 DEF Reference!WeekApart, ReferenceConstants
    <3>4. reads[i].outcome # None
      BY <1>2, <1>3, <3>1, <3>3
    <3>5. reads[i].outcome # "EXPIRED"
      BY <1>3, <3>1, <3>3 DEF Reference!IInv, Reference!SettledOK
    <3>6. reads[i].outcome \in Reference!Judged
      BY <3>1, <3>4, <3>5, RowsRead
    <3>7. reads[i].settled_at \in 0 .. today
      BY <3>6 DEF Reference!IInv, Reference!SettledOK
    <3> QED
      BY <1>3, <3>6, <3>7
  <2>3. ASSUME NEW j \in DOMAIN reads' PROVE Reference!JudgedInTime(n, j)'
    <3>1. reads'[j].read_at <= today /\ reads'[j].read_at \in Int /\ reads'[n].read_at = today
      <4>1. \A i \in DOMAIN reads : reads[i].read_at <= today
        BY DEF Reference!IInv
      <4>2. reads'[n].read_at = today
        BY <1>6, <1>7
      <4>3. CASE j \in DOMAIN reads
        <5>1. reads'[j] = reads[j]
          BY <1>7, <4>3
        <5> QED
          BY <1>3, <4>1, <4>2, <4>3, <5>1
      <4>4. CASE j = n
        BY <1>3, <4>2, <4>4
      <4> QED
        BY <1>7, <4>3, <4>4
    <3>2. BaselineMinAge \in Int /\ BaselineMinAge > 0
      BY DEF ReferenceConstants
    <3>3. ~ Reference!WeekApart(reads'[n].read_at, reads'[j].read_at)
      BY <1>3, <3>1, <3>2 DEF Reference!WeekApart
    <3> QED
      BY <3>3 DEF Reference!JudgedInTime, Reference!WeekApart
  <2> QED
    BY <1>7, <1>8, <2>1, <2>2, <2>3
<1>11. Reference!CallsAWeekApart'
  <2> SUFFICES ASSUME NEW i \in Reference!Calls', NEW j \in Reference!Calls', i < j
               PROVE  reads'[j].read_at - reads'[i].read_at >= BaselineMinAge
    BY DEF Reference!CallsAWeekApart
  <2>1. CASE j # n
    <3>1. j \in Reference!Calls /\ i # n
      BY <1>3, <1>7, <1>8, <2>1
    <3>2. i \in Reference!Calls
      BY <1>8, <3>1
    <3> QED
      BY <1>3, <1>7, <3>1, <3>2 DEF Reference!IInv, Reference!CallsAWeekApart
  <2>2. CASE j = n
    <3>1. call # None /\ i \in Reference!Calls
      BY <1>3, <1>7, <1>8, <2>2
    <3>2. CASE reads[i].outcome = None
      BY <1>2, <1>3, <1>5, <1>6, <1>7, <2>2, <3>1, <3>2
    <3>3. CASE reads[i].outcome # None
      BY <1>3, <1>6, <1>7, <2>2, <3>1, <3>3 DEF Reference!IInv, Reference!SettledOK
    <3> QED
      BY <3>2, <3>3
  <2> QED
    BY <2>1, <2>2
<1>12. /\ \A k, j \in DOMAIN reads' : k < j => reads'[k].read_at <= reads'[j].read_at
       /\ \A k \in DOMAIN reads' : reads'[k].read_at <= today'
  <2>1. /\ \A k, j \in DOMAIN reads : k < j => reads[k].read_at <= reads[j].read_at
        /\ \A k \in DOMAIN reads : reads[k].read_at <= today
    BY DEF Reference!IInv
  <2> QED
    BY <1>1, <1>3, <1>6, <1>7, <2>1
<1>13. n <= MaxReads
  BY <1>0, <1>2, <1>3 DEF ReferenceConstants
<1> QED
  BY <1>1, <1>3, <1>7, <1>9, <1>10, <1>11, <1>12, <1>13 DEF Reference!IInv, Reference!RunOK

LEMMA NextDayKeepsReference ==
    ASSUME ReferenceConstants, Reference!IInv, Reference!NextDay
    PROVE  Reference!IInv'
<1>1. running = None /\ today < LastRun /\ today' = today + 1 /\ reads' = reads /\ running' = None
  BY DEF Reference!NextDay
<1>2. /\ today \in 0 .. LastRun /\ LastRun \in Nat /\ today' \in 0 .. LastRun
      /\ \A i \in DOMAIN reads : reads[i].read_at \in Int
      /\ Reference!Calls \subseteq DOMAIN reads
      /\ BaselineMinAge \in Int /\ BaselineMaxAge \in Int
  BY <1>1, RowsRead DEF ReferenceConstants
<1>3. Reference!Calls' = Reference!Calls
  BY <1>1 DEF Reference!Calls
<1>4. ASSUME NEW i \in Reference!Calls PROVE Reference!SettledOK(i)'
  <2>1. Reference!SettledOK(i) /\ reads[i].read_at \in Int
    BY <1>2 DEF Reference!IInv
  <2>2. reads[i].outcome \in Reference!Judged => reads[i].settled_at \in 0 .. today'
    BY <1>1, <1>2, <2>1 DEF Reference!SettledOK
  <2> QED
    BY <1>1, <1>2, <2>1, <2>2 DEF Reference!SettledOK, Reference!WeekApart
<1>5. \A i \in Reference!Calls : \A j \in DOMAIN reads : Reference!JudgedInTime(i, j)'
  BY <1>1 DEF Reference!IInv, Reference!JudgedInTime, Reference!WeekApart
<1>6. \A i \in DOMAIN reads : reads[i].read_at <= today'
  BY <1>1, <1>2 DEF Reference!IInv
<1> QED
  BY <1>1, <1>2, <1>3, <1>4, <1>5, <1>6
     DEF Reference!IInv, Reference!CallsAWeekApart, Reference!RunOK

LEMMA NextKeepsReference ==
    ReferenceConstants /\ Reference!IInv /\ [Reference!Next]_(Reference!vars) => Reference!IInv'
<1> SUFFICES ASSUME ReferenceConstants, Reference!IInv, [Reference!Next]_(Reference!vars)
             PROVE  Reference!IInv'
  OBVIOUS
<1>1. ASSUME Reference!SymbolFails PROVE Reference!IInv'
  <2>1. running' = None /\ today' = today /\ reads' = reads
    BY <1>1 DEF Reference!SymbolFails
  <2> QED
    BY <2>1 DEF Reference!IInv, Reference!RunOK, Reference!SettledOK, Reference!JudgedInTime,
       Reference!WeekApart, Reference!CallsAWeekApart, Reference!Calls
<1>2. ASSUME UNCHANGED Reference!vars PROVE Reference!IInv'
  <2>1. running' = running /\ today' = today /\ reads' = reads
    BY <1>2 DEF Reference!vars
  <2> QED
    BY <2>1 DEF Reference!IInv, Reference!RunOK, Reference!SettledOK, Reference!JudgedInTime,
       Reference!WeekApart, Reference!CallsAWeekApart, Reference!Calls
<1> QED
  BY <1>1, <1>2, StartKeepsReference, SettleKeepsReference, SaveKeepsReference,
     NextDayKeepsReference DEF Reference!Next

LEMMA IInvImpliesJudgedByFirstRead ==
    ASSUME ReferenceConstants, Reference!IInv
    PROVE  Reference!TypeOK /\ Reference!CallsAWeekApart /\ Reference!JudgedByFirstRead
<1>1. Reference!TypeOK
  <2>1. running # None => /\ running.price \in ReadPrices
                          /\ running.todo \subseteq running.open
                          /\ running.open \subseteq Reference!Calls
    BY DEF Reference!IInv, Reference!RunOK
  <2> QED
    BY <2>1 DEF Reference!IInv, Reference!TypeOK
<1>2. Reference!JudgedByFirstRead
  BY DEF Reference!IInv, Reference!JudgedByFirstRead, Reference!SettledOK, Reference!JudgedInTime
<1> QED
  BY <1>1, <1>2 DEF Reference!IInv

(* For all prices, windows of age and numbers of runs: two calls of a      *)
(* symbol are a minimum age apart, and a call is judged by the first read  *)
(* in its window (may_call, settle_call, _run_symbol).                     *)
THEOREM ReferenceHolds ==
    ASSUME ReferenceConstants
    PROVE  Reference!Spec => [](/\ Reference!TypeOK /\ Reference!CallsAWeekApart
                                /\ Reference!JudgedByFirstRead)
<1>1. Reference!Init => Reference!IInv
  BY InitKeepsReference
<1>2. Reference!IInv /\ [Reference!Next]_(Reference!vars) => Reference!IInv'
  BY NextKeepsReference
<1>3. Reference!IInv => /\ Reference!TypeOK /\ Reference!CallsAWeekApart
                        /\ Reference!JudgedByFirstRead
  BY IInvImpliesJudgedByFirstRead
<1> QED
  BY <1>1, <1>2, <1>3, PTL DEF Reference!Spec

-----------------------------------------------------------------------------
(* CouncilDebate: the verdict of an analysis.                              *)

(* What the proofs assume of the constants.                                *)
CouncilConstants ==
    /\ IsFiniteSet(Council)
    /\ Opinions \subseteq [recommendation : Debate!Recs, confidence : Nat]
    /\ \A w \in Weightings : w # None => w \in [Council -> Nat \ {0}]
    /\ None \notin Opinions
    /\ None \notin [final : Debate!Recs, mass : Nat, total : Nat, failed_personas : Int]

LEMMA CouncilCardinality == \A S : Debate!Cardinality(S) = Cardinality(S)
BY DEF Debate!Cardinality, Cardinality

UnitsOf(f, S) == UNION {{p} \X (1 .. f[p]) : p \in S}

(* A sum counted unit by unit is a number, above 0 if one of its parts is. *)
LEMMA UnitsCount ==
    ASSUME NEW S, IsFiniteSet(S), NEW f \in [S -> Nat]
    PROVE  /\ IsFiniteSet(UnitsOf(f, S)) /\ Cardinality(UnitsOf(f, S)) \in Nat
           /\ (\E p \in S : f[p] > 0) => Cardinality(UnitsOf(f, S)) > 0
           /\ (\A p \in S : f[p] = 0) => Cardinality(UnitsOf(f, S)) = 0
<1> DEFINE part == [p \in S |-> {p} \X (1 .. f[p])]
           T == {part[p] : p \in S}
           units == UNION {{p} \X (1 .. f[p]) : p \in S}
<1>1. part \in Surjection(S, T)
  <2>1. part \in [S -> T] /\ \A t \in T : \E p \in S : part[p] = t
    OBVIOUS
  <2> HIDE DEF part, T
  <2> QED
    BY <2>1 DEF Surjection
<1>2. IsFiniteSet(T)
  BY <1>1, FS_Surjection
<1>3. \A t \in T : IsFiniteSet(t)
  <2> SUFFICES ASSUME NEW p \in S PROVE IsFiniteSet({p} \X (1 .. f[p]))
    OBVIOUS
  <2>1. f[p] \in Int /\ 1 \in Int
    OBVIOUS
  <2>2. IsFiniteSet(1 .. f[p]) /\ IsFiniteSet({p})
    BY <2>1, FS_Interval, FS_Singleton
  <2> QED
    BY <2>2, FS_Product
<1>4. units = UNION T
  OBVIOUS
<1>5. (\E p \in S : f[p] > 0) => units # {}
  <2> SUFFICES ASSUME NEW p \in S, f[p] > 0 PROVE <<p, 1>> \in units
    OBVIOUS
  <2>1. 1 \in 1 .. f[p]
    OBVIOUS
  <2> QED
    BY <2>1
<1>6. (\A p \in S : f[p] = 0) => units = {}
  OBVIOUS
<1> HIDE DEF T
<1>7. IsFiniteSet(units)
  BY <1>2, <1>3, <1>4, FS_UNION
<1> HIDE DEF units, part
<1>8. Cardinality(units) \in Nat /\ (Cardinality(units) = 0 <=> units = {})
  BY <1>7, FS_CardinalityType, FS_EmptySet
<1> QED
  BY <1>5, <1>6, <1>7, <1>8 DEF units, UnitsOf

LEMMA InitKeepsDebate == CouncilConstants /\ Debate!Init => Debate!IInv
<1> SUFFICES ASSUME CouncilConstants, Debate!Init PROVE Debate!IInv
  OBVIOUS
<1>1. /\ weights \in Weightings /\ debate_mode \in BOOLEAN
      /\ phase = "round1" /\ calls = Debate!AllCalled
      /\ first_round = Debate!NoVotes /\ opinions = Debate!NoVotes
      /\ council_verdict = None /\ asked = Debate!Cardinality(Council)
  BY DEF Debate!Init
<1>2. Debate!NoVotes \in Debate!Votes
  BY DEF Debate!NoVotes, Debate!Votes
<1>3. /\ calls \in [Council -> [status : Debate!Statuses, vote : Opinions \cup {None}]]
      /\ \A p \in Council : Debate!CallOK(calls[p])
  BY <1>1 DEF Debate!AllCalled, Debate!Statuses, Debate!CallOK
<1>4. Debate!Cardinality(Council) \in Nat
  BY FS_CardinalityType, CouncilCardinality DEF CouncilConstants
<1>5. Debate!VerdictOfRealVotes
  BY <1>1, <1>4 DEF Debate!VerdictOfRealVotes
<1> QED
  BY <1>1, <1>2, <1>3, <1>5 DEF Debate!IInv, Debate!TypeOK, Debate!PhaseOK, Debate!VoteOK

(* A call that ends or is given up changes nothing but itself.             *)
LEMMA CallsKeepDebate ==
    ASSUME CouncilConstants, Debate!IInv, Debate!InRound,
           calls' \in [Council -> [status : Debate!Statuses, vote : Opinions \cup {None}]],
           \A p \in Council : Debate!CallOK(calls'[p]),
           UNCHANGED <<weights, debate_mode, phase, first_round, opinions, council_verdict, asked>>
    PROVE  Debate!IInv'
<1>1. phase \in {"round1", "round2"} /\ council_verdict = None
  BY DEF Debate!IInv, Debate!InRound
<1>2. Debate!TypeOK'
  BY DEF Debate!IInv, Debate!TypeOK, Debate!Votes, Debate!Statuses
<1>3. Debate!PhaseOK'
  BY DEF Debate!IInv, Debate!PhaseOK, Debate!Heard, Debate!NoVotes
<1>4. Debate!VoteOK'
  BY <1>1 DEF Debate!VoteOK
<1>5. Debate!VerdictOfRealVotes'
  BY <1>1 DEF Debate!IInv, Debate!VerdictOfRealVotes
<1>6. \A p \in Council : Debate!CallOK(calls[p])'
  BY DEF Debate!CallOK
<1> QED
  BY <1>2, <1>3, <1>4, <1>5, <1>6 DEF Debate!IInv

LEMMA CallEndsKeepsDebate ==
    ASSUME CouncilConstants, Debate!IInv, NEW p \in Council, NEW a \in Opinions \cup {None},
           Debate!CallEnds(p, a)
    PROVE  Debate!IInv'
<1> DEFINE call == [status |-> IF a = None THEN "raised" ELSE "answered", vote |-> a]
<1>1. /\ calls \in [Council -> [status : Debate!Statuses, vote : Opinions \cup {None}]]
      /\ \A q \in Council : Debate!CallOK(calls[q])
  BY DEF Debate!IInv, Debate!TypeOK
<1>2. /\ Debate!InRound /\ calls' = [calls EXCEPT ![p] = call]
      /\ UNCHANGED <<weights, debate_mode, phase, first_round, opinions, council_verdict, asked>>
  BY DEF Debate!CallEnds
<1>3. call \in [status : Debate!Statuses, vote : Opinions \cup {None}] /\ Debate!CallOK(call)
  BY DEF Debate!Statuses, Debate!CallOK
<1> HIDE DEF call
<1>4. /\ calls' \in [Council -> [status : Debate!Statuses, vote : Opinions \cup {None}]]
      /\ \A q \in Council : Debate!CallOK(calls'[q])
  BY <1>1, <1>2, <1>3
<1> QED
  BY <1>2, <1>4, CallsKeepDebate

LEMMA TimeoutKeepsDebate ==
    ASSUME CouncilConstants, Debate!IInv, Debate!TotalTimeout
    PROVE  Debate!IInv'
<1>1. /\ calls \in [Council -> [status : Debate!Statuses, vote : Opinions \cup {None}]]
      /\ \A q \in Council : Debate!CallOK(calls[q])
  BY DEF Debate!IInv, Debate!TypeOK
<1>2. /\ Debate!InRound
      /\ calls' = [p \in Council |->
            IF p \in Debate!Running THEN [calls[p] EXCEPT !.status = "late"] ELSE calls[p]]
      /\ UNCHANGED <<weights, debate_mode, phase, first_round, opinions, council_verdict, asked>>
  BY DEF Debate!TotalTimeout
<1>3. \A p \in Debate!Running : p \in Council /\ calls[p].status = "running" /\ calls[p].vote = None
  BY <1>1 DEF Debate!Running, Debate!CallOK
<1>4. \A p \in Council : /\ calls'[p] \in [status : Debate!Statuses, vote : Opinions \cup {None}]
                         /\ Debate!CallOK(calls'[p])
  BY <1>1, <1>2, <1>3 DEF Debate!Statuses, Debate!CallOK
<1>5. calls' \in [Council -> [status : Debate!Statuses, vote : Opinions \cup {None}]]
  BY <1>2, <1>4
<1> QED
  BY <1>2, <1>4, <1>5, CallsKeepDebate

(* The votes of a round are votes; some are given unless they are NoVotes. *)
LEMMA VotesOfTheRound ==
    ASSUME CouncilConstants, Debate!IInv
    PROVE  /\ Debate!RoundVotes \in Debate!Votes
           /\ Debate!RoundVotes # Debate!NoVotes => Debate!Heard(Debate!RoundVotes) # {}
           /\ \A p \in Council : calls[p].status = "answered" => p \in Debate!Heard(Debate!RoundVotes)
<1>1. /\ calls \in [Council -> [status : Debate!Statuses, vote : Opinions \cup {None}]]
      /\ \A q \in Council : Debate!CallOK(calls[q])
      /\ first_round \in [Council -> Opinions \cup {None}]
  BY DEF Debate!IInv, Debate!TypeOK, Debate!Votes
<1>2. Debate!RoundVotes \in Debate!Votes
  BY <1>1 DEF Debate!RoundVotes, Debate!Votes
<1>3. ASSUME Debate!Heard(Debate!RoundVotes) = {} PROVE Debate!RoundVotes = Debate!NoVotes
  <2>1. \A p \in Council : Debate!RoundVotes[p] = None
    BY <1>3 DEF Debate!Heard
  <2>2. Debate!RoundVotes = [p \in Council |-> Debate!RoundVotes[p]]
    BY <1>2 DEF Debate!Votes
  <2> QED
    BY <2>1, <2>2 DEF Debate!NoVotes
<1>4. ASSUME NEW p \in Council, calls[p].status = "answered"
      PROVE  p \in Debate!Heard(Debate!RoundVotes)
  <2>1. calls[p].vote # None
    BY <1>1, <1>4 DEF Debate!CallOK, CouncilConstants
  <2> QED
    BY <1>4, <2>1 DEF Debate!Heard, Debate!RoundVotes
<1> QED
  BY <1>2, <1>3, <1>4

LEMMA RevisionKeepsDebate ==
    ASSUME CouncilConstants, Debate!IInv, Debate!StartRevision
    PROVE  Debate!IInv'
<1>1. /\ phase = "round1" /\ debate_mode /\ Debate!is_split(Debate!RoundVotes)
      /\ phase' = "round2" /\ first_round' = Debate!RoundVotes /\ calls' = Debate!AllCalled
      /\ asked' = asked + Debate!Cardinality(Council)
      /\ UNCHANGED <<weights, debate_mode, opinions, council_verdict>>
  BY DEF Debate!StartRevision
<1>2. council_verdict = None /\ asked = Debate!Cardinality(Council)
  BY <1>1 DEF Debate!IInv, Debate!PhaseOK
<1>3. Debate!Cardinality(Council) \in Nat
  BY FS_CardinalityType, CouncilCardinality DEF CouncilConstants
<1>4. first_round' \in Debate!Votes /\ opinions' \in Debate!Votes
  BY <1>1, VotesOfTheRound DEF Debate!IInv, Debate!TypeOK
<1>5. /\ calls' \in [Council -> [status : Debate!Statuses, vote : Opinions \cup {None}]]
      /\ \A p \in Council : Debate!CallOK(calls[p])'
  BY <1>1 DEF Debate!AllCalled, Debate!Statuses, Debate!CallOK
<1>6. Debate!Heard(first_round)' # {}
  <2>1. Debate!Heard(Debate!RoundVotes) # {}
    BY <1>1 DEF Debate!is_split
  <2> QED
    BY <1>1, <2>1 DEF Debate!Heard
<1>7. asked' = Debate!Cardinality(Council) * 2
  BY <1>1, <1>2, <1>3
<1>8. Debate!VerdictOfRealVotes'
  BY <1>1, <1>2, <1>3, <1>7 DEF Debate!VerdictOfRealVotes
<1>9. Debate!TypeOK' /\ Debate!VoteOK' /\ Debate!PhaseOK'
  BY <1>1, <1>4, <1>5, <1>6, <1>7
     DEF Debate!TypeOK, Debate!VoteOK, Debate!PhaseOK, Debate!Votes, Debate!Statuses
<1>10. /\ weights' \in Weightings /\ debate_mode' \in BOOLEAN
       /\ phase' # "over" => council_verdict' = None
  BY <1>1, <1>2 DEF Debate!IInv
<1> QED
  BY <1>5, <1>8, <1>9, <1>10 DEF Debate!IInv

(* The votes that count are those of the round, or of the one before.      *)
LEMMA CloseKeepsDebate ==
    ASSUME CouncilConstants, Debate!IInv, Debate!CloseVote
    PROVE  Debate!IInv'
<1> DEFINE given == Debate!RoundVotes
<1>1. /\ phase \in {"round1", "round2"} /\ Debate!Running = {}
      /\ given # Debate!NoVotes \/ phase = "round2"
      /\ opinions' = IF given # Debate!NoVotes THEN given ELSE first_round
      /\ phase' = "chairman" /\ asked' = asked + 1
      /\ UNCHANGED <<weights, debate_mode, calls, first_round, council_verdict>>
  BY DEF Debate!CloseVote, Debate!RoundOver, Debate!InRound
<1>2. /\ council_verdict = None /\ debate_mode \in BOOLEAN
      /\ phase = "round1" => first_round = Debate!NoVotes /\ asked = Debate!Cardinality(Council)
      /\ phase = "round2" => /\ debate_mode /\ Debate!Heard(first_round) # {}
                             /\ asked = Debate!Cardinality(Council) * 2
      /\ first_round \in Debate!Votes
      /\ \A p \in Council : Debate!CallOK(calls[p])
  BY <1>1 DEF Debate!IInv, Debate!PhaseOK, Debate!TypeOK
<1>3. Debate!Cardinality(Council) \in Nat
  BY FS_CardinalityType, CouncilCardinality DEF CouncilConstants
<1>4. /\ given \in Debate!Votes
      /\ given # Debate!NoVotes => Debate!Heard(given) # {}
      /\ \A p \in Council : calls[p].status = "answered" => p \in Debate!Heard(given)
  BY VotesOfTheRound
<1>5. \A p \in Council : given[p] = IF phase = "round2" /\ calls[p].status = "raised"
                                    THEN first_round[p] ELSE calls[p].vote
  BY DEF Debate!RoundVotes
<1>6. given = Debate!NoVotes => \A p \in Council : calls[p].status # "answered"
  BY <1>4 DEF Debate!Heard, Debate!NoVotes
<1> HIDE DEF given
<1>7. opinions' \in Debate!Votes /\ Debate!Heard(opinions') # {}
  BY <1>1, <1>2, <1>4
<1>8. \A p \in Debate!Heard(first_round) :
         calls[p].status = "raised" => opinions'[p] = first_round[p]
  <2> SUFFICES ASSUME NEW p \in Debate!Heard(first_round), calls[p].status = "raised"
               PROVE  opinions'[p] = first_round[p]
    OBVIOUS
  <2>1. p \in Council /\ first_round[p] # None
    BY DEF Debate!Heard
  <2>2. phase = "round2"
    BY <1>1, <1>2, <2>1 DEF Debate!NoVotes
  <2> QED
    BY <1>1, <1>5, <2>1, <2>2
<1>9. \A p \in Debate!Heard(opinions') :
         \/ opinions'[p] = calls[p].vote
         \/ /\ opinions'[p] = first_round[p]
            /\ calls[p].status = "raised" \/ \A q \in Council : calls[q].status # "answered"
  BY <1>1, <1>5, <1>6 DEF Debate!Heard
<1>10. Debate!VoteOK'
  BY <1>1, <1>7, <1>8, <1>9 DEF Debate!VoteOK, Debate!Kept, Debate!Given, Debate!Heard
<1>11. asked' <= Debate!Cardinality(Council) * (IF debate_mode THEN 2 ELSE 1) + 1
  BY <1>1, <1>2, <1>3
<1>12. Debate!PhaseOK' /\ Debate!VerdictOfRealVotes'
  BY <1>1, <1>2, <1>11 DEF Debate!PhaseOK, Debate!VerdictOfRealVotes
<1>13. Debate!TypeOK'
  BY <1>1, <1>7 DEF Debate!IInv, Debate!TypeOK, Debate!Votes, Debate!Statuses
<1>14. /\ weights' \in Weightings /\ debate_mode' \in BOOLEAN
       /\ phase' # "over" => council_verdict' = None
       /\ \A p \in Council : Debate!CallOK(calls[p])'
  BY <1>1, <1>2 DEF Debate!IInv, Debate!CallOK
<1> QED
  BY <1>10, <1>12, <1>13, <1>14 DEF Debate!IInv

(* The mass of a recommendation is a number, 0 if nobody gave it; one of   *)
(* those given has some.                                                   *)
LEMMA MassOfVotes ==
    ASSUME CouncilConstants, weights \in Weightings, opinions \in Debate!Votes
    PROVE  /\ \A rec \in Debate!Recs :
                 /\ Debate!Mass(rec) \in Nat
                 /\ (\A p \in Debate!Heard(opinions) : opinions[p].recommendation # rec)
                       => Debate!Mass(rec) = 0
           /\ Debate!Heard(opinions) # {} =>
                 \E p \in Debate!Heard(opinions) :
                    /\ opinions[p].recommendation \in Debate!Recs
                    /\ Debate!Mass(opinions[p].recommendation) > 0
<1> DEFINE heard == Debate!Heard(opinions)
           of(rec) == {p \in heard : opinions[p].recommendation = rec}
           timid == \A p \in heard : opinions[p].confidence = 0
           units == [p \in heard |-> opinions[p].confidence * Debate!weight(p)]
<1>1. heard \subseteq Council /\ IsFiniteSet(heard)
  BY FS_Subset DEF Debate!Heard, CouncilConstants
<1>2. \A p \in heard : /\ opinions[p].recommendation \in Debate!Recs
                       /\ opinions[p].confidence \in Nat
  BY DEF Debate!Heard, Debate!Votes, CouncilConstants
<1>3. \A p \in heard : Debate!weight(p) \in Nat \ {0}
  BY <1>1 DEF CouncilConstants, Debate!weight
<1>4. /\ units \in [heard -> Nat]
      /\ \A p \in heard : opinions[p].confidence # 0 => units[p] > 0
  BY <1>2, <1>3
<1>5. \A rec : Debate!Mass(rec) = IF timid THEN Cardinality(of(rec))
                                  ELSE Cardinality(UnitsOf(units, of(rec)))
  BY CouncilCardinality DEF Debate!Mass, Debate!Units, UnitsOf
<1>6. \A rec : of(rec) \subseteq heard /\ IsFiniteSet(of(rec))
                 /\ Cardinality(of(rec)) \in Nat /\ (Cardinality(of(rec)) = 0 <=> of(rec) = {})
  BY <1>1, FS_Subset, FS_CardinalityType, FS_EmptySet
<1>7. \A rec : /\ Cardinality(UnitsOf(units, of(rec))) \in Nat
               /\ (\E p \in of(rec) : units[p] > 0) => Cardinality(UnitsOf(units, of(rec))) > 0
               /\ (\A p \in of(rec) : units[p] = 0) => Cardinality(UnitsOf(units, of(rec))) = 0
  <2> SUFFICES ASSUME NEW rec
               PROVE  /\ Cardinality(UnitsOf(units, of(rec))) \in Nat
                      /\ (\E p \in of(rec) : units[p] > 0)
                            => Cardinality(UnitsOf(units, of(rec))) > 0
                      /\ (\A p \in of(rec) : units[p] = 0)
                            => Cardinality(UnitsOf(units, of(rec))) = 0
    OBVIOUS
  <2> DEFINE R == of(rec)
             f == [p \in R |-> units[p]]
  <2>1. IsFiniteSet(R) /\ R \subseteq heard
    BY <1>6
  <2>2. f \in [R -> Nat] /\ \A p \in R : f[p] = units[p]
    BY <1>4, <2>1
  <2>3. UnitsOf(f, R) = UnitsOf(units, R)
    BY <2>2 DEF UnitsOf
  <2> HIDE DEF f, R, units
  <2>4. /\ Cardinality(UnitsOf(f, R)) \in Nat
        /\ (\E p \in R : f[p] > 0) => Cardinality(UnitsOf(f, R)) > 0
        /\ (\A p \in R : f[p] = 0) => Cardinality(UnitsOf(f, R)) = 0
    BY <2>1, <2>2, UnitsCount
  <2>5. /\ Cardinality(UnitsOf(units, R)) \in Nat
        /\ (\E p \in R : units[p] > 0) => Cardinality(UnitsOf(units, R)) > 0
        /\ (\A p \in R : units[p] = 0) => Cardinality(UnitsOf(units, R)) = 0
    BY <2>2, <2>3, <2>4
  <2> QED
    BY <2>5 DEF R
<1>8. ASSUME NEW rec \in Debate!Recs
      PROVE  /\ Debate!Mass(rec) \in Nat
             /\ of(rec) = {} => Debate!Mass(rec) = 0
  <2> HIDE DEF units, of, timid, heard
  <2>1. of(rec) = {} => \A p \in of(rec) : units[p] = 0
    OBVIOUS
  <2> QED
    BY <1>5, <1>6, <1>7, <2>1
<1>9. ASSUME heard # {}
      PROVE  \E p \in heard : Debate!Mass(opinions[p].recommendation) > 0
  <2>1. CASE timid
    <3>1. PICK p \in heard : TRUE
      BY <1>9
    <3>2. p \in of(opinions[p].recommendation)
      OBVIOUS
    <3>3. Cardinality(of(opinions[p].recommendation)) > 0
      <4> HIDE DEF of
      <4> QED
        BY <1>6, <3>2
    <3> HIDE DEF units, of, timid, heard
    <3> QED
      BY <1>5, <2>1, <3>1, <3>3
  <2>2. CASE ~ timid
    <3>1. PICK p \in heard : opinions[p].confidence # 0
      BY <2>2
    <3>2. p \in of(opinions[p].recommendation) /\ units[p] > 0
      BY <1>4, <3>1
    <3> HIDE DEF units, of, timid, heard
    <3> QED
      BY <1>5, <1>7, <2>2, <3>1, <3>2
  <2> QED
    BY <2>1, <2>2
<1>10. \A rec \in Debate!Recs :
          (\A p \in heard : opinions[p].recommendation # rec) => of(rec) = {}
  OBVIOUS
<1> HIDE DEF units, of, timid
<1> QED
  BY <1>2, <1>8, <1>9, <1>10

(* The consensus is the first of the greatest masses.                      *)
LEMMA ConsensusIsGreatest ==
    ASSUME \A rec \in Debate!Recs : Debate!Mass(rec) \in Nat
    PROVE  /\ Debate!Recommendations[Debate!derive_consensus] \in Debate!Recs
           /\ \A rec \in Debate!Recs :
                 Debate!Mass(Debate!Recommendations[Debate!derive_consensus]) >= Debate!Mass(rec)
<1> DEFINE m == [i \in 1 .. 3 |-> Debate!Mass(Debate!Recommendations[i])]
           best(i) == /\ \A j \in 1 .. 3 : m[i] >= m[j]
                      /\ \A j \in 1 .. i - 1 : m[i] > m[j]
<1>1. /\ Debate!Recommendations[1] = "BUY" /\ Debate!Recommendations[2] = "SELL"
      /\ Debate!Recommendations[3] = "HOLD" /\ 1 .. 3 = {1, 2, 3}
      /\ Debate!Recs = {"BUY", "SELL", "HOLD"}
  BY DEF Debate!Recommendations, Debate!Recs
<1>2. m[1] \in Nat /\ m[2] \in Nat /\ m[3] \in Nat
  BY <1>1
<1>3. \A i \in 1 .. 3 : m[i] = Debate!Mass(Debate!Recommendations[i])
  OBVIOUS
<1>4. Debate!derive_consensus =
         CHOOSE i \in 1 .. 3 :
            /\ \A j \in 1 .. 3 : Debate!Mass(Debate!Recommendations[i])
                                    >= Debate!Mass(Debate!Recommendations[j])
            /\ \A j \in 1 .. i - 1 : Debate!Mass(Debate!Recommendations[i])
                                    > Debate!Mass(Debate!Recommendations[j])
  BY DEF Debate!derive_consensus
<1>5. \E i \in 1 .. 3 : best(i)
  <2> HIDE DEF m
  <2>1. CASE m[1] >= m[2] /\ m[1] >= m[3]
    <3>1. 1 .. 1 - 1 = {} /\ 1 \in 1 .. 3
      OBVIOUS
    <3>2. best(1)
      BY <1>1, <1>2, <2>1, <3>1
    <3> QED
      BY <3>1, <3>2
  <2>2. CASE m[2] > m[1] /\ m[2] >= m[3]
    <3>1. 1 .. 2 - 1 = {1} /\ 2 \in 1 .. 3
      OBVIOUS
    <3>2. best(2)
      BY <1>1, <1>2, <2>2, <3>1
    <3> QED
      BY <3>1, <3>2
  <2>3. CASE m[3] > m[1] /\ m[3] > m[2]
    <3>1. 1 .. 3 - 1 = {1, 2} /\ 3 \in 1 .. 3
      OBVIOUS
    <3>2. best(3)
      BY <1>1, <1>2, <2>3, <3>1
    <3> QED
      BY <3>1, <3>2
  <2> QED
    BY <1>2, <2>1, <2>2, <2>3
<1>6. \E i \in 1 .. 3 :
         /\ \A j \in 1 .. 3 : Debate!Mass(Debate!Recommendations[i])
                                 >= Debate!Mass(Debate!Recommendations[j])
         /\ \A j \in 1 .. i - 1 : Debate!Mass(Debate!Recommendations[i])
                                 > Debate!Mass(Debate!Recommendations[j])
  <2>1. PICK i \in 1 .. 3 : best(i)
    BY <1>5
  <2>2. \A j \in 1 .. i - 1 : j \in 1 .. 3
    OBVIOUS
  <2> HIDE DEF m
  <2> QED
    BY <1>3, <2>1, <2>2
<1>7. /\ Debate!derive_consensus \in 1 .. 3
      /\ \A j \in 1 .. 3 : Debate!Mass(Debate!Recommendations[Debate!derive_consensus])
                              >= Debate!Mass(Debate!Recommendations[j])
  BY <1>4, <1>6
<1> QED
  BY <1>1, <1>7

(* The verdict is made of the votes the chairman was given.                *)
LEMMA ConcludeKeepsDebate ==
    ASSUME CouncilConstants, Debate!IInv, Debate!Conclude
    PROVE  Debate!IInv'
<1> DEFINE final == Debate!Recommendations[Debate!derive_consensus]
           heard == Debate!Heard(opinions)
           said == {opinions[p].recommendation : p \in heard}
           total == Debate!Mass("BUY") + Debate!Mass("SELL") + Debate!Mass("HOLD")
<1>1. /\ phase = "chairman" /\ phase' = "over"
      /\ council_verdict' = [final |-> final, mass |-> Debate!Mass(final), total |-> total,
                             failed_personas |-> Debate!Cardinality(Council)
                                                    - Debate!Cardinality(heard)]
      /\ UNCHANGED <<weights, debate_mode, calls, first_round, opinions, asked>>
  BY DEF Debate!Conclude
<1>2. /\ heard # {} /\ Debate!Kept /\ Debate!Given
      /\ opinions \in Debate!Votes /\ weights \in Weightings
      /\ asked <= Debate!Cardinality(Council) * (IF debate_mode THEN 2 ELSE 1) + 1
  BY <1>1 DEF Debate!IInv, Debate!VoteOK, Debate!PhaseOK, Debate!TypeOK
<1>3. /\ \A rec \in Debate!Recs : /\ Debate!Mass(rec) \in Nat
                                  /\ rec \notin said => Debate!Mass(rec) = 0
      /\ \E rec \in Debate!Recs : rec \in said /\ Debate!Mass(rec) > 0
  BY <1>2, MassOfVotes
<1>4. final \in Debate!Recs /\ \A rec \in Debate!Recs : Debate!Mass(final) >= Debate!Mass(rec)
  BY <1>3, ConsensusIsGreatest
<1>5. Debate!Mass(final) > 0 /\ final \in said
  BY <1>3, <1>4
<1>6. total > 0
  <2>1. Debate!Recs = {"BUY", "SELL", "HOLD"}
    BY DEF Debate!Recs
  <2> HIDE DEF final, said
  <2> QED
    BY <1>3, <1>4, <1>5, <2>1
<1>7. Cardinality(said) = 1 => Debate!Mass(final) = total
  <2> SUFFICES ASSUME Cardinality(said) = 1 PROVE Debate!Mass(final) = total
    OBVIOUS
  <2>1. IsFiniteSet(said)
    <3>1. said \subseteq Debate!Recs
      BY <1>2 DEF Debate!Heard, Debate!Votes, CouncilConstants
    <3>2. IsFiniteSet(Debate!Recs)
      <4>1. Debate!Recs = ({"BUY"} \cup {"SELL"}) \cup {"HOLD"}
        BY DEF Debate!Recs
      <4> QED
        BY <4>1, FS_Singleton, FS_Union
    <3> QED
      BY <3>1, <3>2, FS_Subset
  <2> HIDE DEF said
  <2>2. said = {final}
    BY <1>5, <2>1, FS_Singleton
  <2>3. \A rec \in Debate!Recs : rec # final => Debate!Mass(rec) = 0
    BY <1>3, <2>2
  <2>4. Debate!Recs = {"BUY", "SELL", "HOLD"}
    BY DEF Debate!Recs
  <2> HIDE DEF final
  <2> QED
    BY <1>3, <1>4, <2>3, <2>4
<1>8. /\ Cardinality(Council) \in Nat /\ Cardinality(heard) \in Nat
      /\ Cardinality(heard) > 0
  <2>1. heard \subseteq Council /\ IsFiniteSet(Council)
    BY DEF Debate!Heard, CouncilConstants
  <2> HIDE DEF heard
  <2>2. IsFiniteSet(heard)
    BY <2>1, FS_Subset
  <2> QED
    BY <1>2, <2>1, <2>2, FS_CardinalityType, FS_EmptySet
<1>9. /\ council_verdict'.final = final /\ council_verdict'.mass = Debate!Mass(final)
      /\ council_verdict'.total = total
      /\ council_verdict'.failed_personas = Cardinality(Council) - Cardinality(heard)
  BY <1>1, CouncilCardinality
<1>10. Debate!VerdictOfRealVotes'
  <2>1. council_verdict'.failed_personas < Cardinality(Council)
    BY <1>8, <1>9
  <2>2. /\ council_verdict'.final \in said /\ council_verdict'.total > 0
        /\ Cardinality(said) = 1 => council_verdict'.mass = council_verdict'.total
    BY <1>5, <1>6, <1>7, <1>9
  <2>3. opinions' = opinions /\ calls' = calls /\ first_round' = first_round
        /\ asked' = asked /\ debate_mode' = debate_mode
    BY <1>1
  <2> HIDE DEF final, total
  <2> QED
    BY <1>2, <2>1, <2>2, <2>3, CouncilCardinality
       DEF Debate!VerdictOfRealVotes, Debate!Kept, Debate!Given, Debate!Heard
<1>11. Debate!TypeOK' /\ Debate!VoteOK' /\ Debate!PhaseOK'
  BY <1>1, <1>2
     DEF Debate!IInv, Debate!TypeOK, Debate!VoteOK, Debate!PhaseOK, Debate!Votes, Debate!Statuses
<1>12. /\ weights' \in Weightings /\ debate_mode' \in BOOLEAN
       /\ phase' # "over" => council_verdict' = None
       /\ \A p \in Council : Debate!CallOK(calls[p])'
  BY <1>1 DEF Debate!IInv, Debate!CallOK
<1> QED
  BY <1>10, <1>11, <1>12 DEF Debate!IInv

(* An analysis that ends without a verdict.                                *)
LEMMA NoVerdictKeepsDebate ==
    ASSUME CouncilConstants, Debate!IInv, Debate!CouncilUnavailable \/ Debate!MalformedStory
    PROVE  Debate!IInv'
<1>1. /\ phase \in {"round1", "chairman"} /\ phase' = "over"
      /\ UNCHANGED <<weights, debate_mode, calls, first_round, opinions, council_verdict, asked>>
  BY DEF Debate!CouncilUnavailable, Debate!MalformedStory
<1>2. council_verdict = None /\ debate_mode \in BOOLEAN
  BY <1>1 DEF Debate!IInv
<1>3. asked <= Debate!Cardinality(Council) * (IF debate_mode THEN 2 ELSE 1) + 1
  <2>1. Debate!Cardinality(Council) \in Nat
    BY FS_CardinalityType, CouncilCardinality DEF CouncilConstants
  <2> QED
    BY <1>1, <1>2, <2>1 DEF Debate!IInv, Debate!PhaseOK
<1>4. Debate!TypeOK' /\ Debate!VoteOK' /\ Debate!PhaseOK' /\ Debate!VerdictOfRealVotes'
  BY <1>1, <1>2, <1>3
     DEF Debate!IInv, Debate!TypeOK, Debate!VoteOK, Debate!PhaseOK, Debate!Votes,
         Debate!Statuses, Debate!VerdictOfRealVotes
<1>5. /\ weights' \in Weightings /\ debate_mode' \in BOOLEAN
      /\ phase' # "over" => council_verdict' = None
      /\ \A p \in Council : Debate!CallOK(calls[p])'
  BY <1>1 DEF Debate!IInv, Debate!CallOK
<1> QED
  BY <1>4, <1>5 DEF Debate!IInv

LEMMA NextKeepsDebate ==
    CouncilConstants /\ Debate!IInv /\ [Debate!Next]_(Debate!vars) => Debate!IInv'
<1> SUFFICES ASSUME CouncilConstants, Debate!IInv, [Debate!Next]_(Debate!vars)
             PROVE  Debate!IInv'
  OBVIOUS
<1>1. ASSUME UNCHANGED Debate!vars PROVE Debate!IInv'
  BY <1>1 DEF Debate!vars, Debate!IInv, Debate!TypeOK, Debate!VoteOK, Debate!PhaseOK, Debate!Votes,
     Debate!Statuses, Debate!VerdictOfRealVotes, Debate!CallOK, Debate!Heard, Debate!NoVotes,
     Debate!Kept, Debate!Given
<1> QED
  BY <1>1, CallEndsKeepsDebate, TimeoutKeepsDebate, RevisionKeepsDebate, CloseKeepsDebate,
     ConcludeKeepsDebate, NoVerdictKeepsDebate DEF Debate!Next

(* For every council, opinions and weights: the verdict is one of the votes*)
(* given in the last round that left any, silence is no vote, and nobody is*)
(* asked more often than the envelope says (CouncilService.analyze).       *)
THEOREM DebateHolds ==
    ASSUME CouncilConstants
    PROVE  Debate!Spec => [](Debate!TypeOK /\ Debate!VerdictOfRealVotes)
<1>1. Debate!Init => Debate!IInv
  BY InitKeepsDebate
<1>2. Debate!IInv /\ [Debate!Next]_(Debate!vars) => Debate!IInv'
  BY NextKeepsDebate
<1>3. Debate!IInv => Debate!TypeOK /\ Debate!VerdictOfRealVotes
  BY DEF Debate!IInv
<1> QED
  BY <1>1, <1>2, <1>3, PTL DEF Debate!Spec

-----------------------------------------------------------------------------
(* SessionSettlement: which trade a stored price is.                       *)

(* What the proofs assume of the constants: the days before and behind the *)
(* bound are not closed.                                                   *)
SessionConstants ==
    /\ LastSession \in Nat
    /\ \A c \in Calendars : c.closed \subseteq 1 .. LastSession

LEMMA TradingDaysAre ==
    ASSUME SessionConstants, sessions_of \in Calendars
    PROVE  /\ LastSession \in Nat
           /\ Session!TradingDays \in SUBSET (0 .. LastSession + 1)
           /\ 0 \in Session!TradingDays /\ LastSession + 1 \in Session!TradingDays
           /\ \A d \in Session!TradingDays :
                 d \in Nat /\ Session!opens_at(d) = 5 * d + 1
                 /\ Session!closes_at(d) \in {5 * d + 2, 5 * d + 3}
<1>1. LastSession \in Nat /\ sessions_of.closed \subseteq 1 .. LastSession
  BY DEF SessionConstants
<1>2. 0 \notin sessions_of.closed /\ LastSession + 1 \notin sessions_of.closed
  BY <1>1
<1>3. Session!TradingDays \subseteq 0 .. LastSession + 1
      /\ 0 \in Session!TradingDays /\ LastSession + 1 \in Session!TradingDays
  BY <1>1, <1>2 DEF Session!TradingDays, Session!is_trading_day, Session!Days
<1>4. ASSUME NEW d \in Session!TradingDays
      PROVE  d \in Nat /\ Session!opens_at(d) = 5 * d + 1
             /\ Session!closes_at(d) \in {5 * d + 2, 5 * d + 3}
  <2>1. d \in Nat
    BY <1>1, <1>3
  <2> QED
    BY <2>1 DEF Session!opens_at, Session!closes_at, Session!Moments
<1> QED
  BY <1>1, <1>3, <1>4

LEMMA TradesAre ==
    ASSUME NEW u
    PROVE  u \in Session!Trades <=>
              \E d \in Session!TradingDays : u \in Session!opens_at(d) .. Session!closes_at(d)
BY DEF Session!Trades

LEMMA LastStartedIs ==
    ASSUME SessionConstants, sessions_of \in Calendars, NEW t \in Nat \ {0}
    PROVE  /\ Session!last_started_session(t) \in Session!TradingDays
           /\ Session!opens_at(Session!last_started_session(t)) <= t
           /\ \A d \in Session!TradingDays :
                 Session!opens_at(d) <= t => d <= Session!last_started_session(t)
<1> DEFINE started == {d \in Session!TradingDays : Session!opens_at(d) <= t}
<1>1. started \in SUBSET (0 .. LastSession + 1) /\ LastSession + 1 \in Nat
  BY TradingDaysAre
<1>2. 0 \in started
  BY TradingDaysAre
<1>3. \E m \in started : \A y \in started : y <= m
  <2> HIDE DEF started
  <2> QED
    BY <1>1, <1>2, GreatestNumber
<1>4. \A y \in started : y \in Int
  BY <1>1
<1>5. Session!last_started_session(t) = CHOOSE x \in started : \A y \in started : x >= y
  BY DEF Session!last_started_session, Session!Max
<1>6. \E x \in started : \A y \in started : x >= y
  BY <1>3, <1>4
<1>7. /\ Session!last_started_session(t) \in started
      /\ \A y \in started : y <= Session!last_started_session(t)
  <2> HIDE DEF started
  <2> QED
    BY <1>4, <1>5, <1>6
<1> QED
  BY <1>7

LEMMA NextOpenIs ==
    ASSUME SessionConstants, sessions_of \in Calendars, NEW t \in Session!Times
    PROVE  /\ Session!next_open(t) \in Session!TradingDays
           /\ t < Session!opens_at(Session!next_open(t))
           /\ \A d \in Session!TradingDays :
                 t < Session!opens_at(d) => Session!next_open(t) <= d
<1> DEFINE later == {d \in Session!TradingDays : Session!opens_at(d) > t}
<1>1. later \in SUBSET (0 .. LastSession + 1) /\ LastSession + 1 \in Nat
  BY TradingDaysAre
<1>2. t \in Nat /\ t < 5 * (LastSession + 1) + 1
  BY TradingDaysAre DEF Session!Times, Session!Moments
<1>3. LastSession + 1 \in later
  BY <1>2, TradingDaysAre
<1>4. \E m \in later : \A y \in later : m <= y
  <2> HIDE DEF later
  <2> QED
    BY <1>1, <1>3, LeastNumber
<1>5. Session!next_open(t) = CHOOSE x \in later : \A y \in later : x <= y
  BY DEF Session!next_open, Session!Min
<1>6. /\ Session!next_open(t) \in later
      /\ \A y \in later : Session!next_open(t) <= y
  <2> HIDE DEF later
  <2> QED
    BY <1>4, <1>5
<1>7. \A d \in Session!TradingDays : Session!opens_at(d) \in Int
  BY TradingDaysAre
<1> QED
  BY <1>2, <1>6, <1>7

(* A quote is the last trade until its time, in the session it names.      *)
LEMMA QuoteIs ==
    ASSUME SessionConstants, sessions_of \in Calendars, NEW t \in Session!Times
    PROVE  LET quote == Session!QuoteUntil(t)
           IN  /\ quote.quoted_at \in Session!Trades /\ quote.quoted_at \in Nat /\ quote.quoted_at <= t
               /\ \E session \in Session!TradingDays :
                     /\ Session!opens_at(session) <= quote.quoted_at
                     /\ quote.quoted_at <= Session!closes_at(session)
                     /\ quote.open_price = Session!opens_at(session)
                     /\ \/ quote.prev_close = None
                        \/ \E e \in Session!TradingDays :
                              /\ e < session /\ quote.prev_close = Session!closes_at(e)
                              /\ \A d \in Session!TradingDays : d < session => d <= e
<1> DEFINE known == {u \in Session!Trades : u <= t}
           q == Session!Max(known)
<1>1. t \in Nat /\ 1 <= t
  BY TradingDaysAre DEF Session!Times, Session!Moments
<1>2. \A u \in Session!Trades : u \in Nat
  BY TradesAre, TradingDaysAre
<1>3. known \in SUBSET (0 .. t)
  BY <1>1, <1>2
<1>4. 1 \in known
  <2>1. 1 \in Session!Trades
    BY TradesAre, TradingDaysAre
  <2> QED
    BY <1>1, <2>1
<1>5. q = CHOOSE x \in known : \A y \in known : x >= y
  BY DEF Session!Max
<1>6. q \in known
  <2>1. \E m \in known : \A y \in known : y <= m
    <3> HIDE DEF known
    <3> QED
      BY <1>1, <1>3, <1>4, GreatestNumber
  <2>2. \A y \in known : y \in Int
    BY <1>2
  <2> HIDE DEF known, q
  <2> QED
    BY <1>5, <2>1, <2>2
<1> HIDE DEF q
<1>7. q \in Session!Trades /\ q \in Nat /\ q <= t
  BY <1>2, <1>6
<1>8. PICK session \in Session!TradingDays :
         q \in Session!opens_at(session) .. Session!closes_at(session)
  BY <1>7, TradesAre
<1>9. Session!DayOf(q) = session
  <2>1. session \in Nat /\ 5 * session <= q /\ q < 5 * session + 5
    BY <1>7, <1>8, TradingDaysAre
  <2>2. q \div 5 = session
    BY <1>7, <2>1
  <2> QED
    BY <2>2 DEF Session!DayOf, Session!Moments
<1> DEFINE earlier == {d \in Session!TradingDays : d < session}
<1>10. Session!QuoteUntil(t) =
          [quoted_at |-> q, open_price |-> Session!opens_at(session),
           prev_close |-> IF earlier = {} THEN None
                          ELSE Session!closes_at(Session!Max(earlier))]
  BY <1>9 DEF Session!QuoteUntil, q
<1>11. ASSUME earlier # {}
       PROVE  /\ Session!Max(earlier) \in Session!TradingDays /\ Session!Max(earlier) < session
              /\ \A d \in Session!TradingDays : d < session => d <= Session!Max(earlier)
  <2>1. earlier \in SUBSET (0 .. LastSession + 1) /\ LastSession + 1 \in Nat
    BY TradingDaysAre
  <2>2. \E m \in earlier : \A y \in earlier : y <= m
    <3> HIDE DEF earlier
    <3> QED
      BY <1>11, <2>1, GreatestNumber
  <2>3. Session!Max(earlier) = CHOOSE x \in earlier : \A y \in earlier : x >= y
    BY DEF Session!Max
  <2>4. \A y \in earlier : y \in Int
    BY <2>1
  <2>5. Session!Max(earlier) \in earlier /\ \A y \in earlier : y <= Session!Max(earlier)
    <3> HIDE DEF earlier
    <3> QED
      BY <2>2, <2>3, <2>4
  <2> QED
    BY <2>5
<1>12. LET quote == Session!QuoteUntil(t)
       IN  /\ quote.quoted_at = q /\ quote.open_price = Session!opens_at(session)
           /\ earlier = {} => quote.prev_close = None
           /\ earlier # {} => quote.prev_close = Session!closes_at(Session!Max(earlier))
  BY <1>10
<1> HIDE DEF earlier
<1>13. /\ Session!opens_at(session) <= q /\ q <= Session!closes_at(session)
  BY <1>7, <1>8, TradingDaysAre
<1> QED
  BY <1>7, <1>11, <1>12, <1>13

(* Between the opening of the session and the time of the quote no other   *)
(* session opened.                                                         *)
LEMMA QuoteOfTheSession ==
    ASSUME SessionConstants, sessions_of \in Calendars,
           NEW quoted \in Nat, NEW now \in Nat \ {0}, quoted <= now,
           NEW session \in Session!TradingDays,
           Session!opens_at(session) <= quoted, quoted <= Session!closes_at(session),
           Session!opens_at(Session!last_started_session(now)) <= quoted
    PROVE  session = Session!last_started_session(now)
<1> DEFINE last == Session!last_started_session(now)
<1>1. /\ last \in Session!TradingDays /\ Session!opens_at(last) <= now
      /\ \A d \in Session!TradingDays : Session!opens_at(d) <= now => d <= last
  BY LastStartedIs
<1> HIDE DEF last
<1>2. /\ session \in Nat /\ Session!opens_at(session) = 5 * session + 1
      /\ Session!closes_at(session) \in {5 * session + 2, 5 * session + 3}
      /\ last \in Nat /\ Session!opens_at(last) = 5 * last + 1
  BY <1>1, TradingDaysAre
<1>3. Session!opens_at(last) <= quoted
  BY DEF last
<1>4. session <= last
  BY <1>1, <1>2
<1>5. last <= session
  BY <1>2, <1>3
<1> QED
  BY <1>2, <1>4, <1>5 DEF last

-----------------------------------------------------------------------------
(* The row of the prediction: when it was stamped, saved and priced.       *)
LEMMA SavedIs ==
    ASSUME Session!IInv, prediction # None
    PROVE  \E created, saved, t, now \in Session!Times :
              /\ Session!OneHour(created, saved) /\ t <= now /\ now <= saved /\ saved <= moment
              /\ prediction.created_at = created /\ prediction.saved_at = saved
              /\ prediction.priced_at = now
              /\ prediction.price_at_prediction = Session!QuoteUntil(t).quoted_at
              /\ prediction.stale_quote = Session!is_stale(Session!QuoteUntil(t).quoted_at, now)
<1>1. PICK created \in Session!Times, saved \in Session!Times,
            t \in Session!Times, now \in Session!Times :
         /\ Session!OneHour(created, saved) /\ t <= now /\ now <= saved /\ saved <= moment
         /\ prediction = Session!Row(created, saved,
                            Session!PriceRead(Session!QuoteUntil(t), now))
  BY DEF Session!IInv
<1>2. /\ prediction.created_at = created /\ prediction.saved_at = saved
      /\ prediction.priced_at = now
      /\ prediction.price_at_prediction = Session!QuoteUntil(t).quoted_at
      /\ prediction.stale_quote = Session!is_stale(Session!QuoteUntil(t).quoted_at, now)
  BY <1>1 DEF Session!Row, Session!PriceRead
<1> QED
  BY <1>1, <1>2

(* What depends on the calendar alone stays.                               *)
LEMMA DaysStay ==
    ASSUME sessions_of' = sessions_of
    PROVE  /\ \A t : Session!QuoteUntil(t)' = Session!QuoteUntil(t)
           /\ \A t, now : Session!PriceRead(Session!QuoteUntil(t), now)'
                         = Session!PriceRead(Session!QuoteUntil(t), now)
<1>1. \A t : Session!QuoteUntil(t)' = Session!QuoteUntil(t)
  BY DEF Session!QuoteUntil, Session!Trades, Session!TradingDays,
     Session!is_trading_day, Session!opens_at, Session!closes_at
<1>2. \A q, now : Session!is_stale(q, now)' = Session!is_stale(q, now)
  BY DEF Session!is_stale, Session!last_started_session, Session!TradingDays,
     Session!is_trading_day, Session!opens_at
<1>3. \A q, now : Session!PriceRead(q, now)' = Session!PriceRead(q, now)
  BY <1>2 DEF Session!PriceRead
<1> QED
  BY <1>1, <1>3

LEMMA CloseStays ==
    ASSUME sessions_of' = sessions_of, fetched' = fetched
    PROVE  \A now : Session!session_close_of(fetched, now)'
                    = Session!session_close_of(fetched, now)
BY DEF Session!session_close_of, Session!last_started_session, Session!TradingDays,
   Session!is_trading_day, Session!opens_at, Session!closes_at

LEMMA InitKeepsSession == SessionConstants /\ Session!Init => Session!IInv
BY DEF Session!Init, Session!IInv

LEMMA TimeKeepsSession ==
    ASSUME SessionConstants, Session!IInv, Session!TimePasses
    PROVE  Session!IInv'
<1>1. /\ settled = None /\ moment' = moment + 1 /\ moment + 1 \in Session!Times
      /\ current_price # None => moment = current_price.at
      /\ UNCHANGED <<sessions_of, current_price, prediction, fetched, price_checked, settled>>
  BY DEF Session!TimePasses
<1>2. moment \in Int /\ \A t \in Session!Times : t \in Int
  BY DEF Session!IInv, Session!Times
<1>3. current_price' # None =>
          /\ fetched' = None
          /\ \E t, now \in Session!Times :
                /\ t <= now /\ now <= moment' /\ moment' <= now + 1
                /\ current_price' = Session!PriceRead(Session!QuoteUntil(t), now)'
  <2>1. SUFFICES ASSUME current_price # None
        PROVE  /\ fetched' = None
               /\ \E t, now \in Session!Times :
                     /\ t <= now /\ now <= moment' /\ moment' <= now + 1
                     /\ current_price' = Session!PriceRead(Session!QuoteUntil(t), now)'
    BY <1>1
  <2>2. fetched = None
    BY <2>1 DEF Session!IInv
  <2>3. PICK t \in Session!Times, now \in Session!Times :
           /\ t <= now /\ now <= moment
           /\ current_price = Session!PriceRead(Session!QuoteUntil(t), now)
    BY <2>1 DEF Session!IInv
  <2>4. now = moment
    <3>1. current_price.at = now
      BY <2>3 DEF Session!PriceRead
    <3> QED
      BY <1>1, <2>1, <3>1
  <2>5. now <= moment' /\ moment' <= now + 1
    BY <1>1, <1>2, <2>4
  <2> QED
    BY <1>1, <2>2, <2>3, <2>5, DaysStay
<1>4. prediction' # None =>
          \E created, saved, t, now \in Session!Times :
             /\ Session!OneHour(created, saved) /\ t <= now /\ now <= saved /\ saved <= moment'
             /\ prediction' = Session!Row(created, saved,
                                 Session!PriceRead(Session!QuoteUntil(t), now)')
  <2>1. prediction # None =>
          \E created, saved, t, now \in Session!Times :
             /\ Session!OneHour(created, saved) /\ t <= now /\ now <= saved /\ saved <= moment
             /\ prediction = Session!Row(created, saved,
                                Session!PriceRead(Session!QuoteUntil(t), now))
    BY DEF Session!IInv
  <2>2. \A saved \in Session!Times : saved <= moment => saved <= moment'
    BY <1>1, <1>2
  <2> QED
    BY <1>1, <2>1, <2>2, DaysStay
<1>5. fetched' # None =>
          /\ prediction' # None /\ prediction'.saved_at < moment'
          /\ \E t \in Session!Times : t <= moment' /\ fetched' = Session!QuoteUntil(t)'
  <2>1. fetched # None =>
          /\ prediction # None /\ prediction.saved_at < moment
          /\ \E t \in Session!Times : t <= moment /\ fetched = Session!QuoteUntil(t)
    BY DEF Session!IInv
  <2>2. prediction # None => prediction.saved_at \in Session!Times
    BY SavedIs
  <2>3. \A t \in Session!Times : t <= moment => t <= moment'
    BY <1>1, <1>2
  <2>4. fetched # None => prediction.saved_at < moment'
    BY <1>1, <1>2, <2>1, <2>2
  <2>5. fetched # None => \E t \in Session!Times : t <= moment' /\ fetched = Session!QuoteUntil(t)'
    BY <2>1, <2>3, DaysStay, <1>1
  <2> QED
    BY <1>1, <2>1, <2>4, <2>5
<1>6. price_checked' # None =>
          /\ fetched' # None
          /\ \E now \in Session!Times :
                /\ fetched'.quoted_at <= now /\ now <= moment'
                /\ prediction'.saved_at < now
                /\ price_checked' = [at |-> now,
                                     session_close |-> Session!session_close_of(fetched, now)']
  <2>1. price_checked # None =>
          /\ fetched # None
          /\ \E now \in Session!Times :
                /\ fetched.quoted_at <= now /\ now <= moment
                /\ prediction.saved_at < now
                /\ price_checked = [at |-> now,
                                    session_close |-> Session!session_close_of(fetched, now)]
    BY DEF Session!IInv
  <2>2. \A now \in Session!Times : now <= moment => now <= moment'
    BY <1>1, <1>2
  <2> QED
    BY <1>1, <2>1, <2>2, CloseStays
<1> QED
  BY <1>1, <1>3, <1>4, <1>5, <1>6
     DEF Session!IInv, Session!Times, Session!OneHour, Session!Row

LEMMA ReadKeepsSession ==
    ASSUME SessionConstants, Session!IInv, Session!ReadPrice
    PROVE  Session!IInv'
<1>1. /\ fetched = None
      /\ UNCHANGED <<sessions_of, moment, prediction, fetched, price_checked, settled>>
  BY DEF Session!ReadPrice
<1>2. PICK t \in Session!Times :
         t <= moment /\ current_price' = Session!PriceRead(Session!QuoteUntil(t), moment)
  BY DEF Session!ReadPrice
<1>3. price_checked = None /\ settled = None
  BY <1>1 DEF Session!IInv
<1>4. /\ moment \in Session!Times /\ moment <= moment /\ moment <= moment + 1
  BY DEF Session!IInv, Session!Times
<1>5. current_price' # None =>
          /\ fetched' = None
          /\ \E u, now \in Session!Times :
                /\ u <= now /\ now <= moment' /\ moment' <= now + 1
                /\ current_price' = Session!PriceRead(Session!QuoteUntil(u), now)'
  BY <1>1, <1>2, <1>4, DaysStay
<1>6. prediction' # None =>
          \E created, saved, u, now \in Session!Times :
             /\ Session!OneHour(created, saved) /\ u <= now /\ now <= saved /\ saved <= moment'
             /\ prediction' = Session!Row(created, saved,
                                 Session!PriceRead(Session!QuoteUntil(u), now)')
  BY <1>1, DaysStay DEF Session!IInv
<1> QED
  BY <1>1, <1>3, <1>5, <1>6 DEF Session!IInv, Session!Times, Session!OneHour, Session!Row

LEMMA SaveKeepsSession ==
    ASSUME SessionConstants, Session!IInv, Session!SavePrediction
    PROVE  Session!IInv'
<1>1. /\ current_price # None /\ current_price' = None
      /\ UNCHANGED <<sessions_of, moment, fetched, price_checked, settled>>
  BY DEF Session!SavePrediction
<1>2. fetched = None /\ price_checked = None /\ settled = None /\ moment \in Session!Times
  BY <1>1 DEF Session!IInv
<1>3. PICK t \in Session!Times, now \in Session!Times :
         /\ t <= now /\ now <= moment
         /\ current_price = Session!PriceRead(Session!QuoteUntil(t), now)
  BY <1>1 DEF Session!IInv
<1>4. \E created \in Session!Times :
         /\ Session!OneHour(created, moment)
         /\ prediction' = Session!Row(created, moment, current_price)
  <2>1. CASE prediction = None
    <3>1. prediction' = Session!Row(moment, moment, current_price)
      BY <2>1 DEF Session!SavePrediction
    <3>2. Session!OneHour(moment, moment)
      BY DEF Session!OneHour
    <3> QED
      BY <1>2, <3>1, <3>2
  <2>2. CASE prediction # None
    <3>1. /\ Session!OneHour(prediction.created_at, moment)
          /\ prediction' = Session!Row(prediction.created_at, moment, current_price)
      BY <2>2 DEF Session!SavePrediction
    <3>2. prediction.created_at \in Session!Times
      BY <2>2, SavedIs
    <3> QED
      BY <3>1, <3>2
  <2> QED
    BY <2>1, <2>2
<1>5. \E created, saved, u, read \in Session!Times :
         /\ Session!OneHour(created, saved) /\ u <= read /\ read <= saved /\ saved <= moment'
         /\ prediction' = Session!Row(created, saved,
                             Session!PriceRead(Session!QuoteUntil(u), read)')
  <2>1. moment <= moment'
    BY <1>1, <1>2 DEF Session!Times
  <2> QED
    BY <1>1, <1>2, <1>3, <1>4, <2>1, DaysStay
<1> QED
  BY <1>1, <1>2, <1>5 DEF Session!IInv, Session!Times, Session!OneHour, Session!Row

LEMMA EndKeepsSession ==
    ASSUME SessionConstants, Session!IInv, Session!RunEnds
    PROVE  Session!IInv'
<1>1. /\ current_price # None /\ current_price' = None
      /\ UNCHANGED <<sessions_of, moment, prediction, fetched, price_checked, settled>>
  BY DEF Session!RunEnds
<1>2. fetched = None /\ price_checked = None /\ settled = None
  BY <1>1 DEF Session!IInv
<1>3. prediction' # None =>
          \E created, saved, u, now \in Session!Times :
             /\ Session!OneHour(created, saved) /\ u <= now /\ now <= saved /\ saved <= moment'
             /\ prediction' = Session!Row(created, saved,
                                 Session!PriceRead(Session!QuoteUntil(u), now)')
  BY <1>1, DaysStay DEF Session!IInv
<1> QED
  BY <1>1, <1>2, <1>3 DEF Session!IInv, Session!Times, Session!OneHour, Session!Row

LEMMA QuoteKeepsSession ==
    ASSUME SessionConstants, Session!IInv, Session!GetQuote
    PROVE  Session!IInv'
<1>1. /\ fetched = None /\ current_price = None
      /\ prediction # None /\ moment > prediction.saved_at
      /\ UNCHANGED <<sessions_of, moment, current_price, prediction, price_checked, settled>>
  BY DEF Session!GetQuote
<1>2. PICK t \in Session!Times : t <= moment /\ fetched' = Session!QuoteUntil(t)
  BY DEF Session!GetQuote
<1>3. price_checked = None /\ settled = None
  BY <1>1 DEF Session!IInv
<1>4. prediction'.saved_at < moment'
  <2>1. prediction.saved_at \in Session!Times
    BY <1>1, SavedIs
  <2>2. prediction.saved_at \in Int /\ moment \in Int
    BY <2>1 DEF Session!IInv, Session!Times
  <2>3. prediction.saved_at < moment
    BY <1>1, <2>2
  <2> QED
    BY <1>1, <2>3
<1>5. \E created, saved, u, now \in Session!Times :
         /\ Session!OneHour(created, saved) /\ u <= now /\ now <= saved /\ saved <= moment'
         /\ prediction' = Session!Row(created, saved,
                             Session!PriceRead(Session!QuoteUntil(u), now)')
  BY <1>1, DaysStay DEF Session!IInv
<1>6. \E u \in Session!Times : u <= moment' /\ fetched' = Session!QuoteUntil(u)'
  BY <1>1, <1>2, DaysStay
<1> QED
  BY <1>1, <1>3, <1>4, <1>5, <1>6
     DEF Session!IInv, Session!Times, Session!OneHour, Session!Row

LEMMA CheckKeepsSession ==
    ASSUME SessionConstants, Session!IInv, Session!CheckPrice
    PROVE  Session!IInv'
<1>1. /\ fetched # None /\ price_checked = None
      /\ price_checked' = [at |-> moment,
                           session_close |-> Session!session_close_of(fetched, moment)]
      /\ UNCHANGED <<sessions_of, moment, current_price, prediction, fetched, settled>>
  BY DEF Session!CheckPrice
<1>2. PICK t \in Session!Times : t <= moment /\ fetched = Session!QuoteUntil(t)
  BY <1>1 DEF Session!IInv
<1>3. /\ sessions_of \in Calendars /\ moment \in Session!Times
      /\ prediction # None /\ prediction.saved_at < moment
      /\ current_price = None
  BY <1>1 DEF Session!IInv
<1>4. fetched.quoted_at <= moment
  <2>1. fetched.quoted_at \in Nat /\ fetched.quoted_at <= t
    BY <1>2, <1>3, QuoteIs
  <2>2. t \in Int /\ moment \in Int
    BY <1>3 DEF Session!Times
  <2> QED
    BY <1>2, <2>1, <2>2
<1>5. settled = None
  BY <1>1 DEF Session!IInv
<1>6. moment <= moment
  BY <1>3 DEF Session!Times
<1>7. \E created, saved, u, now \in Session!Times :
         /\ Session!OneHour(created, saved) /\ u <= now /\ now <= saved /\ saved <= moment'
         /\ prediction' = Session!Row(created, saved,
                             Session!PriceRead(Session!QuoteUntil(u), now)')
  BY <1>1, <1>3, DaysStay DEF Session!IInv
<1>8. \E u \in Session!Times : u <= moment' /\ fetched' = Session!QuoteUntil(u)'
  BY <1>1, <1>2, DaysStay
<1>9. \E now \in Session!Times :
         /\ fetched'.quoted_at <= now /\ now <= moment' /\ prediction'.saved_at < now
         /\ price_checked' = [at |-> now,
                              session_close |-> Session!session_close_of(fetched, now)']
  BY <1>1, <1>3, <1>4, <1>6, CloseStays
<1> QED
  BY <1>1, <1>3, <1>5, <1>7, <1>8, <1>9
     DEF Session!IInv, Session!Times, Session!OneHour, Session!Row

(* What a step that leaves the row and the quotes alone keeps.             *)
LEMMA RestStays ==
    ASSUME Session!IInv,
           UNCHANGED <<sessions_of, moment, current_price, prediction, fetched, price_checked>>,
           settled' # None => price_checked' # None /\ settled' = Session!Settlement'
    PROVE  Session!IInv'
<1>1. current_price' # None =>
          /\ fetched' = None
          /\ \E t, now \in Session!Times :
                /\ t <= now /\ now <= moment' /\ moment' <= now + 1
                /\ current_price' = Session!PriceRead(Session!QuoteUntil(t), now)'
  BY DaysStay DEF Session!IInv
<1>2. prediction' # None =>
          \E created, saved, u, now \in Session!Times :
             /\ Session!OneHour(created, saved) /\ u <= now /\ now <= saved /\ saved <= moment'
             /\ prediction' = Session!Row(created, saved,
                                 Session!PriceRead(Session!QuoteUntil(u), now)')
  BY DaysStay DEF Session!IInv
<1>3. fetched' # None =>
          /\ prediction' # None /\ prediction'.saved_at < moment'
          /\ \E t \in Session!Times : t <= moment' /\ fetched' = Session!QuoteUntil(t)'
  BY DaysStay DEF Session!IInv
<1>4. price_checked' # None =>
          /\ fetched' # None
          /\ \E now \in Session!Times :
                /\ fetched'.quoted_at <= now /\ now <= moment'
                /\ prediction'.saved_at < now
                /\ price_checked' = [at |-> now,
                                     session_close |-> Session!session_close_of(fetched, now)']
  BY CloseStays DEF Session!IInv
<1> QED
  BY <1>1, <1>2, <1>3, <1>4 DEF Session!IInv, Session!Times, Session!OneHour, Session!Row

LEMMA SettlementStays ==
    ASSUME UNCHANGED <<sessions_of, moment, prediction, fetched, price_checked>>
    PROVE  Session!Settlement' = Session!Settlement
BY DEF Session!Settlement, Session!settles, Session!settles_on_stale_quote,
   Session!executable_entry, Session!in_session, Session!next_open,
   Session!last_started_session, Session!TradingDays, Session!is_trading_day,
   Session!opens_at, Session!closes_at

LEMMA StepKeepsSession ==
    ASSUME SessionConstants, Session!IInv, [Session!Next]_(Session!vars)
    PROVE  Session!IInv'
<1>1. CASE Session!TimePasses
  BY <1>1, TimeKeepsSession
<1>2. CASE Session!ReadPrice
  BY <1>2, ReadKeepsSession
<1>3. CASE Session!SavePrediction
  BY <1>3, SaveKeepsSession
<1>4. CASE Session!RunEnds
  BY <1>4, EndKeepsSession
<1>5. CASE Session!GetQuote
  BY <1>5, QuoteKeepsSession
<1>6. CASE Session!CheckPrice
  BY <1>6, CheckKeepsSession
<1>7. CASE Session!Reflect
  BY <1>7, SettlementStays, RestStays DEF Session!Reflect
<1>8. CASE UNCHANGED Session!vars
  <2>1. settled # None => price_checked # None /\ settled = Session!Settlement
    BY DEF Session!IInv
  <2> QED
    BY <1>8, <2>1, SettlementStays, RestStays DEF Session!vars
<1> QED
  BY <1>1, <1>2, <1>3, <1>4, <1>5, <1>6, <1>7, <1>8 DEF Session!Next

-----------------------------------------------------------------------------
(* A quote with the time at which the clock was read behind it: the close  *)
(* that check_price finds.                                                 *)
LEMMA CloseIs ==
    ASSUME SessionConstants, sessions_of \in Calendars, prediction.created_at \in Session!Times,
           NEW t \in Session!Times, NEW now \in Session!Times, 
           fetched = Session!QuoteUntil(t), fetched.quoted_at <= now,
           price_checked = [at |-> now, session_close |-> Session!session_close_of(fetched, now)],
           price_checked.session_close # None, Session!settles(price_checked.session_close)
    PROVE  LET close == price_checked.session_close
           IN  /\ close.session_day \in Session!TradingDays
               /\ prediction.created_at < Session!opens_at(close.session_day)
               /\ fetched.quoted_at <= close.price
                  \/ close.price # Session!opens_at(close.session_day)
               /\ close.price \in Session!opens_at(close.session_day)
                                  .. Session!closes_at(close.session_day)
               /\ close.price = Session!closes_at(close.session_day) \/ Session!QuoteIsBehind
<1> DEFINE last == Session!last_started_session(now)
           next == Session!next_open(prediction.created_at)
           close == Session!session_close_of(fetched, now)
           q == fetched.quoted_at
<1>1. now \in Nat \ {0} /\ prediction.created_at \in Int
  BY TradingDaysAre DEF Session!Times, Session!Moments
<1>2. /\ last \in Session!TradingDays /\ Session!opens_at(last) <= now
      /\ \A d \in Session!TradingDays : Session!opens_at(d) <= now => d <= last
  BY <1>1, LastStartedIs
<1>3. /\ next \in Session!TradingDays /\ prediction.created_at < Session!opens_at(next)
  BY NextOpenIs
<1>4. q \in Nat /\ q <= now
  BY QuoteIs
<1>5. PICK session \in Session!TradingDays :
         /\ Session!opens_at(session) <= q /\ q <= Session!closes_at(session)
         /\ \/ fetched.prev_close = None
            \/ \E e \in Session!TradingDays :
                  /\ e < session /\ fetched.prev_close = Session!closes_at(e)
                  /\ \A d \in Session!TradingDays : d < session => d <= e
  BY QuoteIs
<1>6. price_checked.session_close = close /\ price_checked.at = now
  OBVIOUS
<1>7. close # None /\ close.session_day >= next
  BY <1>6 DEF Session!settles
<1>8. q >= Session!opens_at(last)
  <2>1. CASE q < Session!opens_at(last)
    <3>1. close = None
      <4>1. ~(q >= Session!opens_at(last))
        BY <1>2, <1>4, <2>1, TradingDaysAre
      <4> QED
        BY <2>1, <4>1 DEF Session!session_close_of
    <3> QED
      BY <1>7, <3>1
  <2>2. Session!opens_at(last) \in Int
    BY <1>2, TradingDaysAre
  <2> QED
    BY <1>4, <2>1, <2>2
<1>9. session = last
  <2>1. Session!opens_at(last) <= q
    BY <1>2, <1>4, <1>8, TradingDaysAre
  <2> HIDE DEF q
  <2> QED
    BY <1>1, <1>4, <1>5, <2>1, QuoteOfTheSession
<1>10. last \in Nat /\ next \in Nat
  BY <1>2, <1>3, TradingDaysAre
<1>11. CASE now >= Session!closes_at(last)
  <2>1. close = [price |-> q, session_day |-> last]
    <3>1. ~(q < Session!opens_at(last))
      BY <1>2, <1>4, <1>8, TradingDaysAre
    <3> QED
      BY <1>8, <1>11, <3>1 DEF Session!session_close_of
  <2>2. close.price = q /\ close.session_day = last
    BY <2>1
  <2> HIDE DEF close, q, last, next
  <2>3. prediction.created_at < Session!opens_at(last)
    BY <1>1, <1>2, <1>3, <1>7, <1>10, <2>2, TradingDaysAre
  <2>4. q \in Session!opens_at(last) .. Session!closes_at(last)
    BY <1>2, <1>4, <1>5, <1>9, TradingDaysAre
  <2>5. q = Session!closes_at(last) \/ Session!QuoteIsBehind
    <3>1. SUFFICES ASSUME q # Session!closes_at(last) PROVE Session!QuoteIsBehind
      OBVIOUS
    <3>2. Session!closes_at(last) \in Session!Trades
      <4>1. Session!closes_at(last) \in Session!opens_at(last) .. Session!closes_at(last)
        BY <1>2, TradingDaysAre
      <4> QED
        BY <1>2, <4>1, TradesAre
    <3>3. q < Session!closes_at(last) /\ Session!closes_at(last) <= now
      <4>1. Session!closes_at(last) \in Nat /\ Session!opens_at(last) \in Nat
        BY <1>2, TradingDaysAre
      <4> QED
        BY <1>1, <1>4, <1>11, <2>4, <3>1, <4>1
    <3> QED
      BY <1>6, <3>2, <3>3 DEF Session!QuoteIsBehind, q
  <2> QED
    BY <1>2, <1>4, <1>6, <2>2, <2>3, <2>4, <2>5 DEF q
<1>12. CASE ~(now >= Session!closes_at(last))
  <2>1. close = IF fetched.prev_close = None THEN None
                ELSE [price |-> fetched.prev_close,
                      session_day |-> Session!last_started_session(Session!opens_at(last) - 1)]
    <3>1. ~(q < Session!opens_at(last))
      BY <1>2, <1>4, <1>8, TradingDaysAre
    <3> QED
      BY <1>12, <3>1 DEF Session!session_close_of
  <2>2. fetched.prev_close # None
    BY <1>7, <2>1
  <2>3. PICK e \in Session!TradingDays :
           /\ e < last /\ fetched.prev_close = Session!closes_at(e)
           /\ \A d \in Session!TradingDays : d < last => d <= e
    BY <1>5, <1>9, <2>2
  <2> DEFINE preceding == Session!last_started_session(Session!opens_at(last) - 1)
  <2>4. close.price = Session!closes_at(e) /\ close.session_day = preceding
    BY <2>1, <2>2, <2>3
  <2> HIDE DEF close, last, next, q
  <2>5. e \in Nat /\ Session!opens_at(last) - 1 \in Nat \ {0}
        /\ Session!opens_at(e) <= Session!opens_at(last) - 1
    BY <1>2, <1>10, <2>3, TradingDaysAre
  <2>6. /\ preceding \in Session!TradingDays
        /\ Session!opens_at(preceding) <= Session!opens_at(last) - 1
        /\ \A d \in Session!TradingDays :
              Session!opens_at(d) <= Session!opens_at(last) - 1 => d <= preceding
    BY <2>5, LastStartedIs
  <2> HIDE DEF preceding
  <2>7. e <= preceding /\ preceding < last
    BY <1>2, <2>3, <2>5, <2>6, TradingDaysAre
  <2>8. preceding = e
    <3>1. preceding <= e
      BY <2>3, <2>6, <2>7
    <3>2. preceding \in Nat
      BY <2>6, TradingDaysAre
    <3> QED
      BY <2>5, <2>7, <3>1, <3>2
  <2>9. prediction.created_at < Session!opens_at(e)
    BY <1>1, <1>3, <1>7, <1>10, <2>3, <2>4, <2>5, <2>8, TradingDaysAre
  <2>10. Session!closes_at(e) \in Session!opens_at(e) .. Session!closes_at(e)
    BY <2>3, TradingDaysAre
  <2>11. Session!closes_at(e) # Session!opens_at(e)
    BY <2>3, TradingDaysAre
  <2> QED
    BY <1>6, <2>3, <2>4, <2>8, <2>9, <2>10, <2>11
<1> QED
  BY <1>11, <1>12

(* The entry price of a stamp outside of a session is the first to trade   *)
(* after it.                                                               *)
LEMMA EntryIs ==
    ASSUME SessionConstants, sessions_of \in Calendars, prediction.created_at \in Session!Times,
           moment \in Session!Times, NEW t \in Session!Times,
           fetched = Session!QuoteUntil(t), fetched.quoted_at <= moment,
           Session!executable_entry(fetched, moment) # None
    PROVE  IF Session!in_session(prediction.created_at)
           THEN Session!executable_entry(fetched, moment) = prediction.price_at_prediction
           ELSE Session!FirstToTrade(Session!executable_entry(fetched, moment))
<1> DEFINE last == Session!last_started_session(moment)
           started == Session!last_started_session(prediction.created_at)
           next == Session!next_open(prediction.created_at)
           first_trade == Session!executable_entry(fetched, moment)
           q == fetched.quoted_at
<1>1. moment \in Nat \ {0} /\ prediction.created_at \in Nat \ {0}
  BY TradingDaysAre DEF Session!Times, Session!Moments
<1>2. /\ started \in Session!TradingDays
      /\ \A d \in Session!TradingDays : Session!opens_at(d) <= prediction.created_at => d <= started
  BY <1>1, LastStartedIs
<1>3. \A u \in Session!Trades : u \in Nat
  BY TradesAre, TradingDaysAre
<1>4. CASE Session!in_session(prediction.created_at)
  BY <1>4 DEF Session!executable_entry
<1>5. CASE ~Session!in_session(prediction.created_at)
  <2>0. ~(prediction.created_at < Session!closes_at(started))
    BY <1>5 DEF Session!in_session
  <2>1. first_trade = IF last = next /\ q >= Session!opens_at(last)
                THEN fetched.open_price ELSE None
    BY <1>5 DEF Session!executable_entry
  <2>2. last = next /\ q >= Session!opens_at(last) /\ first_trade = fetched.open_price
    BY <2>1
  <2>3. q \in Nat /\ q <= moment
    BY QuoteIs
  <2>4. PICK session \in Session!TradingDays :
           /\ Session!opens_at(session) <= q /\ q <= Session!closes_at(session)
           /\ fetched.open_price = Session!opens_at(session)
    BY QuoteIs
  <2>5. /\ next \in Session!TradingDays /\ prediction.created_at < Session!opens_at(next)
        /\ \A d \in Session!TradingDays : prediction.created_at < Session!opens_at(d) => next <= d
    BY NextOpenIs
  <2> HIDE DEF first_trade, q, next, started
  <2>6. session = last
    <3>1. Session!opens_at(last) <= q
      BY <2>2, <2>3, <2>5, TradingDaysAre
    <3> QED
      BY <1>1, <2>3, <2>4, <3>1, QuoteOfTheSession
  <2> HIDE DEF last
  <2>7. first_trade = Session!opens_at(next)
    BY <2>2, <2>4, <2>6
  <2>8. ASSUME NEW u \in Session!Trades, u < first_trade
        PROVE  u <= prediction.created_at
    <3>1. PICK d \in Session!TradingDays :
             u \in Session!opens_at(d) .. Session!closes_at(d)
      BY TradesAre
    <3>2. /\ d \in Nat /\ Session!opens_at(d) = 5 * d + 1
          /\ Session!closes_at(d) \in {5 * d + 2, 5 * d + 3}
          /\ next \in Nat /\ Session!opens_at(next) = 5 * next + 1
          /\ started \in Nat /\ Session!closes_at(started) \in {5 * started + 2, 5 * started + 3}
      BY <1>2, <2>5, TradingDaysAre
    <3>3. u \in Nat /\ Session!opens_at(d) <= u /\ u <= Session!closes_at(d)
      BY <1>3, <3>1, <3>2
    <3>4. d < next
      BY <2>7, <2>8, <3>2, <3>3
    <3>5. Session!opens_at(d) <= prediction.created_at
      BY <1>1, <2>5, <3>2, <3>4
    <3>6. d <= started
      BY <1>2, <3>5
    <3>7. CASE d = started
      BY <1>1, <2>0, <3>2, <3>3, <3>7
    <3>8. CASE d < started
      BY <1>1, <2>0, <3>2, <3>3, <3>8
    <3> QED
      BY <3>2, <3>6, <3>7, <3>8
  <2>9. prediction.created_at < first_trade
    BY <1>1, <2>5, <2>7, TradingDaysAre
  <2>10. Session!FirstToTrade(first_trade)
    BY <2>8, <2>9 DEF Session!FirstToTrade
  <2> QED
    BY <1>5, <2>10 DEF first_trade
<1> QED
  BY <1>4, <1>5

(* A quote is not stale exactly if a session opened between the prediction *)
(* and it.                                                                 *)
LEMMA StaleIs ==
    ASSUME SessionConstants, sessions_of \in Calendars, prediction.created_at \in Session!Times,
           NEW q \in Nat
    PROVE  ~Session!settles_on_stale_quote(q) <=>
              Session!OpenedWithin(prediction.created_at, q)
<1>1. /\ Session!next_open(prediction.created_at) \in Session!TradingDays
      /\ prediction.created_at < Session!opens_at(Session!next_open(prediction.created_at))
      /\ \A d \in Session!TradingDays :
            prediction.created_at < Session!opens_at(d) => Session!next_open(prediction.created_at) <= d
  BY NextOpenIs
<1>2. \A d \in Session!TradingDays : d \in Nat /\ Session!opens_at(d) = 5 * d + 1
  BY TradingDaysAre
<1> QED
  BY <1>1, <1>2 DEF Session!settles_on_stale_quote, Session!OpenedWithin

(* A price is not stale exactly if no session opened between it and now.   *)
LEMMA FreshIs ==
    ASSUME SessionConstants, sessions_of \in Calendars, NEW q \in Nat,
           NEW now \in Nat \ {0}
    PROVE  Session!is_stale(q, now) <=> Session!OpenedWithin(q, now)
<1>1. /\ Session!last_started_session(now) \in Session!TradingDays
      /\ Session!opens_at(Session!last_started_session(now)) <= now
      /\ \A d \in Session!TradingDays :
            Session!opens_at(d) <= now => d <= Session!last_started_session(now)
  BY LastStartedIs
<1>2. \A d \in Session!TradingDays : d \in Nat /\ Session!opens_at(d) = 5 * d + 1
  BY TradingDaysAre
<1> QED
  BY <1>1, <1>2 DEF Session!is_stale, Session!OpenedWithin

(* A price of a session that opened after the stamp is of after the save,  *)
(* or the quote is behind: only an opening falls between stamp and save.   *)
LEMMA AfterIs ==
    ASSUME SessionConstants, sessions_of \in Calendars,
           prediction.created_at \in Session!Times, prediction.saved_at \in Session!Times,
           Session!OneHour(prediction.created_at, prediction.saved_at),
           fetched.quoted_at \in Nat, price_checked.at \in Session!Times,
           prediction.saved_at < price_checked.at,
           NEW d \in Session!TradingDays, prediction.created_at < Session!opens_at(d),
           NEW p \in Nat, Session!opens_at(d) <= p,
           fetched.quoted_at <= p \/ p # Session!opens_at(d)
    PROVE  Session!AfterThePrediction(p)
<1>1. /\ d \in Nat /\ Session!opens_at(d) = 5 * d + 1
      /\ Session!closes_at(d) \in {5 * d + 2, 5 * d + 3}
  BY TradingDaysAre
<1>2. /\ prediction.created_at \in Nat /\ prediction.saved_at \in Nat
      /\ price_checked.at \in Nat
  BY TradingDaysAre DEF Session!Times, Session!Moments
<1>3. CASE p > prediction.saved_at
  BY <1>3 DEF Session!AfterThePrediction
<1>4. CASE ~(p > prediction.saved_at)
  <2>1. prediction.saved_at \in {prediction.created_at, prediction.created_at + 1}
    BY DEF Session!OneHour
  <2>2. prediction.saved_at = prediction.created_at + 1 /\ p = prediction.saved_at
        /\ p = Session!opens_at(d)
    BY <1>1, <1>2, <1>4, <2>1
  <2>3. 5 * d + 2 \in Session!Trades
    <3>1. 5 * d + 2 \in Session!opens_at(d) .. Session!closes_at(d)
      BY <1>1
    <3> QED
      BY <3>1, TradesAre
  <2>4. fetched.quoted_at < 5 * d + 2 /\ 5 * d + 2 <= price_checked.at
    BY <1>1, <1>2, <2>2
  <2>5. prediction.saved_at # prediction.created_at
    BY <1>2, <2>2
  <2> QED
    BY <2>3, <2>4, <2>5 DEF Session!AfterThePrediction, Session!QuoteIsBehind
<1> QED
  BY <1>3, <1>4

(* A price that is not of the session the stamp is in was read before that *)
(* session opened, or flagged.                                             *)
LEMMA OfTheSessionIs ==
    ASSUME SessionConstants, sessions_of \in Calendars,
           prediction.created_at \in Session!Times,
           prediction.price_at_prediction \in Nat, prediction.saved_at \in Session!Times,
           prediction.price_at_prediction <= prediction.saved_at,
           prediction.priced_at \in Nat \ {0},
           prediction.stale_quote =
              Session!is_stale(prediction.price_at_prediction, prediction.priced_at)
    PROVE  Session!OfTheRunningSession(prediction.price_at_prediction)
<1> DEFINE session == Session!last_started_session(prediction.created_at)
           read == Session!last_started_session(prediction.priced_at)
<1>1. prediction.created_at \in Nat \ {0}
  BY TradingDaysAre DEF Session!Times, Session!Moments
<1>2. session \in Session!TradingDays
  BY <1>1, LastStartedIs
<1>3. /\ read \in Session!TradingDays
      /\ \A d \in Session!TradingDays :
            Session!opens_at(d) <= prediction.priced_at => d <= read
  BY LastStartedIs
<1> HIDE DEF session, read
<1>4. /\ session \in Nat /\ Session!opens_at(session) = 5 * session + 1
      /\ read \in Nat /\ Session!opens_at(read) = 5 * read + 1
  BY <1>2, <1>3, TradingDaysAre
<1>5. ASSUME ~prediction.stale_quote, Session!opens_at(session) <= prediction.priced_at
      PROVE  Session!opens_at(session) <= prediction.price_at_prediction
  <2>1. ~(prediction.price_at_prediction < Session!opens_at(read))
    BY <1>5 DEF Session!is_stale, read
  <2>2. session <= read
    BY <1>2, <1>3, <1>5
  <2> QED
    BY <1>4, <2>1, <2>2
<1>6. Session!opens_at(session) <= prediction.priced_at
      \/ prediction.priced_at < Session!opens_at(session)
  BY <1>4
<1> QED
  BY <1>5, <1>6 DEF Session!OfTheRunningSession, session

LEMMA SessionFollows ==
    ASSUME SessionConstants, Session!IInv
    PROVE  Session!TypeOK /\ Session!SessionPricesFollow
<1>1. /\ sessions_of \in Calendars
      /\ moment \in Session!Times
      /\ current_price # None =>
            \E t, now \in Session!Times :
               current_price = Session!PriceRead(Session!QuoteUntil(t), now)
      /\ fetched # None =>
            prediction # None /\ \E t \in Session!Times : fetched = Session!QuoteUntil(t)
      /\ price_checked # None =>
            /\ fetched # None
            /\ \E now \in Session!Times :
                  /\ fetched.quoted_at <= now /\ now <= moment
                  /\ prediction.saved_at < now
                  /\ price_checked = [at |-> now,
                                      session_close |-> Session!session_close_of(fetched, now)]
      /\ settled # None => price_checked # None /\ settled = Session!Settlement
  BY DEF Session!IInv
<1>2. ASSUME prediction # None
      PROVE  /\ prediction.created_at \in Session!Times /\ prediction.saved_at \in Session!Times
             /\ Session!OneHour(prediction.created_at, prediction.saved_at)
             /\ prediction.price_at_prediction \in Nat
             /\ prediction.price_at_prediction <= prediction.saved_at
             /\ prediction.priced_at \in Nat \ {0}
             /\ prediction.stale_quote =
                   Session!is_stale(prediction.price_at_prediction, prediction.priced_at)
             /\ prediction.priced_at <= prediction.saved_at
  <2>1. PICK created \in Session!Times, saved \in Session!Times,
             t \in Session!Times, now \in Session!Times :
           /\ Session!OneHour(created, saved) /\ t <= now /\ now <= saved /\ saved <= moment
           /\ prediction.created_at = created /\ prediction.saved_at = saved
           /\ prediction.priced_at = now
           /\ prediction.price_at_prediction = Session!QuoteUntil(t).quoted_at
           /\ prediction.stale_quote = Session!is_stale(Session!QuoteUntil(t).quoted_at, now)
    BY <1>2, SavedIs
  <2>2. Session!QuoteUntil(t).quoted_at \in Nat /\ Session!QuoteUntil(t).quoted_at <= t
    BY <1>1, QuoteIs
  <2>3. t \in Nat /\ now \in Nat \ {0} /\ saved \in Nat
    BY TradingDaysAre, <1>1 DEF Session!Times, Session!Moments
  <2>4. Session!QuoteUntil(t).quoted_at <= saved
    BY <2>1, <2>2, <2>3
  <2> QED
    BY <2>1, <2>2, <2>3, <2>4
<1>3. Session!TypeOK
  <2>1. fetched # None => fetched.quoted_at \in Session!Trades
    BY <1>1, QuoteIs
  <2>2. settled # None => settled.stale_quote \in BOOLEAN
    <3>0. \A q, now : Session!is_stale(q, now) \in BOOLEAN
      BY DEF Session!is_stale
    <3>1. prediction # None => prediction.stale_quote \in BOOLEAN
      BY <1>2, <3>0
    <3>2. prediction # None => Session!Settlement.stale_quote \in BOOLEAN
      BY <3>1 DEF Session!Settlement
    <3> QED
      BY <1>1, <3>2
  <2>3. current_price # None => current_price.price \in Session!Trades
    <3>1. \A t \in Session!Times : Session!QuoteUntil(t).quoted_at \in Session!Trades
      BY <1>1, QuoteIs
    <3> QED
      BY <1>1, <3>1 DEF Session!PriceRead
  <2>4. price_checked # None => price_checked.at \in Session!Times
    BY <1>1
  <2> QED
    BY <1>1, <1>2, <2>1, <2>2, <2>3, <2>4 DEF Session!TypeOK
<1>4. ASSUME settled # None
      PROVE  LET close == settled.session_close
                 first_trade == settled.entry_price
             IN  /\ ~settled.stale_quote <=>
                       /\ ~Session!OpenedWithin(prediction.price_at_prediction, prediction.priced_at)
                       /\ Session!OpenedWithin(prediction.created_at, fetched.quoted_at)
                 /\ ~settled.stale_quote => Session!AfterThePrediction(fetched.quoted_at)
                 /\ close # None =>
                       /\ prediction.created_at < Session!opens_at(close.session_day)
                       /\ close.price \in Session!opens_at(close.session_day)
                                          .. Session!closes_at(close.session_day)
                       /\ close.price = Session!closes_at(close.session_day)
                          \/ Session!QuoteIsBehind
                       /\ Session!AfterThePrediction(close.price)
                 /\ first_trade # None =>
                       IF Session!in_session(prediction.created_at)
                       THEN first_trade = prediction.price_at_prediction
                            /\ Session!OfTheRunningSession(first_trade)
                       ELSE Session!FirstToTrade(first_trade)
  <2>1. PICK t \in Session!Times : fetched = Session!QuoteUntil(t)
    BY <1>1, <1>4
  <2>2. PICK now \in Session!Times :
           /\ fetched.quoted_at <= now /\ now <= moment /\ prediction.saved_at < now
           /\ price_checked = [at |-> now,
                               session_close |-> Session!session_close_of(fetched, now)]
    BY <1>1, <1>4
  <2>3. fetched.quoted_at \in Nat /\ fetched.quoted_at <= moment
    <3>1. fetched.quoted_at \in Nat
      BY <1>1, <2>1, QuoteIs
    <3>2. now \in Int /\ moment \in Int
      BY <1>1 DEF Session!Times
    <3> QED
      BY <2>2, <3>1, <3>2
  <2>4. prediction # None /\ price_checked.at = now
    BY <1>1, <1>4, <2>2
  <2>5. /\ prediction.created_at \in Session!Times /\ prediction.saved_at \in Session!Times
        /\ Session!OneHour(prediction.created_at, prediction.saved_at)
        /\ prediction.price_at_prediction \in Nat
        /\ prediction.price_at_prediction <= prediction.saved_at
        /\ prediction.priced_at \in Nat \ {0}
        /\ prediction.stale_quote =
              Session!is_stale(prediction.price_at_prediction, prediction.priced_at)
    BY <1>2, <2>4
  <2>6. ~settled.stale_quote <=> /\ ~Session!settles_on_stale_quote(fetched.quoted_at)
                                 /\ ~prediction.stale_quote
    BY <1>1, <1>4 DEF Session!Settlement
  <2>7. settled.session_close # None =>
           /\ settled.session_close = price_checked.session_close
           /\ price_checked.session_close # None
           /\ Session!settles(price_checked.session_close)
    BY <1>1, <1>4 DEF Session!Settlement
  <2>8. settled.entry_price # None =>
           settled.entry_price = Session!executable_entry(fetched, moment)
    BY <1>1, <1>4 DEF Session!Settlement
  <2>9. ~settled.stale_quote <=>
           /\ ~Session!OpenedWithin(prediction.price_at_prediction, prediction.priced_at)
           /\ Session!OpenedWithin(prediction.created_at, fetched.quoted_at)
    <3>1. ~Session!settles_on_stale_quote(fetched.quoted_at) <=>
             Session!OpenedWithin(prediction.created_at, fetched.quoted_at)
      BY <1>1, <2>3, <2>5, StaleIs
    <3>2. prediction.stale_quote <=>
             Session!OpenedWithin(prediction.price_at_prediction, prediction.priced_at)
      BY <1>1, <2>5, FreshIs
    <3> QED
      BY <2>6, <3>1, <3>2
  <2>10. ASSUME ~settled.stale_quote
         PROVE  Session!AfterThePrediction(fetched.quoted_at)
    <3>1. PICK d \in Session!TradingDays :
             /\ prediction.created_at < Session!opens_at(d)
             /\ Session!opens_at(d) <= fetched.quoted_at
      BY <2>9, <2>10 DEF Session!OpenedWithin
    <3>2. fetched.quoted_at <= fetched.quoted_at
      BY <2>3
    <3> QED
      BY <1>1, <2>2, <2>3, <2>4, <2>5, <3>1, <3>2, AfterIs
  <2>11. ASSUME settled.session_close # None
         PROVE  LET close == settled.session_close
                IN  /\ prediction.created_at < Session!opens_at(close.session_day)
                    /\ close.price \in Session!opens_at(close.session_day)
                                       .. Session!closes_at(close.session_day)
                    /\ close.price = Session!closes_at(close.session_day)
                       \/ Session!QuoteIsBehind
                    /\ Session!AfterThePrediction(close.price)
    <3> DEFINE close == price_checked.session_close
    <3>1. /\ close.session_day \in Session!TradingDays
          /\ prediction.created_at < Session!opens_at(close.session_day)
          /\ close.price \in Session!opens_at(close.session_day)
                             .. Session!closes_at(close.session_day)
          /\ close.price = Session!closes_at(close.session_day) \/ Session!QuoteIsBehind
          /\ fetched.quoted_at <= close.price
             \/ close.price # Session!opens_at(close.session_day)
      BY <1>1, <2>1, <2>2, <2>5, <2>7, <2>11, CloseIs
    <3> HIDE DEF close
    <3>2. close.price \in Nat /\ Session!opens_at(close.session_day) <= close.price
      BY <1>1, <3>1, TradingDaysAre
    <3>3. Session!AfterThePrediction(close.price)
      BY <1>1, <2>2, <2>3, <2>4, <2>5, <3>1, <3>2, AfterIs
    <3> QED
      BY <2>7, <2>11, <3>1, <3>3 DEF close
  <2>12. ASSUME settled.entry_price # None
         PROVE  IF Session!in_session(prediction.created_at)
                THEN settled.entry_price = prediction.price_at_prediction
                     /\ Session!OfTheRunningSession(settled.entry_price)
                ELSE Session!FirstToTrade(settled.entry_price)
    <3>1. IF Session!in_session(prediction.created_at)
          THEN settled.entry_price = prediction.price_at_prediction
          ELSE Session!FirstToTrade(settled.entry_price)
      BY <1>1, <2>1, <2>3, <2>5, <2>8, <2>12, EntryIs
    <3>2. Session!OfTheRunningSession(prediction.price_at_prediction)
      BY <1>1, <2>5, OfTheSessionIs
    <3> QED
      BY <3>1, <3>2
  <2> QED
    BY <2>9, <2>10, <2>11, <2>12
<1> QED
  BY <1>3, <1>4 DEF Session!SessionPricesFollow

(* A settlement's prices are of sessions after the prediction, as the      *)
(* three columns say.                                                      *)
THEOREM SessionHolds ==
    ASSUME SessionConstants
    PROVE  Session!Spec => [](Session!TypeOK /\ Session!SessionPricesFollow)
<1>1. Session!Init => Session!IInv
  BY InitKeepsSession
<1>2. Session!IInv /\ [Session!Next]_(Session!vars) => Session!IInv'
  BY StepKeepsSession
<1>3. Session!IInv => Session!TypeOK /\ Session!SessionPricesFollow
  BY SessionFollows
<1> QED
  BY <1>1, <1>2, <1>3, PTL DEF Session!Spec

-----------------------------------------------------------------------------
(* WalkForward: the folds on which a model is judged.                      *)

(* What the proofs assume of the constants: the blocks of folds are not    *)
(* empty, and the age of a settlement is a number.                         *)
FoldConstants ==
    /\ WALK_FORWARD_FOLDS \in Nat \ {0} /\ MIN_FOLD_SAMPLES \in Nat
    /\ WALK_FORWARD_FOLDS < MIN_FOLD_SAMPLES
    /\ MIN_VALIDATION_SAMPLES \in Nat \ {0} /\ FractionOf \in Nat \ {0}
    /\ LABEL_HORIZON \in Nat /\ SampleSizes \subseteq Nat \ {0}
    /\ Settlements \subseteq Int \cup {None} /\ None \notin Int

LEMMA GreaterOfTwo ==
    ASSUME NEW a \in Int, NEW b \in Int
    PROVE  /\ Folding!Max({a, b}) \in {a, b}
           /\ a <= Folding!Max({a, b}) /\ b <= Folding!Max({a, b})
<1>1. \E x \in {a, b} : \A y \in {a, b} : x >= y
  OBVIOUS
<1>2. Folding!Max({a, b}) = CHOOSE x \in {a, b} : \A y \in {a, b} : x >= y
  BY DEF Folding!Max
<1>3. /\ Folding!Max({a, b}) \in {a, b}
      /\ \A y \in {a, b} : Folding!Max({a, b}) >= y
  BY <1>1, <1>2
<1> QED
  BY <1>3

LEMMA FoldingCardinality == \A S : Folding!Cardinality(S) = Cardinality(S)
BY DEF Folding!Cardinality, Cardinality

LEMMA SequenceFrom ==
    ASSUME NEW n \in Nat, NEW T, NEW f \in [1 .. n -> T]
    PROVE  f \in Seq(T) /\ Len(f) = n /\ DOMAIN f = 1 .. n
OBVIOUS

LEMMA ElementOf ==
    ASSUME NEW T, NEW s \in Seq(T)
    PROVE  /\ Len(s) \in Nat /\ DOMAIN s = 1 .. Len(s) /\ (s = <<>> <=> Len(s) = 0)
           /\ \A k \in DOMAIN s : s[k] \in T
OBVIOUS

LEMMA BlockAt ==
    ASSUME NEW b \in Nat \ {0}, NEW f \in Nat, NEW n \in Nat, b * (f + 1) <= n, NEW k \in 1 .. f
    PROVE  /\ b * k \in Nat /\ b * (k + 1) \in Nat /\ 1 <= b * k
           /\ b * k + 1 <= b * (k + 1) /\ b * (k + 1) <= n
<1>1. k \in Nat /\ 1 <= k /\ k + 1 <= f + 1
  OBVIOUS
<1>2. b * (k + 1) = b * k + b
  BY <1>1
<1>3. b * k \in Nat /\ 1 <= b * k
  <2>1. PICK j \in Nat : k = j + 1
    <3>1. k - 1 \in Nat /\ k = (k - 1) + 1
      BY <1>1
    <3> QED
      BY <3>1
  <2>2. b * k = b * j + b /\ b * j \in Nat
    BY <2>1
  <2> QED
    BY <2>2
<1>4. b * (k + 1) <= b * (f + 1)
  <2>1. PICK m \in Nat : f + 1 = (k + 1) + m
    <3>1. (f + 1) - (k + 1) \in Nat
      BY <1>1
    <3>2. f + 1 = (k + 1) + ((f + 1) - (k + 1))
      BY <1>1
    <3> QED
      BY <3>1, <3>2
  <2>2. b * (f + 1) = b * (k + 1) + b * m /\ b * m \in Nat
    BY <1>1, <2>1
  <2>3. b * (k + 1) \in Int
    BY <1>1
  <2> QED
    BY <2>2, <2>3
<1> QED
  BY <1>2, <1>3, <1>4

(* A set of numbers from 1 on without gaps is given by its cardinality.    *)
LEMMA PrefixIs ==
    ASSUME NEW n \in Nat, NEW S \in SUBSET (1 .. n),
           \A x \in S : \A y \in 1 .. x : y \in S
    PROVE  S = 1 .. Cardinality(S)
<1>1. CASE S = {}
  <2>1. Cardinality(S) = 0
    BY <1>1, FS_EmptySet
  <2> QED
    BY <1>1, <2>1
<1>2. CASE S # {}
  <2>1. PICK m \in S : \A y \in S : y <= m
    <3>1. S \in SUBSET (0 .. n)
      OBVIOUS
    <3> QED
      BY <1>2, <3>1, GreatestNumber
  <2>2. m \in Nat /\ 1 <= m
    OBVIOUS
  <2>3. S = 1 .. m
    <3>1. 1 .. m \subseteq S
      BY <2>1
    <3>2. \A x \in S : x \in 1 .. m
      BY <2>1, <2>2
    <3> QED
      BY <3>1, <3>2
  <2>4. Cardinality(1 .. m) = m
    BY <2>2, FS_Interval
  <2> QED
    BY <2>3, <2>4
<1> QED
  BY <1>1, <1>2

(* The blocks follow each other and the last one ends with the sample.     *)
LEMMA BoundsFollow ==
    ASSUME FoldConstants, NEW n \in Nat \ {0}, Folding!NRows = n
    PROVE  LET bounds == Folding!expanding_window_bounds(n)
           IN  /\ bounds \in Seq([first : Nat, last : Nat])
               /\ Folding!Consecutive(bounds)
               /\ bounds # <<>> => bounds[Len(bounds)].last = n
<1> DEFINE holdout == Folding!Max({MIN_VALIDATION_SAMPLES, n \div FractionOf})
           block   == n \div (WALK_FORWARD_FOLDS + 1)
           bounds  == Folding!expanding_window_bounds(n)
<1>1. holdout \in Nat /\ 1 <= holdout
  <2>1. MIN_VALIDATION_SAMPLES \in Nat /\ 1 <= MIN_VALIDATION_SAMPLES
        /\ FractionOf \in Nat \ {0}
    BY DEF FoldConstants
  <2>2. n \div FractionOf \in Nat
    BY <2>1
  <2> DEFINE part == n \div FractionOf
  <2> HIDE DEF part
  <2>3. part \in Nat
    BY <2>2 DEF part
  <2>4. LET m == Folding!Max({MIN_VALIDATION_SAMPLES, part})
        IN  m \in {MIN_VALIDATION_SAMPLES, part} /\ MIN_VALIDATION_SAMPLES <= m
    BY <2>1, <2>3, GreaterOfTwo
  <2>5. holdout \in Nat /\ 1 <= holdout
    <3>1. holdout = Folding!Max({MIN_VALIDATION_SAMPLES, part})
      BY DEF part
    <3> HIDE DEF holdout
    <3> QED
      BY <2>1, <2>3, <2>4, <3>1
  <2> QED
    BY <2>5
<1>2. MIN_FOLD_SAMPLES \in Nat /\ WALK_FORWARD_FOLDS \in Nat \ {0}
  BY DEF FoldConstants
<1>3. CASE n < MIN_FOLD_SAMPLES /\ holdout >= n
  <2>1. bounds = <<>>
    <3>1. ~(holdout < n)
      BY <1>1, <1>3
    <3> HIDE DEF holdout
    <3> QED
      BY <1>3, <3>1 DEF Folding!expanding_window_bounds, holdout
  <2> HIDE DEF bounds
  <2>2. /\ bounds \in Seq([first : Nat, last : Nat]) /\ Folding!Consecutive(bounds)
        /\ bounds # <<>> => bounds[Len(bounds)].last = n
    BY <2>1 DEF Folding!Consecutive
  <2> QED
    BY <2>2 DEF bounds
<1>4. CASE n < MIN_FOLD_SAMPLES /\ ~(holdout >= n)
  <2>1. holdout < n
    BY <1>1, <1>4
  <2>2. bounds = <<[first |-> n - holdout + 1, last |-> n]>>
    BY <1>4, <2>1 DEF Folding!expanding_window_bounds
  <2>3. n - holdout + 1 \in Nat /\ 1 < n - holdout + 1 /\ n - holdout + 1 <= n
    BY <1>1, <2>1
  <2> HIDE DEF bounds, holdout
  <2>4. Len(bounds) = 1 /\ DOMAIN bounds = {1}
        /\ bounds[1].first = n - holdout + 1 /\ bounds[1].last = n
    BY <2>2
  <2>5. bounds \in Seq([first : Nat, last : Nat])
    BY <2>2, <2>3
  <2>6. Folding!Consecutive(bounds)
    BY <2>3, <2>4 DEF Folding!Consecutive
  <2> QED
    BY <2>4, <2>5, <2>6 DEF bounds
<1>5. CASE ~(n < MIN_FOLD_SAMPLES)
  <2>1. bounds = [k \in 1 .. WALK_FORWARD_FOLDS |->
                    [first |-> block * k + 1,
                     last |-> IF k < WALK_FORWARD_FOLDS THEN block * (k + 1) ELSE n]]
    BY <1>5 DEF Folding!expanding_window_bounds
  <2>2. WALK_FORWARD_FOLDS + 1 <= n
    BY <1>2, <1>5 DEF FoldConstants
  <2>3. block \in Nat /\ 1 <= block /\ block * (WALK_FORWARD_FOLDS + 1) <= n
    BY <1>2, <2>2
  <2> HIDE DEF bounds, block, holdout
  <2>4. ASSUME NEW k \in 1 .. WALK_FORWARD_FOLDS
        PROVE  /\ block * k \in Nat /\ block * (k + 1) \in Nat /\ 1 <= block * k
               /\ block * k + 1 <= block * (k + 1) /\ block * (k + 1) <= n
    BY <1>2, <2>3, BlockAt
  <2>5. ASSUME NEW k \in 1 .. WALK_FORWARD_FOLDS
        PROVE  /\ bounds[k].first = block * k + 1 /\ bounds[k] \in [first : Nat, last : Nat]
               /\ bounds[k].last = IF k < WALK_FORWARD_FOLDS THEN block * (k + 1) ELSE n
               /\ 1 < bounds[k].first /\ bounds[k].first <= bounds[k].last
               /\ bounds[k].last <= n
    <3>1. bounds[k] = [first |-> block * k + 1,
                       last |-> IF k < WALK_FORWARD_FOLDS THEN block * (k + 1) ELSE n]
      BY <2>1
    <3>2. /\ bounds[k].first = block * k + 1
          /\ bounds[k].last = IF k < WALK_FORWARD_FOLDS THEN block * (k + 1) ELSE n
      BY <3>1
    <3>3. /\ bounds[k].last \in {block * (k + 1), n}
      BY <3>2
    <3>4. bounds[k] \in [first : Nat, last : Nat]
      BY <2>4, <3>1, <3>2, <3>3
    <3> QED
      BY <2>4, <3>2, <3>3, <3>4
  <2>6. bounds \in Seq([first : Nat, last : Nat]) /\ Len(bounds) = WALK_FORWARD_FOLDS
        /\ DOMAIN bounds = 1 .. WALK_FORWARD_FOLDS
    <3>1. bounds \in [1 .. WALK_FORWARD_FOLDS -> [first : Nat, last : Nat]]
      BY <2>1, <2>5
    <3> QED
      BY <1>2, <3>1, SequenceFrom
  <2>7. ASSUME NEW k \in 1 .. WALK_FORWARD_FOLDS, k < WALK_FORWARD_FOLDS
        PROVE  bounds[k].last < bounds[k + 1].first
    <3>1. k + 1 \in 1 .. WALK_FORWARD_FOLDS /\ k \in Nat
      BY <1>2, <2>7
    <3>2. bounds[k].last = block * (k + 1) /\ bounds[k + 1].first = block * (k + 1) + 1
      BY <2>5, <2>7, <3>1
    <3> QED
      BY <2>4, <3>2
  <2>8. Folding!Consecutive(bounds)
    BY <2>5, <2>6, <2>7 DEF Folding!Consecutive
  <2>9. bounds[Len(bounds)].last = n
    <3>1. WALK_FORWARD_FOLDS \in 1 .. WALK_FORWARD_FOLDS
          /\ ~(WALK_FORWARD_FOLDS < WALK_FORWARD_FOLDS)
      BY <1>2
    <3> QED
      BY <2>5, <2>6, <3>1
  <2> QED
    BY <2>6, <2>8, <2>9 DEF bounds
<1> QED
  BY <1>3, <1>4, <1>5

LEMMA InitKeepsFolding ==
    ASSUME FoldConstants, Folding!Init
    PROVE  Folding!IInv
<1>1. PICK n \in SampleSizes :
         \E same \in [1 .. n -> BOOLEAN], ages \in [1 .. n -> Settlements] :
            /\ stamps = [i \in 1 .. n |-> Cardinality({j \in 2 .. i : ~same[j]})]
            /\ same[1]
            /\ settled_at = [i \in 1 .. n |-> IF ages[i] = None THEN None
                                              ELSE stamps[i] + ages[i]]
            /\ todo_folds = Folding!expanding_window_bounds(n)
  BY FoldingCardinality DEF Folding!Init
<1>2. PICK same \in [1 .. n -> BOOLEAN], ages \in [1 .. n -> Settlements] :
         /\ stamps = [i \in 1 .. n |-> Cardinality({j \in 2 .. i : ~same[j]})]
         /\ settled_at = [i \in 1 .. n |-> IF ages[i] = None THEN None
                                           ELSE stamps[i] + ages[i]]
         /\ todo_folds = Folding!expanding_window_bounds(n)
  BY <1>1
<1>3. n \in Nat \ {0}
  BY DEF FoldConstants
<1> DEFINE changed(i) == {j \in 2 .. i : ~same[j]}
<1>4. \A i \in 1 .. n : IsFiniteSet(changed(i)) /\ Cardinality(changed(i)) \in Nat
  <2> TAKE i \in 1 .. n
  <2>1. IsFiniteSet(2 .. i) /\ changed(i) \subseteq 2 .. i
    BY <1>3, FS_Interval
  <2> QED
    BY <2>1, FS_Subset, FS_CardinalityType
<1>5. \A i \in 1 .. n : stamps[i] = Cardinality(changed(i)) /\ stamps[i] \in Nat
  BY <1>2, <1>4
<1>6. stamps \in Seq(Nat) /\ Len(stamps) = n
  <2>1. stamps \in [1 .. n -> Nat]
    BY <1>2, <1>5
  <2> QED
    BY <1>3, <2>1
<1>7. ASSUME NEW i \in 1 .. n, NEW j \in 1 .. n, i <= j
      PROVE  stamps[i] <= stamps[j]
  <2>1. changed(i) \subseteq changed(j)
    BY <1>3, <1>7
  <2>2. Cardinality(changed(i)) <= Cardinality(changed(j))
    BY <1>4, <2>1, FS_Subset
  <2> QED
    BY <1>5, <2>2
<1>8. settled_at \in [1 .. n -> Int \cup {None}]
  <2>1. \A i \in 1 .. n : ages[i] = None \/ ages[i] \in Int
    BY DEF FoldConstants
  <2>2. \A i \in 1 .. n : (IF ages[i] = None THEN None ELSE stamps[i] + ages[i]) \in Int \cup {None}
    <3> TAKE i \in 1 .. n
    <3>1. CASE ages[i] = None
      BY <3>1
    <3>2. CASE ages[i] # None
      <4>1. ages[i] \in Int /\ stamps[i] \in Nat
        BY <1>5, <2>1, <3>2
      <4>2. stamps[i] + ages[i] \in Int
        BY <4>1
      <4> QED
        BY <3>2, <4>2
    <3> QED
      BY <3>1, <3>2
  <2> QED
    BY <1>2, <2>2
<1>9. folds = <<>>
  BY DEF Folding!Init
<1>10. Folding!NRows = n
  BY <1>6 DEF Folding!NRows
<1>11. folds \in Seq([train : SUBSET (1 .. n), first : Nat, last : Nat]) /\ DOMAIN folds = {}
  BY <1>9
<1> QED
  BY <1>2, <1>3, <1>6, <1>7, <1>8, <1>9, <1>10, <1>11, BoundsFollow
     DEF Folding!IInv, Folding!Consecutive

LEMMA RestFollows ==
    ASSUME NEW T, NEW bs \in Seq(T), bs # <<>>, Folding!Consecutive(bs)
    PROVE  /\ Tail(bs) \in Seq(T) /\ Folding!Consecutive(Tail(bs))
           /\ Head(bs) = bs[1] /\ 1 \in DOMAIN bs
           /\ Tail(bs) # <<>> => /\ Tail(bs)[Len(Tail(bs))] = bs[Len(bs)]
                                     /\ bs[1].last < Head(Tail(bs)).first
           /\ Tail(bs) = <<>> => Len(bs) = 1
<1> DEFINE n == Len(bs)
           rest == Tail(bs)
<1>1. n \in Nat \ {0} /\ DOMAIN bs = 1 .. n
  OBVIOUS
<1>2. /\ rest \in Seq(T) /\ Len(rest) = n - 1 /\ Head(bs) = bs[1]
      /\ DOMAIN rest = 1 .. n - 1
      /\ \A k \in 1 .. n - 1 : rest[k] = bs[k + 1]
  OBVIOUS
<1> HIDE DEF rest
<1>3. Folding!Consecutive(rest)
  <2>1. ASSUME NEW k \in DOMAIN rest
        PROVE  /\ 1 < rest[k].first /\ rest[k].first <= rest[k].last
               /\ rest[k].last <= Folding!NRows
               /\ k < Len(rest) => rest[k].last < rest[k + 1].first
    <3>1. k \in 1 .. n - 1 /\ k + 1 \in DOMAIN bs /\ rest[k] = bs[k + 1]
      BY <1>1, <1>2
    <3>2. /\ 1 < bs[k + 1].first /\ bs[k + 1].first <= bs[k + 1].last
          /\ bs[k + 1].last <= Folding!NRows
          /\ k + 1 < n => bs[k + 1].last < bs[k + 1 + 1].first
      BY <3>1 DEF Folding!Consecutive
    <3>3. k < Len(rest) => k + 1 < n /\ rest[k + 1] = bs[k + 1 + 1]
      BY <1>1, <1>2, <3>1
    <3> QED
      BY <3>1, <3>2, <3>3
  <2> QED
    BY <2>1 DEF Folding!Consecutive
<1>4. rest # <<>> => n > 1
  BY <1>1, <1>2
<1>5. rest # <<>> => rest[Len(rest)] = bs[n] /\ bs[1].last < Head(rest).first
  <2> SUFFICES ASSUME rest # <<>>
               PROVE  rest[Len(rest)] = bs[n] /\ bs[1].last < Head(rest).first
    OBVIOUS
  <2>1. n - 1 \in 1 .. n - 1 /\ 1 \in 1 .. n - 1 /\ 1 \in DOMAIN bs /\ 1 < n
    BY <1>1, <1>4
  <2>2. rest[Len(rest)] = bs[n]
    <3>1. (n - 1) + 1 = n
      BY <1>1
    <3> QED
      BY <1>2, <2>1, <3>1
  <2>3. Head(rest) = rest[1]
    BY <1>2, <2>1
  <2>4. rest[1] = bs[1 + 1]
    BY <1>2, <2>1
  <2>5. bs[1].last < bs[1 + 1].first
    BY <2>1 DEF Folding!Consecutive
  <2> QED
    BY <2>2, <2>3, <2>4, <2>5
<1>6. rest = <<>> => n = 1
  <2>1. rest = <<>> => Len(rest) = 0
    OBVIOUS
  <2>2. Len(rest) = n - 1
    BY <1>2
  <2>3. n \in Int
    BY <1>1
  <2> HIDE DEF n
  <2> QED
    BY <2>1, <2>2, <2>3
<1> QED
  BY <1>1, <1>2, <1>3, <1>5, <1>6 DEF rest

LEMMA GrownFollows ==
    ASSUME NEW T, NEW bs \in Seq(T), NEW block \in T, Folding!Consecutive(bs),
           1 < block.first, block.first <= block.last, block.last <= Folding!NRows,
           bs # <<>> => bs[Len(bs)].last < block.first
    PROVE  LET grown == Append(bs, block)
           IN  /\ grown \in Seq(T) /\ Folding!Consecutive(grown)
               /\ Len(grown) = Len(bs) + 1 /\ grown[Len(grown)] = block /\ grown # <<>>
               /\ DOMAIN grown = DOMAIN bs \cup {Len(grown)}
               /\ \A k \in DOMAIN bs : grown[k] = bs[k]
<1> DEFINE n == Len(bs)
           grown == Append(bs, block)
<1>1. n \in Nat /\ DOMAIN bs = 1 .. n
  OBVIOUS
<1>2. /\ grown \in Seq(T) /\ Len(grown) = n + 1 /\ DOMAIN grown = 1 .. n + 1
      /\ grown[n + 1] = block /\ \A k \in 1 .. n : grown[k] = bs[k]
  OBVIOUS
<1> HIDE DEF grown
<1>3. ASSUME NEW k \in DOMAIN grown
      PROVE  /\ 1 < grown[k].first /\ grown[k].first <= grown[k].last
             /\ grown[k].last <= Folding!NRows
             /\ k < Len(grown) => grown[k].last < grown[k + 1].first
  <2>1. CASE k = n + 1
    BY <1>1, <1>2, <2>1
  <2>2. CASE k \in 1 .. n
    <3>1. k \in DOMAIN bs /\ grown[k] = bs[k]
      BY <1>1, <1>2, <2>2
    <3>2. CASE k = n
      <4>1. bs # <<>> /\ grown[k + 1] = block
        BY <1>1, <1>2, <2>2, <3>2
      <4>2. grown[k].last < grown[k + 1].first
        BY <3>1, <3>2, <4>1
      <4> QED
        BY <3>1, <4>2 DEF Folding!Consecutive
    <3>3. CASE k < n
      <4>1. k + 1 \in 1 .. n
        BY <1>1, <2>2, <3>3
      <4>2. grown[k + 1] = bs[k + 1]
        BY <1>2, <4>1
      <4> QED
        BY <3>1, <3>3, <4>2 DEF Folding!Consecutive
    <3> QED
      BY <1>1, <2>2, <3>2, <3>3
  <2> QED
    BY <1>1, <1>2, <1>3, <2>1, <2>2
<1>4. Folding!Consecutive(grown)
  BY <1>3 DEF Folding!Consecutive
<1>5. grown # <<>> /\ DOMAIN grown = DOMAIN bs \cup {n + 1}
  BY <1>1, <1>2
<1> QED
  BY <1>1, <1>2, <1>4, <1>5 DEF grown

(* What a fold learns was settled at the beginning of its block, and at    *)
(* the beginning of every later one.                                       *)
LEMMA LabelsEnd ==
    ASSUME FoldConstants, Folding!IInv, NEW i \in 1 .. Folding!NRows
    PROVE  /\ stamps[i] \in Nat /\ Folding!label_end(i) \in Int
           /\ stamps[i] + LABEL_HORIZON <= Folding!label_end(i)
           /\ settled_at[i] # None => settled_at[i] \in Int /\ settled_at[i] <= Folding!label_end(i)
           /\ \/ Folding!label_end(i) = stamps[i] + LABEL_HORIZON
              \/ settled_at[i] # None /\ Folding!label_end(i) = settled_at[i]
<1>1. stamps[i] \in Nat /\ LABEL_HORIZON \in Nat
  <2>1. stamps \in Seq(Nat) /\ Folding!NRows = Len(stamps)
    BY DEF Folding!IInv, Folding!NRows
  <2>2. stamps[i] \in Nat
    BY <2>1, ElementOf
  <2> QED
    BY <2>2 DEF FoldConstants
<1>2. settled_at[i] \in Int \cup {None}
  BY DEF Folding!IInv
<1>3. CASE settled_at[i] = None
  <2>1. Folding!label_end(i) = stamps[i] + LABEL_HORIZON
    BY <1>3 DEF Folding!label_end
  <2> QED
    BY <1>1, <1>3, <2>1
<1>4. CASE settled_at[i] # None
  <2> DEFINE s == settled_at[i]
             h == stamps[i] + LABEL_HORIZON
  <2>1. s \in Int /\ h \in Int
    BY <1>1, <1>2, <1>4
  <2>2. Folding!label_end(i) = Folding!Max({s, h})
    BY <1>4 DEF Folding!label_end
  <2> HIDE DEF s, h
  <2>3. Folding!Max({s, h}) \in {s, h} /\ s <= Folding!Max({s, h}) /\ h <= Folding!Max({s, h})
    BY <2>1, GreaterOfTwo
  <2>4. /\ Folding!label_end(i) \in {s, h} /\ s <= Folding!label_end(i)
        /\ h <= Folding!label_end(i)
    BY <2>2, <2>3
  <2> QED
    BY <1>1, <1>4, <2>1, <2>4 DEF s, h
<1> QED
  BY <1>3, <1>4

LEMMA LaterBlocksKnowMore ==
    ASSUME FoldConstants, Folding!IInv,
           NEW v \in 1 .. Folding!NRows, NEW w \in 1 .. Folding!NRows, v <= w
    PROVE  Folding!purge_training_indices(v) \subseteq Folding!purge_training_indices(w)
<1>1. Folding!NRows \in Nat
  BY DEF Folding!IInv, Folding!NRows
<1>2. stamps[v] <= stamps[w]
  BY DEF Folding!IInv
<1>3. ASSUME NEW i \in Folding!purge_training_indices(v)
      PROVE  i \in Folding!purge_training_indices(w)
  <2>1. i \in 1 .. v - 1 /\ Folding!label_end(i) <= stamps[v]
    BY DEF Folding!purge_training_indices
  <2>2. i \in 1 .. Folding!NRows /\ i \in 1 .. w - 1
    BY <1>1, <2>1
  <2>3. Folding!label_end(i) <= stamps[w]
    <3>1. Folding!label_end(i) \in Int /\ stamps[v] \in Nat /\ stamps[w] \in Nat
      BY <2>2, LabelsEnd
    <3> QED
      BY <1>2, <2>1, <3>1
  <2> QED
    BY <2>2, <2>3 DEF Folding!purge_training_indices
<1> QED
  BY <1>3

LEMMA FoldKeepsFolding ==
    ASSUME FoldConstants, Folding!IInv, Folding!NextFold
    PROVE  Folding!IInv'
<1> DEFINE bounds == Head(todo_folds)
           rows   == Folding!purge_training_indices(bounds.first)
           fold   == [train |-> rows, first |-> bounds.first, last |-> bounds.last]
           F      == [train : SUBSET (1 .. Folding!NRows), first : Nat, last : Nat]
<1>1. /\ todo_folds # <<>> /\ todo_folds' = Tail(todo_folds)
      /\ folds' = IF rows = {} THEN folds ELSE Append(folds, fold)
      /\ stamps' = stamps /\ settled_at' = settled_at
  BY DEF Folding!NextFold
<1>2. /\ stamps \in Seq(Nat) /\ settled_at \in [1 .. Folding!NRows -> Int \cup {None}]
      /\ \A i, j \in 1 .. Folding!NRows : i <= j => stamps[i] <= stamps[j]
      /\ todo_folds \in Seq([first : Nat, last : Nat]) /\ Folding!Consecutive(todo_folds)
      /\ todo_folds # <<>> => todo_folds[Len(todo_folds)].last = Folding!NRows
      /\ folds \in Seq(F) /\ Folding!Consecutive(folds)
      /\ \A k \in DOMAIN folds :
            folds[k].train = Folding!purge_training_indices(folds[k].first)
            /\ folds[k].train # {}
      /\ folds # <<>> => folds[Len(folds)].last < Head(todo_folds).first
  BY <1>1 DEF Folding!IInv
<1>3. Folding!NRows' = Folding!NRows /\ Folding!NRows \in Nat
  BY <1>1, <1>2 DEF Folding!NRows
<1>4. \A v : Folding!purge_training_indices(v)' = Folding!purge_training_indices(v)
  BY <1>1 DEF Folding!purge_training_indices, Folding!label_end
<1>5. \A s : Folding!Consecutive(s)' = Folding!Consecutive(s)
  BY <1>3 DEF Folding!Consecutive
<1>6. /\ Tail(todo_folds) \in Seq([first : Nat, last : Nat])
      /\ Folding!Consecutive(Tail(todo_folds))
      /\ bounds = todo_folds[1] /\ 1 \in DOMAIN todo_folds
      /\ Tail(todo_folds) # <<>> =>
            /\ Tail(todo_folds)[Len(Tail(todo_folds))] = todo_folds[Len(todo_folds)]
            /\ bounds.last < Head(Tail(todo_folds)).first
      /\ Tail(todo_folds) = <<>> => Len(todo_folds) = 1
  BY <1>1, <1>2, RestFollows
<1>7. /\ bounds.first \in Nat /\ bounds.last \in Nat /\ 1 < bounds.first
      /\ bounds.first <= bounds.last /\ bounds.last <= Folding!NRows
  <2>1. bounds \in [first : Nat, last : Nat]
    <3> DEFINE B == [first : Nat, last : Nat]
    <3>1. todo_folds \in Seq(B) /\ 1 \in DOMAIN todo_folds /\ bounds = todo_folds[1]
      BY <1>2, <1>6
    <3> HIDE DEF B, bounds
    <3>2. todo_folds[1] \in B
      BY <3>1, ElementOf
    <3> QED
      BY <3>1, <3>2 DEF B
  <2>2. 1 < bounds.first /\ bounds.first <= bounds.last /\ bounds.last <= Folding!NRows
    BY <1>2, <1>6 DEF Folding!Consecutive
  <2> QED
    BY <2>1, <2>2
<1>8. Tail(todo_folds) = <<>> => bounds.last = Folding!NRows
  BY <1>1, <1>2, <1>6
<1> HIDE DEF bounds
<1>9. todo_folds' # <<>> => todo_folds'[Len(todo_folds')].last = Folding!NRows'
  BY <1>1, <1>2, <1>3, <1>6
<1>10. CASE rows = {}
  <2>1. folds = <<>>
    <3> SUFFICES ASSUME folds # <<>> PROVE FALSE
      OBVIOUS
    <3>1. Len(folds) \in DOMAIN folds /\ folds[Len(folds)] \in F
      <4>1. folds \in Seq(F)
        BY <1>2
      <4> HIDE DEF F
      <4>2. Len(folds) \in Nat /\ DOMAIN folds = 1 .. Len(folds) /\ Len(folds) # 0
        BY <4>1, ElementOf
      <4>3. Len(folds) \in DOMAIN folds
        BY <4>2
      <4> QED
        BY <4>1, <4>3, ElementOf
    <3> DEFINE old == folds[Len(folds)]
    <3>2. /\ old.first \in Nat /\ old.last \in Nat /\ 1 < old.first /\ old.first <= old.last
          /\ old.last < bounds.first
          /\ old.train = Folding!purge_training_indices(old.first) /\ old.train # {}
      BY <1>2, <3>1 DEF Folding!Consecutive, bounds
    <3> HIDE DEF old
    <3>3. old.first \in 1 .. Folding!NRows /\ bounds.first \in 1 .. Folding!NRows
          /\ old.first <= bounds.first
      BY <1>3, <1>7, <3>2
    <3>4. old.train \subseteq rows
      BY <3>2, <3>3, LaterBlocksKnowMore
    <3> QED
      BY <1>10, <3>2, <3>4
  <2>2. folds' = folds
    BY <1>1, <1>10
  <2>3. DOMAIN folds = {}
    BY <2>1
  <2> QED
    BY <1>1, <1>2, <1>3, <1>5, <1>6, <1>9, <2>1, <2>2, <2>3 DEF Folding!IInv
<1>11. CASE rows # {}
  <2> HIDE DEF rows, F
  <2>1. rows \in SUBSET (1 .. Folding!NRows)
    <3>1. \A i \in 1 .. bounds.first - 1 : i \in 1 .. Folding!NRows
      BY <1>3, <1>7
    <3> QED
      BY <3>1 DEF rows, Folding!purge_training_indices
  <2>2. fold \in F /\ fold.first = bounds.first /\ fold.last = bounds.last /\ fold.train = rows
    BY <1>7, <2>1 DEF F
  <2> HIDE DEF fold
  <2>3. folds # <<>> => folds[Len(folds)].last < fold.first
    BY <1>2, <2>2 DEF bounds
  <2>4. folds' = Append(folds, fold)
    BY <1>1, <1>11
  <2>5. /\ folds' \in Seq(F) /\ Folding!Consecutive(folds')
        /\ Len(folds') = Len(folds) + 1 /\ folds'[Len(folds')] = fold /\ folds' # <<>>
        /\ DOMAIN folds' = DOMAIN folds \cup {Len(folds')}
        /\ \A k \in DOMAIN folds : folds'[k] = folds[k]
    <3>1. /\ folds \in Seq(F) /\ Folding!Consecutive(folds)
          /\ 1 < fold.first /\ fold.first <= fold.last /\ fold.last <= Folding!NRows
      BY <1>2, <1>7, <2>2
    <3> DEFINE grown == Append(folds, fold)
    <3>2. /\ grown \in Seq(F) /\ Folding!Consecutive(grown)
          /\ Len(grown) = Len(folds) + 1 /\ grown[Len(grown)] = fold /\ grown # <<>>
          /\ DOMAIN grown = DOMAIN folds \cup {Len(grown)}
          /\ \A k \in DOMAIN folds : grown[k] = folds[k]
      BY <2>2, <2>3, <3>1, GrownFollows
    <3>3. folds' = grown
      BY <2>4
    <3> HIDE DEF grown
    <3> QED
      BY <3>2, <3>3
  <2>6. \A k \in DOMAIN folds' :
            folds'[k].train = Folding!purge_training_indices(folds'[k].first)
            /\ folds'[k].train # {}
    <3> TAKE k \in DOMAIN folds'
    <3>1. CASE k \in DOMAIN folds
      BY <1>2, <2>5, <3>1
    <3>2. CASE k = Len(folds')
      BY <1>11, <2>2, <2>5, <3>2 DEF rows
    <3> QED
      BY <2>5, <3>1, <3>2
  <2>7. IF todo_folds' = <<>> THEN folds'[Len(folds')].last = Folding!NRows
        ELSE folds'[Len(folds')].last < Head(todo_folds').first
    BY <1>1, <1>6, <1>8, <2>2, <2>5
  <2> QED
    BY <1>1, <1>2, <1>3, <1>4, <1>5, <1>6, <1>9, <2>5, <2>6, <2>7 DEF Folding!IInv, F
<1> QED
  BY <1>10, <1>11

LEMMA NextKeepsFolding ==
    ASSUME FoldConstants, Folding!IInv, [Folding!Next]_(Folding!vars)
    PROVE  Folding!IInv'
<1>1. ASSUME UNCHANGED Folding!vars PROVE Folding!IInv'
  BY <1>1 DEF Folding!vars, Folding!IInv, Folding!NRows, Folding!Consecutive,
     Folding!purge_training_indices, Folding!label_end
<1> QED
  BY <1>1, FoldKeepsFolding DEF Folding!Next

LEMMA FoldsFollow ==
    ASSUME FoldConstants, Folding!IInv
    PROVE  Folding!TypeOK /\ Folding!NothingLearntAhead /\ Folding!BlocksTileTheTail
<1>1. /\ stamps \in Seq(Nat) /\ settled_at \in [1 .. Folding!NRows -> Int \cup {None}]
      /\ Folding!NRows \in Nat
      /\ \A i, j \in 1 .. Folding!NRows : i <= j => stamps[i] <= stamps[j]
      /\ \A i \in 1 .. Folding!NRows : stamps[i] \in Nat
  <2>1. /\ stamps \in Seq(Nat) /\ settled_at \in [1 .. Folding!NRows -> Int \cup {None}]
        /\ \A i, j \in 1 .. Folding!NRows : i <= j => stamps[i] <= stamps[j]
    BY DEF Folding!IInv
  <2>2. Folding!NRows \in Nat /\ \A i \in 1 .. Folding!NRows : stamps[i] \in Nat
    BY <2>1 DEF Folding!NRows
  <2> QED
    BY <2>1, <2>2
<1>2. ASSUME NEW k \in DOMAIN folds
      PROVE  /\ folds[k].first \in Nat /\ folds[k].last \in Nat
             /\ 1 < folds[k].first /\ folds[k].first <= folds[k].last
             /\ folds[k].last <= Folding!NRows
             /\ k < Len(folds) => folds[k].last < folds[k + 1].first
             /\ folds[k].train \in SUBSET (1 .. Folding!NRows) /\ folds[k].train # {}
             /\ folds[k].train = Folding!purge_training_indices(folds[k].first)
             /\ folds[k].first \in 1 .. Folding!NRows
  <2>1. folds \in Seq([train : SUBSET (1 .. Folding!NRows), first : Nat, last : Nat])
    BY DEF Folding!IInv
  <2>2. folds[k] \in [train : SUBSET (1 .. Folding!NRows), first : Nat, last : Nat]
    BY <2>1, ElementOf
  <2>3. /\ 1 < folds[k].first /\ folds[k].first <= folds[k].last
        /\ folds[k].last <= Folding!NRows
        /\ k < Len(folds) => folds[k].last < folds[k + 1].first
    BY DEF Folding!IInv, Folding!Consecutive
  <2>4. folds[k].train = Folding!purge_training_indices(folds[k].first) /\ folds[k].train # {}
    BY DEF Folding!IInv
  <2> QED
    BY <1>1, <2>2, <2>3, <2>4
<1>3. Folding!TypeOK
  <2>1. Len(settled_at) = Folding!NRows
    BY <1>1, SequenceFrom
  <2> QED
    BY <1>1, <1>2, <2>1 DEF Folding!TypeOK
<1>4. Folding!NothingLearntAhead
  <2>1. ASSUME NEW k \in DOMAIN folds, NEW i \in folds[k].train,
               NEW v \in folds[k].first .. folds[k].last
        PROVE  /\ stamps[i] + LABEL_HORIZON <= stamps[v]
               /\ settled_at[i] = None \/ settled_at[i] <= stamps[v]
    <3>1. i \in 1 .. Folding!NRows /\ v \in 1 .. Folding!NRows /\ folds[k].first <= v
          /\ folds[k].first \in 1 .. Folding!NRows
      BY <1>1, <1>2
    <3>2. Folding!label_end(i) <= stamps[folds[k].first]
      BY <1>2 DEF Folding!purge_training_indices
    <3>3. stamps[folds[k].first] <= stamps[v]
      BY <1>1, <3>1
    <3>4. /\ stamps[folds[k].first] \in Nat /\ stamps[v] \in Nat /\ stamps[i] \in Nat
          /\ LABEL_HORIZON \in Nat
      BY <1>1, <3>1 DEF FoldConstants
    <3>5. /\ Folding!label_end(i) \in Int
          /\ stamps[i] + LABEL_HORIZON <= Folding!label_end(i)
          /\ settled_at[i] # None =>
                settled_at[i] \in Int /\ settled_at[i] <= Folding!label_end(i)
      BY <3>1, LabelsEnd
    <3>6. Folding!label_end(i) <= stamps[v]
      BY <3>2, <3>3, <3>4, <3>5
    <3> QED
      BY <3>4, <3>5, <3>6
  <2> QED
    BY <2>1 DEF Folding!NothingLearntAhead
<1>5. ASSUME NEW k \in DOMAIN folds, NEW i \in (1 .. folds[k].first - 1) \ folds[k].train
      PROVE  \/ stamps[i] + LABEL_HORIZON > stamps[folds[k].first]
             \/ settled_at[i] # None /\ settled_at[i] > stamps[folds[k].first]
  <2>1. i \in 1 .. Folding!NRows
    BY <1>1, <1>2
  <2>2. ~(Folding!label_end(i) <= stamps[folds[k].first])
    BY <1>2, <1>5 DEF Folding!purge_training_indices
  <2>3. stamps[folds[k].first] \in Nat /\ stamps[i] \in Nat /\ LABEL_HORIZON \in Nat
    BY <1>1, <1>2, <2>1 DEF FoldConstants
  <2>4. /\ Folding!label_end(i) \in Int
        /\ \/ Folding!label_end(i) = stamps[i] + LABEL_HORIZON
           \/ settled_at[i] # None /\ Folding!label_end(i) = settled_at[i]
    BY <2>1, LabelsEnd
  <2> QED
    BY <2>2, <2>3, <2>4
<1>6. ASSUME \A i \in 1 .. Folding!NRows : settled_at[i] = None, NEW k \in DOMAIN folds
      PROVE  folds[k].train = 1 .. Folding!purged_train_end(folds[k].first)
  <2> DEFINE f == folds[k].first
             S == {i \in 1 .. f - 1 : stamps[i] <= stamps[f] - LABEL_HORIZON}
  <2>1. f \in 1 .. Folding!NRows /\ f - 1 \in Nat /\ stamps[f] \in Nat /\ LABEL_HORIZON \in Nat
        /\ \A i \in 1 .. f - 1 : i \in 1 .. Folding!NRows
    BY <1>1, <1>2 DEF FoldConstants
  <2>2. folds[k].train = {i \in 1 .. f - 1 : Folding!label_end(i) <= stamps[f]}
    BY <1>2 DEF Folding!purge_training_indices
  <2>3. Folding!purged_train_end(f) = Cardinality(S)
    BY FoldingCardinality DEF Folding!purged_train_end
  <2> HIDE DEF f
  <2>4. ASSUME NEW i \in 1 .. f - 1
        PROVE  Folding!label_end(i) <= stamps[f] <=> stamps[i] <= stamps[f] - LABEL_HORIZON
    <3>1. i \in 1 .. Folding!NRows
      BY <2>1
    <3>2. settled_at[i] = None
      BY <1>6, <3>1
    <3>3. Folding!label_end(i) = stamps[i] + LABEL_HORIZON
      BY <3>2 DEF Folding!label_end
    <3>4. stamps[i] \in Nat
      BY <1>1, <3>1
    <3> QED
      BY <2>1, <3>3, <3>4
  <2>5. folds[k].train = S
    BY <2>2, <2>4
  <2>6. ASSUME NEW x \in S, NEW y \in 1 .. x
        PROVE  y \in S
    <3>1. x \in 1 .. f - 1 /\ stamps[x] <= stamps[f] - LABEL_HORIZON
      OBVIOUS
    <3>2. y \in 1 .. f - 1 /\ y <= x
      BY <2>1, <3>1
    <3>3. stamps[y] <= stamps[x] /\ stamps[y] \in Nat /\ stamps[x] \in Nat
      BY <1>1, <2>1, <3>1, <3>2
    <3>4. stamps[y] <= stamps[f] - LABEL_HORIZON
      BY <2>1, <3>1, <3>3
    <3> QED
      BY <3>2, <3>4
  <2>7. S \in SUBSET (1 .. f - 1)
    OBVIOUS
  <2> HIDE DEF S
  <2>8. S = 1 .. Cardinality(S)
    BY <2>1, <2>6, <2>7, PrefixIs
  <2> QED
    BY <2>3, <2>5, <2>8 DEF f
<1>7. folds # <<>> /\ todo_folds = <<>> => folds[Len(folds)].last = Folding!NRows
  BY DEF Folding!IInv
<1>8. Folding!BlocksTileTheTail
  BY <1>2, <1>5, <1>6, <1>7 DEF Folding!BlocksTileTheTail
<1> QED
  BY <1>3, <1>4, <1>8

(* For every sample and settlement: no fold learns what was not known when *)
(* its block began, and the blocks follow each other up to the last row.   *)
THEOREM FoldingHolds ==
    ASSUME FoldConstants
    PROVE  Folding!Spec => [](Folding!TypeOK /\ Folding!NothingLearntAhead
                              /\ Folding!BlocksTileTheTail)
<1>1. Folding!Init => Folding!IInv
  BY InitKeepsFolding
<1>2. Folding!IInv /\ [Folding!Next]_(Folding!vars) => Folding!IInv'
  BY NextKeepsFolding
<1>3. Folding!IInv => Folding!TypeOK /\ Folding!NothingLearntAhead /\ Folding!BlocksTileTheTail
  BY FoldsFollow
<1> QED
  BY <1>1, <1>2, <1>3, PTL DEF Folding!Spec

-----------------------------------------------------------------------------
(* IsotonicFit: the calibration is the regression of its definition.       *)

(* What the proofs assume of the constants: the bounds are numbers.        *)
FitConstants == MaxKnots \in Nat /\ MaxCount \in Nat

LEMMA IsotonicCardinality == \A S : Isotonic!Cardinality(S) = Cardinality(S)
BY DEF Isotonic!Cardinality, Cardinality

(* A sum counted unit by unit is a number; it splits at every point, a sum *)
(* of nothing is 0 and the sum of one number that number.                  *)
Units(f, D, most) == {x \in D \X (1 .. most) : x[2] <= f[x[1]]}

LEMMA TotalIs ==
    ASSUME NEW D, NEW f, DOMAIN f = D, NEW most
    PROVE  Isotonic!Total(f, most) = Cardinality(Units(f, D, most))
BY IsotonicCardinality DEF Isotonic!Total, Units

LEMMA UnitsFinite ==
    ASSUME NEW most \in Nat, NEW j \in Int, NEW k \in Int, NEW f
    PROVE  /\ IsFiniteSet(Units(f, j .. k, most))
           /\ Cardinality(Units(f, j .. k, most)) \in Nat
<1>1. IsFiniteSet(j .. k) /\ IsFiniteSet(1 .. most)
  BY FS_Interval
<1>2. IsFiniteSet((j .. k) \X (1 .. most))
  BY <1>1, FS_Product
<1>3. Units(f, j .. k, most) \subseteq (j .. k) \X (1 .. most)
  BY DEF Units
<1> QED
  BY <1>2, <1>3, FS_Subset, FS_CardinalityType

LEMMA UnitsSplit ==
    ASSUME NEW most \in Nat, NEW j \in Int, NEW k \in Int, NEW m \in Int,
           j <= m + 1, m <= k, NEW f
    PROVE  Cardinality(Units(f, j .. k, most)) =
              Cardinality(Units(f, j .. m, most)) + Cardinality(Units(f, m + 1 .. k, most))
<1> DEFINE A == Units(f, j .. m, most)
           B == Units(f, m + 1 .. k, most)
<1>1. Units(f, j .. k, most) = A \cup B
  <2>1. \A i : i \in j .. k <=> i \in j .. m \/ i \in m + 1 .. k
    OBVIOUS
  <2>2. \A x : x \in (j .. k) \X (1 .. most) <=>
               x \in (j .. m) \X (1 .. most) \/ x \in (m + 1 .. k) \X (1 .. most)
    BY <2>1
  <2> QED
    BY <2>2 DEF Units
<1>2. A \cap B = {}
  <2>1. \A x \in A : x[1] \in j .. m
    BY DEF Units
  <2>2. \A x \in B : x[1] \in m + 1 .. k
    BY DEF Units
  <2>3. \A i \in j .. m : i \notin m + 1 .. k
    OBVIOUS
  <2> HIDE DEF A, B
  <2> QED
    BY <2>1, <2>2, <2>3
<1>3. IsFiniteSet(A) /\ IsFiniteSet(B) /\ Cardinality(A) \in Nat /\ Cardinality(B) \in Nat
  BY UnitsFinite
<1> HIDE DEF A, B
<1>4. Cardinality(A \cup B) = Cardinality(A) + Cardinality(B) - Cardinality(A \cap B)
  BY <1>3, FS_Union
<1>5. Cardinality(A \cap B) = 0
  BY <1>2, FS_EmptySet
<1>6. Cardinality(A \cup B) = Cardinality(A) + Cardinality(B)
  BY <1>3, <1>4, <1>5
<1> QED
  BY <1>1, <1>6 DEF A, B

LEMMA UnitsOfOne ==
    ASSUME NEW most \in Nat, NEW i \in Int, NEW f, f[i] \in 0 .. most
    PROVE  Cardinality(Units(f, i .. i, most)) = f[i]
<1>1. Units(f, i .. i, most) = {i} \X (1 .. f[i])
  <2>1. i .. i = {i}
    OBVIOUS
  <2>2. \A u : u \in 1 .. most /\ u <= f[i] <=> u \in 1 .. f[i]
    OBVIOUS
  <2>3. Units(f, {i}, most) = {x \in {i} \X (1 .. most) : x[2] <= f[i]}
    BY DEF Units
  <2> QED
    BY <2>1, <2>2, <2>3
<1>2. IsFiniteSet({i}) /\ Cardinality({i}) = 1
  BY FS_Singleton
<1>3. IsFiniteSet(1 .. f[i]) /\ Cardinality(1 .. f[i]) = f[i]
  <2> DEFINE n == f[i]
  <2>1. n \in Nat
    OBVIOUS
  <2> HIDE DEF n
  <2>2. IsFiniteSet(1 .. n)
        /\ Cardinality(1 .. n) = IF 1 > n THEN 0 ELSE n - 1 + 1
    <3>1. 1 \in Int /\ n \in Int
      BY <2>1
    <3> QED
      BY <3>1, FS_Interval
  <2> QED
    BY <2>1, <2>2 DEF n
<1>4. Cardinality({i} \X (1 .. f[i])) = 1 * f[i]
  <2> DEFINE S == {i}
             T == 1 .. f[i]
  <2>1. IsFiniteSet(S) /\ IsFiniteSet(T) /\ Cardinality(S) = 1 /\ Cardinality(T) = f[i]
    BY <1>2, <1>3
  <2> HIDE DEF S, T
  <2>2. Cardinality(S \X T) = Cardinality(S) * Cardinality(T)
    BY <2>1, FS_Product
  <2> QED
    BY <2>1, <2>2 DEF S, T
<1> QED
  BY <1>1, <1>4

LEMMA UnitsOfNone ==
    ASSUME NEW most \in Nat, NEW f
    PROVE  Cardinality(Units(f, {}, most)) = 0
<1>1. Units(f, {}, most) = {}
  BY DEF Units
<1> QED
  BY <1>1, FS_EmptySet

LEMMA UnitsAgree ==
    ASSUME NEW most, NEW D, NEW f, NEW g, \A i \in D : f[i] = g[i]
    PROVE  Units(f, D, most) = Units(g, D, most)
BY DEF Units

-----------------------------------------------------------------------------
(* The sums of points.                                                     *)
HitsOf == [i \in 1 .. Len(points) |-> points[i].hits]
CountOf == [i \in 1 .. Len(points) |-> points[i].count]

LEMMA PointsAre ==
    ASSUME FitConstants, points \in Seq(Isotonic!Point), NEW i \in 1 .. Len(points)
    PROVE  /\ HitsOf[i] = points[i].hits /\ HitsOf[i] \in 0 .. MaxCount
           /\ CountOf[i] = points[i].count /\ CountOf[i] \in 1 .. MaxCount
           /\ HitsOf[i] <= CountOf[i]
<1>1. points[i] \in Isotonic!Point
  BY ElementOf
<1>2. /\ points[i].hits \in 0 .. MaxCount /\ points[i].count \in 1 .. MaxCount
      /\ points[i].hits <= points[i].count
  BY <1>1 DEF Isotonic!Point
<1> QED
  BY <1>2 DEF HitsOf, CountOf

LEMMA SumIs ==
    ASSUME FitConstants, points \in Seq(Isotonic!Point),
           NEW j \in Int, NEW k \in Int, 1 <= j, k <= Len(points)
    PROVE  /\ Isotonic!Sum(j, k).hits = Cardinality(Units(HitsOf, j .. k, MaxCount))
           /\ Isotonic!Sum(j, k).count = Cardinality(Units(CountOf, j .. k, MaxCount))
           /\ Isotonic!Sum(j, k).hits \in Nat /\ Isotonic!Sum(j, k).count \in Nat
<1> DEFINE h == [i \in j .. k |-> points[i].hits]
           c == [i \in j .. k |-> points[i].count]
<1>1. \A i \in j .. k : i \in 1 .. Len(points)
  BY ElementOf
<1>2. DOMAIN h = j .. k /\ \A i \in j .. k : h[i] = HitsOf[i]
  BY <1>1 DEF HitsOf
<1>3. DOMAIN c = j .. k /\ \A i \in j .. k : c[i] = CountOf[i]
  BY <1>1 DEF CountOf
<1>4. /\ Isotonic!Sum(j, k).hits = Isotonic!Total(h, MaxCount)
      /\ Isotonic!Sum(j, k).count = Isotonic!Total(c, MaxCount)
  BY DEF Isotonic!Sum
<1> HIDE DEF h, c
<1>5. Isotonic!Total(h, MaxCount) = Cardinality(Units(HitsOf, j .. k, MaxCount))
  BY <1>2, TotalIs, UnitsAgree
<1>6. Isotonic!Total(c, MaxCount) = Cardinality(Units(CountOf, j .. k, MaxCount))
  BY <1>3, TotalIs, UnitsAgree
<1>7. MaxCount \in Nat
  BY DEF FitConstants
<1> QED
  BY <1>4, <1>5, <1>6, <1>7, UnitsFinite

LEMMA SumSplits ==
    ASSUME FitConstants, points \in Seq(Isotonic!Point),
           NEW j \in Int, NEW k \in Int, NEW m \in Int, 1 <= j, j <= m + 1, m <= k,
           k <= Len(points)
    PROVE  /\ Isotonic!Sum(j, k).hits = Isotonic!Sum(j, m).hits + Isotonic!Sum(m + 1, k).hits
           /\ Isotonic!Sum(j, k).count = Isotonic!Sum(j, m).count + Isotonic!Sum(m + 1, k).count
<1>1. MaxCount \in Nat /\ Len(points) \in Nat
  BY ElementOf DEF FitConstants
<1>2. m <= Len(points) /\ 1 <= m + 1 /\ m + 1 \in Int
  BY <1>1
<1>3. /\ Isotonic!Sum(j, k).hits = Cardinality(Units(HitsOf, j .. k, MaxCount))
      /\ Isotonic!Sum(j, k).count = Cardinality(Units(CountOf, j .. k, MaxCount))
  BY SumIs
<1>4. /\ Isotonic!Sum(j, m).hits = Cardinality(Units(HitsOf, j .. m, MaxCount))
      /\ Isotonic!Sum(j, m).count = Cardinality(Units(CountOf, j .. m, MaxCount))
  BY <1>2, SumIs
<1>5. /\ Isotonic!Sum(m + 1, k).hits = Cardinality(Units(HitsOf, m + 1 .. k, MaxCount))
      /\ Isotonic!Sum(m + 1, k).count = Cardinality(Units(CountOf, m + 1 .. k, MaxCount))
  BY <1>2, SumIs
<1> QED
  BY <1>1, <1>3, <1>4, <1>5, UnitsSplit

LEMMA SumOfOne ==
    ASSUME FitConstants, points \in Seq(Isotonic!Point), NEW i \in 1 .. Len(points)
    PROVE  Isotonic!Sum(i, i).hits = points[i].hits /\ Isotonic!Sum(i, i).count = points[i].count
<1>1. MaxCount \in Nat /\ i \in Int /\ 1 <= i /\ i <= Len(points)
  BY ElementOf DEF FitConstants
<1>2. /\ Isotonic!Sum(i, i).hits = Cardinality(Units(HitsOf, i .. i, MaxCount))
      /\ Isotonic!Sum(i, i).count = Cardinality(Units(CountOf, i .. i, MaxCount))
  BY <1>1, SumIs
<1>3. HitsOf[i] = points[i].hits /\ HitsOf[i] \in 0 .. MaxCount
      /\ CountOf[i] = points[i].count /\ CountOf[i] \in 0 .. MaxCount
  BY <1>1, PointsAre
<1> QED
  BY <1>1, <1>2, <1>3, UnitsOfOne

(* A run of points has a rate.                                             *)
LEMMA SumHasCount ==
    ASSUME FitConstants, points \in Seq(Isotonic!Point),
           NEW j \in Int, NEW k \in Int, 1 <= j, j <= k, k <= Len(points)
    PROVE  Isotonic!Sum(j, k).count \in Nat \ {0} /\ Isotonic!Sum(j, k).hits \in Nat
<1>1. j \in 1 .. Len(points) /\ j + 1 \in Int /\ 1 <= j + 1 /\ j <= j + 1 /\ Len(points) \in Nat
  BY ElementOf
<1>2. Isotonic!Sum(j, k).count = Isotonic!Sum(j, j).count + Isotonic!Sum(j + 1, k).count
  BY <1>1, SumSplits
<1>3. Isotonic!Sum(j, j).count = points[j].count /\ points[j].count \in 1 .. MaxCount
  BY <1>1, SumOfOne, PointsAre
<1>4. Isotonic!Sum(j + 1, k).count \in Nat /\ Isotonic!Sum(j, k).hits \in Nat
  BY <1>1, SumIs
<1> QED
  BY <1>2, <1>3, <1>4

-----------------------------------------------------------------------------
(* Rates, compared by cross-multiplication.                                *)
Rate(r) == r.hits \in Nat /\ r.count \in Nat \ {0}

Pooled(r, a, b) == r.hits = a.hits + b.hits /\ r.count = a.count + b.count

LEMMA RateSame == \A a : Rate(a) => ~Isotonic!Above(a, a)
<1> TAKE a
<1> QED
  BY DEF Rate, Isotonic!Above

LEMMA RateTransitive ==
    ASSUME NEW a, NEW b, NEW c, Rate(a), Rate(b), Rate(c),
           ~Isotonic!Above(a, b), ~Isotonic!Above(b, c)
    PROVE  ~Isotonic!Above(a, c)
<1> DEFINE ah == a.hits
           ac == a.count
           bh == b.hits
           bc == b.count
           ch == c.hits
           cc == c.count
<1>1. /\ ah \in Nat /\ bh \in Nat /\ ch \in Nat
      /\ ac \in Nat \ {0} /\ bc \in Nat \ {0} /\ cc \in Nat \ {0}
  BY DEF Rate
<1>2. ah * bc <= bh * ac /\ bh * cc <= ch * bc
  <2>1. ~(ah * bc > bh * ac) /\ ~(bh * cc > ch * bc)
    BY DEF Isotonic!Above
  <2>2. ah * bc \in Int /\ bh * ac \in Int /\ bh * cc \in Int /\ ch * bc \in Int
    BY <1>1
  <2> QED
    BY <2>1, <2>2
<1>3. Isotonic!Above(a, c) <=> ah * cc > ch * ac
  BY DEF Isotonic!Above
<1> HIDE DEF ah, ac, bh, bc, ch, cc
<1>4. (ah * bc) * cc <= (bh * ac) * cc
  BY <1>1, <1>2
<1>5. (bh * cc) * ac <= (ch * bc) * ac
  BY <1>1, <1>2
<1>6. (ah * cc) * bc <= (ch * ac) * bc
  <2>1. (ah * cc) * bc = (ah * bc) * cc /\ (bh * ac) * cc = (bh * cc) * ac
        /\ (ch * bc) * ac = (ch * ac) * bc
    BY <1>1
  <2>2. (ah * bc) * cc \in Int /\ (bh * ac) * cc \in Int /\ (ch * ac) * bc \in Int
    BY <1>1
  <2> QED
    BY <1>4, <1>5, <2>1, <2>2
<1>7. ah * cc <= ch * ac
  <2>1. ah * cc \in Nat /\ ch * ac \in Nat
    BY <1>1
  <2>2. \A x, y \in Nat : x * bc <= y * bc => x <= y
    BY <1>1
  <2> QED
    BY <1>6, <2>1, <2>2
<1>8. ah * cc \in Int /\ ch * ac \in Int
  BY <1>1
<1> QED
  BY <1>3, <1>7, <1>8

(* Two rates that are not above a third are not when they are pooled, and  *)
(* neither the other way round; a pooled rate is between its parts.        *)
LEMMA PooledRate ==
    ASSUME NEW a, NEW b, NEW r, Rate(a), Rate(b), Pooled(r, a, b)
    PROVE  /\ Rate(r)
           /\ \A v : Rate(v) /\ ~Isotonic!Above(a, v) /\ ~Isotonic!Above(b, v)
                      => ~Isotonic!Above(r, v)
           /\ \A v : Rate(v) /\ ~Isotonic!Above(v, a) /\ ~Isotonic!Above(v, b)
                      => ~Isotonic!Above(v, r)
           /\ ~Isotonic!Above(a, b) => ~Isotonic!Above(a, r) /\ ~Isotonic!Above(r, b)
           /\ Isotonic!Above(a, b) => ~Isotonic!Above(r, a) /\ ~Isotonic!Above(b, r)
           /\ ~Isotonic!Above(r, a) <=> ~Isotonic!Above(b, r)
           /\ ~Isotonic!Above(a, r) <=> ~Isotonic!Above(r, b)
<1> DEFINE ah == a.hits
           ac == a.count
           bh == b.hits
           bc == b.count
<1>1. ah \in Nat /\ bh \in Nat /\ ac \in Nat \ {0} /\ bc \in Nat \ {0}
  BY DEF Rate
<1>2. r.hits = ah + bh /\ r.count = ac + bc
  BY DEF Pooled
<1>3. /\ Isotonic!Above(a, b) <=> ah * bc > bh * ac
      /\ Isotonic!Above(a, r) <=> ah * (ac + bc) > (ah + bh) * ac
      /\ Isotonic!Above(r, a) <=> (ah + bh) * ac > ah * (ac + bc)
      /\ Isotonic!Above(b, r) <=> bh * (ac + bc) > (ah + bh) * bc
      /\ Isotonic!Above(r, b) <=> (ah + bh) * bc > bh * (ac + bc)
  BY <1>2 DEF Isotonic!Above
<1>4. \A v : /\ Isotonic!Above(a, v) <=> ah * v.count > v.hits * ac
             /\ Isotonic!Above(b, v) <=> bh * v.count > v.hits * bc
             /\ Isotonic!Above(r, v) <=> (ah + bh) * v.count > v.hits * (ac + bc)
             /\ Isotonic!Above(v, a) <=> v.hits * ac > ah * v.count
             /\ Isotonic!Above(v, b) <=> v.hits * bc > bh * v.count
             /\ Isotonic!Above(v, r) <=> v.hits * (ac + bc) > (ah + bh) * v.count
  BY <1>2 DEF Isotonic!Above
<1> HIDE DEF ah, ac, bh, bc
<1>5. /\ ah * (ac + bc) = ah * ac + ah * bc /\ (ah + bh) * ac = ah * ac + bh * ac
      /\ bh * (ac + bc) = bh * ac + bh * bc /\ (ah + bh) * bc = ah * bc + bh * bc
      /\ ah * ac \in Nat /\ ah * bc \in Nat /\ bh * ac \in Nat /\ bh * bc \in Nat
  BY <1>1
<1>6. /\ Isotonic!Above(a, r) <=> ah * bc > bh * ac
      /\ Isotonic!Above(r, a) <=> bh * ac > ah * bc
      /\ Isotonic!Above(b, r) <=> bh * ac > ah * bc
      /\ Isotonic!Above(r, b) <=> ah * bc > bh * ac
  BY <1>3, <1>5
<1>7. Isotonic!Above(a, b) <=> ah * bc > bh * ac
  BY <1>3
<1>8. Rate(r)
  BY <1>1, <1>2 DEF Rate
<1>9. ASSUME NEW v, Rate(v)
      PROVE  /\ ~Isotonic!Above(a, v) /\ ~Isotonic!Above(b, v) => ~Isotonic!Above(r, v)
             /\ ~Isotonic!Above(v, a) /\ ~Isotonic!Above(v, b) => ~Isotonic!Above(v, r)
  <2> DEFINE vh == v.hits
             vc == v.count
  <2>1. vh \in Nat /\ vc \in Nat \ {0}
    BY <1>9 DEF Rate
  <2>2. /\ Isotonic!Above(a, v) <=> ah * vc > vh * ac
        /\ Isotonic!Above(b, v) <=> bh * vc > vh * bc
        /\ Isotonic!Above(r, v) <=> (ah + bh) * vc > vh * (ac + bc)
        /\ Isotonic!Above(v, a) <=> vh * ac > ah * vc
        /\ Isotonic!Above(v, b) <=> vh * bc > bh * vc
        /\ Isotonic!Above(v, r) <=> vh * (ac + bc) > (ah + bh) * vc
    BY <1>4
  <2> HIDE DEF vh, vc
  <2>3. /\ (ah + bh) * vc = ah * vc + bh * vc /\ vh * (ac + bc) = vh * ac + vh * bc
        /\ ah * vc \in Nat /\ bh * vc \in Nat /\ vh * ac \in Nat /\ vh * bc \in Nat
    BY <1>1, <2>1
  <2> QED
    BY <2>2, <2>3
<1>10. ah * bc \in Nat /\ bh * ac \in Nat
  BY <1>5
<1>11. /\ ~Isotonic!Above(a, b) => ~Isotonic!Above(a, r) /\ ~Isotonic!Above(r, b)
       /\ Isotonic!Above(a, b) => ~Isotonic!Above(r, a) /\ ~Isotonic!Above(b, r)
       /\ ~Isotonic!Above(r, a) <=> ~Isotonic!Above(b, r)
       /\ ~Isotonic!Above(a, r) <=> ~Isotonic!Above(r, b)
  BY <1>6, <1>7, <1>10
<1> QED
  BY <1>8, <1>9, <1>11

-----------------------------------------------------------------------------
(* The ends of the blocks.                                                 *)
EndsOf(s, b) == Cardinality(Units([c \in DOMAIN s |-> s[c].size], 1 .. b, MaxKnots))

LEMMA EndIs ==
    ASSUME NEW b \in Int, \A c \in 1 .. b : c \in DOMAIN blocks
    PROVE  Isotonic!EndOf(b) = EndsOf(blocks, b)
<1> DEFINE f == [c \in 1 .. b |-> blocks[c].size]
           g == [c \in DOMAIN blocks |-> blocks[c].size]
<1>1. Isotonic!EndOf(b) = Isotonic!Total(f, MaxKnots)
  BY DEF Isotonic!EndOf
<1>2. DOMAIN f = 1 .. b /\ \A c \in 1 .. b : f[c] = g[c]
  OBVIOUS
<1>3. EndsOf(blocks, b) = Cardinality(Units(g, 1 .. b, MaxKnots))
  BY DEF EndsOf
<1> HIDE DEF f, g
<1>4. Isotonic!Total(f, MaxKnots) = Cardinality(Units(f, 1 .. b, MaxKnots))
  BY <1>2, TotalIs
<1> QED
  BY <1>1, <1>2, <1>3, <1>4, UnitsAgree

Sized == [hits : Nat, count : Nat, size : 1 .. MaxKnots]

(* For a sequence of blocks, of this state or the next one.                *)
LEMMA EndsAre ==
    ASSUME FitConstants, NEW s \in Seq(Sized)
    PROVE  /\ EndsOf(s, 0) = 0
           /\ \A b \in 0 .. Len(s) : EndsOf(s, b) \in Nat
           /\ \A b \in 1 .. Len(s) : /\ EndsOf(s, b) = EndsOf(s, b - 1) + s[b].size
                                      /\ s[b].size \in 1 .. MaxKnots /\ b \in DOMAIN s
           /\ \A b \in 0 .. Len(s), c \in 0 .. Len(s) : b <= c => EndsOf(s, b) <= EndsOf(s, c)
<1> DEFINE g == [c \in DOMAIN s |-> s[c].size]
<1>1. MaxKnots \in Nat /\ Len(s) \in Nat /\ DOMAIN s = 1 .. Len(s)
  BY ElementOf DEF FitConstants
<1>2. \A b \in 1 .. Len(s) : g[b] = s[b].size /\ s[b].size \in 1 .. MaxKnots
  <2> TAKE b \in 1 .. Len(s)
  <2>1. s[b] \in Sized
    BY <1>1, ElementOf
  <2> QED
    BY <1>1, <2>1 DEF Sized
<1>3. \A b : EndsOf(s, b) = Cardinality(Units(g, 1 .. b, MaxKnots))
  BY DEF EndsOf
<1> HIDE DEF g
<1>4. EndsOf(s, 0) = 0
  <2>1. 1 .. 0 = {}
    OBVIOUS
  <2> QED
    BY <1>1, <1>3, <2>1, UnitsOfNone
<1>5. \A b \in 0 .. Len(s) : EndsOf(s, b) \in Nat
  <2> TAKE b \in 0 .. Len(s)
  <2> QED
    BY <1>1, <1>3, UnitsFinite
<1>6. ASSUME NEW b \in 0 .. Len(s), NEW c \in 0 .. Len(s), b <= c
      PROVE  /\ EndsOf(s, c) = EndsOf(s, b) + Cardinality(Units(g, b + 1 .. c, MaxKnots))
             /\ Cardinality(Units(g, b + 1 .. c, MaxKnots)) \in Nat
  <2>1. b \in Int /\ c \in Int /\ 1 <= b + 1 /\ b + 1 \in Int
    BY <1>1
  <2>2. Cardinality(Units(g, 1 .. c, MaxKnots)) =
           Cardinality(Units(g, 1 .. b, MaxKnots)) + Cardinality(Units(g, b + 1 .. c, MaxKnots))
    BY <1>1, <1>6, <2>1, UnitsSplit
  <2> QED
    BY <1>1, <1>3, <2>1, <2>2, UnitsFinite
<1>7. ASSUME NEW b \in 1 .. Len(s)
      PROVE  EndsOf(s, b) = EndsOf(s, b - 1) + s[b].size
  <2>1. b - 1 \in 0 .. Len(s) /\ b \in 0 .. Len(s) /\ b - 1 <= b /\ (b - 1) + 1 = b /\ b \in Int
    BY <1>1
  <2>2. EndsOf(s, b) = EndsOf(s, b - 1) + Cardinality(Units(g, b .. b, MaxKnots))
    BY <1>6, <2>1
  <2>3. g[b] = s[b].size /\ g[b] \in 0 .. MaxKnots
    BY <1>2
  <2>4. Cardinality(Units(g, b .. b, MaxKnots)) = g[b]
    BY <1>1, <2>1, <2>3, UnitsOfOne
  <2> QED
    BY <2>2, <2>3, <2>4
<1>8. ASSUME NEW b \in 0 .. Len(s), NEW c \in 0 .. Len(s), b <= c
      PROVE  EndsOf(s, b) <= EndsOf(s, c)
  BY <1>5, <1>6, <1>8
<1> QED
  BY <1>1, <1>2, <1>4, <1>5, <1>7, <1>8

LEMMA EndsAgree ==
    ASSUME NEW s, NEW t, NEW b,
           \A c \in 1 .. b : c \in DOMAIN s /\ c \in DOMAIN t /\ s[c].size = t[c].size
    PROVE  EndsOf(s, b) = EndsOf(t, b)
<1> DEFINE f == [c \in DOMAIN s |-> s[c].size]
           g == [c \in DOMAIN t |-> t[c].size]
<1>1. \A c \in 1 .. b : f[c] = g[c]
  OBVIOUS
<1>2. /\ EndsOf(s, b) = Cardinality(Units(f, 1 .. b, MaxKnots))
      /\ EndsOf(t, b) = Cardinality(Units(g, 1 .. b, MaxKnots))
  BY DEF EndsOf
<1> HIDE DEF f, g
<1> QED
  BY <1>1, <1>2, UnitsAgree

-----------------------------------------------------------------------------
(* The invariant of a sequence of blocks, of this state or the next one.   *)
SumsOf(s) ==
    \A b \in 1 .. Len(s) :
        /\ s[b].hits = Isotonic!Sum(EndsOf(s, b - 1) + 1, EndsOf(s, b)).hits
        /\ s[b].count = Isotonic!Sum(EndsOf(s, b - 1) + 1, EndsOf(s, b)).count
        /\ \A k \in EndsOf(s, b - 1) + 1 .. EndsOf(s, b) :
              ~Isotonic!Above(s[b], Isotonic!Sum(EndsOf(s, b - 1) + 1, k))

RegressionOf(s, n) ==
    \A b \in 1 .. n :
        /\ \A c \in b .. n : ~Isotonic!Above(s[b], s[c])
        /\ \A j \in 1 .. EndsOf(s, b) :
              ~Isotonic!Above(Isotonic!Sum(j, EndsOf(s, b)), s[b])
        /\ \A k \in EndsOf(s, b - 1) + 1 .. EndsOf(s, n) :
              ~Isotonic!Above(s[b], Isotonic!Sum(EndsOf(s, b - 1) + 1, k))

LEMMA SameRate ==
    ASSUME NEW a, NEW b, a.hits = b.hits, a.count = b.count
    PROVE  \A v : /\ Isotonic!Above(a, v) <=> Isotonic!Above(b, v)
                 /\ Isotonic!Above(v, a) <=> Isotonic!Above(v, b)
BY DEF Isotonic!Above

(* A run of points from j to k and the blocks have rates.                  *)
LEMMA RatesAre ==
    ASSUME FitConstants, points \in Seq(Isotonic!Point), NEW s \in Seq(Sized),
           EndsOf(s, Len(s)) <= Len(points), SumsOf(s), NEW b \in 1 .. Len(s)
    PROVE  /\ EndsOf(s, b - 1) \in Nat /\ EndsOf(s, b) \in Nat
           /\ EndsOf(s, b - 1) + 1 <= EndsOf(s, b)
           /\ EndsOf(s, b) <= EndsOf(s, Len(s)) /\ EndsOf(s, b) <= Len(points)
           /\ Rate(s[b])
<1>1. Len(s) \in Nat /\ Len(points) \in Nat /\ MaxKnots \in Nat
  BY ElementOf DEF FitConstants
<1>2. b - 1 \in 0 .. Len(s) /\ b \in 0 .. Len(s) /\ Len(s) \in 0 .. Len(s) /\ b <= Len(s)
  BY <1>1
<1>3. /\ EndsOf(s, b - 1) \in Nat /\ EndsOf(s, b) \in Nat /\ EndsOf(s, Len(s)) \in Nat
      /\ EndsOf(s, b) = EndsOf(s, b - 1) + s[b].size /\ s[b].size \in 1 .. MaxKnots
      /\ EndsOf(s, b) <= EndsOf(s, Len(s))
  BY <1>2, EndsAre
<1>4. EndsOf(s, b - 1) + 1 <= EndsOf(s, b) /\ EndsOf(s, b) <= Len(points)
  BY <1>1, <1>3
<1>5. Rate(s[b])
  <2>1. LET start == EndsOf(s, b - 1) + 1
        IN  /\ s[b].hits = Isotonic!Sum(start, EndsOf(s, b)).hits
            /\ s[b].count = Isotonic!Sum(start, EndsOf(s, b)).count
    BY DEF SumsOf
  <2>2. LET start == EndsOf(s, b - 1) + 1
        IN  /\ Isotonic!Sum(start, EndsOf(s, b)).count \in Nat \ {0}
            /\ Isotonic!Sum(start, EndsOf(s, b)).hits \in Nat
    <3> DEFINE start == EndsOf(s, b - 1) + 1
               end == EndsOf(s, b)
    <3>1. start \in Int /\ end \in Int /\ 1 <= start /\ start <= end /\ end <= Len(points)
      BY <1>3, <1>4
    <3> HIDE DEF start, end
    <3>2. Isotonic!Sum(start, end).count \in Nat \ {0} /\ Isotonic!Sum(start, end).hits \in Nat
      BY <3>1, SumHasCount
    <3> QED
      BY <3>2 DEF start, end
  <2> QED
    BY <2>1, <2>2 DEF Rate
<1> QED
  BY <1>3, <1>4, <1>5

LEMMA RunIsPooled ==
    ASSUME FitConstants, points \in Seq(Isotonic!Point),
           NEW j \in Int, NEW k \in Int, NEW m \in Int, 1 <= j, j <= m, m < k, k <= Len(points)
    PROVE  /\ Rate(Isotonic!Sum(j, m)) /\ Rate(Isotonic!Sum(m + 1, k)) /\ Rate(Isotonic!Sum(j, k))
           /\ Pooled(Isotonic!Sum(j, k), Isotonic!Sum(j, m), Isotonic!Sum(m + 1, k))
<1>1. Len(points) \in Nat
  BY ElementOf
<1>2. /\ m <= Len(points) /\ m + 1 \in Int /\ 1 <= m + 1 /\ m + 1 <= k /\ j <= k /\ j <= m + 1
      /\ m <= k
  BY <1>1
<1>3. /\ Rate(Isotonic!Sum(j, m)) /\ Rate(Isotonic!Sum(m + 1, k)) /\ Rate(Isotonic!Sum(j, k))
  BY <1>2, SumHasCount DEF Rate
<1>4. Pooled(Isotonic!Sum(j, k), Isotonic!Sum(j, m), Isotonic!Sum(m + 1, k))
  BY <1>2, SumSplits DEF Pooled
<1> QED
  BY <1>3, <1>4

(* Seen from its end, no part of a block is above its value.               *)
LEMMA PartsOfABlock ==
    ASSUME FitConstants, points \in Seq(Isotonic!Point), NEW s \in Seq(Sized),
           EndsOf(s, Len(s)) <= Len(points), SumsOf(s), NEW b \in 1 .. Len(s),
           NEW j \in EndsOf(s, b - 1) + 1 .. EndsOf(s, b)
    PROVE  ~Isotonic!Above(Isotonic!Sum(j, EndsOf(s, b)), s[b])
<1> DEFINE start == EndsOf(s, b - 1) + 1
           end == EndsOf(s, b)
           v == s[b]
<1>1. /\ start \in Nat /\ end \in Nat /\ 1 <= start /\ start <= end /\ end <= Len(points)
      /\ Rate(v)
  BY RatesAre
<1>2. /\ v.hits = Isotonic!Sum(start, end).hits /\ v.count = Isotonic!Sum(start, end).count
      /\ \A k \in start .. end : ~Isotonic!Above(v, Isotonic!Sum(start, k))
  BY DEF SumsOf
<1>3. j \in start .. end
  OBVIOUS
<1> SUFFICES ~Isotonic!Above(Isotonic!Sum(j, end), v)
  OBVIOUS
<1> HIDE DEF start, end, v
<1>4. CASE j = start
  BY <1>1, <1>2, <1>4, SameRate, RateSame
<1>5. CASE j # start
  <2>1. j - 1 \in start .. end /\ j - 1 < end /\ start <= j - 1 /\ j - 1 \in Int
        /\ (j - 1) + 1 = j /\ start \in Int /\ end \in Int
    BY <1>1, <1>3, <1>5
  <2> DEFINE head == Isotonic!Sum(start, j - 1)
             rest == Isotonic!Sum(j, end)
  <2>2. /\ Rate(head) /\ Rate(rest)
        /\ Pooled(Isotonic!Sum(start, end), head, rest)
    BY <1>1, <2>1, RunIsPooled
  <2>3. ~Isotonic!Above(v, head)
    BY <1>2, <2>1
  <2> HIDE DEF head, rest
  <2>4. Pooled(v, head, rest)
    BY <1>2, <2>2 DEF Pooled
  <2>5. ~Isotonic!Above(rest, v)
    BY <2>2, <2>3, <2>4, PooledRate
  <2> QED
    BY <2>5 DEF rest
<1> QED
  BY <1>4, <1>5

(* When the last block is not below the one before it, it fits.            *)
LEMMA RegressionGrows ==
    ASSUME FitConstants, points \in Seq(Isotonic!Point), NEW s \in Seq(Sized), s # <<>>,
           EndsOf(s, Len(s)) <= Len(points), SumsOf(s), RegressionOf(s, Len(s) - 1),
           Len(s) > 1 => ~Isotonic!Above(s[Len(s) - 1], s[Len(s)])
    PROVE  RegressionOf(s, Len(s))
<1> DEFINE n == Len(s)
           E(b) == EndsOf(s, b)
<1>1. n \in Nat \ {0} /\ Len(points) \in Nat
  BY ElementOf
<1>2. ASSUME NEW b \in 1 .. n
      PROVE  /\ E(b - 1) \in Nat /\ E(b) \in Nat /\ E(b - 1) + 1 <= E(b) /\ E(b) <= E(n)
             /\ E(b) <= Len(points) /\ Rate(s[b])
  BY RatesAre
<1>3. ASSUME NEW b \in 1 .. n - 1
      PROVE  /\ \A c \in b .. n - 1 : ~Isotonic!Above(s[b], s[c])
             /\ \A j \in 1 .. E(b) : ~Isotonic!Above(Isotonic!Sum(j, E(b)), s[b])
             /\ \A k \in E(b - 1) + 1 .. E(n - 1) :
                   ~Isotonic!Above(s[b], Isotonic!Sum(E(b - 1) + 1, k))
  BY DEF RegressionOf
<1>4. ASSUME NEW b \in 1 .. n
      PROVE  /\ s[b].hits = Isotonic!Sum(E(b - 1) + 1, E(b)).hits
             /\ s[b].count = Isotonic!Sum(E(b - 1) + 1, E(b)).count
             /\ \A k \in E(b - 1) + 1 .. E(b) :
                   ~Isotonic!Above(s[b], Isotonic!Sum(E(b - 1) + 1, k))
             /\ \A j \in E(b - 1) + 1 .. E(b) :
                   ~Isotonic!Above(Isotonic!Sum(j, E(b)), s[b])
  BY PartsOfABlock DEF SumsOf
<1>5. n \in 1 .. n /\ n > 1 => n - 1 \in 1 .. n /\ n - 1 \in 1 .. n - 1
  BY <1>1
<1>6. n > 1 => ~Isotonic!Above(s[n - 1], s[n])
  OBVIOUS
<1>7. \A b \in 0 .. n, c \in 0 .. n : b <= c => E(b) <= E(c)
  BY EndsAre
<1>8. n \in 1 .. n /\ E(n - 1) \in Nat /\ E(n) \in Nat /\ Rate(s[n]) /\ E(n - 1) + 1 <= E(n)
      /\ E(n) <= Len(points)
  BY <1>1, <1>2
<1> HIDE DEF n, E
<1>9. ASSUME NEW b \in 1 .. n, b # n
      PROVE  ~Isotonic!Above(s[b], s[n]) /\ b \in 1 .. n - 1 /\ n > 1
  <2>1. b \in 1 .. n - 1 /\ n > 1 /\ n - 1 \in b .. n - 1 /\ n - 1 \in 1 .. n
    BY <1>1, <1>9
  <2>2. Rate(s[b]) /\ Rate(s[n - 1])
    BY <1>2, <2>1
  <2>3. ~Isotonic!Above(s[b], s[n - 1]) /\ ~Isotonic!Above(s[n - 1], s[n])
    BY <1>3, <1>6, <2>1
  <2> QED
    BY <1>8, <2>1, <2>2, <2>3, RateTransitive
<1>10. ASSUME NEW b \in 1 .. n, NEW c \in b .. n
       PROVE  ~Isotonic!Above(s[b], s[c])
  <2>1. CASE c = n /\ b = n
    BY <1>8, <2>1, RateSame
  <2>2. CASE c = n /\ b # n
    BY <1>9, <2>2
  <2>3. CASE c # n
    <3>1. b \in 1 .. n - 1 /\ c \in b .. n - 1
      BY <1>1, <2>3
    <3> QED
      BY <1>3, <3>1
  <2> QED
    BY <2>1, <2>2, <2>3
<1>11. ASSUME NEW b \in 1 .. n, NEW j \in 1 .. E(b)
       PROVE  ~Isotonic!Above(Isotonic!Sum(j, E(b)), s[b])
  <2>1. CASE b # n
    BY <1>3, <1>9, <2>1
  <2>2. CASE b = n /\ E(n - 1) < j
    <3>1. j \in E(n - 1) + 1 .. E(n)
      BY <1>8, <2>2
    <3> QED
      BY <1>4, <1>8, <2>2, <3>1
  <2>3. CASE b = n /\ ~(E(n - 1) < j)
    <3>1. j \in 1 .. E(n - 1) /\ j \in Int /\ 1 <= j /\ j <= E(n - 1) /\ E(n - 1) < E(n)
      BY <1>8, <2>3
    <3>2. n > 1 /\ n - 1 \in 1 .. n - 1 /\ n - 1 \in 1 .. n
      <4>1. n # 1
        <5>1. E(0) = 0
          BY EndsAre DEF E
        <5> QED
          BY <3>1, <5>1
      <4> QED
        BY <1>1, <4>1
    <3> DEFINE head == Isotonic!Sum(j, E(n - 1))
               rest == Isotonic!Sum(E(n - 1) + 1, E(n))
               joined == Isotonic!Sum(j, E(n))
    <3>3. Rate(head) /\ Rate(rest) /\ Rate(joined) /\ Pooled(joined, head, rest)
      BY <1>8, <3>1, RunIsPooled
    <3>4. ~Isotonic!Above(head, s[n - 1]) /\ Rate(s[n - 1])
      BY <1>2, <1>3, <3>1, <3>2
    <3>5. s[n].hits = rest.hits /\ s[n].count = rest.count
      BY <1>4, <1>8
    <3> HIDE DEF head, rest, joined
    <3>6. ~Isotonic!Above(head, s[n])
      BY <1>6, <1>8, <3>2, <3>3, <3>4, RateTransitive
    <3>7. ~Isotonic!Above(rest, s[n])
      BY <1>8, <3>5, SameRate, RateSame
    <3>8. ~Isotonic!Above(joined, s[n])
      BY <1>8, <3>3, <3>6, <3>7, PooledRate
    <3> QED
      BY <2>3, <3>8 DEF joined
  <2> QED
    BY <2>1, <2>2, <2>3
<1>12. ASSUME NEW b \in 1 .. n, NEW k \in E(b - 1) + 1 .. E(n)
       PROVE  ~Isotonic!Above(s[b], Isotonic!Sum(E(b - 1) + 1, k))
  <2>1. CASE b = n
    BY <1>4, <1>8, <2>1
  <2>2. CASE b # n
    <3>1. b \in 1 .. n - 1 /\ n > 1 /\ ~Isotonic!Above(s[b], s[n]) /\ Rate(s[b])
          /\ E(b - 1) \in Nat /\ E(b) \in Nat /\ E(b - 1) + 1 <= E(b)
      BY <1>2, <1>9, <2>2
    <3>2. CASE k <= E(n - 1)
      <4>1. k \in E(b - 1) + 1 .. E(n - 1)
        BY <1>8, <3>1, <3>2
      <4> QED
        BY <1>3, <3>1, <4>1
    <3>3. CASE ~(k <= E(n - 1))
      <4> DEFINE start == E(b - 1) + 1
      <4>1. E(b) <= E(n - 1)
        <5>1. b \in 0 .. n /\ n - 1 \in 0 .. n /\ b <= n - 1
          BY <1>1, <3>1
        <5> QED
          BY <1>7, <5>1
      <4>2. /\ start \in Int /\ 1 <= start /\ start <= E(n - 1) /\ E(n - 1) < k /\ k \in Int
            /\ k <= Len(points) /\ E(n - 1) \in Int /\ k \in E(n - 1) + 1 .. E(n)
            /\ E(n - 1) \in start .. E(n - 1)
        <5> DEFINE e == E(b - 1)
                   f == E(n - 1)
                   g == E(b)
                   z == E(n)
        <5>1. /\ e \in Nat /\ f \in Nat /\ z \in Nat /\ g \in Nat /\ e + 1 <= g /\ g <= f
              /\ z <= Len(points) /\ k \in e + 1 .. z /\ ~(k <= f)
          BY <1>8, <3>1, <3>3, <4>1
        <5> HIDE DEF e, f, g, z
        <5>2. /\ e + 1 \in Int /\ 1 <= e + 1 /\ e + 1 <= f /\ f < k /\ k \in Int
              /\ k <= Len(points) /\ f \in Int /\ k \in f + 1 .. z /\ f \in e + 1 .. f
          BY <1>1, <5>1
        <5> QED
          BY <5>2 DEF e, f, z
      <4> DEFINE head == Isotonic!Sum(start, E(n - 1))
                 rest == Isotonic!Sum(E(n - 1) + 1, k)
                 joined == Isotonic!Sum(start, k)
      <4> HIDE DEF start
      <4>3. Rate(head) /\ Rate(rest) /\ Rate(joined) /\ Pooled(joined, head, rest)
        BY <4>2, RunIsPooled
      <4>4. ~Isotonic!Above(s[b], head)
        BY <1>3, <3>1, <4>2 DEF start
      <4>5. ~Isotonic!Above(s[n], rest)
        BY <1>4, <1>8, <4>2
      <4> HIDE DEF head, rest, joined
      <4>6. ~Isotonic!Above(s[b], rest)
        BY <1>8, <3>1, <4>3, <4>5, RateTransitive
      <4>7. ~Isotonic!Above(s[b], joined)
        BY <3>1, <4>3, <4>4, <4>6, PooledRate
      <4> QED
        BY <4>7 DEF joined, start
    <3> QED
      BY <3>2, <3>3
  <2> QED
    BY <2>1, <2>2
<1> QED
  BY <1>10, <1>11, <1>12 DEF RegressionOf, n, E

-----------------------------------------------------------------------------
LEMMA EndIsNext ==
    ASSUME NEW b \in Int, NEW s, blocks' = s, \A c \in 1 .. b : c \in DOMAIN s
    PROVE  Isotonic!EndOf(b)' = EndsOf(s, b)
<1> DEFINE f == [c \in 1 .. b |-> s[c].size]
           g == [c \in DOMAIN s |-> s[c].size]
<1>1. Isotonic!EndOf(b)' = Isotonic!Total(f, MaxKnots)
  BY DEF Isotonic!EndOf, Isotonic!Total
<1>2. DOMAIN f = 1 .. b /\ \A c \in 1 .. b : f[c] = g[c]
  OBVIOUS
<1>3. EndsOf(s, b) = Cardinality(Units(g, 1 .. b, MaxKnots))
  BY DEF EndsOf
<1> HIDE DEF f, g
<1>4. Isotonic!Total(f, MaxKnots) = Cardinality(Units(f, 1 .. b, MaxKnots))
  BY <1>2, TotalIs
<1> QED
  BY <1>1, <1>2, <1>3, <1>4, UnitsAgree

LEMMA FitInvariant ==
    ASSUME FitConstants, Isotonic!IInv
    PROVE  /\ points \in Seq(Isotonic!Point) /\ Len(points) <= MaxKnots
           /\ Len(points) \in Nat /\ taken \in 0 .. Len(points)
           /\ blocks \in Seq(Sized) /\ EndsOf(blocks, Len(blocks)) = taken
           /\ \A b \in 0 .. Len(blocks) : Isotonic!EndOf(b) = EndsOf(blocks, b)
           /\ SumsOf(blocks) /\ RegressionOf(blocks, Len(blocks) - 1)
           /\ \A b \in 1 .. Len(blocks) : blocks[b].hits <= blocks[b].count
<1>1. /\ points \in Seq(Isotonic!Point) /\ Len(points) <= MaxKnots
      /\ taken \in 0 .. Len(points) /\ blocks \in Seq(Sized)
      /\ Isotonic!EndOf(Len(blocks)) = taken
      /\ \A b \in DOMAIN blocks : blocks[b].hits <= blocks[b].count
  BY DEF Isotonic!IInv, Isotonic!TypeOK, Sized
<1>2. Len(points) \in Nat /\ Len(blocks) \in Nat /\ DOMAIN blocks = 1 .. Len(blocks)
  BY <1>1, ElementOf
<1>3. ASSUME NEW b \in 0 .. Len(blocks)
      PROVE  Isotonic!EndOf(b) = EndsOf(blocks, b)
  <2>1. b \in Int /\ \A c \in 1 .. b : c \in DOMAIN blocks
    BY <1>2
  <2> QED
    BY <2>1, EndIs
<1>4. EndsOf(blocks, Len(blocks)) = taken
  BY <1>1, <1>2, <1>3
<1>5. \A b \in 1 .. Len(blocks) : Isotonic!StartOf(b) = EndsOf(blocks, b - 1) + 1
  <2> TAKE b \in 1 .. Len(blocks)
  <2>1. b - 1 \in 0 .. Len(blocks)
    BY <1>2
  <2> QED
    BY <1>3, <2>1 DEF Isotonic!StartOf
<1>6. SumsOf(blocks)
  <2> SUFFICES ASSUME NEW b \in 1 .. Len(blocks)
               PROVE  /\ blocks[b].hits =
                            Isotonic!Sum(EndsOf(blocks, b - 1) + 1, EndsOf(blocks, b)).hits
                      /\ blocks[b].count =
                            Isotonic!Sum(EndsOf(blocks, b - 1) + 1, EndsOf(blocks, b)).count
                      /\ \A k \in EndsOf(blocks, b - 1) + 1 .. EndsOf(blocks, b) :
                            ~Isotonic!Above(blocks[b],
                                            Isotonic!Sum(EndsOf(blocks, b - 1) + 1, k))
    BY DEF SumsOf
  <2>1. Isotonic!StartOf(b) = EndsOf(blocks, b - 1) + 1 /\ b \in DOMAIN blocks
        /\ Isotonic!EndOf(b) = EndsOf(blocks, b)
    BY <1>2, <1>3, <1>5
  <2>2. /\ blocks[b].hits = Isotonic!Sum(Isotonic!StartOf(b), Isotonic!EndOf(b)).hits
        /\ blocks[b].count = Isotonic!Sum(Isotonic!StartOf(b), Isotonic!EndOf(b)).count
        /\ \A k \in Isotonic!StartOf(b) .. Isotonic!EndOf(b) :
              ~Isotonic!Above(blocks[b], Isotonic!Sum(Isotonic!StartOf(b), k))
    BY <2>1 DEF Isotonic!IInv, Isotonic!BlocksAreSums
  <2> QED
    BY <2>1, <2>2
<1>7. RegressionOf(blocks, Len(blocks) - 1)
  <2> DEFINE n == Len(blocks) - 1
  <2> SUFFICES ASSUME NEW b \in 1 .. n
               PROVE  /\ \A c \in b .. n : ~Isotonic!Above(blocks[b], blocks[c])
                      /\ \A j \in 1 .. EndsOf(blocks, b) :
                            ~Isotonic!Above(Isotonic!Sum(j, EndsOf(blocks, b)), blocks[b])
                      /\ \A k \in EndsOf(blocks, b - 1) + 1 .. EndsOf(blocks, n) :
                            ~Isotonic!Above(blocks[b],
                                            Isotonic!Sum(EndsOf(blocks, b - 1) + 1, k))
    BY DEF RegressionOf
  <2>1. b \in 1 .. Len(blocks) /\ b \in 0 .. Len(blocks) /\ n \in 0 .. Len(blocks)
    BY <1>2
  <2>2. /\ Isotonic!StartOf(b) = EndsOf(blocks, b - 1) + 1
        /\ Isotonic!EndOf(b) = EndsOf(blocks, b) /\ Isotonic!EndOf(n) = EndsOf(blocks, n)
    BY <1>3, <1>5, <2>1
  <2>3. /\ \A c \in b .. n : ~Isotonic!Above(blocks[b], blocks[c])
        /\ \A j \in 1 .. Isotonic!EndOf(b) :
              ~Isotonic!Above(Isotonic!Sum(j, Isotonic!EndOf(b)), blocks[b])
        /\ \A k \in Isotonic!StartOf(b) .. Isotonic!EndOf(n) :
              ~Isotonic!Above(blocks[b], Isotonic!Sum(Isotonic!StartOf(b), k))
    BY DEF Isotonic!IInv, Isotonic!RegressionUntil
  <2> QED
    BY <2>2, <2>3
<1> QED
  BY <1>1, <1>2, <1>3, <1>4, <1>6, <1>7

LEMMA FitInvariantNext ==
    ASSUME FitConstants, points' = points, points \in Seq(Isotonic!Point),
           Len(points) <= MaxKnots, taken' \in 0 .. Len(points),
           NEW s \in Seq(Sized), blocks' = s, EndsOf(s, Len(s)) = taken',
           SumsOf(s), RegressionOf(s, Len(s) - 1),
           \A b \in 1 .. Len(s) : s[b].hits <= s[b].count
    PROVE  Isotonic!IInv'
<1>1. Len(points) \in Nat /\ Len(s) \in Nat /\ DOMAIN s = 1 .. Len(s)
  BY ElementOf
<1>2. ASSUME NEW b \in -1 .. Len(s)
      PROVE  Isotonic!EndOf(b)' = EndsOf(s, b)
  <2>1. b \in Int /\ \A c \in 1 .. b : c \in DOMAIN s
    BY <1>1
  <2> QED
    BY <2>1, EndIsNext
<1>3. \A j, k : Isotonic!Sum(j, k)' = Isotonic!Sum(j, k)
  BY DEF Isotonic!Sum, Isotonic!Total
<1>4. \A b \in 1 .. Len(s) : Isotonic!StartOf(b)' = EndsOf(s, b - 1) + 1
                             /\ Isotonic!EndOf(b)' = EndsOf(s, b)
  <2> TAKE b \in 1 .. Len(s)
  <2>1. b - 1 \in -1 .. Len(s) /\ b \in -1 .. Len(s)
    BY <1>1
  <2> QED
    BY <1>2, <2>1 DEF Isotonic!StartOf
<1>5. Isotonic!EndOf(Len(s))' = taken'
  <2>1. Len(s) \in -1 .. Len(s)
    BY <1>1
  <2> QED
    BY <1>2, <2>1
<1>6. Isotonic!TypeOK'
  BY <1>1, <1>5 DEF Isotonic!TypeOK
<1>7. Isotonic!BlocksAreSums'
  <2>1. \A b \in DOMAIN s :
          /\ s[b].hits = Isotonic!Sum(EndsOf(s, b - 1) + 1, EndsOf(s, b)).hits
          /\ s[b].count = Isotonic!Sum(EndsOf(s, b - 1) + 1, EndsOf(s, b)).count
          /\ \A k \in EndsOf(s, b - 1) + 1 .. EndsOf(s, b) :
                ~Isotonic!Above(s[b], Isotonic!Sum(EndsOf(s, b - 1) + 1, k))
    BY <1>1 DEF SumsOf
  <2> QED
    BY <1>1, <1>3, <1>4, <2>1 DEF Isotonic!BlocksAreSums
<1>8. Isotonic!RegressionUntil(Len(blocks) - 1)'
  <2> DEFINE n == Len(s) - 1
  <2>1. n \in -1 .. Len(s) /\ \A b \in 1 .. n : b \in 1 .. Len(s)
    BY <1>1
  <2>2. Isotonic!EndOf(n)' = EndsOf(s, n)
    BY <1>2, <2>1
  <2>3. \A b \in 1 .. n :
          /\ \A c \in b .. n : ~Isotonic!Above(s[b], s[c])
          /\ \A j \in 1 .. EndsOf(s, b) :
                ~Isotonic!Above(Isotonic!Sum(j, EndsOf(s, b)), s[b])
          /\ \A k \in EndsOf(s, b - 1) + 1 .. EndsOf(s, n) :
                ~Isotonic!Above(s[b], Isotonic!Sum(EndsOf(s, b - 1) + 1, k))
    BY DEF RegressionOf
  <2> QED
    BY <1>3, <1>4, <2>1, <2>2, <2>3 DEF Isotonic!RegressionUntil
<1> QED
  BY <1>5, <1>6, <1>7, <1>8 DEF Isotonic!IInv, Sized, Isotonic!Point

LEMMA InitKeepsFit ==
    ASSUME FitConstants, Isotonic!Init
    PROVE  Isotonic!IInv
<1>1. PICK n \in 1 .. MaxKnots : points \in [1 .. n -> Isotonic!Point]
  BY DEF Isotonic!Init
<1>2. n \in Nat /\ n <= MaxKnots
  BY <1>1 DEF FitConstants
<1>3. points \in Seq(Isotonic!Point) /\ Len(points) = n
  BY <1>1, <1>2
<1>4. taken = 0 /\ blocks = <<>> /\ DOMAIN blocks = {} /\ Len(blocks) = 0
      /\ blocks \in Seq([hits : Nat, count : Nat, size : 1 .. MaxKnots])
  BY DEF Isotonic!Init
<1>5. Isotonic!EndOf(0) = 0
  <2>1. blocks \in Seq(Sized)
    BY <1>4 DEF Sized
  <2>2. EndsOf(blocks, 0) = 0
    BY <2>1, EndsAre
  <2>3. Isotonic!EndOf(0) = EndsOf(blocks, 0)
    BY EndIs
  <2> QED
    BY <2>2, <2>3
<1>6. Isotonic!TypeOK
  BY <1>2, <1>3, <1>4 DEF Isotonic!TypeOK
<1>7. Isotonic!BlocksAreSums /\ Isotonic!RegressionUntil(Len(blocks) - 1)
  BY <1>4 DEF Isotonic!BlocksAreSums, Isotonic!RegressionUntil
<1> QED
  BY <1>2, <1>3, <1>4, <1>5, <1>6, <1>7 DEF Isotonic!IInv

LEMMA PushKeepsFit ==
    ASSUME FitConstants, Isotonic!IInv, Isotonic!PushPoint
    PROVE  Isotonic!IInv'
<1> DEFINE p == points[taken + 1]
           n == Len(blocks)
           new == [hits |-> p.hits, count |-> p.count, size |-> 1]
<1>1. /\ ~Isotonic!Violates /\ taken < Len(points) /\ points' = points
      /\ blocks' = Append(blocks, new) /\ taken' = taken + 1
  BY DEF Isotonic!PushPoint
<1>2. /\ points \in Seq(Isotonic!Point) /\ Len(points) <= MaxKnots /\ MaxKnots \in Nat
      /\ Len(points) \in Nat /\ taken \in 0 .. Len(points)
      /\ blocks \in Seq(Sized) /\ EndsOf(blocks, n) = taken
      /\ SumsOf(blocks) /\ RegressionOf(blocks, n - 1)
      /\ \A b \in 1 .. n : blocks[b].hits <= blocks[b].count
  BY FitInvariant DEF FitConstants
<1>3. n \in Nat /\ DOMAIN blocks = 1 .. n /\ (blocks = <<>> <=> n = 0)
  BY <1>2, ElementOf
<1>4. taken + 1 \in 1 .. Len(points)
  BY <1>1, <1>2
<1>5. /\ p.hits \in Nat /\ p.count \in Nat \ {0} /\ p.hits <= p.count
      /\ Isotonic!Sum(taken + 1, taken + 1).hits = p.hits
      /\ Isotonic!Sum(taken + 1, taken + 1).count = p.count
  BY <1>2, <1>4, PointsAre, SumOfOne
<1> HIDE DEF p
<1>6. new \in Sized /\ new.hits = p.hits /\ new.count = p.count /\ new.size = 1
  <2>1. 1 \in 1 .. MaxKnots
    BY <1>2, <1>4
  <2> QED
    BY <1>5, <2>1 DEF Sized
<1> HIDE DEF new
<1>7. PICK s : s = Append(blocks, new)
  OBVIOUS
<1>8. /\ s \in Seq(Sized) /\ Len(s) = n + 1 /\ s[n + 1] = new /\ DOMAIN s = 1 .. n + 1
      /\ \A b \in 1 .. n : s[b] = blocks[b]
  <2>1. blocks \in Seq(Sized) /\ new \in Sized
    BY <1>2, <1>6
  <2> QED
    BY <1>7, <2>1
<1>9. \A b \in 0 .. n : EndsOf(s, b) = EndsOf(blocks, b)
  <2> TAKE b \in 0 .. n
  <2>1. \A c \in 1 .. b : c \in DOMAIN s /\ c \in DOMAIN blocks /\ s[c].size = blocks[c].size
    <3>1. \A c \in 1 .. b : c \in 1 .. n /\ c \in 1 .. n + 1
      BY <1>3
    <3> QED
      BY <1>3, <1>8, <3>1
  <2> QED
    BY <2>1, EndsAgree
<1>10. EndsOf(s, n) = taken /\ EndsOf(s, n + 1) = taken + 1
  <2>1. n \in 0 .. n /\ n + 1 \in 1 .. Len(s) /\ (n + 1) - 1 = n
    BY <1>3, <1>8
  <2>2. EndsOf(s, n + 1) = EndsOf(s, n) + s[n + 1].size
    BY <1>8, <2>1, EndsAre
  <2> QED
    BY <1>2, <1>6, <1>8, <1>9, <2>1, <2>2
<1>11. SumsOf(s)
  <2> SUFFICES ASSUME NEW b \in 1 .. n + 1
               PROVE  /\ s[b].hits = Isotonic!Sum(EndsOf(s, b - 1) + 1, EndsOf(s, b)).hits
                      /\ s[b].count = Isotonic!Sum(EndsOf(s, b - 1) + 1, EndsOf(s, b)).count
                      /\ \A k \in EndsOf(s, b - 1) + 1 .. EndsOf(s, b) :
                            ~Isotonic!Above(s[b], Isotonic!Sum(EndsOf(s, b - 1) + 1, k))
    BY <1>8 DEF SumsOf
  <2>1. CASE b \in 1 .. n
    <3>1. b - 1 \in 0 .. n /\ b \in 0 .. n
      BY <1>3, <2>1
    <3>2. EndsOf(s, b - 1) = EndsOf(blocks, b - 1) /\ EndsOf(s, b) = EndsOf(blocks, b)
          /\ s[b] = blocks[b]
      BY <1>8, <1>9, <2>1, <3>1
    <3> QED
      BY <1>2, <2>1, <3>2 DEF SumsOf
  <2>2. CASE b = n + 1
    <3>1. EndsOf(s, b - 1) = taken /\ EndsOf(s, b) = taken + 1 /\ s[b] = new
      <4>1. b - 1 = n
        BY <1>3, <2>2
      <4> QED
        BY <1>8, <1>10, <2>2, <4>1
    <3>2. \A k \in taken + 1 .. taken + 1 : k = taken + 1
      BY <1>2
    <3>3. Rate(new)
      BY <1>5, <1>6 DEF Rate
    <3>4. ~Isotonic!Above(new, Isotonic!Sum(taken + 1, taken + 1))
      BY <1>5, <1>6, <3>3, SameRate, RateSame
    <3> QED
      BY <1>5, <1>6, <3>1, <3>2, <3>4
  <2> QED
    BY <1>3, <2>1, <2>2
<1>12. RegressionOf(s, n)
  <2>1. RegressionOf(blocks, n)
    <3>1. CASE n = 0
      BY <3>1 DEF RegressionOf
    <3>2. CASE n # 0
      <4>1. blocks # <<>> /\ EndsOf(blocks, n) <= Len(points)
        BY <1>2, <1>3, <3>2
      <4>2. n > 1 => ~Isotonic!Above(blocks[n - 1], blocks[n])
        BY <1>1 DEF Isotonic!Violates
      <4> QED
        BY <1>2, <4>1, <4>2, RegressionGrows
    <3> QED
      BY <3>1, <3>2
  <2> SUFFICES ASSUME NEW b \in 1 .. n
               PROVE  /\ \A c \in b .. n : ~Isotonic!Above(s[b], s[c])
                      /\ \A j \in 1 .. EndsOf(s, b) :
                            ~Isotonic!Above(Isotonic!Sum(j, EndsOf(s, b)), s[b])
                      /\ \A k \in EndsOf(s, b - 1) + 1 .. EndsOf(s, n) :
                            ~Isotonic!Above(s[b], Isotonic!Sum(EndsOf(s, b - 1) + 1, k))
    BY DEF RegressionOf
  <2>2. b - 1 \in 0 .. n /\ b \in 0 .. n /\ n \in 0 .. n /\ \A c \in b .. n : c \in 1 .. n
    BY <1>3
  <2>3. /\ EndsOf(s, b - 1) = EndsOf(blocks, b - 1) /\ EndsOf(s, b) = EndsOf(blocks, b)
        /\ EndsOf(s, n) = EndsOf(blocks, n) /\ s[b] = blocks[b]
        /\ \A c \in b .. n : s[c] = blocks[c]
    BY <1>8, <1>9, <2>2
  <2>4. /\ \A c \in b .. n : ~Isotonic!Above(blocks[b], blocks[c])
        /\ \A j \in 1 .. EndsOf(blocks, b) :
              ~Isotonic!Above(Isotonic!Sum(j, EndsOf(blocks, b)), blocks[b])
        /\ \A k \in EndsOf(blocks, b - 1) + 1 .. EndsOf(blocks, n) :
              ~Isotonic!Above(blocks[b], Isotonic!Sum(EndsOf(blocks, b - 1) + 1, k))
    BY <2>1 DEF RegressionOf
  <2> QED
    BY <2>3, <2>4
<1>13. \A b \in 1 .. Len(s) : s[b].hits <= s[b].count
  <2> TAKE b \in 1 .. Len(s)
  <2>1. b \in 1 .. n \/ b = n + 1
    BY <1>3, <1>8
  <2> QED
    BY <1>2, <1>5, <1>6, <1>8, <2>1
<1>14. /\ taken' \in 0 .. Len(points) /\ EndsOf(s, Len(s)) = taken' /\ blocks' = s
       /\ Len(s) - 1 = n
  <2>1. taken + 1 \in 0 .. Len(points) /\ (n + 1) - 1 = n
    BY <1>3, <1>4
  <2> QED
    BY <1>1, <1>7, <1>8, <1>10, <2>1
<1> QED
  BY <1>1, <1>2, <1>8, <1>11, <1>12, <1>13, <1>14, FitInvariantNext

(* Two neighbours of which the first is above the second are one block: no *)
(* run from its start is below its value.                                  *)
LEMMA PoolingFits ==
    ASSUME FitConstants, points \in Seq(Isotonic!Point), NEW s \in Seq(Sized),
           EndsOf(s, Len(s)) <= Len(points), SumsOf(s),
           NEW n \in 2 .. Len(s), Isotonic!Above(s[n - 1], s[n]),
           NEW r, Pooled(r, s[n - 1], s[n])
    PROVE  LET start == EndsOf(s, n - 2) + 1
               end   == EndsOf(s, n)
           IN  /\ Rate(r) /\ start <= end
               /\ r.hits = Isotonic!Sum(start, end).hits /\ r.count = Isotonic!Sum(start, end).count
               /\ \A k \in start .. end : ~Isotonic!Above(r, Isotonic!Sum(start, k))
<1> DEFINE start == EndsOf(s, n - 2) + 1
           mid == EndsOf(s, n - 1)
           end == EndsOf(s, n)
           a == s[n - 1]
           b == s[n]
<1>1. /\ Len(s) \in Nat /\ n \in Int /\ n \in 1 .. Len(s) /\ n - 1 \in 1 .. Len(s)
      /\ (n - 1) - 1 = n - 2 /\ Len(points) \in Nat
  BY ElementOf
<1>2. /\ start \in Nat /\ mid \in Nat /\ end \in Nat /\ 1 <= start /\ start <= mid
      /\ mid + 1 <= end /\ end <= Len(points) /\ Rate(a) /\ Rate(b)
  <2>1. /\ EndsOf(s, (n - 1) - 1) \in Nat /\ EndsOf(s, n - 1) \in Nat
        /\ EndsOf(s, (n - 1) - 1) + 1 <= EndsOf(s, n - 1) /\ Rate(s[n - 1])
    BY <1>1, RatesAre
  <2>2. /\ EndsOf(s, n) \in Nat /\ EndsOf(s, n - 1) + 1 <= EndsOf(s, n)
        /\ EndsOf(s, n) <= Len(points) /\ Rate(s[n])
    BY <1>1, RatesAre
  <2> QED
    BY <1>1, <2>1, <2>2
<1>3. /\ a.hits = Isotonic!Sum(start, mid).hits /\ a.count = Isotonic!Sum(start, mid).count
      /\ \A k \in start .. mid : ~Isotonic!Above(a, Isotonic!Sum(start, k))
  <2>1. /\ a.hits = Isotonic!Sum(EndsOf(s, (n - 1) - 1) + 1, EndsOf(s, n - 1)).hits
        /\ a.count = Isotonic!Sum(EndsOf(s, (n - 1) - 1) + 1, EndsOf(s, n - 1)).count
        /\ \A k \in EndsOf(s, (n - 1) - 1) + 1 .. EndsOf(s, n - 1) :
              ~Isotonic!Above(a, Isotonic!Sum(EndsOf(s, (n - 1) - 1) + 1, k))
    BY <1>1 DEF SumsOf
  <2> QED
    BY <1>1, <2>1
<1>4. /\ b.hits = Isotonic!Sum(mid + 1, end).hits /\ b.count = Isotonic!Sum(mid + 1, end).count
      /\ \A k \in mid + 1 .. end : ~Isotonic!Above(b, Isotonic!Sum(mid + 1, k))
  BY <1>1 DEF SumsOf
<1>5. \A j \in mid + 1 .. end : ~Isotonic!Above(Isotonic!Sum(j, end), b)
  BY <1>1, PartsOfABlock
<1>6. Isotonic!Above(a, b) /\ Pooled(r, a, b)
  OBVIOUS
<1> SUFFICES /\ Rate(r) /\ start <= end
             /\ r.hits = Isotonic!Sum(start, end).hits /\ r.count = Isotonic!Sum(start, end).count
             /\ \A k \in start .. end : ~Isotonic!Above(r, Isotonic!Sum(start, k))
  OBVIOUS
<1> HIDE DEF start, mid, end, a, b
<1>7. /\ Rate(r) /\ ~Isotonic!Above(r, a) /\ ~Isotonic!Above(b, r)
  BY <1>2, <1>6, PooledRate
<1>8. /\ start \in Int /\ mid \in Int /\ end \in Int /\ start <= end /\ mid < end
      /\ mid \in start .. mid
  BY <1>2
<1>9. r.hits = Isotonic!Sum(start, end).hits /\ r.count = Isotonic!Sum(start, end).count
  <2>1. Pooled(Isotonic!Sum(start, end), Isotonic!Sum(start, mid), Isotonic!Sum(mid + 1, end))
    BY <1>2, <1>8, RunIsPooled
  <2> QED
    BY <1>3, <1>4, <1>6, <2>1 DEF Pooled
<1>10. ASSUME NEW k \in start .. end
       PROVE  ~Isotonic!Above(r, Isotonic!Sum(start, k))
  <2>1. k \in Int /\ start <= k /\ k <= end /\ k <= Len(points)
    BY <1>1, <1>2
  <2>2. Rate(Isotonic!Sum(start, k))
    BY <1>2, <1>8, <2>1, SumHasCount DEF Rate
  <2>3. CASE k <= mid
    <3>1. ~Isotonic!Above(a, Isotonic!Sum(start, k))
      BY <1>3, <1>8, <2>1, <2>3
    <3> QED
      BY <1>2, <1>7, <2>2, <3>1, RateTransitive
  <2>4. CASE ~(k <= mid) /\ k # end
    <3>1. k < end /\ k + 1 \in mid + 1 .. end
      BY <1>8, <2>1, <2>4
    <3> DEFINE head == Isotonic!Sum(start, k)
               rest == Isotonic!Sum(k + 1, end)
    <3>2. Rate(head) /\ Rate(rest) /\ Pooled(Isotonic!Sum(start, end), head, rest)
      BY <1>2, <1>8, <2>1, <3>1, RunIsPooled
    <3>3. ~Isotonic!Above(rest, b)
      BY <1>5, <3>1
    <3> HIDE DEF head, rest
    <3>4. ~Isotonic!Above(rest, r)
      BY <1>2, <1>7, <3>2, <3>3, RateTransitive
    <3>5. Pooled(r, head, rest)
      BY <1>9, <3>2 DEF Pooled
    <3>6. ~Isotonic!Above(r, head)
      BY <3>2, <3>4, <3>5, PooledRate
    <3> QED
      BY <3>6 DEF head
  <2>5. CASE k = end
    BY <1>7, <1>9, <2>5, SameRate, RateSame
  <2> QED
    BY <2>3, <2>4, <2>5
<1> QED
  BY <1>7, <1>8, <1>9, <1>10

LEMMA PoolKeepsFit ==
    ASSUME FitConstants, Isotonic!IInv, Isotonic!PoolLastTwo
    PROVE  Isotonic!IInv'
<1> DEFINE n == Len(blocks)
           a == blocks[n - 1]
           b == blocks[n]
           new == [hits |-> a.hits + b.hits, count |-> a.count + b.count,
                   size |-> a.size + b.size]
           start == EndsOf(blocks, n - 2) + 1
           end == EndsOf(blocks, n)
<1>1. /\ n > 1 /\ Isotonic!Above(a, b) /\ points' = points /\ taken' = taken
      /\ blocks' = Append(SubSeq(blocks, 1, n - 2), new)
  BY DEF Isotonic!PoolLastTwo, Isotonic!Violates
<1>2. /\ points \in Seq(Isotonic!Point) /\ Len(points) <= MaxKnots /\ MaxKnots \in Nat
      /\ Len(points) \in Nat /\ taken \in 0 .. Len(points)
      /\ blocks \in Seq(Sized) /\ EndsOf(blocks, n) = taken
      /\ SumsOf(blocks) /\ RegressionOf(blocks, n - 1)
      /\ \A c \in 1 .. n : blocks[c].hits <= blocks[c].count
  BY FitInvariant DEF FitConstants
<1>3. /\ n \in Nat /\ DOMAIN blocks = 1 .. n /\ n \in 2 .. n /\ n - 1 \in 1 .. n
      /\ n \in 1 .. n /\ n - 2 \in 0 .. n /\ n - 2 \in Nat /\ (n - 1) - 1 = n - 2
  <2>1. n \in Nat /\ DOMAIN blocks = 1 .. n
    BY <1>2, ElementOf
  <2> QED
    BY <1>1, <2>1
<1>4. end <= Len(points)
  BY <1>2
<1>5. a \in Sized /\ b \in Sized
  BY <1>2, <1>3, ElementOf
<1>6. /\ a.hits \in Nat /\ b.hits \in Nat /\ a.count \in Nat /\ b.count \in Nat
      /\ a.size \in Nat \ {0} /\ b.size \in Nat \ {0}
      /\ a.hits <= a.count /\ b.hits <= b.count
  <2>1. a.hits <= a.count /\ b.hits <= b.count
    BY <1>2, <1>3
  <2> HIDE DEF a, b
  <2>2. /\ a.hits \in Nat /\ b.hits \in Nat /\ a.count \in Nat /\ b.count \in Nat
        /\ a.size \in 1 .. MaxKnots /\ b.size \in 1 .. MaxKnots
    BY <1>5 DEF Sized
  <2> QED
    BY <1>2, <2>1, <2>2
<1>7. /\ end = EndsOf(blocks, n - 2) + (a.size + b.size)
      /\ EndsOf(blocks, n - 2) \in Nat
  <2>1. /\ EndsOf(blocks, n) = EndsOf(blocks, n - 1) + b.size
        /\ EndsOf(blocks, n - 1) = EndsOf(blocks, (n - 1) - 1) + a.size
        /\ EndsOf(blocks, n - 2) \in Nat
    BY <1>2, <1>3, EndsAre
  <2> QED
    BY <1>3, <1>6, <2>1
<1>8. new \in Sized /\ new.hits = a.hits + b.hits /\ new.count = a.count + b.count
      /\ new.size = a.size + b.size /\ new.hits <= new.count
  <2>1. a.size + b.size \in 1 .. MaxKnots
    <3>1. EndsOf(blocks, n - 2) + (a.size + b.size) <= MaxKnots
      <4>1. end = taken /\ taken \in Nat /\ taken <= MaxKnots
        BY <1>2
      <4> QED
        BY <1>7, <4>1
    <3> DEFINE e == EndsOf(blocks, n - 2)
               x == a.size
               y == b.size
    <3>2. e \in Nat /\ x \in Nat \ {0} /\ y \in Nat \ {0} /\ e + (x + y) <= MaxKnots
      BY <1>6, <1>7, <3>1
    <3> HIDE DEF e, x, y
    <3>3. x + y \in 1 .. MaxKnots
      BY <1>2, <3>2
    <3> QED
      BY <3>3 DEF x, y
  <2>2. /\ new.hits = a.hits + b.hits /\ new.count = a.count + b.count
        /\ new.size = a.size + b.size
    OBVIOUS
  <2>3. a.hits + b.hits \in Nat /\ a.count + b.count \in Nat
        /\ a.hits + b.hits <= a.count + b.count
    <3> DEFINE h == a.hits
               g == b.hits
               c == a.count
               d == b.count
    <3>1. h \in Nat /\ g \in Nat /\ c \in Nat /\ d \in Nat /\ h <= c /\ g <= d
      BY <1>6
    <3> HIDE DEF h, g, c, d
    <3>2. h + g \in Nat /\ c + d \in Nat /\ h + g <= c + d
      BY <3>1
    <3> QED
      BY <3>2 DEF h, g, c, d
  <2>4. new \in Sized
    BY <2>1, <2>3 DEF Sized
  <2> QED
    BY <2>2, <2>3, <2>4
<1> HIDE DEF new
<1>9. /\ new.hits = Isotonic!Sum(start, end).hits /\ new.count = Isotonic!Sum(start, end).count
      /\ \A k \in start .. end : ~Isotonic!Above(new, Isotonic!Sum(start, k))
  <2>1. Pooled(new, a, b)
    BY <1>8 DEF Pooled
  <2> QED
    BY <1>1, <1>2, <1>3, <1>4, <2>1, PoolingFits
<1> HIDE DEF a, b
<1>10. PICK s : s = Append(SubSeq(blocks, 1, n - 2), new)
  OBVIOUS
<1>11. /\ s \in Seq(Sized) /\ Len(s) = n - 1 /\ s[n - 1] = new /\ DOMAIN s = 1 .. n - 1
       /\ \A c \in 1 .. n - 2 : s[c] = blocks[c]
  <2> DEFINE left == SubSeq(blocks, 1, n - 2)
  <2>1. /\ left \in Seq(Sized) /\ Len(left) = n - 2
        /\ \A c \in 1 .. n - 2 : left[c] = blocks[c]
    <3>1. n - 2 <= Len(blocks)
      BY <1>3
    <3> QED
      BY <1>2, <1>3, <3>1
  <2> HIDE DEF left
  <2>2. s = Append(left, new) /\ new \in Sized /\ (n - 2) + 1 = n - 1
    BY <1>3, <1>8, <1>10 DEF left
  <2>3. Len(s) = n - 1 /\ s \in Seq(Sized) /\ s[(n - 2) + 1] = new
        /\ \A c \in 1 .. n - 2 : s[c] = left[c]
    <3> DEFINE m == n - 2
    <3>1. left \in Seq(Sized) /\ Len(left) = m /\ m \in Nat /\ new \in Sized
          /\ s = Append(left, new)
      BY <1>3, <2>1, <2>2
    <3> HIDE DEF m
    <3>2. Len(s) = m + 1 /\ s \in Seq(Sized) /\ s[m + 1] = new
          /\ \A c \in 1 .. m : s[c] = left[c]
      BY <3>1
    <3> QED
      BY <2>2, <3>2 DEF m
  <2>4. DOMAIN s = 1 .. n - 1
    BY <2>3, ElementOf
  <2> QED
    BY <2>1, <2>2, <2>3, <2>4
<1>12. \A c \in 0 .. n - 2 : EndsOf(s, c) = EndsOf(blocks, c)
  <2> TAKE c \in 0 .. n - 2
  <2>1. \A d \in 1 .. c : d \in DOMAIN s /\ d \in DOMAIN blocks /\ s[d].size = blocks[d].size
    <3>1. \A d \in 1 .. c : d \in 1 .. n - 2 /\ d \in 1 .. n - 1 /\ d \in 1 .. n
      BY <1>3
    <3> QED
      BY <1>3, <1>11, <3>1
  <2> QED
    BY <2>1, EndsAgree
<1>13. EndsOf(s, n - 2) = EndsOf(blocks, n - 2) /\ EndsOf(s, n - 1) = end
  <2>1. n - 2 \in 0 .. n - 2 /\ n - 1 \in 1 .. Len(s)
    BY <1>1, <1>3, <1>11
  <2>2. EndsOf(s, n - 1) = EndsOf(s, (n - 1) - 1) + s[n - 1].size
    BY <1>11, <2>1, EndsAre
  <2> QED
    BY <1>3, <1>7, <1>8, <1>11, <1>12, <2>1, <2>2
<1> HIDE DEF start, end
<1>14. SumsOf(s)
  <2> SUFFICES ASSUME NEW c \in 1 .. n - 1
               PROVE  /\ s[c].hits = Isotonic!Sum(EndsOf(s, c - 1) + 1, EndsOf(s, c)).hits
                      /\ s[c].count = Isotonic!Sum(EndsOf(s, c - 1) + 1, EndsOf(s, c)).count
                      /\ \A k \in EndsOf(s, c - 1) + 1 .. EndsOf(s, c) :
                            ~Isotonic!Above(s[c], Isotonic!Sum(EndsOf(s, c - 1) + 1, k))
    BY <1>11 DEF SumsOf
  <2>1. CASE c \in 1 .. n - 2
    <3>1. c - 1 \in 0 .. n - 2 /\ c \in 0 .. n - 2 /\ c \in 1 .. n
      BY <1>3, <2>1
    <3>2. EndsOf(s, c - 1) = EndsOf(blocks, c - 1) /\ EndsOf(s, c) = EndsOf(blocks, c)
          /\ s[c] = blocks[c]
      BY <1>11, <1>12, <2>1, <3>1
    <3> QED
      BY <1>2, <3>1, <3>2 DEF SumsOf
  <2>2. CASE c = n - 1
    <3>1. EndsOf(s, c - 1) + 1 = start /\ EndsOf(s, c) = end /\ s[c] = new
      <4>1. c - 1 = n - 2
        BY <1>3, <2>2
      <4> QED
        BY <1>11, <1>13, <2>2, <4>1 DEF start
    <3> QED
      BY <1>9, <3>1
  <2>3. c \in 1 .. n - 2 \/ c = n - 1
    <3> HIDE DEF n
    <3> QED
      BY <1>3
  <2> QED
    BY <2>1, <2>2, <2>3
<1>15. RegressionOf(s, n - 2)
  <2> SUFFICES ASSUME NEW c \in 1 .. n - 2
               PROVE  /\ \A d \in c .. n - 2 : ~Isotonic!Above(s[c], s[d])
                      /\ \A j \in 1 .. EndsOf(s, c) :
                            ~Isotonic!Above(Isotonic!Sum(j, EndsOf(s, c)), s[c])
                      /\ \A k \in EndsOf(s, c - 1) + 1 .. EndsOf(s, n - 2) :
                            ~Isotonic!Above(s[c], Isotonic!Sum(EndsOf(s, c - 1) + 1, k))
    BY DEF RegressionOf
  <2>1. /\ c - 1 \in 0 .. n - 2 /\ c \in 0 .. n - 2 /\ n - 2 \in 0 .. n - 2
        /\ c \in 1 .. n - 1 /\ c - 1 \in 0 .. n
        /\ \A d \in c .. n - 2 : d \in 1 .. n - 2 /\ d \in c .. n - 1
    BY <1>3
  <2>2. /\ EndsOf(s, c - 1) = EndsOf(blocks, c - 1) /\ EndsOf(s, c) = EndsOf(blocks, c)
        /\ EndsOf(s, n - 2) = EndsOf(blocks, n - 2) /\ s[c] = blocks[c]
        /\ \A d \in c .. n - 2 : s[d] = blocks[d]
    BY <1>11, <1>12, <2>1
  <2>3. /\ \A d \in c .. n - 1 : ~Isotonic!Above(blocks[c], blocks[d])
        /\ \A j \in 1 .. EndsOf(blocks, c) :
              ~Isotonic!Above(Isotonic!Sum(j, EndsOf(blocks, c)), blocks[c])
        /\ \A k \in EndsOf(blocks, c - 1) + 1 .. EndsOf(blocks, n - 1) :
              ~Isotonic!Above(blocks[c], Isotonic!Sum(EndsOf(blocks, c - 1) + 1, k))
    BY <1>2, <2>1 DEF RegressionOf
  <2>4. /\ EndsOf(blocks, n - 2) <= EndsOf(blocks, n - 1) /\ EndsOf(blocks, n - 2) \in Nat
        /\ EndsOf(blocks, n - 1) \in Nat /\ EndsOf(blocks, c - 1) \in Nat
    <3>1. n - 2 \in 0 .. n /\ n - 1 \in 0 .. n /\ n - 2 <= n - 1
      BY <1>3
    <3> QED
      BY <1>2, <2>1, <3>1, EndsAre
  <2>5. \A k \in EndsOf(blocks, c - 1) + 1 .. EndsOf(blocks, n - 2) :
           k \in EndsOf(blocks, c - 1) + 1 .. EndsOf(blocks, n - 1)
    BY <2>4
  <2> QED
    BY <2>1, <2>2, <2>3, <2>5
<1>16. \A c \in 1 .. Len(s) : s[c].hits <= s[c].count
  <2> TAKE c \in 1 .. Len(s)
  <2>1. (c \in 1 .. n - 2 /\ c \in 1 .. n) \/ c = n - 1
    <3>1. c \in 1 .. n - 1
      BY <1>11
    <3> HIDE DEF n
    <3> QED
      BY <1>3, <3>1
  <2> QED
    BY <1>2, <1>8, <1>11, <2>1
<1>17. /\ taken' \in 0 .. Len(points) /\ EndsOf(s, Len(s)) = taken' /\ blocks' = s
       /\ Len(s) - 1 = n - 2
  <2>1. (n - 1) - 1 = n - 2
    BY <1>3
  <2> QED
    BY <1>1, <1>2, <1>10, <1>11, <1>13, <2>1 DEF end
<1>18. RegressionOf(s, Len(s) - 1)
  BY <1>15, <1>17
<1>19. /\ points' = points /\ points \in Seq(Isotonic!Point) /\ Len(points) <= MaxKnots
       /\ s \in Seq(Sized)
  BY <1>1, <1>2, <1>11
<1> HIDE DEF n
<1> QED
  BY <1>14, <1>16, <1>17, <1>18, <1>19, FitInvariantNext

LEMMA UnchangedKeepsFit ==
    ASSUME FitConstants, Isotonic!IInv, UNCHANGED Isotonic!vars
    PROVE  Isotonic!IInv'
<1>1. points' = points /\ taken' = taken /\ blocks' = blocks
  BY DEF Isotonic!vars
<1>2. PICK s : s = blocks
  OBVIOUS
<1>3. /\ points' = points /\ points \in Seq(Isotonic!Point) /\ Len(points) <= MaxKnots
      /\ taken' \in 0 .. Len(points) /\ s \in Seq(Sized) /\ blocks' = s
      /\ EndsOf(s, Len(s)) = taken' /\ SumsOf(s) /\ RegressionOf(s, Len(s) - 1)
      /\ \A b \in 1 .. Len(s) : s[b].hits <= s[b].count
  BY <1>1, <1>2, FitInvariant
<1> QED
  BY <1>3, FitInvariantNext

LEMMA NextKeepsFit ==
    ASSUME FitConstants, Isotonic!IInv, [Isotonic!Next]_(Isotonic!vars)
    PROVE  Isotonic!IInv'
BY PushKeepsFit, PoolKeepsFit, UnchangedKeepsFit DEF Isotonic!Next

(* The block of a point, as values.extend lays them out.                   *)
LEMMA BlockIs ==
    ASSUME FitConstants, Isotonic!IInv, taken = Len(points), NEW i \in 1 .. Len(points)
    PROVE  /\ Isotonic!BlockOf(i) \in 1 .. Len(blocks)
           /\ i \in EndsOf(blocks, Isotonic!BlockOf(i) - 1) + 1
                    .. EndsOf(blocks, Isotonic!BlockOf(i))
<1> DEFINE n == Len(blocks)
           behind == {b \in DOMAIN blocks : i <= Isotonic!EndOf(b)}
           b == Isotonic!BlockOf(i)
<1>1. /\ Len(points) \in Nat /\ blocks \in Seq(Sized) /\ EndsOf(blocks, n) = Len(points)
      /\ \A c \in 0 .. n : Isotonic!EndOf(c) = EndsOf(blocks, c)
      /\ n \in Nat /\ DOMAIN blocks = 1 .. n
  BY FitInvariant, ElementOf
<1>2. n \in behind
  <2>1. EndsOf(blocks, 0) = 0
    BY <1>1, EndsAre
  <2>2. n # 0 /\ i <= EndsOf(blocks, n)
    BY <1>1, <2>1
  <2> QED
    BY <1>1, <2>2
<1>3. behind \in SUBSET (0 .. n)
  BY <1>1
<1>4. b = CHOOSE x \in behind : \A y \in behind : x <= y
  BY DEF Isotonic!BlockOf, Isotonic!Min
<1>5. b \in behind /\ \A y \in behind : b <= y
  <2>1. \E x \in behind : \A y \in behind : x <= y
    <3> HIDE DEF behind
    <3> QED
      BY <1>1, <1>2, <1>3, LeastNumber
  <2> HIDE DEF behind, b
  <2> QED
    BY <1>4, <2>1
<1> HIDE DEF b
<1>6. b \in 1 .. n /\ i <= EndsOf(blocks, b)
  BY <1>1, <1>5
<1>7. /\ b - 1 \in 0 .. n /\ EndsOf(blocks, b - 1) \in Nat /\ EndsOf(blocks, b) \in Nat
  BY <1>1, <1>6, EndsAre
<1>8. EndsOf(blocks, b - 1) < i
  <2>1. CASE b = 1
    <3>1. EndsOf(blocks, b - 1) = 0
      BY <1>1, <2>1, EndsAre
    <3> QED
      BY <3>1
  <2>2. CASE b # 1
    <3>1. b - 1 \in DOMAIN blocks /\ ~(b <= b - 1)
      BY <1>1, <1>6, <2>2
    <3>2. b - 1 \notin behind
      BY <1>5, <3>1
    <3>3. ~(i <= EndsOf(blocks, b - 1))
      BY <1>1, <1>7, <3>1, <3>2
    <3> QED
      BY <1>7, <3>3
  <2> QED
    BY <2>1, <2>2
<1> QED
  BY <1>6, <1>7, <1>8 DEF b

LEMMA FitIsTheRegression ==
    ASSUME FitConstants, Isotonic!IInv
    PROVE  Isotonic!TypeOK /\ Isotonic!IsTheRegression
<1>1. Isotonic!TypeOK
  BY DEF Isotonic!IInv
<1>2. /\ points \in Seq(Isotonic!Point) /\ Len(points) \in Nat /\ DOMAIN points = 1 .. Len(points)
      /\ blocks \in Seq(Sized) /\ EndsOf(blocks, Len(blocks)) = taken /\ SumsOf(blocks)
      /\ RegressionOf(blocks, Len(blocks) - 1) /\ Len(blocks) \in Nat
  BY FitInvariant, ElementOf
<1>3. ASSUME taken = Len(points), ~Isotonic!Violates, NEW i \in 1 .. Len(points)
      PROVE  LET v == blocks[Isotonic!BlockOf(i)]
             IN  /\ \A j \in 1 .. i : \E k \in i .. Len(points) :
                        ~Isotonic!Above(Isotonic!Sum(j, k), v)
                 /\ \E j \in 1 .. i : \A k \in i .. Len(points) :
                        ~Isotonic!Above(v, Isotonic!Sum(j, k))
  <2> DEFINE b == Isotonic!BlockOf(i)
             start == EndsOf(blocks, b - 1) + 1
             end == EndsOf(blocks, b)
  <2>1. b \in 1 .. Len(blocks) /\ i \in start .. end
    BY <1>3, BlockIs
  <2>2. EndsOf(blocks, Len(blocks)) <= Len(points) /\ blocks # <<>>
    BY <1>2, <1>3, <2>1
  <2>3. RegressionOf(blocks, Len(blocks))
    <3>1. Len(blocks) > 1 => ~Isotonic!Above(blocks[Len(blocks) - 1], blocks[Len(blocks)])
      BY <1>3 DEF Isotonic!Violates
    <3> QED
      BY <1>2, <2>2, <3>1, RegressionGrows
  <2> HIDE DEF b
  <2>4. /\ \A j \in 1 .. end : ~Isotonic!Above(Isotonic!Sum(j, end), blocks[b])
        /\ \A k \in start .. EndsOf(blocks, Len(blocks)) :
              ~Isotonic!Above(blocks[b], Isotonic!Sum(start, k))
    BY <2>1, <2>3 DEF RegressionOf
  <2>5. start \in Nat /\ 1 <= start /\ end \in Nat /\ end <= Len(points)
    BY <1>2, <2>1, <2>2, RatesAre
  <2>6. EndsOf(blocks, Len(blocks)) = Len(points)
    BY <1>2, <1>3
  <2> HIDE DEF start, end
  <2>7. /\ end \in i .. Len(points) /\ \A j \in 1 .. i : j \in 1 .. end
        /\ start \in 1 .. i /\ \A k \in i .. Len(points) : k \in start .. Len(points)
    BY <1>2, <2>1, <2>5
  <2>8. /\ \A j \in 1 .. i : \E k \in i .. Len(points) :
               ~Isotonic!Above(Isotonic!Sum(j, k), blocks[b])
        /\ \E j \in 1 .. i : \A k \in i .. Len(points) :
               ~Isotonic!Above(blocks[b], Isotonic!Sum(j, k))
    BY <2>4, <2>6, <2>7
  <2> QED
    BY <2>8 DEF b
<1>4. Isotonic!IsTheRegression
  BY <1>2, <1>3 DEF Isotonic!IsTheRegression
<1> QED
  BY <1>1, <1>4

(* For every sample: what fit_isotonic returns is the isotonic regression. *)
THEOREM FitHolds ==
    ASSUME FitConstants
    PROVE  Isotonic!Spec => [](Isotonic!TypeOK /\ Isotonic!IsTheRegression)
<1>1. Isotonic!Init => Isotonic!IInv
  BY InitKeepsFit
<1>2. Isotonic!IInv /\ [Isotonic!Next]_(Isotonic!vars) => Isotonic!IInv'
  BY NextKeepsFit
<1>3. Isotonic!IInv => Isotonic!TypeOK /\ Isotonic!IsTheRegression
  BY FitIsTheRegression
<1> QED
  BY <1>1, <1>2, <1>3, PTL DEF Isotonic!Spec
=============================================================================
