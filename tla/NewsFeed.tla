------------------------------ MODULE NewsFeed ------------------------------
(***************************************************************************)
(* The Alpha Vantage news client of a cycle, fetching per symbol           *)
(* (lazy_per_symbol): threads of the pool ask for the feed of a symbol,    *)
(* one lock per symbol makes one of them fetch it, and a list of API keys  *)
(* with daily limits is used up from the front.  The index of the active   *)
(* key is read without a lock and moved under _rotation_lock.              *)
(*                                                                         *)
(* The pacing of the requests, the news window and the parsing of articles *)
(* are not modelled; nor is the mode that fetches all symbols in batches.  *)
(***************************************************************************)
EXTENDS Integers, FiniteSets

CONSTANTS Threads, Tickers, NKeys, None

VARIABLES active_key,    \* _active_key_idx, from 1
          key_failures,  \* _key_failures: keys recorded as limited
          reported,      \* number of CRITICAL alerts of _mark_keys_exhausted
          feeds,         \* _symbol_feeds: what is cached of each ticker
          lock,          \* holder of each ticker's lock
          worker,        \* where each thread is
          limited,       \* history: keys that answered with a limit
          answered       \* history: answers that ended a fetch, per ticker

shared == <<active_key, key_failures, reported, feeds>>
history == <<limited, answered>>
feedVars == <<shared, lock, worker, history>>

Keys == 1 .. NKeys
Feeds == {"articles", "unexpected", "fetch_error", "keys_exhausted"}
Workers == [node : {"idle", "lock", "key", "request", "rotate", "mark"},
            ticker : Tickers \cup {None}, key : Keys \cup {None}]

Idle == [node |-> "idle", ticker |-> None, key |-> None]

Go(t, node) == worker' = [worker EXCEPT ![t].node = node]
Return(t) == worker' = [worker EXCEPT ![t] = Idle]

Init ==
    /\ active_key = 1
    /\ key_failures = {}
    /\ reported = 0
    /\ feeds = [s \in Tickers |-> None]
    /\ lock = [s \in Tickers |-> None]
    /\ worker = [t \in Threads |-> Idle]
    /\ limited = {}
    /\ answered = [s \in Tickers |-> 0]

-----------------------------------------------------------------------------
(* sentiment_for, articles_for: a cached feed is returned without a lock.  *)
Ask(t, s) ==
    /\ worker[t] = Idle
    /\ feeds[s] = None
    /\ worker' = [worker EXCEPT ![t] = [node |-> "lock", ticker |-> s, key |-> None]]
    /\ UNCHANGED <<shared, lock, history>>

(* Under the ticker's lock the cache is looked at again.                   *)
Lock(t) ==
    LET s == worker[t].ticker
    IN  /\ worker[t].node = "lock"
        /\ lock[s] = None
        /\ \/ /\ feeds[s] # None
              /\ Return(t)
              /\ UNCHANGED lock
           \/ /\ feeds[s] = None
              /\ lock' = [lock EXCEPT ![s] = t]
              /\ Go(t, "key")
        /\ UNCHANGED <<shared, history>>

(* The loop of _fetch_batch_with_rotation reads the active key.            *)
ReadKey(t) ==
    /\ worker[t].node = "key"
    /\ worker' = [worker EXCEPT
          ![t].node = IF active_key <= NKeys THEN "request" ELSE "mark",
          ![t].key = IF active_key <= NKeys THEN active_key ELSE None]
    /\ UNCHANGED <<shared, lock, history>>

(* The feed is cached and the lock released; an error is cached too, so    *)
(* that no later symbol fetches again, and raised to the caller.           *)
Cache(t, feed) ==
    LET s == worker[t].ticker
    IN  /\ feeds' = [feeds EXCEPT ![s] = feed]
        /\ lock' = [lock EXCEPT ![s] = None]
        /\ Return(t)

Answer(t, feed) ==
    /\ worker[t].node = "request"
    /\ Cache(t, feed)
    /\ answered' = [answered EXCEPT ![worker[t].ticker] = @ + 1]
    /\ UNCHANGED <<active_key, key_failures, reported, limited>>

(* HTTP 429, or a limit text in the JSON: the key has had its day.         *)
Limit(t) ==
    /\ worker[t].node = "request"
    /\ limited' = limited \cup {worker[t].key}
    /\ Go(t, "rotate")
    /\ UNCHANGED <<shared, lock, answered>>

RotateAlways(t) == \* mutant: the index moves whoever moved it before
    /\ worker[t].node = "rotate"
    /\ active_key' = active_key + 1
    /\ key_failures' = key_failures \cup {worker[t].key}
    /\ Go(t, "key")
    /\ UNCHANGED <<reported, feeds, lock, history>>

(* _rotate_past: the index moves only past the key that failed.            *)
RotatePast(t) ==
    /\ worker[t].node = "rotate"
    /\ IF active_key = worker[t].key
       THEN /\ active_key' = active_key + 1
            /\ key_failures' = key_failures \cup {worker[t].key}
       ELSE UNCHANGED <<active_key, key_failures>>
    /\ Go(t, "key")
    /\ UNCHANGED <<reported, feeds, lock, history>>

(* _mark_keys_exhausted: one alert, and the ticker has no news today.      *)
MarkExhausted(t) ==
    /\ worker[t].node = "mark"
    /\ reported' = IF reported = 0 THEN 1 ELSE reported
    /\ Cache(t, "keys_exhausted")
    /\ UNCHANGED <<active_key, key_failures, history>>

Done ==
    /\ \A s \in Tickers : feeds[s] # None
    /\ \A t \in Threads : worker[t] = Idle
    /\ UNCHANGED feedVars

Next ==
    \/ \E t \in Threads :
          \/ \E s \in Tickers : Ask(t, s)
          \/ Lock(t) \/ ReadKey(t)
          \/ \E feed \in {"articles", "unexpected", "fetch_error"} : Answer(t, feed)
          \/ Limit(t) \/ RotatePast(t) \/ MarkExhausted(t)
    \/ Done

Spec == Init /\ [][Next]_feedVars

-----------------------------------------------------------------------------
(* The variables hold what the code's values stand for.                    *)
TypeOK ==
    /\ active_key \in 1 .. NKeys + 1
    /\ key_failures \subseteq Keys /\ limited \subseteq Keys
    /\ reported \in 0 .. 1
    /\ feeds \in [Tickers -> Feeds \cup {None}]
    /\ lock \in [Tickers -> Threads \cup {None}]
    /\ worker \in [Threads -> Workers]
    /\ answered \in [Tickers -> Nat]

(* No key is wasted: the index passes a key only after that key answered   *)
(* with a limit, whichever threads ran into it, and the recorded failures  *)
(* say so; the feed of a symbol is given up, with one alert, only when     *)
(* every key of the list is used up; and a symbol costs one answered       *)
(* request a cycle, however many threads ask for it and whether the answer *)
(* was news, nonsense or an error.                                         *)
NoKeyWasted ==
    /\ key_failures = 1 .. active_key - 1
    /\ key_failures \subseteq limited
    /\ \A s \in Tickers : feeds[s] = "keys_exhausted" => limited = Keys /\ reported = 1
    /\ \A s \in Tickers : answered[s] <= 1
=============================================================================
