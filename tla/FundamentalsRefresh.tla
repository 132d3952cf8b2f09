------------------------ MODULE FundamentalsRefresh ------------------------
(***************************************************************************)
(* The weekly refresh of fundamentals in the Slow Loop: a batch of the     *)
(* companies without an entry and with the oldest ones, as many as the     *)
(* free requests of a day allow (_refresh_fundamentals_cache,              *)
(* domain/fundamentals_refresh.py), each through CachedFundamentalsAdapter *)
(* and the Alpha Vantage adapter of the run.                               *)
(*   entries   fundamentals_cache, oldest first                            *)
(*   n_fresh   how many of them, the newest, are younger than the TTL      *)
(*   quota     requests the keys have left today                           *)
(*   batch     what the run still has to ask for, or None                  *)
(*   keys_gone the adapter has given up for the run                        *)
(* aged, first_run, waiting and overtaken are history: for each company    *)
(* the others saved since its turn came last, and who was saved twice.     *)
(***************************************************************************)
EXTENDS Integers, Sequences, FiniteSets, SequencesExt

CONSTANTS None,
          NCompanies,                \* companies 1, 2, ... in alphabetical order
          DailyRequests, NApiKeys    \* AV_DAILY_REQUESTS_PER_KEY, keys

VARIABLES entries, n_fresh, quota, batch, keys_gone, aged, first_run, waiting, overtaken

vars == <<entries, n_fresh, quota, batch, keys_gone, aged, first_run, waiting, overtaken>>

Companies == 1..NCompanies
FullQuota == DailyRequests * NApiKeys

refresh_budget == FullQuota \div 2                       \* two requests each

Known == ToSet(entries)

(* The companies without an entry, in alphabetical order: the one sequence *)
(* of this set.                                                            *)
Missing ==
    LET without == Companies \ Known
    IN  {order \in [1 .. Cardinality(without) -> without] :
            /\ ToSet(order) = without
            /\ \A i, j \in DOMAIN order : i < j => order[i] < order[j]}

First(order) ==
    SubSeq(order, 1, IF refresh_budget < Len(order) THEN refresh_budget ELSE Len(order))

(* select_refresh_batch: without an entry first, then the oldest.          *)
Batch(missing) == First(missing \o entries)

(* The ages cannot be read: every company counts as missing.               *)
BatchWithoutAges == First([i \in Companies |-> i])

Init ==
    /\ entries = <<>> /\ n_fresh = 0
    /\ quota = FullQuota
    /\ batch = None /\ keys_gone = FALSE
    /\ aged = TRUE /\ first_run = FALSE
    /\ waiting = [c \in Companies |-> {}] /\ overtaken = {}

(* The day of the next run: entries grow old, oldest first; the requests   *)
(* are there again, less what other programs have used.                    *)
NewDay ==
    /\ batch = None
    /\ n_fresh' \in 0..n_fresh
    /\ quota' \in {FullQuota - 1, FullQuota}
    /\ UNCHANGED <<entries, batch, keys_gone, aged, first_run, waiting, overtaken>>

Start(chosen, ages_read) ==
    /\ batch = None
    /\ batch' = chosen
    /\ keys_gone' = FALSE
    /\ aged' = ages_read
    /\ first_run' = (quota = FullQuota)
    /\ waiting' = IF ages_read THEN waiting ELSE [c \in Companies |-> {}]
    /\ overtaken' = {}
    /\ UNCHANGED <<entries, n_fresh, quota>>

StartRun == \E missing \in Missing : Start(Batch(missing), TRUE)
StartWithoutAges == Start(BatchWithoutAges, FALSE)

company == Head(batch)
Asking == batch /= None /\ batch /= <<>>
Fresh == {entries[i] : i \in (Len(entries) - n_fresh + 1)..Len(entries)}
Others ==
    IF company \in Known THEN RemoveAt(entries, CHOOSE i \in 1 .. Len(entries) : entries[i] = company)
    ELSE entries
TurnCame == [waiting EXCEPT ![company] = {}]

(* A young entry is returned and nothing is asked.                         *)
Cached ==
    /\ Asking /\ company \in Fresh
    /\ batch' = Tail(batch)
    /\ waiting' = TurnCame
    /\ UNCHANGED <<entries, n_fresh, quota, keys_gone, aged, first_run, overtaken>>

(* OVERVIEW and EARNINGS, then save_fundamentals.                          *)
Refresh ==
    /\ Asking /\ company \notin Fresh /\ ~keys_gone /\ quota >= 2
    /\ entries' = Append(Others, company)
    /\ n_fresh' = n_fresh + 1
    /\ quota' = quota - 2
    /\ batch' = Tail(batch)
    /\ waiting' = [c \in Companies |->
                     IF c = company THEN {} ELSE waiting[c] \cup {company}]
    /\ overtaken' = {c \in Companies : company \in TurnCame[c]}
    /\ UNCHANGED <<keys_gone, aged, first_run>>

(* No data, an error of the provider after one request or two, or a save   *)
(* that fails: the entry stays as it is.                                   *)
NoEntry ==
    /\ Asking /\ company \notin Fresh /\ ~keys_gone
    /\ \E used \in 1..2 : quota >= used /\ quota' = quota - used
    /\ batch' = Tail(batch)
    /\ waiting' = TurnCame
    /\ UNCHANGED <<entries, n_fresh, keys_gone, aged, first_run, overtaken>>

(* Every key answers with a limit, of the day or of the minute, or is      *)
(* rejected; what is left of the batch is not asked.                       *)
KeysUnavailable ==
    /\ Asking /\ company \notin Fresh /\ ~keys_gone
    /\ keys_gone' = TRUE
    /\ quota' = IF quota < 2 THEN 0 ELSE quota
    /\ batch' = Tail(batch)
    /\ UNCHANGED <<entries, n_fresh, aged, first_run, waiting, overtaken>>

NotAsked ==
    /\ Asking /\ company \notin Fresh /\ keys_gone
    /\ batch' = Tail(batch)
    /\ UNCHANGED <<entries, n_fresh, quota, keys_gone, aged, first_run, waiting, overtaken>>

(* The end of the refresh, also of a run that is killed.                   *)
End ==
    /\ batch /= None /\ batch' = None
    /\ aged' = TRUE /\ keys_gone' = FALSE /\ first_run' = FALSE
    /\ waiting' = IF aged THEN waiting ELSE [c \in Companies |-> {}]
    /\ overtaken' = {}
    /\ UNCHANGED <<entries, n_fresh, quota>>

Next ==
    \/ NewDay \/ StartRun \/ StartWithoutAges
    \/ Cached \/ Refresh \/ NoEntry \/ KeysUnavailable \/ NotAsked \/ End

Spec == Init /\ [][Next]_vars

-----------------------------------------------------------------------------
(* Properties. *)

(* One entry per company, no batch over the budget, no request too many.   *)
TypeOK ==
    /\ IsInjective(entries) /\ Known \subseteq Companies
    /\ n_fresh \in 0..Len(entries)
    /\ quota \in 0..FullQuota
    /\ batch \in Seq(Companies) \cup {None}
    /\ waiting \in [Companies -> SUBSET Companies]

(* While the ages can be read no company is refreshed twice between two    *)
(* turns of another one.  The batch fits the requests of a day: with none  *)
(* of them used before, the keys do not run out under the run.             *)
InTurn ==
    /\ aged => overtaken = {}
    /\ first_run /\ keys_gone => quota >= 2

(* The inductive invariant.  The companies that were saved since the turn  *)
(* of another one stand after it, in the cache and, while the run asks, in *)
(* the batch; the requests of the day pay for what is left of the batch.   *)
Before(c, d, order) == \E i, j \in 1 .. Len(order) : i < j /\ order[i] = c /\ order[j] = d

WaitingOK ==
    \A c, d \in Companies :
        d \in waiting[c] => c # d /\ d \in Known /\ (c \in Known => Before(c, d, entries))

BatchOK ==
    IF batch = None THEN aged /\ ~keys_gone /\ ~first_run
    ELSE /\ batch \in Seq(Companies) /\ IsInjective(batch)
         /\ aged /\ ~keys_gone =>
               \A c, d \in Companies : d \in waiting[c] /\ d \in ToSet(batch) => Before(c, d, batch)
         /\ first_run => quota >= 2 * Len(batch) /\ (keys_gone => quota >= 2)

IInv ==
    /\ entries \in Seq(Companies) /\ IsInjective(entries)
    /\ n_fresh \in 0 .. Len(entries) /\ quota \in 0 .. FullQuota
    /\ waiting \in [Companies -> SUBSET Companies]
    /\ {aged, first_run, keys_gone} \subseteq BOOLEAN
    /\ aged => overtaken = {}
    /\ WaitingOK /\ BatchOK
=============================================================================
