--------------------------- MODULE ReferenceSignal ---------------------------
(***************************************************************************)
(* The free momentum rule reference-v1 for one symbol: each run of the     *)
(* Slow Loop reads both lists, settles the calls that are due with the     *)
(* price of the run, and stores its read with a new call or without one.   *)
(* Any write may fail, which ends the run for the symbol; a run may be     *)
(* started again on the same day or left out for weeks.                    *)
(***************************************************************************)
EXTENDS Integers, Sequences, FiniteSetsExt

CONSTANTS None,
          BaselineMinAge, BaselineMaxAge,  \* ages, in the unit of `today`
          ReadPrices,
          LastRun,                         \* bound: the last day of a run
          MaxReads                         \* bound: stored reads

(* 0 < BaselineMinAge <= BaselineMaxAge, natural numbers.                  *)

VARIABLES today,
          reads,     \* the table reference_predictions, in order of read_at
          running    \* None, or the price, the open calls read, those not done yet

vars == <<today, reads, running>>

Trends == {"BULLISH", "BEARISH"}
Judged == {"HIT", "MISS"}

Read == [read_at : 0 .. LastRun, price : ReadPrices,
         predicted_trend : Trends \cup {None},
         outcome : Judged \cup {"EXPIRED", None},
         settled_at : 0 .. LastRun \cup {None}]

Init == today = 0 /\ reads = <<>> /\ running = None

-----------------------------------------------------------------------------
WeekApart(earlier, later) ==
    BaselineMinAge <= later - earlier /\ later - earlier <= BaselineMaxAge

Calls == {i \in DOMAIN reads : reads[i].predicted_trend # None}

get_open_reference_calls == {i \in Calls : reads[i].outcome = None}

(* The newest read about a week old, or none.                              *)
select_baseline ==
    LET candidates == {i \in DOMAIN reads : WeekApart(reads[i].read_at, today)}
    IN  IF candidates = {} THEN None ELSE Max(candidates)

may_call(open) ==
    \A i \in open : today - reads[i].read_at >= BaselineMinAge

(* The sign of the change since the baseline; no baseline or no change is  *)
(* no call.                                                                *)
momentum_call(baseline, price) ==
    CASE baseline = None -> None
      [] baseline # None /\ price > reads[baseline].price -> "BULLISH"
      [] baseline # None /\ price < reads[baseline].price -> "BEARISH"
      [] OTHER -> None

is_trend_correct(call, price) ==
    IF call.predicted_trend = "BULLISH" THEN price > call.price
                                        ELSE price < call.price

settle_call(call, price) ==
    CASE today - call.read_at < BaselineMinAge -> "PENDING"
      [] today - call.read_at > BaselineMaxAge -> "EXPIRED"
      [] OTHER -> IF is_trend_correct(call, price) THEN "HIT" ELSE "MISS"

(* The call of a run: held back while another one is not a week old.       *)
NewCall(open, price) ==
    IF may_call(open) THEN momentum_call(select_baseline, price) ELSE None

-----------------------------------------------------------------------------
(* Both lists are read before the first write; a read of them, or of the   *)
(* price, that fails ends the run before it changed anything.              *)
Start(price) ==
    /\ running = None /\ Len(reads) < MaxReads
    /\ running' = [price |-> price, open |-> get_open_reference_calls,
                   todo |-> get_open_reference_calls]
    /\ UNCHANGED <<today, reads>>

(* The open calls in the order of their time.                              *)
SettleNext ==
    /\ running # None /\ running.todo # {}
    /\ LET i == Min(running.todo)
           outcome == settle_call(reads[i], running.price)
       IN  /\ reads' = IF outcome = "PENDING" THEN reads
                       ELSE [reads EXCEPT ![i].outcome = outcome,
                                          ![i].settled_at = today]
           /\ running' = [running EXCEPT !.todo = @ \ {i}]
    /\ UNCHANGED today

SaveRead ==
    /\ running # None /\ running.todo = {}
    /\ reads' = Append(reads,
           [read_at |-> today, price |-> running.price,
            predicted_trend |-> NewCall(running.open, running.price),
            outcome |-> None, settled_at |-> None])
    /\ running' = None
    /\ UNCHANGED today

(* A call that raises, with its write done or not: the loop goes on with   *)
(* the next symbol.                                                        *)
SymbolFails ==
    /\ running # None
    /\ running' = None
    /\ UNCHANGED <<today, reads>>

(* A run takes minutes.                                                    *)
NextDay ==
    /\ running = None /\ today < LastRun
    /\ today' = today + 1
    /\ UNCHANGED <<reads, running>>

Next ==
    \/ \E price \in ReadPrices : Start(price)
    \/ SettleNext
    \/ SaveRead
    \/ SymbolFails
    \/ NextDay
    \/ /\ today = LastRun   \* the bound
       /\ running = None
       /\ UNCHANGED vars

Spec == Init /\ [][Next]_vars

-----------------------------------------------------------------------------
TypeOK ==
    /\ today \in 0 .. LastRun
    /\ reads \in Seq(Read) /\ Len(reads) <= MaxReads
    /\ running # None =>
          /\ running.price \in ReadPrices
          /\ running.todo \subseteq running.open /\ running.open \subseteq Calls

(* The sample holds no near duplicates: two calls of a symbol are at least *)
(* the minimum age apart, however often a run is repeated and whatever     *)
(* settlement of the earlier one was lost.                                 *)
CallsAWeekApart ==
    \A i, j \in Calls :
        i < j => reads[j].read_at - reads[i].read_at >= BaselineMinAge

(* Protocol, rule 6: no stored read that could judge a call passes it by;  *)
(* a call is judged by the first one, within its window, and expires only  *)
(* when there was none.                                                    *)
JudgedByFirstRead ==
    \A i \in Calls :
        /\ reads[i].outcome \in Judged =>
              WeekApart(reads[i].read_at, reads[i].settled_at)
        /\ \A j \in DOMAIN reads :
              WeekApart(reads[i].read_at, reads[j].read_at) =>
                  /\ reads[i].outcome \in Judged
                  /\ reads[i].settled_at <= reads[j].read_at

(* The inductive invariant.  A call that was settled is old enough, and    *)
(* one that expired is too old for a judgement; what a run has read is what*)
(* is open, and what it has looked at and left open is too young.          *)
SettledOK(i) ==
    /\ reads[i].outcome # None => today - reads[i].read_at >= BaselineMinAge
    /\ reads[i].outcome = "EXPIRED" => today - reads[i].read_at > BaselineMaxAge
    /\ reads[i].outcome \in Judged =>
          /\ reads[i].settled_at \in 0 .. today
          /\ WeekApart(reads[i].read_at, reads[i].settled_at)

JudgedInTime(i, j) ==
    WeekApart(reads[i].read_at, reads[j].read_at) =>
        reads[i].outcome \in Judged /\ reads[i].settled_at <= reads[j].read_at

RunOK ==
    running # None =>
        /\ running \in [price : ReadPrices, open : SUBSET Calls, todo : SUBSET Calls]
        /\ \A i \in running.todo : reads[i].outcome = None
        /\ \A i \in Calls \ running.todo :
              reads[i].outcome = None => today - reads[i].read_at < BaselineMinAge
        /\ running.todo \subseteq running.open
        /\ \A i \in Calls : reads[i].outcome = None => i \in running.open
        /\ Len(reads) < MaxReads

IInv ==
    /\ today \in 0 .. LastRun
    /\ reads \in Seq(Read) /\ Len(reads) <= MaxReads
    /\ \A i, j \in DOMAIN reads : i < j => reads[i].read_at <= reads[j].read_at
    /\ \A i \in DOMAIN reads : reads[i].read_at <= today
    /\ \A i \in Calls : SettledOK(i)
    /\ \A i \in Calls : \A j \in DOMAIN reads : JudgedInTime(i, j)
    /\ CallsAWeekApart
    /\ RunOK
=============================================================================
