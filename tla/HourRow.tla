------------------------------ MODULE HourRow ------------------------------
(***************************************************************************)
(* One row of prediction_logs with what hangs on its id, written by        *)
(* several runs of the same symbol and hour: the upsert merges the columns *)
(* a run names, the forecasts of the shadow models and the votes of the    *)
(* council are upserts of their own, one row per model and persona.        *)
(* Nothing of an earlier run is deleted.  Beside the runs, the watch reads *)
(* the level that refutes the thesis; after the hour the row is settled    *)
(* and the Slow Loop pairs the forecasts.                                  *)
(*                                                                         *)
(* Of the optional columns only invalidation_price is followed: the others *)
(* are named or left out of the record in the same way.  A second round    *)
(* of votes is one more set of personas.                                   *)
(***************************************************************************)
EXTENDS Naturals

CONSTANTS Last,         \* runs of the hour
          MaxAlarms,    \* bound on the announcements of one row
          Prices,       \* quotes a run may see
          Levels,       \* levels the LLM may answer with
          Challengers, Personas,
          Champion, None

Trends == {"BULLISH", "BEARISH", "SIDEWAYS"}
Models == Challengers \cup {Champion}

VARIABLES n,         \* runs started so far, the last of them being in `node`
          node,      \* where it is
          answer,    \* what it will save, of AgentState
          row,       \* the row of the hour; `by` is the run that wrote it last
          shadow,    \* shadow_predictions: the run whose forecast a model's row holds
          votes,     \* council_votes: the run whose vote a persona's row holds
          scan,      \* the thesis the watch has read
          alarms,    \* theses announced as refuted
          lost,      \* history: the stamp of an announced one was not written
          whole      \* history: every write of the run that wrote the row went through

runVars == <<n, node, answer>>
hourVars == <<row, shadow, votes>>
watchVars == <<scan, alarms, lost>>
vars == <<runVars, hourVars, watchVars, whole>>

Nodes == {"idle", "save", "shadow", "votes", "settled"}

Init ==
    /\ n = 0 /\ node = "idle" /\ answer = None
    /\ row = None
    /\ shadow = [m \in Models |-> 0]
    /\ votes = [p \in Personas |-> 0]
    /\ scan = None /\ alarms = 0 /\ lost = FALSE
    /\ whole = TRUE

-----------------------------------------------------------------------------
(* On the right side of the price and at most INVALIDATION_BAND away.      *)
is_valid_invalidation(trend, current_price, level) ==
    /\ level # current_price
    /\ 100 * level <= 115 * current_price /\ 100 * level >= 85 * current_price
    /\ trend = "BULLISH" => level < current_price
    /\ trend = "BEARISH" => level > current_price

is_thesis_invalidated(entry_price, level, price) ==
    IF level < entry_price THEN price <= level ELSE price >= level

_parse_invalidation(trend, price, raw) ==
    IF raw # None /\ is_valid_invalidation(trend, price, raw) THEN raw ELSE None

(* Predict and council: the LLM's level may be missing or wrong, the       *)
(* champion is left out at a cold start, a challenger or a persona that    *)
(* fails is dropped.                                                       *)
Analyse ==
    /\ node = "idle" /\ n < Last
    /\ n' = n + 1
    /\ \E trend \in Trends, price \in Prices, raw \in Levels \cup {None},
          forecasts \in SUBSET Models, opinions \in SUBSET Personas :
          answer' = [trend |-> trend, price |-> price,
                    invalidation |-> _parse_invalidation(trend, price, raw),
                    shadow_forecasts |-> forecasts, opinions |-> opinions]
    /\ node' = "save"
    /\ UNCHANGED <<hourVars, watchVars, whole>>

(* A record without the key leaves the column as it is.                    *)
MergedLevel ==
    IF row = None \/ answer.invalidation # None THEN answer.invalidation ELSE row.level

NewRow ==                                           \* mutant: the row is replaced, not merged
    [by |-> n, trend |-> answer.trend, price |-> answer.price, level |-> MergedLevel,
     alerted |-> FALSE]
Merged ==
    [by |-> n, trend |-> answer.trend, price |-> answer.price, level |-> MergedLevel,
     alerted |-> row # None /\ row.alerted]

save_prediction ==
    /\ node = "save"
    /\ row' = Merged
    /\ whole' = TRUE
    /\ node' = "shadow"
    /\ UNCHANGED <<n, answer, shadow, votes, watchVars>>

FirstForecastStays ==                    \* mutant: ON CONFLICT DO NOTHING
    [m \in Models |-> IF m \in answer.shadow_forecasts /\ shadow[m] = 0 THEN n ELSE shadow[m]]
save_shadow_predictions ==
    [m \in Models |-> IF m \in answer.shadow_forecasts THEN n ELSE shadow[m]]

_persist_shadow_predictions ==
    /\ node = "shadow"
    /\ \/ shadow' = save_shadow_predictions /\ UNCHANGED whole
       \/ answer.shadow_forecasts # {} /\ whole' = FALSE /\ UNCHANGED shadow
    /\ node' = "votes"
    /\ UNCHANGED <<n, answer, row, votes, watchVars>>

save_council_votes ==
    /\ node = "votes"
    /\ \/ votes' = [p \in Personas |-> IF p \in answer.opinions THEN n ELSE votes[p]]
          /\ UNCHANGED whole
       \/ answer.opinions # {} /\ whole' = FALSE /\ UNCHANGED votes
    /\ node' = "idle"
    /\ UNCHANGED <<n, answer, row, shadow, watchVars>>

(* The write of the prediction fails, or the process is lost.              *)
Cut ==
    /\ node \in {"save", "shadow", "votes"}
    /\ whole' = (whole /\ node = "save")
    /\ node' = "idle"
    /\ UNCHANGED <<n, answer, hourVars, watchVars>>

-----------------------------------------------------------------------------
OpenOfAnyLevel ==                              \* mutant: without the filter on the level
    /\ scan = None
    /\ row # None /\ ~row.alerted /\ node # "settled"
    /\ alarms < MaxAlarms
    /\ scan' = [trend |-> row.trend, price |-> row.price, level |-> row.level]
    /\ UNCHANGED <<runVars, hourVars, alarms, lost, whole>>

get_open_invalidations ==
    /\ scan = None
    /\ row # None /\ row.level # None /\ ~row.alerted /\ node # "settled"
    /\ alarms < MaxAlarms
    /\ scan' = [trend |-> row.trend, price |-> row.price, level |-> row.level]
    /\ UNCHANGED <<runVars, hourVars, alarms, lost, whole>>

(* The watch outside the queue: push, then stamp the row by its id; a push *)
(* that fails, a stamp that fails, or a price that holds.                  *)
scan_invalidations ==
    /\ scan # None
    /\ \/ UNCHANGED <<row, alarms, lost>>
       \/ /\ \E price \in Prices \cup Levels : is_thesis_invalidated(scan.price, scan.level, price)
          /\ alarms' = alarms + 1
          /\ \/ row' = [row EXCEPT !.alerted = TRUE] /\ UNCHANGED lost
             \/ lost' = TRUE /\ UNCHANGED row
    /\ scan' = None
    /\ UNCHANGED <<runVars, shadow, votes, whole>>

(* Twelve hours later, long after the runs of the hour.                    *)
Settle ==
    /\ node = "idle"
    /\ node' = "settled"
    /\ UNCHANGED <<n, answer, hourVars, watchVars, whole>>

(* The Slow Loop reads the forecasts every week of its window, and changes *)
(* nothing.                                                                *)
ReviewChallengers ==
    /\ node = "settled"
    /\ UNCHANGED vars

Next ==
    \/ Analyse \/ save_prediction \/ _persist_shadow_predictions \/ save_council_votes
    \/ Cut \/ Settle \/ ReviewChallengers
    \/ get_open_invalidations \/ scan_invalidations

Spec == Init /\ [][Next]_vars

-----------------------------------------------------------------------------
Answers == [trend : Trends, price : Prices, invalidation : Levels \cup {None},
            shadow_forecasts : SUBSET Models, opinions : SUBSET Personas]
Theses == [trend : Trends, price : Prices, level : Levels]
Rows(k) == [by : 1 .. k, trend : Trends, price : Prices, level : Levels \cup {None},
            alerted : BOOLEAN]

TypeOK ==
    /\ n \in 0 .. Last
    /\ node \in Nodes
    /\ answer \in Answers \cup {None}
    /\ row \in Rows(n) \cup {None}
    /\ shadow \in [Models -> 0 .. n]
    /\ votes \in [Personas -> 0 .. n]
    /\ scan \in Theses \cup {None} /\ alarms \in 0 .. MaxAlarms /\ lost \in BOOLEAN
    /\ whole \in BOOLEAN

(* NIEZ-14, ML-33: what the last run answered is what the row and its      *)
(* children hold once the run is over, unless one of its writes failed: a  *)
(* re-run replaces forecasts, votes and level instead of keeping the       *)
(* older ones.                                                             *)
AnswersReplaceOlder ==
    node = "idle" /\ row # None /\ row.by = n /\ whole
       => /\ row.trend = answer.trend /\ row.price = answer.price
          /\ answer.invalidation # None => row.level = answer.invalidation
          /\ \A m \in answer.shadow_forecasts : shadow[m] = n
          /\ \A p \in answer.opinions : votes[p] = n

(* ML-27: one alarm per row, also when a run writes the row again before,  *)
(* between or after the read of the watch and its stamp, unless a stamp    *)
(* was lost.                                                               *)
OneAlarmPerRow == alarms <= 1 \/ lost

(* What the comment of the column invalidation_price says: the level       *)
(* refutes the thesis of this very row, and the column is NULL where no    *)
(* valid level came (supabase/migrations/074_invalidation_price.sql).      *)
LevelOfThisThesis ==
    row # None /\ row.level # None => is_valid_invalidation(row.trend, row.price, row.level)

(* The inductive invariant.  While a run writes, the row is older than it  *)
(* or its own, and what it has written so far is in place; an announced    *)
(* row is stamped, and a thesis is only read of one that was not.          *)
Written ==
    /\ node = "save" /\ row # None => row.by < n
    /\ node \in {"shadow", "votes"} => row # None /\ row.by = n
    /\ row # None => answer # None
    /\ node \in {"save", "shadow", "votes"} => answer # None /\ n > 0
    /\ row # None /\ row.by = n =>
          /\ row.trend = answer.trend /\ row.price = answer.price
          /\ answer.invalidation # None => row.level = answer.invalidation
    /\ node \in {"votes", "idle"} /\ row # None /\ row.by = n /\ whole =>
          \A m \in answer.shadow_forecasts : shadow[m] = n

ToldOnce ==
    /\ scan # None => row # None /\ alarms < MaxAlarms
    /\ lost \/ alarms = 0 \/ (alarms = 1 /\ scan = None /\ row # None /\ row.alerted)

IInv == TypeOK /\ Written /\ ToldOnce /\ AnswersReplaceOlder
=============================================================================
