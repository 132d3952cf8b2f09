----------------------------- MODULE PriceAlarms -----------------------------
(***************************************************************************)
(* The other two scans of the hourly watch: the price levels a user asked  *)
(* to be told of (scan_price_levels), and the prices that refute an open   *)
(* prediction (scan_invalidations).  Both push first and mark the row      *)
(* afterwards.  A level is hit when it lies between the last recorded      *)
(* reading and the current one; a thesis is refuted by the price alone.    *)
(*                                                                         *)
(* One symbol, whose levels in the two directions are at the same price,   *)
(* which is also the invalidation level of its prediction.                 *)
(***************************************************************************)
EXTENDS Integers, FiniteSets

CONSTANTS PriceRange,
          Level,
          MaxAlarms,   \* bound: alarms pushed for one row
          None

VARIABLES quote,     \* the symbol's price
          levels,    \* price_level_alerts: the rows of the two directions
          thesis,    \* the open prediction with an invalidation level, or None
          pushed,    \* history: alarms sent, per row
          unmarked,  \* history: of these, the ones whose mark was lost
          missed,    \* history: rows with a hit seen and not delivered since
          watch      \* the run in progress

alarmHistory == <<pushed, unmarked, missed>>
alarmVars == <<quote, levels, thesis, alarmHistory, watch>>

LevelDirections == {"ABOVE", "BELOW"}
Rows == LevelDirections \cup {"thesis"}
LevelRows == [active : BOOLEAN, last_seen_price : PriceRange \cup {None}]
Theses == [entry : PriceRange, alerted : BOOLEAN]
Quiet == [node |-> "idle", todo |-> {}, read |-> {}, price |-> None, entry |-> None]

crossed(previous, current, direction) ==
    IF direction = "ABOVE" THEN previous < Level /\ Level <= current
                           ELSE previous > Level /\ Level >= current

is_hit(row, current, direction) ==
    row.last_seen_price # None /\ crossed(row.last_seen_price, current, direction)

is_thesis_invalidated(entry, price) ==
    IF Level < entry THEN price <= Level ELSE price >= Level

Init ==
    /\ quote \in PriceRange
    /\ levels = [d \in LevelDirections |-> None]
    /\ thesis = None
    /\ pushed = [r \in Rows |-> 0]
    /\ unmarked = [r \in Rows |-> 0]
    /\ missed = {}
    /\ watch = Quiet

Move(p) ==
    /\ p # quote
    /\ quote' = p
    /\ UNCHANGED <<levels, thesis, alarmHistory, watch>>

(* The Fast Loop saves a prediction, and settles it, also under a watch    *)
(* that has read it.  A prediction saved after that read is not in the     *)
(* watch's list: it is taken to be saved after the watch.                  *)
Predict ==
    /\ thesis = None
    /\ watch.entry = None
    /\ quote # Level
    /\ thesis' = [entry |-> quote, alerted |-> FALSE]
    /\ pushed' = [pushed EXCEPT !["thesis"] = 0]
    /\ unmarked' = [unmarked EXCEPT !["thesis"] = 0]
    /\ missed' = missed \ {"thesis"}
    /\ UNCHANGED <<quote, levels, watch>>

Settle ==
    /\ thesis # None
    /\ thesis' = None
    /\ UNCHANGED <<quote, levels, alarmHistory, watch>>

-----------------------------------------------------------------------------
(* add_price_levels: the list of the configuration adds what is missing;   *)
(* a row that exists, switched off or not, stays as it is.                 *)
NewLevel == [active |-> TRUE, last_seen_price |-> None]

Seeded == [d \in LevelDirections |-> IF levels[d] = None THEN NewLevel ELSE levels[d]]

(* The rows and the price of the symbol are read before the loop; if one   *)
(* of the two cannot be read there is nothing to do.                       *)
StartLevels ==
    /\ watch = Quiet
    /\ levels' = Seeded
    /\ \E rows \in {{}, {d \in LevelDirections : Seeded[d].active}} :
          watch' = [node |-> "levels", todo |-> rows, read |-> {},
                    price |-> quote, entry |-> None]
    /\ UNCHANGED <<quote, thesis, alarmHistory>>

(* The levels cannot be added, or there are no more rows: on to the        *)
(* theses, with a quote of their own.                                      *)
StartTheses ==
    /\ \/ watch = Quiet
       \/ watch.node = "levels" /\ watch.todo = {}
    /\ watch' = IF thesis # None /\ ~ thesis.alerted
                THEN [node |-> "theses", read |-> {}, price |-> quote,
                      entry |-> thesis.entry, todo |-> {"thesis"}]
                ELSE [node |-> "theses", read |-> {}, price |-> quote,
                      entry |-> None, todo |-> {}]
    /\ UNCHANGED <<quote, levels, thesis, alarmHistory>>

Finish ==
    /\ watch.node = "theses" /\ watch.todo = {}
    /\ watch' = Quiet
    /\ UNCHANGED <<quote, levels, thesis, alarmHistory>>

Hit(r) == IF r = "thesis" THEN is_thesis_invalidated(watch.entry, watch.price)
                          ELSE is_hit(levels[r], watch.price, r)
RowDone(r) == watch' = [watch EXCEPT !.todo = @ \ {r}]

(* Not hit: the level's row remembers the reading, if the write succeeds.  *)
Recorded(r) == [levels EXCEPT ![r].last_seen_price = watch.price]

NotHit(r) ==
    /\ watch.node \in {"levels", "theses"} /\ r \in watch.todo
    /\ ~ Hit(r)
    /\ levels' \in (IF r = "thesis" THEN {levels} ELSE {levels, Recorded(r)})
    /\ RowDone(r)
    /\ UNCHANGED <<quote, thesis, alarmHistory>>

ReadingTaken(r) == \* mutant: the reading is recorded whether or not the push went out
    /\ watch.node \in {"levels", "theses"} /\ r \in watch.todo
    /\ Hit(r)
    /\ missed' = missed \cup {r}
    /\ levels' = (IF r = "thesis" THEN levels ELSE Recorded(r))
    /\ RowDone(r)
    /\ UNCHANGED <<quote, thesis, pushed, unmarked>>

(* No channel, or send_report raises: the row is left alone.               *)
Undelivered(r) ==
    /\ watch.node \in {"levels", "theses"} /\ r \in watch.todo
    /\ Hit(r)
    /\ missed' = missed \cup {r}
    /\ RowDone(r)
    /\ UNCHANGED <<quote, levels, thesis, pushed, unmarked>>

Deliver(r) ==
    /\ watch.node \in {"levels", "theses"} /\ r \in watch.todo
    /\ Hit(r)
    /\ pushed[r] < MaxAlarms
    /\ pushed' = [pushed EXCEPT ![r] = @ + 1]
    /\ missed' = missed \ {r}
    /\ watch' = [watch EXCEPT !.node = "mark", !.todo = @ \ {r}, !.read = {r}]
    /\ UNCHANGED <<quote, levels, thesis, unmarked>>

(* mark_price_level_triggered, mark_invalidation_alerted.                  *)
Return(r) ==
    watch' = [watch EXCEPT !.node = IF r = "thesis" THEN "theses" ELSE "levels", !.read = {}]

Mark(r) ==
    /\ watch.node = "mark" /\ watch.read = {r}
    /\ IF r = "thesis"
       THEN /\ thesis' = IF thesis = None THEN None ELSE [thesis EXCEPT !.alerted = TRUE]
            /\ UNCHANGED levels
       ELSE /\ levels' = [levels EXCEPT ![r] = [active |-> FALSE,
                                                last_seen_price |-> watch.price]]
            /\ UNCHANGED thesis
    /\ Return(r)
    /\ UNCHANGED <<quote, alarmHistory>>

MarkFails(r) ==
    /\ watch.node = "mark" /\ watch.read = {r}
    /\ unmarked' = [unmarked EXCEPT ![r] = @ + 1]
    /\ Return(r)
    /\ UNCHANGED <<quote, levels, thesis, pushed, missed>>

(* The job is cancelled by the next one, or times out.                     *)
Cancelled ==
    /\ watch # Quiet
    /\ unmarked' = [r \in Rows |-> IF r \in watch.read THEN unmarked[r] + 1 ELSE unmarked[r]]
    /\ watch' = Quiet
    /\ UNCHANGED <<quote, levels, thesis, pushed, missed>>

Next ==
    \/ \E p \in PriceRange : Move(p)
    \/ Predict \/ Settle
    \/ StartLevels \/ StartTheses \/ Finish \/ Cancelled
    \/ \E r \in Rows : NotHit(r) \/ Undelivered(r) \/ Deliver(r) \/ Mark(r) \/ MarkFails(r)

Spec == Init /\ [][Next]_alarmVars

-----------------------------------------------------------------------------
(* The variables hold what the code's values stand for.                    *)
TypeOK ==
    /\ quote \in PriceRange
    /\ levels \in [LevelDirections -> LevelRows \cup {None}]
    /\ thesis \in Theses \cup {None}
    /\ pushed \in [Rows -> 0 .. MaxAlarms] /\ unmarked \in [Rows -> 0 .. MaxAlarms]
    /\ missed \subseteq Rows
    /\ watch.todo \subseteq Rows /\ watch.read \subseteq Rows
    /\ (watch.node = "mark") <=> (watch.read # {})
    /\ "thesis" \in watch.todo \cup watch.read => watch.entry \in PriceRange

Armed(d) ==
    /\ levels[d].active
    /\ levels[d].last_seen_price # None
    /\ IF d = "ABOVE" THEN levels[d].last_seen_price < Level
                      ELSE levels[d].last_seen_price > Level

(* A level whose hit was seen and could not be delivered stays armed: the  *)
(* next watch that finds the price beyond it and can push will push.  A    *)
(* level is switched off only by an alarm that went out, and an alarm is   *)
(* repeated only when its mark was lost, however often the configuration   *)
(* lists the level.                                                        *)
HitsAreNotForgotten ==
    /\ \A d \in missed \cap LevelDirections : Armed(d)
    /\ \A d \in LevelDirections :
          levels[d] # None => (levels[d].active <=> pushed[d] = unmarked[d] + (IF d \in watch.read THEN 1 ELSE 0))
    /\ \A r \in Rows : pushed[r] <= unmarked[r] + 1
(* The inductive invariant: which rows the scan holds in which node, that  *)
(* it holds only armed ones, and how the alarms of a row are related to    *)
(* its lost marks before, between and after the push and the mark.         *)
ScanOK ==
    /\ watch \in [node : {"idle", "levels", "theses", "mark"}, todo : SUBSET Rows,
                  read : SUBSET Rows, price : PriceRange \cup {None},
                  entry : PriceRange \cup {None}]
    /\ watch.node = "idle" <=> watch = Quiet
    /\ watch.node # "idle" => watch.price \in PriceRange
    /\ watch.node = "levels" => watch.entry = None
    /\ watch.node = "theses" => watch.todo \subseteq {"thesis"}
    /\ watch.node = "mark" => \E r \in Rows :
          /\ watch.read = {r}
          /\ IF r = "thesis" THEN watch.todo = {} ELSE watch.entry = None /\ r \notin watch.todo

RowsOK ==
    /\ \A d \in watch.todo \cap LevelDirections : levels[d] # None /\ levels[d].active
    /\ \A d \in LevelDirections :
          levels[d] = None => pushed[d] = unmarked[d] /\ d \notin watch.read \cup missed
    /\ missed \cap watch.read = {}

MarksOK ==
    /\ \A r \in Rows : unmarked[r] + (IF r \in watch.read THEN 1 ELSE 0) <= pushed[r]
    /\ "thesis" \in watch.todo => pushed["thesis"] = unmarked["thesis"]
    /\ thesis # None /\ ~ thesis.alerted =>
          pushed["thesis"] = unmarked["thesis"] + (IF "thesis" \in watch.read THEN 1 ELSE 0)

IInv == TypeOK /\ ScanOK /\ RowsOK /\ MarksOK /\ HitsAreNotForgotten
=============================================================================
