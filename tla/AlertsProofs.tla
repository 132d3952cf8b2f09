---------------------------- MODULE AlertsProofs ----------------------------
(***************************************************************************)
(* Proofs about the jobs that tell the owner something, and about what a   *)
(* reader can verify of what was published, each for every value of its    *)
(* own constants.  A job is an instance of its module; its variables have  *)
(* the names they have there.                                              *)
(***************************************************************************)
EXTENDS Integers, FiniteSets, Sequences, FiniteSetsExt, FiniteSetTheorems,
        SequenceTheorems, WellFoundedInduction, TLAPS

CONSTANTS None,
          PriceRange, Level, MaxAlarms,   \* PriceAlarms
          MaxUpdates, BatchLimit,         \* BotPolling
          Configs, Prices, FirstPrices,   \* ShockWatch
          Subscribers, MaxQuotaAlerts,    \* CycleDelivery
          FallbackLookback, LastHour, MaxShocks, MaxMails, \* MailWindow
          LastDay, Closures, GapChoices,  \* DeadMan
          MaxLeaves                       \* MerkleTree

VARIABLES quote, levels, thesis, pushed, unmarked, missed, watch,
          chat, kept, expired, update_offset, symbol_mute, done, poll,
          conf, time, price, trades, past, snapshot, alerts, log, faulty, run,
          setup, step, recorded, persisted, saves, refused, todo, channels,
          report_sent, assembled, cycle_row,
          hour, shock_alerts, cycle_runs, cycle, mails, n_cycles,
          calendar, limits, clock, fast_seen, slow_seen, report,
          n_leaves, claim, computed, path, fn, sn, verdict

Alarms == INSTANCE PriceAlarms
Bot == INSTANCE BotPolling
Watch == INSTANCE ShockWatch
Delivery == INSTANCE CycleDelivery
Mail == INSTANCE MailWindow
Switch == INSTANCE DeadMan
Tree == INSTANCE MerkleTree

-----------------------------------------------------------------------------
(* PriceAlarms.  What the scan holds decides what a step may do to a row:  *)
(* an alarm goes out for an armed row that it holds, and how often one was *)
(* pushed is known from the row, the mark in hand and the lost marks.      *)

(* What the proofs assume of the constants.                                *)
AlarmConstants ==
    /\ MaxAlarms \in Nat /\ Level \in Int /\ PriceRange \subseteq Int
    /\ None \notin PriceRange \cup Alarms!LevelRows \cup Alarms!Theses

LEMMA InitKeepsAlarms == AlarmConstants /\ Alarms!Init => Alarms!IInv
<1> SUFFICES ASSUME AlarmConstants, Alarms!Init PROVE Alarms!IInv
  OBVIOUS
<1> USE DEF Alarms!Init, Alarms!Quiet
<1>1. Alarms!TypeOK
  BY DEF AlarmConstants, Alarms!TypeOK, Alarms!LevelDirections, Alarms!Rows
<1>2. Alarms!ScanOK
  BY DEF Alarms!ScanOK
<1>3. Alarms!RowsOK
  BY DEF Alarms!RowsOK, Alarms!LevelDirections, Alarms!Rows
<1>4. Alarms!MarksOK
  BY DEF Alarms!MarksOK, Alarms!Rows
<1>5. Alarms!HitsAreNotForgotten
  BY DEF Alarms!HitsAreNotForgotten, Alarms!LevelDirections, Alarms!Rows
<1> QED
  BY <1>1, <1>2, <1>3, <1>4, <1>5 DEF Alarms!IInv

(* The price moves, the Fast Loop settles: the scan and its rows stay.     *)
LEMMA QuoteKeepsAlarms ==
    ASSUME AlarmConstants, Alarms!IInv,
           (\E p \in PriceRange : Alarms!Move(p)) \/ Alarms!Settle
    PROVE  Alarms!IInv'
<1>1. /\ quote' \in PriceRange
      /\ levels' = levels /\ watch' = watch /\ pushed' = pushed
      /\ unmarked' = unmarked /\ missed' = missed
      /\ thesis' = thesis \/ thesis' = None
  BY DEF Alarms!Move, Alarms!Settle, Alarms!alarmHistory, Alarms!IInv, Alarms!TypeOK
<1>2. Alarms!TypeOK'
  BY <1>1 DEF Alarms!IInv, Alarms!TypeOK
<1>3. Alarms!ScanOK'
  BY <1>1 DEF Alarms!IInv, Alarms!ScanOK, Alarms!Quiet
<1>4. Alarms!RowsOK' /\ Alarms!HitsAreNotForgotten'
  BY <1>1 DEF Alarms!IInv, Alarms!RowsOK, Alarms!HitsAreNotForgotten, Alarms!Armed
<1>5. Alarms!MarksOK'
  BY <1>1 DEF Alarms!IInv, Alarms!MarksOK
<1> QED
  BY <1>2, <1>3, <1>4, <1>5 DEF Alarms!IInv

(* A new prediction begins with no alarm, and no scan holds an older one.  *)
LEMMA PredictKeepsAlarms ==
    ASSUME AlarmConstants, Alarms!IInv, Alarms!Predict
    PROVE  Alarms!IInv'
<1>1. /\ quote' = quote /\ levels' = levels /\ watch' = watch /\ watch.entry = None
      /\ thesis' = [entry |-> quote, alerted |-> FALSE]
      /\ pushed' = [pushed EXCEPT !["thesis"] = 0]
      /\ unmarked' = [unmarked EXCEPT !["thesis"] = 0]
      /\ missed' = missed \ {"thesis"}
  BY DEF Alarms!Predict
<1>2. "thesis" \notin watch.todo \cup watch.read
  BY <1>1 DEF AlarmConstants, Alarms!IInv, Alarms!TypeOK
<1>3. /\ pushed \in [Alarms!Rows -> 0 .. MaxAlarms] /\ unmarked \in [Alarms!Rows -> 0 .. MaxAlarms]
      /\ quote \in PriceRange
  BY DEF Alarms!IInv, Alarms!TypeOK
<1>4. /\ \A d \in Alarms!LevelDirections : pushed'[d] = pushed[d] /\ unmarked'[d] = unmarked[d]
      /\ pushed'["thesis"] = 0 /\ unmarked'["thesis"] = 0
      /\ pushed' \in [Alarms!Rows -> 0 .. MaxAlarms] /\ unmarked' \in [Alarms!Rows -> 0 .. MaxAlarms]
  BY <1>1, <1>3 DEF AlarmConstants, Alarms!Rows, Alarms!LevelDirections
<1>5. thesis' \in Alarms!Theses
  BY <1>1, <1>3 DEF Alarms!Theses
<1>6. Alarms!TypeOK'
  BY <1>1, <1>4, <1>5 DEF Alarms!IInv, Alarms!TypeOK
<1>7. Alarms!ScanOK'
  BY <1>1 DEF Alarms!IInv, Alarms!ScanOK, Alarms!Quiet
<1>8. Alarms!RowsOK' /\ Alarms!HitsAreNotForgotten'
  BY <1>1, <1>4 DEF Alarms!IInv, Alarms!RowsOK, Alarms!HitsAreNotForgotten, Alarms!Armed,
     Alarms!Rows
<1>9. Alarms!MarksOK'
  BY <1>1, <1>2, <1>4 DEF Alarms!IInv, Alarms!MarksOK, Alarms!Rows
<1> QED
  BY <1>6, <1>7, <1>8, <1>9 DEF Alarms!IInv

(* The scan starts, goes on to the theses or ends: it holds armed rows     *)
(* and announces nothing.                                                  *)
LEMMA StartLevelsKeepsAlarms ==
    ASSUME AlarmConstants, Alarms!IInv, Alarms!StartLevels
    PROVE  Alarms!IInv'
<1>1. /\ quote' = quote /\ thesis' = thesis /\ pushed' = pushed /\ unmarked' = unmarked
      /\ missed' = missed /\ watch = Alarms!Quiet /\ watch.read = {} /\ watch.node = "idle"
      /\ levels' = Alarms!Seeded
  BY DEF Alarms!StartLevels, Alarms!alarmHistory, Alarms!Quiet
<1>2. PICK rows \in {{}, {d \in Alarms!LevelDirections : Alarms!Seeded[d].active}} :
         watch' = [node |-> "levels", todo |-> rows, read |-> {}, price |-> quote, entry |-> None]
  BY DEF Alarms!StartLevels
<1>3. /\ watch'.node = "levels" /\ watch'.todo = rows /\ watch'.read = {}
      /\ watch'.price = quote /\ watch'.entry = None
      /\ rows \subseteq Alarms!LevelDirections
  BY <1>2
<1>4. \A d \in Alarms!LevelDirections :
         levels'[d] = IF levels[d] = None THEN Alarms!NewLevel ELSE levels[d]
  BY <1>1 DEF Alarms!Seeded
<1>5. Alarms!NewLevel \in Alarms!LevelRows /\ Alarms!NewLevel.active
  BY DEF Alarms!NewLevel, Alarms!LevelRows
<1>6. levels' \in [Alarms!LevelDirections -> Alarms!LevelRows]
  BY <1>1, <1>5 DEF Alarms!Seeded, Alarms!IInv, Alarms!TypeOK
<1>7. Alarms!TypeOK'
  BY <1>1, <1>3, <1>6 DEF Alarms!IInv, Alarms!TypeOK, Alarms!Rows, Alarms!LevelDirections
<1>8. Alarms!ScanOK'
  <2>1. quote \in PriceRange /\ rows \subseteq Alarms!Rows /\ "thesis" \notin rows
    BY <1>3 DEF Alarms!IInv, Alarms!TypeOK, Alarms!Rows, Alarms!LevelDirections
  <2> QED
    BY <1>2, <1>3, <2>1 DEF Alarms!ScanOK, Alarms!Quiet
<1>9. Alarms!RowsOK'
  <2>1. \A d \in rows : levels'[d] # None /\ levels'[d].active
    BY <1>1, <1>2, <1>3, <1>6 DEF AlarmConstants
  <2>2. \A d \in Alarms!LevelDirections : levels'[d] # None
    BY <1>6 DEF AlarmConstants
  <2> QED
    BY <1>3, <2>1, <2>2 DEF Alarms!RowsOK
<1>10. Alarms!MarksOK'
  <2>1. "thesis" \notin watch'.todo
    BY <1>3 DEF Alarms!LevelDirections
  <2> QED
    BY <1>1, <1>3, <2>1 DEF Alarms!IInv, Alarms!MarksOK
<1>11. Alarms!HitsAreNotForgotten'
  <2>1. ASSUME NEW d \in missed \cap Alarms!LevelDirections PROVE Alarms!Armed(d)'
    <3>1. Alarms!Armed(d)
      BY DEF Alarms!IInv, Alarms!HitsAreNotForgotten
    <3>2. CASE levels[d] # None
      BY <1>4, <3>1, <3>2 DEF Alarms!Armed
    <3>3. CASE levels[d] = None
      BY <3>3 DEF Alarms!IInv, Alarms!RowsOK
    <3> QED
      BY <3>2, <3>3
  <2>2. ASSUME NEW d \in Alarms!LevelDirections
        PROVE  levels'[d].active <=> pushed[d] = unmarked[d]
    <3>1. pushed[d] \in Nat /\ unmarked[d] \in Nat
      BY DEF Alarms!IInv, Alarms!TypeOK, Alarms!Rows
    <3>2. CASE levels[d] # None
      <4>1. levels[d].active <=> pushed[d] = unmarked[d] + 0
        BY <1>1, <3>2 DEF Alarms!IInv, Alarms!HitsAreNotForgotten
      <4> QED
        BY <1>4, <3>1, <3>2, <4>1
    <3>3. CASE levels[d] = None
      BY <1>4, <1>5, <3>3 DEF Alarms!IInv, Alarms!RowsOK
    <3> QED
      BY <3>2, <3>3
  <2>3. \A r \in Alarms!Rows : pushed[r] \in Nat /\ unmarked[r] \in Nat
    BY DEF Alarms!IInv, Alarms!TypeOK
  <2> QED
    BY <1>1, <1>3, <2>1, <2>2, <2>3 DEF Alarms!HitsAreNotForgotten, Alarms!IInv, Alarms!Rows
<1> QED
  BY <1>7, <1>8, <1>9, <1>10, <1>11 DEF Alarms!IInv

LEMMA StartThesesKeepsAlarms ==
    ASSUME AlarmConstants, Alarms!IInv, Alarms!StartTheses \/ Alarms!Finish
    PROVE  Alarms!IInv'
<1>1. /\ quote' = quote /\ thesis' = thesis /\ pushed' = pushed /\ unmarked' = unmarked
      /\ missed' = missed /\ levels' = levels
      /\ watch.read = {}
  BY DEF Alarms!StartTheses, Alarms!Finish, Alarms!alarmHistory, Alarms!Quiet, Alarms!IInv,
     Alarms!TypeOK
<1>2. /\ watch'.read = {} /\ watch'.node \in {"idle", "theses"}
      /\ \/ watch'.todo = {}
         \/ /\ watch'.todo = {"thesis"} /\ watch'.node = "theses"
            /\ thesis # None /\ ~ thesis.alerted /\ watch'.entry \in PriceRange
  BY DEF Alarms!StartTheses, Alarms!Finish, Alarms!Quiet, Alarms!IInv, Alarms!TypeOK, Alarms!Theses
<1>3. Alarms!TypeOK'
  BY <1>1, <1>2 DEF Alarms!IInv, Alarms!TypeOK, Alarms!Rows
<1>4. Alarms!ScanOK'
  <2>1. quote \in PriceRange /\ (thesis # None => thesis.entry \in PriceRange)
    BY DEF Alarms!IInv, Alarms!TypeOK, Alarms!Theses
  <2>2. CASE Alarms!StartTheses
    <3>1. \E t \in {{}, {"thesis"}}, e \in PriceRange \cup {None} :
             watch' = [node |-> "theses", read |-> {}, price |-> quote, entry |-> e, todo |-> t]
      BY <2>1, <2>2 DEF Alarms!StartTheses
    <3> QED
      BY <2>1, <3>1 DEF Alarms!ScanOK, Alarms!Quiet, Alarms!Rows
  <2>3. CASE Alarms!Finish
    BY <2>3 DEF Alarms!Finish, Alarms!ScanOK, Alarms!Quiet
  <2> QED
    BY <2>2, <2>3
<1>5. Alarms!RowsOK'
  BY <1>1, <1>2 DEF Alarms!IInv, Alarms!RowsOK, Alarms!LevelDirections
<1>6. Alarms!MarksOK'
  BY <1>1, <1>2 DEF Alarms!IInv, Alarms!MarksOK, Alarms!TypeOK, Alarms!Rows
<1>7. Alarms!HitsAreNotForgotten'
  BY <1>1, <1>2 DEF Alarms!IInv, Alarms!HitsAreNotForgotten, Alarms!Armed
<1> QED
  BY <1>3, <1>4, <1>5, <1>6, <1>7 DEF Alarms!IInv

(* A row of the list that is looked at: the scan is in the loop it belongs *)
(* to and goes on without it.                                              *)
LEMMA RowIsHeld ==
    ASSUME AlarmConstants, Alarms!IInv, NEW r \in Alarms!Rows,
           watch.node \in {"levels", "theses"}, r \in watch.todo
    PROVE  /\ watch.read = {} /\ watch.price \in PriceRange
           /\ IF r = "thesis" THEN watch.node = "theses" /\ watch.entry \in PriceRange
                              ELSE watch.node = "levels" /\ watch.entry = None
           /\ watch.todo \ {r} \subseteq Alarms!Rows
           /\ r # "thesis" => r \in Alarms!LevelDirections /\ levels[r] \in Alarms!LevelRows
                              /\ levels[r].active
           /\ pushed[r] = unmarked[r]
           /\ pushed \in [Alarms!Rows -> 0 .. MaxAlarms]
           /\ unmarked \in [Alarms!Rows -> 0 .. MaxAlarms]
<1>1. watch.read = {} /\ watch.price \in PriceRange
  BY DEF Alarms!IInv, Alarms!TypeOK, Alarms!ScanOK
<1>2. IF r = "thesis" THEN watch.node = "theses" /\ watch.entry \in PriceRange
                      ELSE watch.node = "levels" /\ watch.entry = None
  <2>1. "thesis" \in watch.todo => watch.entry \in PriceRange
    BY DEF Alarms!IInv, Alarms!TypeOK
  <2>2. watch.node = "levels" => watch.entry = None
    BY DEF Alarms!IInv, Alarms!ScanOK
  <2>3. watch.node = "theses" => watch.todo \subseteq {"thesis"}
    BY DEF Alarms!IInv, Alarms!ScanOK
  <2> QED
    BY <2>1, <2>2, <2>3 DEF AlarmConstants
<1>3. r # "thesis" => r \in Alarms!LevelDirections
  BY DEF Alarms!Rows
<1>4. r # "thesis" => levels[r] \in Alarms!LevelRows /\ levels[r].active
  BY <1>3 DEF Alarms!IInv, Alarms!RowsOK, Alarms!TypeOK
<1>5. /\ pushed \in [Alarms!Rows -> 0 .. MaxAlarms]
      /\ unmarked \in [Alarms!Rows -> 0 .. MaxAlarms]
      /\ watch.todo \subseteq Alarms!Rows
  BY DEF Alarms!IInv, Alarms!TypeOK
<1>6. pushed[r] = unmarked[r]
  <2>1. CASE r = "thesis"
    BY <2>1 DEF Alarms!IInv, Alarms!MarksOK
  <2>2. CASE r # "thesis"
    <3>1. pushed[r] = unmarked[r] + 0
      BY <1>1, <1>3, <1>4, <2>2 DEF AlarmConstants, Alarms!IInv, Alarms!HitsAreNotForgotten
    <3> QED
      BY <1>5, <3>1 DEF AlarmConstants
  <2> QED
    BY <2>1, <2>2
<1> QED
  BY <1>1, <1>2, <1>3, <1>4, <1>5, <1>6

(* Next row: the scan without it.                                          *)
LEMMA RowDoneKeepsScan ==
    ASSUME AlarmConstants, Alarms!IInv, NEW r \in Alarms!Rows,
           watch.node \in {"levels", "theses"}, r \in watch.todo, Alarms!RowDone(r)
    PROVE  /\ Alarms!ScanOK'
           /\ watch'.node = watch.node /\ watch'.todo = watch.todo \ {r}
           /\ watch'.read = watch.read /\ watch'.entry = watch.entry
<1>1. watch' = [watch EXCEPT !.todo = watch.todo \ {r}]
  BY DEF Alarms!RowDone
<1>2. watch \in [node : {"idle", "levels", "theses", "mark"}, todo : SUBSET Alarms!Rows,
                 read : SUBSET Alarms!Rows, price : PriceRange \cup {None},
                 entry : PriceRange \cup {None}]
  BY DEF Alarms!IInv, Alarms!ScanOK
<1>3. /\ watch'.node = watch.node /\ watch'.todo = watch.todo \ {r}
      /\ watch'.read = watch.read /\ watch'.entry = watch.entry /\ watch'.price = watch.price
  BY <1>1, <1>2
<1>4. watch' \in [node : {"idle", "levels", "theses", "mark"}, todo : SUBSET Alarms!Rows,
                  read : SUBSET Alarms!Rows, price : PriceRange \cup {None},
                  entry : PriceRange \cup {None}]
  BY <1>1, <1>2
<1>5. watch'.node # "idle" /\ watch' # Alarms!Quiet
  BY <1>3 DEF Alarms!Quiet
<1> QED
  BY <1>3, <1>4, <1>5 DEF Alarms!IInv, Alarms!ScanOK

(* No hit: the reading recorded in the row is on the same side of the      *)
(* level, so a missed hit stays one.                                       *)
LEMMA NotHitKeepsAlarms ==
    ASSUME AlarmConstants, Alarms!IInv, NEW r \in Alarms!Rows, Alarms!NotHit(r)
    PROVE  Alarms!IInv'
<1>1. /\ watch.node \in {"levels", "theses"} /\ r \in watch.todo /\ Alarms!RowDone(r)
      /\ ~ Alarms!Hit(r)
      /\ quote' = quote /\ thesis' = thesis /\ pushed' = pushed /\ unmarked' = unmarked
      /\ missed' = missed
      /\ (levels' = levels) \/ (r # "thesis" /\ levels' = Alarms!Recorded(r))
  BY DEF Alarms!NotHit, Alarms!alarmHistory
<1>2. /\ watch.read = {} /\ watch.price \in PriceRange
      /\ r # "thesis" => r \in Alarms!LevelDirections /\ levels[r] \in Alarms!LevelRows
                         /\ levels[r].active
  BY <1>1, RowIsHeld
<1>3. /\ Alarms!ScanOK'
      /\ watch'.node = watch.node /\ watch'.todo = watch.todo \ {r}
      /\ watch'.read = watch.read /\ watch'.entry = watch.entry
  BY <1>1, RowDoneKeepsScan
<1>4. levels \in [Alarms!LevelDirections -> Alarms!LevelRows \cup {None}]
  BY DEF Alarms!IInv, Alarms!TypeOK
<1>5. CASE levels' = levels
  <2>1. Alarms!TypeOK'
    BY <1>1, <1>3, <1>5 DEF Alarms!IInv, Alarms!TypeOK
  <2>2. Alarms!RowsOK' /\ Alarms!HitsAreNotForgotten'
    BY <1>1, <1>3, <1>5 DEF Alarms!IInv, Alarms!RowsOK, Alarms!HitsAreNotForgotten, Alarms!Armed
  <2>3. Alarms!MarksOK'
    BY <1>1, <1>3 DEF Alarms!IInv, Alarms!MarksOK
  <2> QED
    BY <1>3, <2>1, <2>2, <2>3 DEF Alarms!IInv
<1>6. CASE r # "thesis" /\ levels' = Alarms!Recorded(r)
  <2>1. levels' = [levels EXCEPT ![r] = [levels[r] EXCEPT !.last_seen_price = watch.price]]
    BY <1>6 DEF Alarms!Recorded
  <2>2. /\ levels'[r].active = levels[r].active /\ levels'[r].last_seen_price = watch.price
        /\ levels'[r] \in Alarms!LevelRows
        /\ \A d \in Alarms!LevelDirections \ {r} : levels'[d] = levels[d]
        /\ levels' \in [Alarms!LevelDirections -> Alarms!LevelRows \cup {None}]
    BY <1>2, <1>4, <1>6, <2>1 DEF Alarms!LevelRows
  <2>3. \A d \in Alarms!LevelDirections :
           /\ levels'[d] # None <=> levels[d] # None
           /\ levels[d] # None => (levels'[d].active <=> levels[d].active)
    BY <1>2, <1>6, <2>2 DEF AlarmConstants
  <2>4. Alarms!TypeOK'
    BY <1>1, <1>3, <2>2 DEF Alarms!IInv, Alarms!TypeOK
  <2>5. Alarms!RowsOK'
    BY <1>1, <1>3, <2>3 DEF Alarms!IInv, Alarms!RowsOK
  <2>6. Alarms!MarksOK'
    BY <1>1, <1>3 DEF Alarms!IInv, Alarms!MarksOK
  <2>7. ASSUME NEW d \in missed \cap Alarms!LevelDirections PROVE Alarms!Armed(d)'
    <3>1. Alarms!Armed(d)
      BY DEF Alarms!IInv, Alarms!HitsAreNotForgotten
    <3>2. CASE d # r
      BY <2>2, <3>1, <3>2 DEF Alarms!Armed
    <3>3. CASE d = r
      <4>1. levels[r].last_seen_price \in PriceRange
        BY <1>2, <1>6, <3>1, <3>3 DEF Alarms!Armed, Alarms!LevelRows
      <4>2. ~ Alarms!crossed(levels[r].last_seen_price, watch.price, r)
        BY <1>1, <1>6, <3>1, <3>3 DEF Alarms!Armed, Alarms!Hit, Alarms!is_hit
      <4>3. IF r = "ABOVE" THEN watch.price < Level ELSE watch.price > Level
        <5>1. /\ levels[r].last_seen_price \in Int /\ watch.price \in Int /\ Level \in Int
              /\ r \in {"ABOVE", "BELOW"}
          BY <1>2, <1>6, <4>1 DEF AlarmConstants, Alarms!LevelDirections
        <5>2. CASE r = "ABOVE"
          BY <3>1, <3>3, <4>2, <5>1, <5>2 DEF Alarms!Armed, Alarms!crossed
        <5>3. CASE r = "BELOW"
          BY <3>1, <3>3, <4>2, <5>1, <5>3 DEF Alarms!Armed, Alarms!crossed
        <5> QED
          BY <5>1, <5>2, <5>3
      <4>4. watch.price # None
        BY <1>2 DEF AlarmConstants
      <4> QED
        BY <2>2, <3>1, <3>3, <4>3, <4>4 DEF Alarms!Armed
    <3> QED
      BY <3>2, <3>3
  <2>8. Alarms!HitsAreNotForgotten'
    BY <1>1, <1>3, <2>3, <2>7 DEF Alarms!IInv, Alarms!HitsAreNotForgotten
  <2> QED
    BY <1>3, <2>4, <2>5, <2>6, <2>8 DEF Alarms!IInv
<1> QED
  BY <1>1, <1>5, <1>6

(* A hit that goes to nobody leaves the row as it was: below its level.    *)
LEMMA UndeliveredKeepsAlarms ==
    ASSUME AlarmConstants, Alarms!IInv, NEW r \in Alarms!Rows, Alarms!Undelivered(r)
    PROVE  Alarms!IInv'
<1>1. /\ watch.node \in {"levels", "theses"} /\ r \in watch.todo /\ Alarms!RowDone(r)
      /\ Alarms!Hit(r)
      /\ quote' = quote /\ thesis' = thesis /\ pushed' = pushed /\ unmarked' = unmarked
      /\ levels' = levels /\ missed' = missed \cup {r}
  BY DEF Alarms!Undelivered
<1>2. /\ watch.read = {}
      /\ r # "thesis" => levels[r] \in Alarms!LevelRows /\ levels[r].active
  BY <1>1, RowIsHeld
<1>3. /\ Alarms!ScanOK'
      /\ watch'.node = watch.node /\ watch'.todo = watch.todo \ {r}
      /\ watch'.read = watch.read /\ watch'.entry = watch.entry
  BY <1>1, RowDoneKeepsScan
<1>4. Alarms!TypeOK'
  BY <1>1, <1>3 DEF Alarms!IInv, Alarms!TypeOK
<1>5. Alarms!RowsOK'
  <2>1. r # "thesis" => levels[r] # None
    BY <1>2 DEF AlarmConstants
  <2> QED
    BY <1>1, <1>2, <1>3, <2>1 DEF Alarms!IInv, Alarms!RowsOK, Alarms!LevelDirections
<1>6. Alarms!MarksOK'
  BY <1>1, <1>3 DEF Alarms!IInv, Alarms!MarksOK
<1>7. ASSUME NEW d \in missed' \cap Alarms!LevelDirections PROVE Alarms!Armed(d)'
  <2>1. CASE d \in missed
    BY <1>1, <2>1 DEF Alarms!IInv, Alarms!HitsAreNotForgotten, Alarms!Armed
  <2>2. CASE d = r
    <3>1. d \in {"ABOVE", "BELOW"} /\ r # "thesis"
      BY <2>2 DEF Alarms!LevelDirections
    <3>2. Alarms!is_hit(levels[d], watch.price, d)
      BY <1>1, <2>2, <3>1 DEF Alarms!Hit
    <3> QED
      BY <1>1, <1>2, <2>2, <3>1, <3>2 DEF Alarms!is_hit, Alarms!crossed, Alarms!Armed
  <2> QED
    BY <1>1, <2>1, <2>2
<1>8. Alarms!HitsAreNotForgotten'
  BY <1>1, <1>3, <1>7 DEF Alarms!IInv, Alarms!HitsAreNotForgotten
<1> QED
  BY <1>3, <1>4, <1>5, <1>6, <1>8 DEF Alarms!IInv

(* An alarm goes out for a row with no unmarked one but those whose mark   *)
(* was lost; the row waits for its mark.                                   *)
LEMMA DeliverKeepsAlarms ==
    ASSUME AlarmConstants, Alarms!IInv, NEW r \in Alarms!Rows, Alarms!Deliver(r)
    PROVE  Alarms!IInv'
<1>1. /\ watch.node \in {"levels", "theses"} /\ r \in watch.todo
      /\ quote' = quote /\ thesis' = thesis /\ unmarked' = unmarked /\ levels' = levels
      /\ pushed[r] < MaxAlarms
      /\ pushed' = [pushed EXCEPT ![r] = pushed[r] + 1] /\ missed' = missed \ {r}
      /\ watch' = [watch EXCEPT !.node = "mark", !.todo = watch.todo \ {r}, !.read = {r}]
  BY DEF Alarms!Deliver
<1>2. /\ watch.read = {} /\ watch.price \in PriceRange
      /\ IF r = "thesis" THEN watch.node = "theses" /\ watch.entry \in PriceRange
                         ELSE watch.node = "levels" /\ watch.entry = None
      /\ r # "thesis" => r \in Alarms!LevelDirections /\ levels[r] \in Alarms!LevelRows
                         /\ levels[r].active
      /\ pushed[r] = unmarked[r]
      /\ pushed \in [Alarms!Rows -> 0 .. MaxAlarms]
      /\ unmarked \in [Alarms!Rows -> 0 .. MaxAlarms]
  BY <1>1, RowIsHeld
<1>3. watch \in [node : {"idle", "levels", "theses", "mark"}, todo : SUBSET Alarms!Rows,
                 read : SUBSET Alarms!Rows, price : PriceRange \cup {None},
                 entry : PriceRange \cup {None}]
  BY DEF Alarms!IInv, Alarms!ScanOK
<1>4. /\ watch'.node = "mark" /\ watch'.todo = watch.todo \ {r} /\ watch'.read = {r}
      /\ watch'.entry = watch.entry /\ watch'.price = watch.price
      /\ watch' \in [node : {"idle", "levels", "theses", "mark"}, todo : SUBSET Alarms!Rows,
                     read : SUBSET Alarms!Rows, price : PriceRange \cup {None},
                     entry : PriceRange \cup {None}]
  BY <1>1, <1>3
<1>5. /\ pushed'[r] = pushed[r] + 1
      /\ \A s \in Alarms!Rows \ {r} : pushed'[s] = pushed[s]
      /\ pushed' \in [Alarms!Rows -> 0 .. MaxAlarms]
  BY <1>1, <1>2 DEF AlarmConstants
<1>6. Alarms!TypeOK'
  BY <1>1, <1>2, <1>4, <1>5 DEF Alarms!IInv, Alarms!TypeOK, AlarmConstants
<1>7. Alarms!ScanOK'
  <2>1. watch' # Alarms!Quiet
    BY <1>4 DEF Alarms!Quiet
  <2>2. r = "thesis" => watch'.todo = {}
    BY <1>2, <1>4 DEF Alarms!IInv, Alarms!ScanOK
  <2> QED
    BY <1>2, <1>4, <2>1, <2>2 DEF Alarms!ScanOK
<1>8. Alarms!RowsOK'
  <2>1. r # "thesis" => levels[r] # None
    BY <1>2 DEF AlarmConstants
  <2>2. \A d \in Alarms!LevelDirections \ {r} : pushed'[d] = pushed[d]
    BY <1>5 DEF Alarms!Rows
  <2>3. ASSUME NEW d \in Alarms!LevelDirections, levels[d] = None
        PROVE  pushed'[d] = unmarked[d] /\ d \notin watch'.read \cup missed'
    <3>1. d # r
      BY <2>1, <2>3 DEF Alarms!LevelDirections
    <3> QED
      BY <1>1, <1>4, <2>2, <2>3, <3>1 DEF Alarms!IInv, Alarms!RowsOK
  <2> QED
    BY <1>1, <1>4, <2>3 DEF Alarms!IInv, Alarms!RowsOK
<1>9. Alarms!MarksOK'
  <2>1. \A s \in Alarms!Rows : pushed[s] \in Nat /\ unmarked[s] \in Nat
    BY <1>2 DEF AlarmConstants
  <2>2. \A s \in Alarms!Rows : unmarked[s] + 0 <= pushed[s]
    BY <1>2 DEF Alarms!IInv, Alarms!MarksOK
  <2>3. \A s \in Alarms!Rows : unmarked'[s] + (IF s \in watch'.read THEN 1 ELSE 0) <= pushed'[s]
    BY <1>1, <1>2, <1>4, <1>5, <2>1, <2>2
  <2>4. "thesis" \in Alarms!Rows /\ "thesis" \notin watch'.todo
    BY <1>2, <1>4 DEF Alarms!IInv, Alarms!ScanOK, Alarms!Rows, AlarmConstants, Alarms!TypeOK
  <2>5. thesis' # None /\ ~ thesis'.alerted =>
           pushed'["thesis"] = unmarked'["thesis"] + (IF "thesis" \in watch'.read THEN 1 ELSE 0)
    <3>1. CASE r = "thesis"
      BY <1>1, <1>2, <1>4, <1>5, <3>1
    <3>2. CASE r # "thesis"
      <4>1. pushed'["thesis"] = pushed["thesis"] /\ "thesis" \notin watch'.read
        BY <1>4, <1>5, <2>4, <3>2
      <4> QED
        BY <1>1, <1>2, <4>1 DEF Alarms!IInv, Alarms!MarksOK
    <3> QED
      BY <3>1, <3>2
  <2> QED
    BY <2>3, <2>4, <2>5 DEF Alarms!MarksOK
<1>10. Alarms!HitsAreNotForgotten'
  <2>1. \A s \in Alarms!Rows : pushed[s] \in Nat /\ unmarked[s] \in Nat
    BY <1>2 DEF AlarmConstants
  <2>2. \A d \in missed' \cap Alarms!LevelDirections : Alarms!Armed(d)'
    BY <1>1 DEF Alarms!IInv, Alarms!HitsAreNotForgotten, Alarms!Armed
  <2>3. ASSUME NEW d \in Alarms!LevelDirections, levels[d] # None
        PROVE  levels[d].active <=> pushed'[d] = unmarked[d] + (IF d \in watch'.read THEN 1 ELSE 0)
    <3>1. CASE d = r
      <4>1. levels[d].active
        BY <1>2, <3>1 DEF Alarms!LevelDirections
      <4>2. pushed'[d] = unmarked[d] + (IF d \in watch'.read THEN 1 ELSE 0)
        BY <1>2, <1>4, <1>5, <3>1
      <4> QED
        BY <4>1, <4>2
    <3>2. CASE d # r
      <4>1. /\ pushed'[d] = pushed[d] /\ d \notin watch'.read /\ d \notin watch.read
        BY <1>2, <1>4, <1>5, <3>2 DEF Alarms!Rows
      <4> QED
        BY <2>3, <4>1 DEF Alarms!IInv, Alarms!HitsAreNotForgotten
    <3> QED
      BY <3>1, <3>2
  <2>4. \A s \in Alarms!Rows : pushed'[s] <= unmarked[s] + 1
    BY <1>2, <1>5, <2>1 DEF Alarms!IInv, Alarms!HitsAreNotForgotten
  <2> QED
    BY <1>1, <2>2, <2>3, <2>4 DEF Alarms!HitsAreNotForgotten
<1> QED
  BY <1>6, <1>7, <1>8, <1>9, <1>10 DEF Alarms!IInv

(* After the mark, or its failure, the scan goes on where it was.          *)
LEMMA ReturnKeepsScan ==
    ASSUME AlarmConstants, Alarms!IInv, NEW r \in Alarms!Rows,
           watch.node = "mark", watch.read = {r}, Alarms!Return(r)
    PROVE  /\ Alarms!ScanOK'
           /\ watch'.node # "mark" /\ watch'.read = {} /\ watch'.todo = watch.todo
           /\ watch'.entry = watch.entry /\ r \notin watch.todo
           /\ r = "thesis" => watch.todo = {}
<1>1. watch' = [watch EXCEPT !.node = IF r = "thesis" THEN "theses" ELSE "levels", !.read = {}]
  BY DEF Alarms!Return
<1>2. watch \in [node : {"idle", "levels", "theses", "mark"}, todo : SUBSET Alarms!Rows,
                 read : SUBSET Alarms!Rows, price : PriceRange \cup {None},
                 entry : PriceRange \cup {None}]
  BY DEF Alarms!IInv, Alarms!ScanOK
<1>3. /\ watch'.node = (IF r = "thesis" THEN "theses" ELSE "levels")
      /\ watch'.todo = watch.todo /\ watch'.read = {}
      /\ watch'.entry = watch.entry /\ watch'.price = watch.price
  BY <1>1, <1>2
<1>4. watch' \in [node : {"idle", "levels", "theses", "mark"}, todo : SUBSET Alarms!Rows,
                  read : SUBSET Alarms!Rows, price : PriceRange \cup {None},
                  entry : PriceRange \cup {None}]
  BY <1>1, <1>2
<1>5. watch.price \in PriceRange
      /\ (IF r = "thesis" THEN watch.todo = {} ELSE watch.entry = None /\ r \notin watch.todo)
  BY DEF Alarms!IInv, Alarms!ScanOK
<1>6. watch'.node # "idle" /\ watch'.node # "mark" /\ watch' # Alarms!Quiet
  BY <1>3 DEF Alarms!Quiet
<1>7. Alarms!ScanOK'
  BY <1>3, <1>4, <1>5, <1>6 DEF Alarms!ScanOK
<1> QED
  BY <1>3, <1>5, <1>6, <1>7

(* The mark: the level is switched off, the thesis is an alerted one.      *)
LEMMA MarkKeepsAlarms ==
    ASSUME AlarmConstants, Alarms!IInv, NEW r \in Alarms!Rows, Alarms!Mark(r)
    PROVE  Alarms!IInv'
<1>1. /\ watch.node = "mark" /\ watch.read = {r} /\ Alarms!Return(r)
      /\ quote' = quote /\ pushed' = pushed /\ unmarked' = unmarked /\ missed' = missed
  BY DEF Alarms!Mark, Alarms!alarmHistory
<1>2. IF r = "thesis"
      THEN /\ thesis' = IF thesis = None THEN None ELSE [thesis EXCEPT !.alerted = TRUE]
           /\ levels' = levels
      ELSE /\ levels' = [levels EXCEPT ![r] = [active |-> FALSE, last_seen_price |-> watch.price]]
           /\ thesis' = thesis
  BY DEF Alarms!Mark
<1>3. /\ Alarms!ScanOK'
      /\ watch'.node # "mark" /\ watch'.read = {} /\ watch'.todo = watch.todo
      /\ watch'.entry = watch.entry /\ r \notin watch.todo
      /\ r = "thesis" => watch.todo = {}
  BY <1>1, ReturnKeepsScan
<1>4. /\ levels \in [Alarms!LevelDirections -> Alarms!LevelRows \cup {None}]
      /\ thesis \in Alarms!Theses \cup {None} /\ watch.price \in PriceRange
      /\ pushed \in [Alarms!Rows -> 0 .. MaxAlarms] /\ unmarked \in [Alarms!Rows -> 0 .. MaxAlarms]
      /\ r \notin missed
  BY <1>1 DEF Alarms!IInv, Alarms!TypeOK, Alarms!ScanOK, Alarms!RowsOK
<1>5. \A s \in Alarms!Rows : pushed[s] \in Nat /\ unmarked[s] \in Nat
  BY <1>4 DEF AlarmConstants
<1>6. CASE r = "thesis"
  <2>1. /\ thesis' \in Alarms!Theses \cup {None} /\ levels' = levels
        /\ thesis' # None => thesis'.alerted
    BY <1>2, <1>4, <1>6 DEF Alarms!Theses
  <2>2. Alarms!TypeOK'
    BY <1>1, <1>3, <1>4, <2>1 DEF Alarms!IInv, Alarms!TypeOK
  <2>3. Alarms!RowsOK'
    BY <1>1, <1>3, <2>1 DEF Alarms!IInv, Alarms!RowsOK
  <2>4. Alarms!MarksOK'
    <3>1. \A s \in Alarms!Rows : unmarked[s] + 0 <= pushed[s]
      BY <1>5 DEF Alarms!IInv, Alarms!MarksOK
    <3> QED
      BY <1>1, <1>3, <1>6, <2>1, <3>1 DEF Alarms!MarksOK
  <2>5. Alarms!HitsAreNotForgotten'
    BY <1>1, <1>3, <1>6, <2>1 DEF Alarms!IInv, Alarms!HitsAreNotForgotten, Alarms!Armed,
       Alarms!LevelDirections
  <2> QED
    BY <1>3, <2>2, <2>3, <2>4, <2>5 DEF Alarms!IInv
<1>7. CASE r # "thesis"
  <2>1. r \in Alarms!LevelDirections
    BY <1>7 DEF Alarms!Rows
  <2>2. /\ ~ levels'[r].active /\ levels'[r] \in Alarms!LevelRows
        /\ \A d \in Alarms!LevelDirections \ {r} : levels'[d] = levels[d]
        /\ levels' \in [Alarms!LevelDirections -> Alarms!LevelRows \cup {None}]
        /\ thesis' = thesis
    <3> DEFINE off == [active |-> FALSE, last_seen_price |-> watch.price]
    <3>1. ~ off.active /\ off \in Alarms!LevelRows
      BY <1>4 DEF Alarms!LevelRows
    <3>2. levels' = [levels EXCEPT ![r] = off] /\ thesis' = thesis
      BY <1>2, <1>7
    <3> HIDE DEF off
    <3> QED
      BY <1>4, <2>1, <3>1, <3>2
  <2>3. levels[r] # None /\ levels'[r] # None
    BY <1>1, <2>1, <2>2 DEF Alarms!IInv, Alarms!RowsOK, AlarmConstants
  <2>4. pushed[r] = unmarked[r] + 1
    <3>1. unmarked[r] + 1 <= pushed[r]
      BY <1>1 DEF Alarms!IInv, Alarms!MarksOK
    <3>2. pushed[r] <= unmarked[r] + 1
      BY DEF Alarms!IInv, Alarms!HitsAreNotForgotten
    <3> QED
      BY <1>5, <3>1, <3>2
  <2>5. Alarms!TypeOK'
    BY <1>1, <1>3, <1>4, <2>2 DEF Alarms!IInv, Alarms!TypeOK
  <2>6. Alarms!RowsOK'
    <3>1. \A d \in watch.todo \cap Alarms!LevelDirections : levels'[d] # None /\ levels'[d].active
      BY <1>3, <2>2 DEF Alarms!IInv, Alarms!RowsOK
    <3>2. \A d \in Alarms!LevelDirections :
             levels'[d] = None => pushed[d] = unmarked[d] /\ d \notin missed
      BY <2>2, <2>3 DEF Alarms!IInv, Alarms!RowsOK
    <3> QED
      BY <1>1, <1>3, <3>1, <3>2 DEF Alarms!RowsOK
  <2>7. Alarms!MarksOK'
    <3>1. \A s \in Alarms!Rows : unmarked[s] + 0 <= pushed[s]
      BY <1>5 DEF Alarms!IInv, Alarms!MarksOK
    <3>2. "thesis" \notin watch.read
      BY <1>1, <1>7
    <3> QED
      BY <1>1, <1>3, <2>2, <3>1, <3>2 DEF Alarms!IInv, Alarms!MarksOK
  <2>8. \A d \in missed' \cap Alarms!LevelDirections : Alarms!Armed(d)'
    BY <1>1, <1>4, <2>2 DEF Alarms!IInv, Alarms!HitsAreNotForgotten, Alarms!Armed
  <2>9. ASSUME NEW d \in Alarms!LevelDirections, levels'[d] # None
        PROVE  levels'[d].active <=> pushed[d] = unmarked[d] + 0
    <3>1. CASE d = r
      <4>1. pushed[d] # unmarked[d] + 0
        BY <1>5, <2>4, <3>1
      <4> QED
        BY <2>2, <3>1, <4>1
    <3>2. CASE d # r
      <4>1. levels[d].active <=> pushed[d] = unmarked[d] + 0
        BY <1>1, <2>2, <2>9, <3>2 DEF Alarms!IInv, Alarms!HitsAreNotForgotten
      <4> QED
        BY <2>2, <3>2, <4>1
    <3> QED
      BY <3>1, <3>2
  <2>10. Alarms!HitsAreNotForgotten'
    BY <1>1, <1>3, <2>8, <2>9 DEF Alarms!IInv, Alarms!HitsAreNotForgotten
  <2> QED
    BY <1>3, <2>5, <2>6, <2>7, <2>10 DEF Alarms!IInv
<1> QED
  BY <1>6, <1>7

(* The mark is lost, or the scan is cancelled with it: the alarm counts as *)
(* an unmarked one and the row stays as it was.                            *)
LEMMA LostMarkKeepsRows ==
    ASSUME AlarmConstants, Alarms!IInv, watch'.read = {}, watch'.todo \subseteq watch.todo,
           \/ "thesis" \notin watch.read
           \/ "thesis" \notin watch'.todo,
           unmarked' = [s \in Alarms!Rows |->
                           IF s \in watch.read THEN unmarked[s] + 1 ELSE unmarked[s]],
           UNCHANGED <<quote, levels, thesis, pushed, missed>>
    PROVE  /\ unmarked' \in [Alarms!Rows -> 0 .. MaxAlarms]
           /\ Alarms!RowsOK' /\ Alarms!MarksOK' /\ Alarms!HitsAreNotForgotten'
<1>1. /\ pushed \in [Alarms!Rows -> 0 .. MaxAlarms] /\ unmarked \in [Alarms!Rows -> 0 .. MaxAlarms]
  BY DEF Alarms!IInv, Alarms!TypeOK
<1>2. \A s \in Alarms!Rows : pushed[s] \in Nat /\ unmarked[s] \in Nat /\ pushed[s] <= MaxAlarms
  BY <1>1 DEF AlarmConstants
<1>3. \A s \in Alarms!Rows : unmarked[s] + (IF s \in watch.read THEN 1 ELSE 0) <= pushed[s]
  BY DEF Alarms!IInv, Alarms!MarksOK
<1>4. \A s \in Alarms!Rows : unmarked'[s] = unmarked[s] + (IF s \in watch.read THEN 1 ELSE 0)
  BY <1>2
<1>5. unmarked' \in [Alarms!Rows -> 0 .. MaxAlarms]
  <2>1. \A s \in Alarms!Rows : unmarked'[s] \in 0 .. MaxAlarms
    BY <1>2, <1>3, <1>4 DEF AlarmConstants
  <2> QED
    BY <2>1
<1>6. Alarms!LevelDirections \subseteq Alarms!Rows /\ "thesis" \in Alarms!Rows
  BY DEF Alarms!Rows
<1>7. Alarms!RowsOK'
  <2>1. \A d \in Alarms!LevelDirections : levels[d] = None => unmarked'[d] = unmarked[d]
    BY <1>2, <1>4, <1>6 DEF Alarms!IInv, Alarms!RowsOK
  <2> QED
    BY <2>1 DEF Alarms!IInv, Alarms!RowsOK
<1>8. Alarms!MarksOK'
  <2>1. \A s \in Alarms!Rows : unmarked'[s] + 0 <= pushed[s] /\ unmarked'[s] + 0 = unmarked'[s]
    BY <1>2, <1>3, <1>4
  <2>2. "thesis" \in watch'.todo => pushed["thesis"] = unmarked'["thesis"]
    <3>1. "thesis" \notin watch.read => unmarked'["thesis"] = unmarked["thesis"]
      BY <1>2, <1>4, <1>6
    <3> QED
      BY <3>1 DEF Alarms!IInv, Alarms!MarksOK
  <2>3. thesis # None /\ ~ thesis.alerted => pushed["thesis"] = unmarked'["thesis"]
    BY <1>4, <1>6 DEF Alarms!IInv, Alarms!MarksOK
  <2> QED
    BY <1>6, <2>1, <2>2, <2>3 DEF Alarms!MarksOK
<1>9. Alarms!HitsAreNotForgotten'
  <2>1. \A s \in Alarms!Rows : pushed[s] <= unmarked'[s] + 1 /\ unmarked'[s] + 0 = unmarked'[s]
    BY <1>2, <1>4 DEF Alarms!IInv, Alarms!HitsAreNotForgotten
  <2>2. \A d \in Alarms!LevelDirections :
           levels[d] # None => (levels[d].active <=> pushed[d] = unmarked'[d])
    BY <1>4, <1>6 DEF Alarms!IInv, Alarms!HitsAreNotForgotten
  <2>3. \A d \in missed' \cap Alarms!LevelDirections : Alarms!Armed(d)'
    BY DEF Alarms!IInv, Alarms!HitsAreNotForgotten, Alarms!Armed
  <2> QED
    BY <1>6, <2>1, <2>2, <2>3 DEF Alarms!HitsAreNotForgotten
<1> QED
  BY <1>5, <1>7, <1>8, <1>9

LEMMA MarkFailsKeepsAlarms ==
    ASSUME AlarmConstants, Alarms!IInv, NEW r \in Alarms!Rows, Alarms!MarkFails(r)
    PROVE  Alarms!IInv'
<1>1. /\ watch.node = "mark" /\ watch.read = {r} /\ Alarms!Return(r)
      /\ unmarked' = [unmarked EXCEPT ![r] = unmarked[r] + 1]
      /\ UNCHANGED <<quote, levels, thesis, pushed, missed>>
  BY DEF Alarms!MarkFails
<1>2. /\ Alarms!ScanOK'
      /\ watch'.node # "mark" /\ watch'.read = {} /\ watch'.todo = watch.todo
      /\ watch'.entry = watch.entry
      /\ r = "thesis" => watch.todo = {}
  BY <1>1, ReturnKeepsScan
<1>3. unmarked \in [Alarms!Rows -> 0 .. MaxAlarms]
  BY DEF Alarms!IInv, Alarms!TypeOK
<1>4. unmarked' = [s \in Alarms!Rows |->
                      IF s \in watch.read THEN unmarked[s] + 1 ELSE unmarked[s]]
  BY <1>1, <1>3
<1>5. /\ unmarked' \in [Alarms!Rows -> 0 .. MaxAlarms]
      /\ Alarms!RowsOK' /\ Alarms!MarksOK' /\ Alarms!HitsAreNotForgotten'
  <2>1. "thesis" \notin watch.read \/ "thesis" \notin watch'.todo
    BY <1>1, <1>2
  <2> QED
    BY <1>1, <1>2, <1>4, <2>1, LostMarkKeepsRows
<1>6. Alarms!TypeOK'
  BY <1>1, <1>2, <1>5 DEF Alarms!IInv, Alarms!TypeOK
<1> QED
  BY <1>2, <1>5, <1>6 DEF Alarms!IInv

LEMMA CancelledKeepsAlarms ==
    ASSUME AlarmConstants, Alarms!IInv, Alarms!Cancelled
    PROVE  Alarms!IInv'
<1>1. /\ unmarked' = [s \in Alarms!Rows |->
                         IF s \in watch.read THEN unmarked[s] + 1 ELSE unmarked[s]]
      /\ watch' = Alarms!Quiet
      /\ UNCHANGED <<quote, levels, thesis, pushed, missed>>
  BY DEF Alarms!Cancelled
<1>2. watch'.read = {} /\ watch'.todo = {} /\ watch'.node = "idle"
  BY <1>1 DEF Alarms!Quiet
<1>3. /\ unmarked' \in [Alarms!Rows -> 0 .. MaxAlarms]
      /\ Alarms!RowsOK' /\ Alarms!MarksOK' /\ Alarms!HitsAreNotForgotten'
  BY <1>1, <1>2, LostMarkKeepsRows
<1>4. Alarms!TypeOK'
  BY <1>1, <1>2, <1>3 DEF Alarms!IInv, Alarms!TypeOK
<1>5. Alarms!ScanOK'
  BY <1>1 DEF Alarms!ScanOK, Alarms!Quiet
<1> QED
  BY <1>3, <1>4, <1>5 DEF Alarms!IInv

LEMMA NextKeepsAlarms == AlarmConstants /\ Alarms!IInv /\ [Alarms!Next]_Alarms!alarmVars => Alarms!IInv'
<1> SUFFICES ASSUME AlarmConstants, Alarms!IInv, [Alarms!Next]_Alarms!alarmVars
             PROVE  Alarms!IInv'
  OBVIOUS
<1>1. CASE UNCHANGED Alarms!alarmVars
  <2>1. UNCHANGED <<quote, levels, thesis, pushed, unmarked, missed, watch>>
    BY <1>1 DEF Alarms!alarmVars, Alarms!alarmHistory
  <2> QED
    BY <2>1 DEF Alarms!IInv, Alarms!TypeOK, Alarms!ScanOK, Alarms!RowsOK, Alarms!MarksOK,
       Alarms!HitsAreNotForgotten, Alarms!Armed, Alarms!Quiet
<1>2. CASE Alarms!Next
  BY <1>2, QuoteKeepsAlarms, PredictKeepsAlarms, StartLevelsKeepsAlarms,
     StartThesesKeepsAlarms, CancelledKeepsAlarms, NotHitKeepsAlarms,
     UndeliveredKeepsAlarms, DeliverKeepsAlarms, MarkKeepsAlarms, MarkFailsKeepsAlarms
     DEF Alarms!Next
<1> QED
  BY <1>1, <1>2

(* A level whose hit could not be delivered stays armed, one is switched   *)
(* off only by an alarm that went out, and an alarm is repeated only when  *)
(* its mark was lost, for all prices and numbers of alarms                 *)
(* (scan_price_levels, scan_invalidations).                                *)
THEOREM AlarmsHold ==
    ASSUME AlarmConstants
    PROVE  Alarms!Spec => [](Alarms!TypeOK /\ Alarms!HitsAreNotForgotten)
<1>1. Alarms!Init => Alarms!IInv
  BY InitKeepsAlarms
<1>2. Alarms!IInv /\ [Alarms!Next]_Alarms!alarmVars => Alarms!IInv'
  BY NextKeepsAlarms
<1>3. Alarms!IInv => Alarms!TypeOK /\ Alarms!HitsAreNotForgotten
  BY DEF Alarms!IInv
<1> QED
  BY <1>1, <1>2, <1>3, PTL DEF Alarms!Spec

-----------------------------------------------------------------------------
(* BotPolling.  The batch of the poll whose writes count holds everything  *)
(* the offset is to pass that is not carried out, so no update is lost in  *)
(* a batch that dies, and its order is that of the updates, so the newest  *)
(* change is in force when the offset passes it.                           *)

(* Sets of numbers have a least and, below a bound, a greatest element:    *)
(* the intervals that end, or begin, at an element are ordered by          *)
(* inclusion, which is well-founded on finite sets.                        *)
LEMMA LeastElement ==
    ASSUME NEW S \in SUBSET Nat, S # {}
    PROVE  Bot!Min(S) \in S /\ \A y \in S : Bot!Min(S) <= y
<1> DEFINE T == {0 .. x : x \in S}
<1>1. T \subseteq FiniteSubsetsOf(Nat) /\ T # {}
  <2>1. ASSUME NEW x \in S PROVE 0 .. x \in FiniteSubsetsOf(Nat)
    BY FS_Interval, 0 .. x \subseteq Nat, 0 \in Int, x \in Int DEF FiniteSubsetsOf
  <2> QED
    BY <2>1
<1>2. \E a \in T : \A b \in T : ~ (<<b, a>> \in StrictSubsetOrdering(Nat))
  <2> HIDE DEF T
  <2> QED
    BY <1>1, FS_StrictSubsetOrderingWellFounded, WFMin
<1>3. PICK m \in S : \A y \in S : <<0 .. y, 0 .. m>> \notin StrictSubsetOrdering(Nat)
  BY <1>2
<1>4. \A y \in S : m <= y
  <2> SUFFICES ASSUME NEW y \in S, y < m PROVE FALSE
    OBVIOUS
  <2>1. 0 .. y \subseteq 0 .. m /\ m \in 0 .. m /\ m \notin 0 .. y
    OBVIOUS
  <2>2. 0 .. y \in SUBSET Nat /\ 0 .. m \in SUBSET Nat
    OBVIOUS
  <2> QED
    BY <1>3, <2>1, <2>2 DEF StrictSubsetOrdering
<1> QED
  BY <1>4 DEF Bot!Min

LEMMA GreatestElement ==
    ASSUME NEW n \in Nat, NEW S \in SUBSET (1 .. n), S # {}
    PROVE  Bot!Max(S) \in S /\ \A y \in S : y <= Bot!Max(S)
<1> DEFINE T == {x .. n : x \in S}
<1>1. T \subseteq FiniteSubsetsOf(Nat) /\ T # {}
  <2>1. ASSUME NEW x \in S PROVE x .. n \in FiniteSubsetsOf(Nat)
    BY FS_Interval, x .. n \subseteq Nat, x \in Int, n \in Int DEF FiniteSubsetsOf
  <2> QED
    BY <2>1
<1>2. \E a \in T : \A b \in T : ~ (<<b, a>> \in StrictSubsetOrdering(Nat))
  <2> HIDE DEF T
  <2> QED
    BY <1>1, FS_StrictSubsetOrderingWellFounded, WFMin
<1>3. PICK m \in S : \A y \in S : <<y .. n, m .. n>> \notin StrictSubsetOrdering(Nat)
  BY <1>2
<1>4. \A y \in S : y <= m
  <2> SUFFICES ASSUME NEW y \in S, m < y PROVE FALSE
    OBVIOUS
  <2>1. y .. n \subseteq m .. n /\ m \in m .. n /\ m \notin y .. n
    OBVIOUS
  <2>2. y .. n \in SUBSET Nat /\ m .. n \in SUBSET Nat
    OBVIOUS
  <2> QED
    BY <1>3, <2>1, <2>2 DEF StrictSubsetOrdering
<1>5. \A y \in S : m >= y
  BY <1>4
<1> QED
  BY <1>4, <1>5 DEF Bot!Max

(* What the proofs assume of the constants.                                *)
BotConstants ==
    /\ MaxUpdates \in Nat /\ BatchLimit \in Nat
    /\ None \notin Int /\ None \notin {"applied", "failed"}

(* What a poll fetches: the oldest updates from the offset on, none left   *)
(* out before the last of them.                                            *)
LEMMA BatchIsOldest ==
    ASSUME BotConstants, Bot!TypeOK
    PROVE  /\ Bot!Batch \subseteq Bot!Pending
           /\ Bot!Pending \subseteq kept
           /\ \A i \in Bot!Pending, j \in Bot!Batch : i <= j => i \in Bot!Batch
           /\ Bot!Batch # {} => Bot!Max(Bot!Batch) \in Bot!Batch
                                /\ \A i \in Bot!Batch : i <= Bot!Max(Bot!Batch)
<1>1. Bot!Batch \subseteq Bot!Pending /\ Bot!Pending \subseteq kept
  BY DEF Bot!Batch, Bot!Pending
<1>2. Len(chat) \in Nat /\ kept \subseteq 1 .. Len(chat)
  BY DEF Bot!TypeOK, Bot!Ids
<1>3. ASSUME NEW i \in Bot!Pending, NEW j \in Bot!Batch, i <= j
      PROVE  i \in Bot!Batch
  <2> DEFINE A == {k \in Bot!Pending : k < i}
             B == {k \in Bot!Pending : k < j}
  <2>1. /\ \A k \in Bot!Pending : k \in 1 .. Len(chat) /\ k \in Int
        /\ i \in Int /\ j \in Int /\ j \in Bot!Pending
    BY <1>1, <1>2
  <2>2. A \in SUBSET B /\ B \in SUBSET (1 .. Len(chat))
    <3>1. \A k \in Bot!Pending : k < i => k < j
      BY <1>3, <2>1
    <3> QED
      BY <2>1, <3>1
  <2>3. IsFiniteSet(1 .. Len(chat))
    BY <1>2, FS_Interval
  <2>4. IsFiniteSet(B)
    <3> HIDE DEF B
    <3> QED
      BY <2>2, <2>3, FS_Subset
  <2>5. Cardinality(A) <= Cardinality(B) /\ Cardinality(A) \in Nat /\ Cardinality(B) \in Nat
    <3> HIDE DEF A, B
    <3>1. IsFiniteSet(A) /\ Cardinality(A) <= Cardinality(B)
      BY <2>2, <2>4, FS_Subset
    <3> QED
      BY <2>4, <3>1, FS_CardinalityType
  <2>6. Cardinality(B) < BatchLimit
    <3>1. Bot!Cardinality(B) < BatchLimit
      BY DEF Bot!Batch
    <3> HIDE DEF B
    <3>2. Bot!Cardinality(B) = Cardinality(B)
      BY DEF Bot!Cardinality, Cardinality
    <3> QED
      BY <3>1, <3>2
  <2>7. Bot!Cardinality(A) < BatchLimit
    <3> HIDE DEF A, B
    <3>1. Bot!Cardinality(A) = Cardinality(A)
      BY DEF Bot!Cardinality, Cardinality
    <3> QED
      BY <2>5, <2>6, <3>1 DEF BotConstants
  <2> QED
    BY <2>7 DEF Bot!Batch
<1>4. Bot!Batch # {} => Bot!Max(Bot!Batch) \in Bot!Batch
                        /\ \A i \in Bot!Batch : i <= Bot!Max(Bot!Batch)
  BY <1>1, <1>2, GreatestElement
<1> QED
  BY <1>1, <1>3, <1>4

LEMMA InitKeepsBot == BotConstants /\ Bot!Init => Bot!IInv
<1> SUFFICES ASSUME BotConstants, Bot!Init PROVE Bot!IInv
  OBVIOUS
<1> USE DEF Bot!Init
<1>1. Len(chat) = 0 /\ Bot!Ids = {} /\ chat \in Seq(Bot!Updates) /\ 1 .. Len(chat) = {}
  BY DEF Bot!Ids
<1>2. /\ Bot!Passed = {} /\ Bot!Commands = {} /\ Bot!Changes = {}
      /\ \A r \in Bot!Polls : poll[r] = Bot!Idle /\ poll[r].node = "idle"
      /\ poll["cron"] = Bot!Idle
  BY <1>1 DEF Bot!Passed, Bot!Commands, Bot!Changes, Bot!Polls, Bot!Idle
<1>3. Bot!TypeOK
  <2>1. chat \in Seq(Bot!Updates) /\ Len(chat) <= MaxUpdates
    BY <1>1 DEF BotConstants
  <2>2. done \in [1 .. MaxUpdates -> {None, "applied", "failed"}]
    OBVIOUS
  <2> QED
    BY <1>2, <2>1, <2>2 DEF Bot!TypeOK
<1>4. Bot!PollOK
  BY DEF Bot!PollOK
<1>5. Bot!OffsetOK
  BY <1>2 DEF Bot!OffsetOK
<1>6. Bot!CronOK /\ Bot!ChangesOK /\ Bot!PassedIsDone
  BY <1>1, <1>2 DEF Bot!CronOK, Bot!ChangesOK, Bot!PassedIsDone
<1> QED
  BY <1>3, <1>4, <1>5, <1>6 DEF Bot!IInv

(* What the invariant says of the newest change once the poll is over is   *)
(* what NoCommandLost says of it.                                          *)
LEMMA IInvImpliesNoCommandLost == BotConstants /\ Bot!IInv => Bot!NoCommandLost
<1> SUFFICES ASSUME BotConstants, Bot!IInv PROVE Bot!NoCommandLost
  OBVIOUS
<1> DEFINE last == Bot!Max(Bot!Changes)
<1>1. Len(chat) \in Nat /\ Bot!Changes \in SUBSET (1 .. Len(chat))
  BY DEF Bot!IInv, Bot!TypeOK, Bot!Changes, Bot!Ids
<1>2. Bot!Changes # {} => last \in Bot!Changes /\ \A i \in Bot!Changes : i <= last
  BY <1>1, GreatestElement
<1> HIDE DEF last
<1>3. Bot!Changes # {} /\ poll["cron"] = Bot!Idle =>
         (last \in Bot!Passed \ expired /\ done[last] = "applied"
            => symbol_mute = (chat[last] = "mute"))
  BY <1>2 DEF Bot!IInv, Bot!ChangesOK, Bot!InForce
<1> QED
  BY <1>3 DEF last, Bot!IInv, Bot!NoCommandLost

(* What the invariant says of the numbers and of a poll.                   *)
LEMMA BotNumbers ==
    ASSUME BotConstants, Bot!IInv
    PROVE  /\ Len(chat) \in Nat /\ Len(chat) <= MaxUpdates /\ Bot!Ids = 1 .. Len(chat)
           /\ Bot!Ids \subseteq 1 .. MaxUpdates
           /\ update_offset # None => update_offset \in Nat /\ update_offset <= Len(chat) + 1
           /\ \A r \in Bot!Polls : poll[r] # Bot!Idle =>
                 /\ poll[r].node = "answer" /\ poll[r].todo \subseteq Bot!Ids
                 /\ poll[r].next \in Nat
           /\ "cron" \in Bot!Polls /\ Bot!Idle.node = "idle"
<1>1. Len(chat) \in Nat /\ Len(chat) <= MaxUpdates /\ Bot!Ids = 1 .. Len(chat)
  BY DEF Bot!IInv, Bot!TypeOK, Bot!Ids
<1>2. update_offset # None => update_offset \in Nat /\ update_offset <= Len(chat) + 1
  BY DEF BotConstants, Bot!IInv, Bot!TypeOK, Bot!OffsetOK
<1>3. "cron" \in Bot!Polls /\ Bot!Idle.node = "idle"
  BY DEF Bot!Polls, Bot!Idle
<1>4. ASSUME NEW r \in Bot!Polls, poll[r] # Bot!Idle
      PROVE  /\ poll[r].node = "answer" /\ poll[r].todo \subseteq Bot!Ids
             /\ poll[r].next \in Nat
  <2>1. poll[r] \in Bot!Running
    BY <1>4 DEF Bot!IInv, Bot!PollOK
  <2> QED
    BY <2>1 DEF Bot!Running, BotConstants
<1>5. Bot!Ids \subseteq 1 .. MaxUpdates
  BY <1>1 DEF BotConstants
<1> QED
  BY <1>1, <1>2, <1>3, <1>4, <1>5

(* An update is sent: its number is behind the offset, the batches and     *)
(* what was carried out.                                                   *)
LEMMA SendKeepsBot ==
    ASSUME BotConstants, Bot!IInv, NEW u \in Bot!Updates, Bot!Send(u)
    PROVE  Bot!IInv'
<1> DEFINE n == Len(chat)
<1>1. /\ n < MaxUpdates /\ chat' = Append(chat, u) /\ kept' = kept \cup {n + 1}
      /\ UNCHANGED <<expired, update_offset, symbol_mute, done, poll>>
  BY DEF Bot!Send
<1>2. /\ chat \in Seq(Bot!Updates) /\ n \in Nat /\ kept \subseteq Bot!Ids /\ expired \subseteq Bot!Ids
  BY DEF Bot!IInv, Bot!TypeOK
<1>3. /\ chat' \in Seq(Bot!Updates) /\ Len(chat') = n + 1
      /\ \A i \in 1 .. n : chat'[i] = chat[i]
  BY <1>1, <1>2, AppendProperties
<1>4. /\ Bot!Ids = 1 .. n /\ Bot!Ids' = 1 .. n + 1 /\ n + 1 \in Nat /\ n + 1 <= MaxUpdates
      /\ Bot!Ids \subseteq Bot!Ids' /\ Bot!Ids' \ Bot!Ids = {n + 1}
  BY <1>1, <1>2, <1>3 DEF Bot!Ids, BotConstants
<1>5. done[n + 1] = None
  BY <1>1, <1>2, <1>4 DEF Bot!IInv, Bot!OffsetOK
<1>6. Bot!Passed' = Bot!Passed
  <2>1. update_offset # None => update_offset \in Nat /\ update_offset <= n + 1
    BY BotNumbers
  <2>2. ~ (update_offset # None /\ n + 1 < update_offset)
    BY <1>2, <2>1
  <2> QED
    BY <1>1, <1>4, <2>2 DEF Bot!Passed
<1>7. Bot!Commands \subseteq Bot!Commands' /\ Bot!Commands' \subseteq Bot!Commands \cup {n + 1}
      /\ Bot!Commands \subseteq Bot!Ids
  BY <1>3, <1>4 DEF Bot!Commands
<1>8. Bot!Changes' = Bot!Changes /\ Bot!Changes \subseteq Bot!Ids
  BY <1>1, <1>3, <1>4, <1>5 DEF Bot!Changes
<1>9. Bot!Idle' = Bot!Idle
  BY DEF Bot!Idle
<1>10. Bot!TypeOK'
  BY <1>1, <1>2, <1>3, <1>4 DEF Bot!IInv, Bot!TypeOK
<1>11. Bot!PollOK'
  <2>1. Bot!Running \subseteq Bot!Running'
    BY <1>4 DEF Bot!Running
  <2> QED
    BY <1>1, <1>9, <2>1 DEF Bot!IInv, Bot!PollOK
<1>12. Bot!OffsetOK'
  <2>1. update_offset # None => update_offset <= n + 1 + 1
    BY <1>2, BotNumbers
  <2>2. \A i \in 1 .. MaxUpdates : done[i] # None => i \in Bot!Ids'
    BY <1>4 DEF Bot!IInv, Bot!OffsetOK
  <2>3. \A r \in Bot!Polls : poll[r].node = "answer" => poll[r].todo \subseteq Bot!Commands'
    BY <1>7 DEF Bot!IInv, Bot!OffsetOK
  <2> QED
    BY <1>1, <1>3, <2>1, <2>2, <2>3 DEF Bot!OffsetOK
<1>13. Bot!CronOK'
  <2> SUFFICES ASSUME poll["cron"] # Bot!Idle PROVE Bot!CronOK'
    BY <1>1, <1>9 DEF Bot!CronOK
  <2> DEFINE next == poll["cron"].next
             pending == poll["cron"].todo
  <2>1. next \in Nat /\ next <= n + 1
    BY BotNumbers DEF Bot!IInv, Bot!CronOK
  <2>2. \A i \in Bot!Ids' : Bot!Batched(i)' <=> Bot!Batched(i)
    BY <1>1, <1>2, <1>4, <1>6, <2>1 DEF Bot!Batched
  <2>3. \A i \in Bot!Commands' : Bot!Batched(i)' => i \in Bot!Commands /\ Bot!Batched(i)
    BY <1>2, <1>4, <1>7, <2>1, <2>2 DEF Bot!Batched
  <2>4. next <= n + 1 + 1
    BY <1>2, <2>1
  <2>5. /\ \A i \in pending : i < next
        /\ update_offset # None => update_offset < next /\ \A i \in pending : update_offset <= i
        /\ \A i \in Bot!Commands : Bot!Batched(i) => i \in pending \/ done[i] # None
        /\ \A i \in pending, j \in Bot!Commands : i < j /\ Bot!Batched(j) => j \in pending
    BY DEF Bot!IInv, Bot!CronOK
  <2> QED
    BY <1>1, <1>3, <2>3, <2>4, <2>5 DEF Bot!CronOK
<1>14. Bot!ChangesOK'
  <2>1. \A i \in Bot!Changes : chat'[i] = chat[i]
    BY <1>3, <1>4, <1>8
  <2> QED
    BY <1>1, <1>6, <1>8, <1>9, <2>1 DEF Bot!IInv, Bot!ChangesOK, Bot!InForce
<1>15. Bot!PassedIsDone'
  <2>1. \A i \in (Bot!Passed' \cap Bot!Commands') \ expired' : done'[i] # None
    <3>1. n + 1 \notin Bot!Passed
      BY <1>2, <1>4 DEF Bot!Passed
    <3> QED
      BY <1>1, <1>6, <1>7, <3>1 DEF Bot!IInv, Bot!PassedIsDone
  <2>2. Bot!Ids' \ kept' \subseteq Bot!Passed' \cup expired'
    BY <1>1, <1>4, <1>6 DEF Bot!IInv, Bot!PassedIsDone
  <2> QED
    BY <2>1, <2>2 DEF Bot!PassedIsDone
<1> QED
  BY <1>10, <1>11, <1>12, <1>13, <1>14, <1>15 DEF Bot!IInv

(* Telegram drops its oldest update after a day.                           *)
LEMMA ExpireKeepsBot ==
    ASSUME BotConstants, Bot!IInv, Bot!ExpireOldest
    PROVE  Bot!IInv'
<1> DEFINE gone == Bot!Min(kept)
<1>1. /\ kept # {} /\ kept' = kept \ {gone} /\ expired' = expired \cup {gone}
      /\ UNCHANGED <<chat, update_offset, symbol_mute, done, poll>>
  BY DEF Bot!ExpireOldest
<1>2. kept \subseteq Bot!Ids /\ expired \subseteq Bot!Ids /\ Bot!Ids \subseteq Nat
  BY BotNumbers DEF Bot!IInv, Bot!TypeOK
<1>3. gone \in Bot!Ids
  <2>1. kept \in SUBSET Nat
    BY <1>2
  <2> QED
    BY <1>1, <1>2, <2>1, LeastElement
<1> HIDE DEF gone
<1>4. /\ Bot!Ids' = Bot!Ids /\ Bot!Passed' = Bot!Passed /\ Bot!Commands' = Bot!Commands
      /\ Bot!Changes' = Bot!Changes /\ Bot!Running' = Bot!Running /\ Bot!Idle' = Bot!Idle
  BY <1>1 DEF Bot!Ids, Bot!Passed, Bot!Commands, Bot!Changes, Bot!Running, Bot!Idle
<1>5. Bot!TypeOK' /\ Bot!PollOK'
  BY <1>1, <1>2, <1>3, <1>4 DEF Bot!IInv, Bot!TypeOK, Bot!PollOK
<1>6. Bot!OffsetOK'
  BY <1>1, <1>4 DEF Bot!IInv, Bot!OffsetOK
<1>7. \A i : Bot!Batched(i)' => Bot!Batched(i)
  BY <1>1, <1>4 DEF Bot!Batched
<1>8. Bot!CronOK'
  BY <1>1, <1>4, <1>7 DEF Bot!IInv, Bot!CronOK
<1>9. Bot!ChangesOK'
  BY <1>1, <1>4 DEF Bot!IInv, Bot!ChangesOK, Bot!InForce
<1>10. Bot!PassedIsDone'
  BY <1>1, <1>4 DEF Bot!IInv, Bot!PassedIsDone
<1> QED
  BY <1>5, <1>6, <1>8, <1>9, <1>10 DEF Bot!IInv

(* A batch begins: what it will pass is carried out, expired or in it.     *)
LEMMA FetchKeepsBot ==
    ASSUME BotConstants, Bot!IInv, NEW r \in Bot!Polls, Bot!Fetch(r)
    PROVE  Bot!IInv'
<1> DEFINE next == Bot!Max(Bot!Batch) + 1
           begun == {i \in Bot!Batch : chat[i] # "dropped"}
<1>1. /\ poll[r] = Bot!Idle /\ kept' = Bot!Pending
      /\ poll' = IF Bot!Batch = {} THEN poll
                 ELSE [poll EXCEPT ![r] = [node |-> "answer", todo |-> begun, next |-> next]]
      /\ UNCHANGED <<chat, expired, update_offset, symbol_mute, done>>
  BY DEF Bot!Fetch
<1>2. /\ Len(chat) \in Nat /\ Len(chat) <= MaxUpdates /\ Bot!Ids = 1 .. Len(chat)
      /\ update_offset # None => update_offset \in Nat
      /\ kept \subseteq Bot!Ids /\ Bot!Ids \subseteq Nat
  BY BotNumbers DEF Bot!IInv, Bot!TypeOK
<1>3. /\ Bot!Batch \subseteq Bot!Pending /\ Bot!Pending \subseteq kept
      /\ \A i \in Bot!Pending, j \in Bot!Batch : i <= j => i \in Bot!Batch
      /\ Bot!Batch # {} => Bot!Max(Bot!Batch) \in Bot!Batch
                           /\ \A i \in Bot!Batch : i <= Bot!Max(Bot!Batch)
  BY BatchIsOldest DEF Bot!IInv
<1>4. /\ Bot!Ids' = Bot!Ids /\ Bot!Passed' = Bot!Passed /\ Bot!Commands' = Bot!Commands
      /\ Bot!Changes' = Bot!Changes /\ Bot!Running' = Bot!Running /\ Bot!Idle' = Bot!Idle
  BY <1>1 DEF Bot!Ids, Bot!Passed, Bot!Commands, Bot!Changes, Bot!Running, Bot!Idle
<1>5. Bot!PassedIsDone'
  <2>1. \A i \in kept : i \in Bot!Pending \/ i \in Bot!Passed
    BY <1>2 DEF Bot!Pending, Bot!Passed
  <2> QED
    BY <1>1, <1>4, <2>1 DEF Bot!IInv, Bot!PassedIsDone
<1>6. CASE Bot!Batch = {}
  <2>1. poll' = poll
    BY <1>1, <1>6
  <2>2. Bot!TypeOK' /\ Bot!PollOK'
    BY <1>1, <1>2, <1>3, <1>4, <2>1 DEF Bot!IInv, Bot!TypeOK, Bot!PollOK
  <2>3. Bot!OffsetOK'
    BY <1>1, <1>4, <2>1 DEF Bot!IInv, Bot!OffsetOK
  <2>4. \A i : Bot!Batched(i)' <=> Bot!Batched(i)
    BY <1>1, <1>4, <2>1 DEF Bot!Batched
  <2>5. Bot!CronOK'
    BY <1>1, <1>4, <2>1, <2>4 DEF Bot!IInv, Bot!CronOK
  <2>6. Bot!ChangesOK'
    BY <1>1, <1>4, <2>1 DEF Bot!IInv, Bot!ChangesOK, Bot!InForce
  <2> QED
    BY <1>5, <2>2, <2>3, <2>5, <2>6 DEF Bot!IInv
<1>7. CASE Bot!Batch # {}
  <2>1. next \in 2 .. Len(chat) + 1 /\ \A i \in Bot!Batch : i < next
    <3> DEFINE last == Bot!Max(Bot!Batch)
    <3>1. last \in 1 .. Len(chat) /\ \A i \in Bot!Batch : i \in Nat /\ i <= last
      BY <1>2, <1>3, <1>7
    <3> HIDE DEF last
    <3>2. last + 1 \in 2 .. Len(chat) + 1 /\ \A i \in Bot!Batch : i < last + 1
      BY <1>2, <3>1
    <3> QED
      BY <3>2 DEF last
  <2>2. begun \subseteq Bot!Batch /\ begun \subseteq Bot!Ids /\ begun \subseteq Bot!Commands
    BY <1>2, <1>3 DEF Bot!Commands
  <2>3. \A i \in Bot!Pending : i < next => i \in Bot!Batch
    <3> SUFFICES ASSUME NEW i \in Bot!Pending, i < next PROVE i \in Bot!Batch
      OBVIOUS
    <3>1. i \in Nat /\ Bot!Max(Bot!Batch) \in Nat
      BY <1>2, <1>3, <1>7
    <3>2. i <= Bot!Max(Bot!Batch)
      BY <3>1
    <3> QED
      BY <1>3, <1>7, <3>2
  <2> HIDE DEF next, begun
  <2>4. poll' = [poll EXCEPT ![r] = [node |-> "answer", todo |-> begun, next |-> next]]
    BY <1>1, <1>7
  <2>5. [node |-> "answer", todo |-> begun, next |-> next] \in Bot!Running
    BY <1>2, <2>1, <2>2 DEF Bot!Running, BotConstants
  <2>6. Bot!PollOK'
    BY <1>4, <2>4, <2>5 DEF Bot!IInv, Bot!PollOK
  <2>7. /\ poll'[r] = [node |-> "answer", todo |-> begun, next |-> next]
        /\ \A s \in Bot!Polls \ {r} : poll'[s] = poll[s]
        /\ poll'[r].todo = begun /\ poll'[r].next = next /\ poll'[r].node = "answer"
        /\ poll'[r] # Bot!Idle
    BY <2>4 DEF Bot!IInv, Bot!PollOK, Bot!Idle
  <2>8. Bot!TypeOK'
    <3>1. \A s \in Bot!Polls : poll'[s].node = "idle" \/ poll'[s].next \in 2 .. MaxUpdates + 1
      BY <1>2, <2>1, <2>7 DEF Bot!IInv, Bot!TypeOK, BotConstants
    <3> QED
      BY <1>1, <1>2, <1>3, <1>4, <3>1 DEF Bot!IInv, Bot!TypeOK
  <2>9. Bot!OffsetOK'
    BY <1>1, <1>4, <2>2, <2>7 DEF Bot!IInv, Bot!OffsetOK
  <2>10. CASE r = "cron"
    <3>1. \A i \in Bot!Ids : Bot!Batched(i)' => i \in Bot!Batch
      <4> SUFFICES ASSUME NEW i \in Bot!Ids, Bot!Batched(i)' PROVE i \in Bot!Batch
        OBVIOUS
      <4>1. i \notin Bot!Passed /\ i \notin expired /\ i < next
        BY <1>1, <1>4, <2>7, <2>10 DEF Bot!Batched
      <4>2. i \in kept
        BY <4>1 DEF Bot!IInv, Bot!PassedIsDone
      <4>3. i \in Bot!Pending
        BY <1>2, <4>1, <4>2 DEF Bot!Pending, Bot!Passed
      <4> QED
        BY <2>3, <4>1, <4>3
    <3>2. \A i \in Bot!Commands : Bot!Batched(i)' => i \in begun
      BY <3>1 DEF Bot!Commands, begun
    <3>3. \A i \in Bot!Batch : update_offset # None => update_offset <= i
      BY <1>2, <1>3 DEF Bot!Pending
    <3>4. update_offset # None => update_offset < next
      <4>1. PICK i \in Bot!Batch : TRUE
        BY <1>7
      <4>2. i \in Nat /\ i < next /\ next \in Nat
        BY <1>2, <1>3, <2>1
      <4> QED
        BY <1>2, <3>3, <4>2
    <3>5. Bot!CronOK'
      <4>1. next <= Len(chat') + 1 /\ \A i \in begun : i < next
        BY <1>1, <1>2, <2>1, <2>2
      <4>2. update_offset # None => update_offset < next /\ \A i \in begun : update_offset <= i
        BY <2>2, <3>3, <3>4
      <4>3. poll'["cron"].todo = begun /\ poll'["cron"].next = next
        BY <2>7, <2>10
      <4> QED
        BY <1>1, <1>4, <3>2, <4>1, <4>2, <4>3 DEF Bot!CronOK
    <3>6. Bot!ChangesOK'
      <4> SUFFICES ASSUME NEW i \in Bot!Changes, \A j \in Bot!Changes : j <= i,
                          done[i] = "applied", i \notin expired, i < next, i \notin begun
                   PROVE  Bot!InForce(i)
        BY <1>1, <1>4, <2>7, <2>10 DEF Bot!ChangesOK, Bot!InForce
      <4>1. i \in Bot!Commands
        BY DEF Bot!Changes, Bot!Commands
      <4>2. ~ Bot!Batched(i)'
        BY <3>2, <4>1
      <4>3. i \in Bot!Passed
        BY <1>1, <1>4, <2>7, <2>10, <4>1, <4>2 DEF Bot!Batched, Bot!Commands
      <4> QED
        BY <1>1, <2>10, <4>3 DEF Bot!IInv, Bot!ChangesOK
    <3> QED
      BY <1>5, <2>6, <2>8, <2>9, <3>5, <3>6 DEF Bot!IInv
  <2>11. CASE r # "cron"
    <3>1. poll'["cron"] = poll["cron"]
      BY <2>7, <2>11, BotNumbers
    <3>2. \A i : Bot!Batched(i)' <=> Bot!Batched(i)
      BY <1>1, <1>4, <3>1 DEF Bot!Batched
    <3>3. Bot!CronOK'
      BY <1>1, <1>4, <3>1, <3>2 DEF Bot!IInv, Bot!CronOK
    <3>4. Bot!ChangesOK'
      BY <1>1, <1>4, <3>1 DEF Bot!IInv, Bot!ChangesOK, Bot!InForce
    <3> QED
      BY <1>5, <2>6, <2>8, <2>9, <3>3, <3>4 DEF Bot!IInv
  <2> QED
    BY <2>10, <2>11
<1> QED
  BY <1>6, <1>7

(* The next command of a batch is its oldest one.                          *)
LEMMA OldestIsTaken ==
    ASSUME BotConstants, Bot!IInv, NEW r \in Bot!Polls, NEW i \in Bot!Ids, Bot!Take(r, i)
    PROVE  /\ i \in poll[r].todo /\ \A j \in poll[r].todo : i <= j
           /\ poll[r] # Bot!Idle /\ i \in Bot!Commands
           /\ poll' \in [Bot!Polls -> Bot!Running \cup {Bot!Idle}]
           /\ poll'[r].node = "answer" /\ poll'[r] # Bot!Idle
           /\ poll'[r].todo = poll[r].todo \ {i} /\ poll'[r].next = poll[r].next
           /\ \A s \in Bot!Polls \ {r} : poll'[s] = poll[s]
<1>1. /\ poll[r].node = "answer" /\ poll[r].todo # {} /\ i = Bot!Min(poll[r].todo)
      /\ poll' = [poll EXCEPT ![r].todo = poll[r].todo \ {i}]
  BY DEF Bot!Take
<1>2. poll[r] # Bot!Idle
  BY <1>1 DEF Bot!Idle
<1>3. poll[r] \in Bot!Running /\ poll \in [Bot!Polls -> Bot!Running \cup {Bot!Idle}]
  BY <1>2 DEF Bot!IInv, Bot!PollOK
<1>4. poll[r].todo \in SUBSET Nat
  BY <1>2, BotNumbers
<1>5. i \in poll[r].todo /\ \A j \in poll[r].todo : i <= j
  BY <1>1, <1>4, LeastElement
<1>6. i \in Bot!Commands
  BY <1>1, <1>5 DEF Bot!IInv, Bot!OffsetOK
<1>7. /\ poll'[r] = [poll[r] EXCEPT !.todo = poll[r].todo \ {i}]
      /\ \A s \in Bot!Polls \ {r} : poll'[s] = poll[s]
  BY <1>1, <1>3
<1>8. /\ poll'[r].node = "answer" /\ poll'[r].todo = poll[r].todo \ {i}
      /\ poll'[r].next = poll[r].next /\ poll'[r] \in Bot!Running
  BY <1>3, <1>7 DEF Bot!Running
<1>9. poll'[r] # Bot!Idle
  BY <1>8 DEF Bot!Idle
<1>10. poll' \in [Bot!Polls -> Bot!Running \cup {Bot!Idle}]
  BY <1>1, <1>3, <1>7, <1>8
<1> QED
  BY <1>2, <1>5, <1>6, <1>7, <1>8, <1>9, <1>10

(* A command is carried out, or fails: a change that took effect is newer  *)
(* than all before it in the batch, and one behind it, of an earlier poll, *)
(* will be carried out again.                                              *)
LEMMA AnswerKeepsBot ==
    ASSUME BotConstants, Bot!IInv, NEW r \in Bot!Polls, NEW i \in Bot!Ids,
           Bot!Answer(r, i) \/ Bot!AnswerFails(r, i)
    PROVE  Bot!IInv'
<1>1. /\ Bot!Take(r, i) /\ chat[i] # "unparsable"
      /\ chat' = chat /\ kept' = kept /\ expired' = expired /\ update_offset' = update_offset
  BY DEF Bot!Answer, Bot!AnswerFails, Bot!telegram
<1>2. /\ i \in poll[r].todo /\ \A j \in poll[r].todo : i <= j
      /\ poll[r] # Bot!Idle /\ i \in Bot!Commands
      /\ poll' \in [Bot!Polls -> Bot!Running \cup {Bot!Idle}]
      /\ poll'[r].node = "answer" /\ poll'[r] # Bot!Idle
      /\ poll'[r].todo = poll[r].todo \ {i} /\ poll'[r].next = poll[r].next
      /\ \A s \in Bot!Polls \ {r} : poll'[s] = poll[s]
  BY <1>1, OldestIsTaken
<1>3. /\ Bot!Ids' = Bot!Ids /\ Bot!Passed' = Bot!Passed /\ Bot!Commands' = Bot!Commands
      /\ Bot!Running' = Bot!Running /\ Bot!Idle' = Bot!Idle
  BY <1>1 DEF Bot!Ids, Bot!Passed, Bot!Commands, Bot!Running, Bot!Idle
<1>4. /\ Len(chat) \in Nat /\ Bot!Ids = 1 .. Len(chat) /\ Bot!Ids \subseteq 1 .. MaxUpdates
      /\ Bot!Ids \subseteq Nat /\ done \in [1 .. MaxUpdates -> {None, "applied", "failed"}]
      /\ "cron" \in Bot!Polls
  BY BotNumbers DEF Bot!IInv, Bot!TypeOK
<1>5. PICK outcome \in {"applied", "failed"} :
         /\ done' = IF r = "cron" THEN [done EXCEPT ![i] = outcome] ELSE done
         /\ \/ symbol_mute' = symbol_mute
            \/ r = "cron" /\ chat[i] \in {"mute", "unmute"} /\ symbol_mute' = (chat[i] = "mute")
         /\ outcome = "applied" /\ r = "cron" /\ chat[i] \in {"mute", "unmute"} =>
               symbol_mute' = (chat[i] = "mute")
  <2>1. CASE Bot!Answer(r, i)
    BY <2>1 DEF Bot!Answer, Bot!Outcome, Bot!Writes
  <2>2. CASE Bot!AnswerFails(r, i)
    BY <2>2 DEF Bot!AnswerFails, Bot!Outcome, Bot!Writes
  <2> QED
    BY <2>1, <2>2
<1>6. /\ done' \in [1 .. MaxUpdates -> {None, "applied", "failed"}]
      /\ \A j \in 1 .. MaxUpdates : j # i => done'[j] = done[j]
      /\ \A j \in Bot!Ids : done[j] # None => done'[j] # None
      /\ \A j \in 1 .. MaxUpdates : done'[j] # None => j \in Bot!Ids
  BY <1>4, <1>5 DEF BotConstants, Bot!IInv, Bot!OffsetOK
<1>7. Bot!PollOK'
  BY <1>2, <1>3 DEF Bot!PollOK
<1>8. Bot!TypeOK'
  <2>1. symbol_mute' \in BOOLEAN
    BY <1>5 DEF Bot!IInv, Bot!TypeOK
  <2>2. \A s \in Bot!Polls : poll'[s].node = "idle" \/ poll'[s].next \in 2 .. MaxUpdates + 1
    BY <1>2, <1>3, Bot!Idle.node = "idle" DEF Bot!Running, Bot!Idle
  <2> QED
    BY <1>1, <1>3, <1>6, <2>1, <2>2 DEF Bot!IInv, Bot!TypeOK
<1>9. Bot!OffsetOK'
  <2>1. \A s \in Bot!Polls : poll'[s].node = "answer" => poll'[s].todo \subseteq Bot!Commands
    <3>1. poll[r].node = "answer"
      BY <1>2, BotNumbers
    <3>2. \A s \in Bot!Polls : poll[s].node = "answer" => poll[s].todo \subseteq Bot!Commands
      BY DEF Bot!IInv, Bot!OffsetOK
    <3> QED
      BY <1>2, <3>1, <3>2
  <2> QED
    BY <1>1, <1>3, <1>6, <2>1 DEF Bot!IInv, Bot!OffsetOK
<1>10. Bot!PassedIsDone'
  BY <1>1, <1>3, <1>6 DEF Bot!IInv, Bot!PassedIsDone, Bot!Passed
<1>11. CASE r # "cron"
  <2>1. poll'["cron"] = poll["cron"] /\ done' = done /\ symbol_mute' = symbol_mute
    BY <1>2, <1>4, <1>5, <1>11
  <2>2. \A j : Bot!Batched(j)' <=> Bot!Batched(j)
    BY <1>1, <1>3, <2>1 DEF Bot!Batched
  <2>3. Bot!CronOK'
    BY <1>1, <1>3, <2>1, <2>2 DEF Bot!IInv, Bot!CronOK
  <2>4. Bot!Changes' = Bot!Changes
    BY <1>1, <1>3, <2>1 DEF Bot!Changes
  <2>5. Bot!ChangesOK'
    BY <1>1, <1>3, <2>1, <2>4 DEF Bot!IInv, Bot!ChangesOK, Bot!InForce
  <2> QED
    BY <1>7, <1>8, <1>9, <1>10, <2>3, <2>5 DEF Bot!IInv
<1>12. CASE r = "cron"
  <2> DEFINE pending == poll["cron"].todo
             next == poll["cron"].next
  <2>1. /\ poll["cron"] # Bot!Idle /\ poll'["cron"] # Bot!Idle
        /\ poll'["cron"].todo = pending \ {i} /\ poll'["cron"].next = next
        /\ i \in pending /\ \A j \in pending : i <= j
        /\ pending \subseteq Bot!Ids
        /\ done'[i] = outcome /\ done'[i] # None
    BY <1>2, <1>4, <1>5, <1>12, BotNumbers DEF BotConstants
  <2>2. \A j : Bot!Batched(j)' <=> Bot!Batched(j)
    BY <1>1, <1>3, <2>1 DEF Bot!Batched
  <2>3. /\ next <= Len(chat) + 1
        /\ \A j \in pending : j < next
        /\ update_offset # None => update_offset < next /\ \A j \in pending : update_offset <= j
        /\ \A j \in Bot!Commands : Bot!Batched(j) => j \in pending \/ done[j] # None
        /\ \A j \in pending, k \in Bot!Commands : j < k /\ Bot!Batched(k) => k \in pending
    BY <2>1 DEF Bot!IInv, Bot!CronOK
  <2>4. Bot!CronOK'
    <3>1. \A j \in Bot!Commands : Bot!Batched(j) => j \in pending \ {i} \/ done'[j] # None
      BY <1>6, <2>1, <2>3 DEF Bot!Commands
    <3>2. \A j \in pending \ {i}, k \in Bot!Commands : j < k /\ Bot!Batched(k) => k \in pending \ {i}
      <4> SUFFICES ASSUME NEW j \in pending \ {i}, NEW k \in Bot!Commands, j < k, Bot!Batched(k)
                   PROVE  k \in pending \ {i}
        OBVIOUS
      <4>1. k \in pending
        BY <2>3
      <4>2. i <= j /\ i \in Nat /\ j \in Nat /\ k \in Nat
        BY <1>4, <2>1, <4>1
      <4> QED
        BY <4>1, <4>2
    <3> QED
      BY <1>1, <1>3, <2>1, <2>2, <2>3, <3>1, <3>2 DEF Bot!CronOK
  <2>5. Bot!ChangesOK'
    <3> SUFFICES ASSUME NEW j \in Bot!Changes', \A k \in Bot!Changes' : k <= j,
                        done'[j] = "applied", j \notin expired, j < next, j \notin pending \ {i}
                 PROVE  symbol_mute' = (chat[j] = "mute")
      BY <1>1, <1>3, <2>1 DEF Bot!ChangesOK, Bot!InForce
    <3>1. j \in Bot!Ids /\ chat[j] \in {"mute", "unmute"} /\ done'[j] # None
      BY <1>1, <1>3 DEF Bot!Changes
    <3>2. CASE j = i
      BY <1>5, <1>12, <2>1, <3>1, <3>2
    <3>3. CASE j # i
      <4>1. j \in Bot!Changes /\ done[j] = "applied"
        BY <1>4, <1>6, <3>1, <3>3 DEF BotConstants, Bot!Changes
      <4>2. \A k \in Bot!Changes : k \in Bot!Changes'
        BY <1>1, <1>3, <1>6 DEF Bot!Changes
      <4>3. Bot!InForce(j)
        BY <2>1, <3>3, <4>1, <4>2 DEF Bot!IInv, Bot!ChangesOK
      <4>4. symbol_mute' = symbol_mute
        <5> SUFFICES ASSUME chat[i] \in {"mute", "unmute"} PROVE FALSE
          BY <1>5
        <5>1. i \in Bot!Changes'
          BY <1>1, <1>3, <2>1 DEF Bot!Changes
        <5>2. i < j
          BY <1>4, <3>1, <3>3, <5>1
        <5>3. j \in Bot!Commands /\ j \notin Bot!Passed
          <6>1. update_offset # None => update_offset \in Nat /\ update_offset <= i
            BY <2>1, <2>3, BotNumbers
          <6>2. ~ (update_offset # None /\ j < update_offset)
            BY <1>4, <3>1, <5>2, <6>1
          <6> QED
            BY <3>1, <6>2 DEF Bot!Commands, Bot!Passed
        <5>4. Bot!Batched(j)
          BY <3>1, <5>3 DEF Bot!Batched
        <5>5. j \in pending
          BY <2>1, <2>3, <5>2, <5>3, <5>4
        <5> QED
          BY <3>3, <5>5
      <4> QED
        BY <4>3, <4>4 DEF Bot!InForce
    <3> QED
      BY <3>2, <3>3
  <2> QED
    BY <1>7, <1>8, <1>9, <1>10, <2>4, <2>5 DEF Bot!IInv
<1> QED
  BY <1>11, <1>12

(* A poll ends, with or without its offset.                                *)
LEMMA EndOfPoll ==
    ASSUME BotConstants, Bot!IInv, NEW r \in Bot!Polls,
           poll' = [poll EXCEPT ![r] = Bot!Idle],
           UNCHANGED <<chat, kept, expired, symbol_mute, done>>
    PROVE  /\ Bot!Ids' = Bot!Ids /\ Bot!Commands' = Bot!Commands /\ Bot!Changes' = Bot!Changes
           /\ Bot!Idle' = Bot!Idle /\ Bot!PollOK'
           /\ poll'[r] = Bot!Idle /\ \A s \in Bot!Polls \ {r} : poll'[s] = poll[s]
           /\ \A s \in Bot!Polls : poll'[s].node = "idle" \/ poll'[s].next \in 2 .. MaxUpdates + 1
           /\ \A s \in Bot!Polls : poll'[s].node = "answer" => poll'[s].todo \subseteq Bot!Commands
<1>1. /\ Bot!Ids' = Bot!Ids /\ Bot!Commands' = Bot!Commands /\ Bot!Changes' = Bot!Changes
      /\ Bot!Idle' = Bot!Idle /\ Bot!Running' = Bot!Running /\ Bot!Idle.node = "idle"
  BY DEF Bot!Ids, Bot!Commands, Bot!Changes, Bot!Idle, Bot!Running
<1>2. poll'[r] = Bot!Idle /\ \A s \in Bot!Polls \ {r} : poll'[s] = poll[s]
  BY DEF Bot!IInv, Bot!PollOK
<1>3. Bot!PollOK'
  BY <1>1 DEF Bot!IInv, Bot!PollOK
<1>4. \A s \in Bot!Polls : poll'[s].node = "idle" \/ poll'[s].next \in 2 .. MaxUpdates + 1
  BY <1>1, <1>2 DEF Bot!IInv, Bot!TypeOK
<1>5. \A s \in Bot!Polls : poll'[s].node = "answer" => poll'[s].todo \subseteq Bot!Commands
  BY <1>1, <1>2 DEF Bot!IInv, Bot!OffsetOK
<1> QED
  BY <1>1, <1>2, <1>3, <1>4, <1>5

(* A poll dies: what it was to pass is still to be fetched.                *)
LEMMA DiesKeepsBot ==
    ASSUME BotConstants, Bot!IInv, NEW r \in Bot!Polls,
           poll' = [poll EXCEPT ![r] = Bot!Idle],
           UNCHANGED <<chat, kept, expired, update_offset, symbol_mute, done>>
    PROVE  Bot!IInv'
<1>1. /\ Bot!Ids' = Bot!Ids /\ Bot!Commands' = Bot!Commands /\ Bot!Changes' = Bot!Changes
      /\ Bot!Idle' = Bot!Idle /\ Bot!PollOK'
      /\ poll'[r] = Bot!Idle /\ \A s \in Bot!Polls \ {r} : poll'[s] = poll[s]
      /\ \A s \in Bot!Polls : poll'[s].node = "idle" \/ poll'[s].next \in 2 .. MaxUpdates + 1
      /\ \A s \in Bot!Polls : poll'[s].node = "answer" => poll'[s].todo \subseteq Bot!Commands
  BY EndOfPoll
<1>2. Bot!Passed' = Bot!Passed
  BY <1>1 DEF Bot!Passed
<1>3. Bot!TypeOK'
  BY <1>1 DEF Bot!IInv, Bot!TypeOK
<1>4. Bot!OffsetOK'
  BY <1>1 DEF Bot!IInv, Bot!OffsetOK
<1>5. Bot!PassedIsDone'
  BY <1>1, <1>2 DEF Bot!IInv, Bot!PassedIsDone
<1>6. CASE r # "cron"
  <2>1. poll'["cron"] = poll["cron"]
    BY <1>1, <1>6, BotNumbers
  <2>2. \A j : Bot!Batched(j)' <=> Bot!Batched(j)
    BY <1>1, <1>2, <2>1 DEF Bot!Batched
  <2>3. Bot!CronOK'
    BY <1>1, <2>1, <2>2 DEF Bot!IInv, Bot!CronOK
  <2>4. Bot!ChangesOK'
    BY <1>1, <1>2, <2>1 DEF Bot!IInv, Bot!ChangesOK, Bot!InForce
  <2> QED
    BY <1>1, <1>3, <1>4, <1>5, <2>3, <2>4 DEF Bot!IInv
<1>7. CASE r = "cron"
  <2>1. poll'["cron"] = Bot!Idle
    BY <1>1, <1>7
  <2>2. Bot!CronOK'
    BY <1>1, <2>1 DEF Bot!CronOK
  <2>3. Bot!ChangesOK'
    <3> SUFFICES ASSUME NEW i \in Bot!Changes, \A j \in Bot!Changes : j <= i,
                        done[i] = "applied", i \notin expired, i \in Bot!Passed
                 PROVE  Bot!InForce(i)
      BY <1>1, <1>2, <2>1 DEF Bot!ChangesOK, Bot!InForce
    <3>1. CASE poll["cron"] = Bot!Idle
      BY <3>1 DEF Bot!IInv, Bot!ChangesOK
    <3>2. CASE poll["cron"] # Bot!Idle
      <4>1. /\ update_offset # None /\ i < update_offset /\ update_offset \in Nat /\ i \in Nat
            /\ poll["cron"].next \in Nat /\ poll["cron"].todo \subseteq Nat
        BY <3>2, BotNumbers DEF Bot!Passed
      <4>2. /\ update_offset < poll["cron"].next
            /\ \A j \in poll["cron"].todo : update_offset <= j
        BY <3>2, <4>1 DEF Bot!IInv, Bot!CronOK
      <4>3. i < poll["cron"].next /\ i \notin poll["cron"].todo
        BY <4>1, <4>2
      <4> QED
        BY <3>2, <4>3 DEF Bot!IInv, Bot!ChangesOK
    <3> QED
      BY <3>1, <3>2
  <2> QED
    BY <1>1, <1>3, <1>4, <1>5, <2>2, <2>3 DEF Bot!IInv
<1> QED
  BY <1>6, <1>7

(* The offset moves past the batch, all of which was carried out.          *)
LEMMA SaveOffsetKeepsBot ==
    ASSUME BotConstants, Bot!IInv, Bot!SaveOffset("cron")
    PROVE  Bot!IInv'
<1> DEFINE next == poll["cron"].next
<1>1. /\ poll["cron"].node = "answer" /\ poll["cron"].todo = {} /\ update_offset' = next
      /\ poll' = [poll EXCEPT !["cron"] = Bot!Idle]
      /\ UNCHANGED <<chat, kept, expired, symbol_mute, done>>
  BY DEF Bot!SaveOffset, Bot!Writes, Bot!telegram
<1>2. "cron" \in Bot!Polls
  BY BotNumbers
<1>3. /\ Bot!Ids' = Bot!Ids /\ Bot!Commands' = Bot!Commands /\ Bot!Changes' = Bot!Changes
      /\ Bot!Idle' = Bot!Idle /\ Bot!PollOK'
      /\ poll'["cron"] = Bot!Idle
      /\ \A s \in Bot!Polls : poll'[s].node = "idle" \/ poll'[s].next \in 2 .. MaxUpdates + 1
      /\ \A s \in Bot!Polls : poll'[s].node = "answer" => poll'[s].todo \subseteq Bot!Commands
  BY <1>1, <1>2, EndOfPoll
<1>4. poll["cron"] # Bot!Idle
  BY <1>1 DEF Bot!Idle
<1>5. next \in 2 .. MaxUpdates + 1 /\ next \in Nat /\ next # None
  BY <1>1, <1>2 DEF Bot!IInv, Bot!TypeOK, BotConstants
<1>6. /\ next <= Len(chat) + 1
      /\ update_offset # None => update_offset < next
      /\ \A i \in Bot!Commands : Bot!Batched(i) => done[i] # None
  BY <1>1, <1>4 DEF Bot!IInv, Bot!CronOK
<1>7. Bot!Passed \subseteq Bot!Passed' /\ \A i : i \in Bot!Passed' <=> i \in Bot!Ids /\ i < next
  <2>1. update_offset # None => update_offset \in Nat
    BY BotNumbers
  <2>2. Bot!Ids \subseteq Nat
    BY BotNumbers
  <2>3. \A i : i \in Bot!Passed' <=> i \in Bot!Ids /\ i < next
    BY <1>1, <1>3, <1>5 DEF Bot!Passed
  <2>4. \A i \in Bot!Passed : i \in Bot!Ids /\ i < next
    <3> SUFFICES ASSUME NEW i \in Bot!Passed PROVE i \in Bot!Ids /\ i < next
      OBVIOUS
    <3>1. i \in Bot!Ids /\ update_offset # None /\ i < update_offset
      BY DEF Bot!Passed
    <3>2. i \in Nat /\ update_offset \in Nat /\ next \in Nat /\ update_offset < next
      BY <1>5, <1>6, <2>1, <2>2, <3>1
    <3> HIDE DEF next
    <3> QED
      BY <3>1, <3>2
  <2> QED
    BY <2>3, <2>4
<1>8. Bot!TypeOK'
  BY <1>1, <1>3, <1>5 DEF Bot!IInv, Bot!TypeOK
<1>9. Bot!OffsetOK'
  BY <1>1, <1>3, <1>6 DEF Bot!IInv, Bot!OffsetOK
<1>10. Bot!CronOK'
  BY <1>3 DEF Bot!CronOK
<1>11. Bot!ChangesOK'
  <2>1. ASSUME NEW i \in Bot!Changes, \A j \in Bot!Changes : j <= i,
               done[i] = "applied", i \notin expired, i \in Bot!Passed'
        PROVE  Bot!InForce(i)
    BY <1>1, <1>4, <1>7, <2>1 DEF Bot!IInv, Bot!ChangesOK
  <2> QED
    BY <1>1, <1>3, <2>1 DEF Bot!ChangesOK, Bot!InForce
<1>12. Bot!PassedIsDone'
  <2>1. ASSUME NEW i \in (Bot!Passed' \cap Bot!Commands) \ expired PROVE done[i] # None
    <3>1. CASE i \in Bot!Passed
      BY <2>1, <3>1 DEF Bot!IInv, Bot!PassedIsDone
    <3>2. CASE i \notin Bot!Passed
      <4>1. Bot!Batched(i)
        BY <1>7, <2>1, <3>2 DEF Bot!Batched
      <4> QED
        BY <1>6, <2>1, <4>1
    <3> QED
      BY <3>1, <3>2
  <2>2. Bot!Ids \ kept \subseteq Bot!Passed' \cup expired
    BY <1>7 DEF Bot!IInv, Bot!PassedIsDone
  <2> QED
    BY <1>1, <1>3, <2>1, <2>2 DEF Bot!PassedIsDone
<1> QED
  BY <1>3, <1>8, <1>9, <1>10, <1>11, <1>12 DEF Bot!IInv

LEMMA NextKeepsBot == BotConstants /\ Bot!IInv /\ [Bot!Next]_Bot!botVars => Bot!IInv'
<1> SUFFICES ASSUME BotConstants, Bot!IInv, [Bot!Next]_Bot!botVars PROVE Bot!IInv'
  OBVIOUS
<1>1. CASE UNCHANGED Bot!botVars
  <2>1. UNCHANGED <<chat, kept, expired, update_offset, symbol_mute, done, poll>>
    BY <1>1 DEF Bot!botVars, Bot!telegram
  <2> QED
    BY <2>1 DEF Bot!IInv, Bot!TypeOK, Bot!PollOK, Bot!OffsetOK, Bot!CronOK, Bot!ChangesOK,
       Bot!PassedIsDone, Bot!Ids, Bot!Passed, Bot!Commands, Bot!Changes, Bot!Running,
       Bot!Idle, Bot!InForce, Bot!Batched
<1>2. ASSUME NEW r \in Bot!Polls, Bot!Dies(r) PROVE Bot!IInv'
  BY <1>2, DiesKeepsBot DEF Bot!Dies, Bot!telegram
<1>3. ASSUME NEW r \in Bot!Polls, Bot!SaveOffset(r) PROVE Bot!IInv'
  <2>1. CASE r = "cron"
    BY <1>3, <2>1, SaveOffsetKeepsBot
  <2>2. CASE r # "cron"
    BY <1>3, <2>2, DiesKeepsBot DEF Bot!SaveOffset, Bot!Writes, Bot!telegram
  <2> QED
    BY <2>1, <2>2
<1>4. CASE Bot!Next
  BY <1>2, <1>3, <1>4, SendKeepsBot, ExpireKeepsBot, FetchKeepsBot, AnswerKeepsBot
     DEF Bot!Next
<1> QED
  BY <1>1, <1>4

(* No command is lost and the newest change that was carried out holds,    *)
(* for any number of updates, any size of a batch and any runs that die or *)
(* overlap (TelegramCommandSource.fetch_messages).               *)
THEOREM CommandsAreKept ==
    ASSUME BotConstants
    PROVE  Bot!Spec => [](Bot!TypeOK /\ Bot!NoCommandLost)
<1>1. Bot!Init => Bot!IInv
  BY InitKeepsBot
<1>2. Bot!IInv /\ [Bot!Next]_Bot!botVars => Bot!IInv'
  BY NextKeepsBot
<1>3. Bot!IInv => Bot!TypeOK /\ Bot!NoCommandLost
  BY IInvImpliesNoCommandLost DEF Bot!IInv
<1> QED
  BY <1>1, <1>2, <1>3, PTL DEF Bot!Spec

-----------------------------------------------------------------------------
(* ShockWatch.  What a run of a day without losses has read is what the    *)
(* table holds of that day until it writes its own row, so that its push   *)
(* is the first of the day or climbs from the one row there is.            *)

(* What the proofs assume of the constants.                                *)
WatchConstants ==
    /\ Configs \subseteq [kind : {"stock", "crypto"}, held : BOOLEAN, ladder : BOOLEAN,
                          horizon : Nat, pushes : Nat, trades : Nat]
    /\ \A c \in Configs : c.horizon >= Watch!Noon
    /\ Prices \subseteq Int /\ FirstPrices \subseteq Prices
    /\ None \notin Watch!ToRecord(Nat) \cup Watch!WatchRuns(Nat, Nat)

LEMMA WatchCounts ==
    \A S : /\ Watch!IsFiniteSet(S) <=> IsFiniteSet(S)
           /\ Watch!Cardinality(S) = Cardinality(S)
BY DEF Watch!IsFiniteSet, IsFiniteSet, Watch!Cardinality, Cardinality

LEMMA Quarters ==
    \A t \in Nat : /\ Watch!Day(t) \in Nat
                   /\ 4 * Watch!Day(t) <= t /\ t <= 4 * Watch!Day(t) + 3
                   /\ Watch!InSession(t) <=> t >= 4 * Watch!Day(t) + 2
                   /\ Watch!Midnight(t) = 4 * Watch!Day(t) - 1
BY DEF Watch!Day, Watch!InSession, Watch!Midnight, Watch!QuartersPerDay

(* Times and days of one configuration.                                    *)
LEMMA Calendar ==
    ASSUME WatchConstants, conf \in Configs
    PROVE  /\ Watch!Times \subseteq Nat /\ Watch!Days \subseteq Nat
           /\ \A t : t \in Watch!Times <=> t \in Nat /\ 2 <= t /\ t <= conf.horizon
           /\ \A t \in Watch!Times : Watch!Day(t) \in Watch!Days
           /\ 2 <= conf.horizon
           /\ conf.horizon \in Nat /\ conf.pushes \in Nat /\ conf.trades \in Nat
           /\ conf.kind \in {"stock", "crypto"} /\ conf.held \in BOOLEAN /\ conf.ladder \in BOOLEAN
<1>1. /\ conf.horizon \in Nat /\ conf.pushes \in Nat /\ conf.trades \in Nat /\ 2 <= conf.horizon
      /\ conf.kind \in {"stock", "crypto"} /\ conf.held \in BOOLEAN /\ conf.ladder \in BOOLEAN
  BY DEF WatchConstants, Watch!Noon
<1>2. Watch!Times \subseteq Nat
      /\ \A t : t \in Watch!Times <=> t \in Nat /\ 2 <= t /\ t <= conf.horizon
  BY <1>1 DEF Watch!Times, Watch!Noon
<1>3. Watch!Days \subseteq Nat /\ \A t \in Watch!Times : Watch!Day(t) \in Watch!Days
  BY <1>2, Quarters DEF Watch!Days
<1> QED
  BY <1>1, <1>2, <1>3

(* The same times and sets for every state of a behaviour.                 *)
LEMMA SameCalendar ==
    ASSUME conf' = conf
    PROVE  /\ Watch!Times' = Watch!Times /\ Watch!Days' = Watch!Days
           /\ Watch!Rows' = Watch!Rows /\ Watch!Pushes' = Watch!Pushes
BY DEF Watch!Times, Watch!Days, Watch!Rows, Watch!Pushes

(* A run of one configuration is no model value.                           *)
LEMMA RunIsSome ==
    ASSUME WatchConstants, conf \in Configs,
           NEW r \in Watch!WatchRuns(Watch!Times, Watch!Days)
    PROVE  r # None
<1>1. r \in Watch!WatchRuns(Nat, Nat)
  BY Calendar DEF Watch!WatchRuns, Watch!ToRecord
<1> QED
  BY <1>1 DEF WatchConstants

LEMMA RecordIsSome ==
    ASSUME WatchConstants, conf \in Configs, NEW r \in Watch!ToRecord(Watch!Days)
    PROVE  r # None
<1>1. r \in Watch!ToRecord(Nat)
  BY Calendar DEF Watch!ToRecord
<1> QED
  BY <1>1 DEF WatchConstants

LEMMA InitKeepsWatch == WatchConstants /\ Watch!Init => Watch!IInv
<1> SUFFICES ASSUME WatchConstants, Watch!Init PROVE Watch!IInv
  OBVIOUS
<1>1. /\ conf \in Configs /\ time = 2 /\ price \in FirstPrices /\ trades = 0
      /\ past = [i \in 1 .. 6 |-> price] /\ snapshot = None /\ alerts = {} /\ log = <<>>
      /\ faulty = {} /\ run = None
  BY DEF Watch!Init, Watch!Noon
<1>2. Watch!TypeOK
  <2>1. price \in Prices /\ past \in [1 .. 6 -> Prices] /\ trades \in 0 .. conf.trades
    BY <1>1, Calendar DEF WatchConstants
  <2>2. time \in Watch!Times /\ conf.pushes \in Nat
    BY <1>1, Calendar
  <2> QED
    BY <1>1, <2>1, <2>2 DEF Watch!TypeOK
<1>3. Watch!RunOK /\ Watch!RunKnows /\ Watch!PushInHand
  BY <1>1 DEF Watch!RunOK, Watch!RunKnows, Watch!PushInHand, Watch!At
<1>4. Watch!TableOK
  BY <1>1, FS_EmptySet, WatchCounts DEF Watch!TableOK
<1>5. Watch!PushesRecorded /\ Watch!PushesDated /\ Watch!LadderClimbs
      /\ Watch!RepeatedOnlyFromSnapshot
  BY <1>1 DEF Watch!PushesRecorded, Watch!PushesDated, Watch!LadderClimbs,
              Watch!RepeatedOnlyFromSnapshot
<1>6. Watch!RowsMatchPushes
  <2>1. \A key, date : /\ Watch!Sent(key, date) = {}
                       /\ Watch!Recorded(key, date) = {}
                       /\ ~ Watch!Pending(key, date)
    BY <1>1 DEF Watch!Sent, Watch!Recorded, Watch!Pending, Watch!At
  <2>2. Cardinality({}) = 0
    BY FS_EmptySet
  <2>3. Watch!Cardinality({}) = 0
    BY <2>2, WatchCounts
  <2> SUFFICES ASSUME NEW key, NEW date
               PROVE  Watch!Cardinality(Watch!Sent(key, date)) =
                         Watch!Cardinality(Watch!Recorded(key, date))
                         + (IF Watch!Pending(key, date) THEN 1 ELSE 0)
    BY <1>1 DEF Watch!RowsMatchPushes
  <2> QED
    BY <2>1, <2>3
<1> QED
  BY <1>2, <1>3, <1>4, <1>5, <1>6 DEF Watch!IInv

-----------------------------------------------------------------------------
(* A step that tells nothing and writes no row: a push in hand stays so,   *)
(* or the day counts as lost.                                              *)
LEMMA NothingTold ==
    ASSUME WatchConstants, Watch!IInv,
           conf' = conf, alerts' = alerts, log' = log, faulty \subseteq faulty',
           IF Watch!At("persist")
              THEN run' = run \/ (~ Watch!At("persist")' /\ Watch!Today \in faulty')
              ELSE ~ Watch!At("persist")'
    PROVE  /\ Watch!TableOK' /\ Watch!PushesRecorded' /\ Watch!PushesDated'
           /\ Watch!RowsMatchPushes' /\ Watch!LadderClimbs'
           /\ Watch!RepeatedOnlyFromSnapshot'
<1> USE DEF Watch!IInv
<1>1. Watch!TableOK' /\ Watch!PushesDated'
  BY DEF Watch!TableOK, Watch!PushesDated
<1>2. Watch!LadderClimbs'
  BY DEF Watch!LadderClimbs
<1>3. Watch!RepeatedOnlyFromSnapshot'
  BY DEF Watch!RepeatedOnlyFromSnapshot
<1>4. \A key, date : date \notin faulty' =>
         (Watch!Pending(key, date)' <=> Watch!Pending(key, date))
  BY DEF Watch!Pending, Watch!At, Watch!RunOK
<1>5. Watch!PushesRecorded'
  <2> SUFFICES ASSUME NEW i \in DOMAIN log, log[i].date \notin faulty'
               PROVE  \/ Watch!At("persist")' /\ i = Len(log)
                      \/ \E r \in alerts : Watch!Tells(log[i], r) /\ r.created_at >= log[i].until
    BY DEF Watch!PushesRecorded, Watch!Tells
  <2>1. \/ Watch!At("persist") /\ i = Len(log)
        \/ \E r \in alerts : Watch!Tells(log[i], r) /\ r.created_at >= log[i].until
    BY DEF Watch!PushesRecorded
  <2>2. CASE Watch!At("persist") /\ i = Len(log)
    <3>1. log[i].date = Watch!Today
      BY <2>2 DEF Watch!PushInHand, Watch!Tells, Watch!RunOK, Watch!At
    <3>2. run' = run
      BY <2>2, <3>1
    <3> QED
      BY <2>2, <3>2 DEF Watch!At
  <2> QED
    BY <2>1, <2>2
<1>6. Watch!RowsMatchPushes'
  <2>1. \A key, date : Watch!Sent(key, date)' = Watch!Sent(key, date)
    BY DEF Watch!Sent
  <2>2. Watch!Days' = Watch!Days
    BY SameCalendar
  <2> QED
    BY <1>4, <2>1, <2>2 DEF Watch!RowsMatchPushes, Watch!Recorded
<1> QED
  BY <1>1, <1>2, <1>3, <1>5, <1>6

LEMMA SentAreCounted ==
    ASSUME Watch!TypeOK, NEW key, NEW date
    PROVE  IsFiniteSet(Watch!Sent(key, date)) /\ Cardinality(Watch!Sent(key, date)) \in Nat
<1>1. Watch!Sent(key, date) \subseteq 1 .. Len(log)
  BY DEF Watch!Sent, Watch!TypeOK
<1>2. IsFiniteSet(1 .. Len(log))
  BY FS_Interval DEF Watch!TypeOK
<1>3. IsFiniteSet(Watch!Sent(key, date))
  BY <1>1, <1>2, FS_Subset
<1> QED
  BY <1>3, FS_CardinalityType

LEMMA RowsAreCounted ==
    ASSUME Watch!TableOK, NEW key, NEW date
    PROVE  /\ IsFiniteSet(Watch!Recorded(key, date))
           /\ Watch!Cardinality(Watch!Recorded(key, date)) \in Nat
<1> DEFINE S == Watch!Recorded(key, date)
<1>1. IsFiniteSet(alerts)
  BY WatchCounts DEF Watch!TableOK
<1>2. S \subseteq alerts
  BY DEF Watch!Recorded
<1> HIDE DEF S
<1>3. IsFiniteSet(S)
  BY <1>1, <1>2, FS_Subset
<1>4. Watch!Cardinality(S) \in Nat
  BY <1>3, FS_CardinalityType, WatchCounts
<1> QED
  BY <1>3, <1>4 DEF S

LEMMA PushAppended ==
    ASSUME NEW S, NEW before \in Seq(S), NEW p \in S, NEW after, after = Append(before, p)
    PROVE  /\ Len(before) \in Nat
           /\ DOMAIN before = 1 .. Len(before) /\ DOMAIN after = 1 .. Len(before) + 1
           /\ Len(after) = Len(before) + 1 /\ after # <<>>
           /\ \A i \in DOMAIN before : after[i] = before[i]
           /\ after[Len(before) + 1] = p
OBVIOUS

(* A push goes into the log and stays in hand.  It climbs on a day without *)
(* losses, and the first of a day measures a move that began after those   *)
(* told on other days had ended, unless it comes from a snapshot.          *)
LEMMA PushTold ==
    ASSUME WatchConstants, Watch!IInv, run # None, ~ Watch!At("persist"),
           NEW p \in Watch!Pushes, log' = Append(log, p),
           conf' = conf, alerts' = alerts, faulty' = faulty, time' = time,
           Watch!At("persist")', Watch!Tells(p, run'.pushed),
           run'.moment = run.moment, p.moment = run.moment, p.date = Watch!Today,
           p.until <= time,
           conf.kind = "stock" /\ p.key = "symbol" =>
              /\ Watch!Day(p.until) <= p.date
              /\ p.basis = "daily" => p.since = Watch!QuartersPerDay * p.date - 1,
           p.level = 2 => \E r \in alerts : r.key = p.key /\ r.date = p.date /\ r.level = 1,
           Watch!Today \notin faulty =>
              \A r \in alerts : r.key = p.key /\ r.date = p.date =>
                 /\ p.key = "symbol" /\ r.level = 1 /\ p.level = 2
                 /\ p.direction # r.direction \/ p.double,
           Watch!Today \notin faulty /\ p.key = "symbol" /\ p.level = 1 /\ p.basis # "snapshot" =>
              \A i \in DOMAIN log :
                 log[i].key = "symbol" /\ log[i].date < p.date /\ log[i].date \notin faulty =>
                    log[i].until <= p.since
    PROVE  /\ Watch!PushInHand' /\ Watch!TableOK' /\ Watch!PushesRecorded'
           /\ Watch!PushesDated' /\ Watch!RowsMatchPushes' /\ Watch!LadderClimbs'
           /\ Watch!RepeatedOnlyFromSnapshot'
<1>0. /\ log \in Seq(Watch!Pushes)
      /\ Len(log) \in Nat
      /\ DOMAIN log = 1 .. Len(log) /\ DOMAIN log' = 1 .. Len(log) + 1
      /\ Len(log') = Len(log) + 1 /\ log' # <<>>
      /\ \A i \in DOMAIN log : log'[i] = log[i]
      /\ log'[Len(log) + 1] = p
  <2>1. log \in Seq(Watch!Pushes)
    BY DEF Watch!IInv, Watch!TypeOK
  <2> QED
    BY <2>1, PushAppended
<1> DEFINE new == Len(log) + 1
<1>1. \A i \in DOMAIN log' : i \in DOMAIN log \/ i = new
  BY <1>0
<1>2. \A i \in DOMAIN log : log[i].date \notin faulty =>
         \E r \in alerts : Watch!Tells(log[i], r) /\ r.created_at >= log[i].until
  BY DEF Watch!IInv, Watch!PushesRecorded
<1>3. run'.pushed.date = p.date /\ run'.pushed.key = p.key /\ run'.pushed.level = p.level
  BY DEF Watch!Tells
<1>4. Watch!PushInHand'
  <2>1. Watch!Today' = Watch!Today
    BY DEF Watch!Today
  <2> QED
    BY <1>0, <1>3, <2>1 DEF Watch!PushInHand, Watch!Tells
<1>5. Watch!TableOK'
  BY DEF Watch!IInv, Watch!TableOK
<1>6. Watch!PushesRecorded'
  BY <1>0, <1>1, <1>2 DEF Watch!PushesRecorded, Watch!Tells
<1>7. Watch!PushesDated'
  BY <1>0, <1>1 DEF Watch!IInv, Watch!PushesDated, Watch!Today
<1>8. Watch!LadderClimbs'
  <2> SUFFICES ASSUME NEW i \in DOMAIN log', NEW j \in DOMAIN log', i < j,
                      log'[i].key = log'[j].key, log'[i].date = log'[j].date,
                      log'[i].date \notin faulty
               PROVE  /\ log'[j].key = "symbol"
                      /\ log'[i].level = 1 /\ log'[j].level = 2
                      /\ log'[j].direction # log'[i].direction \/ log'[j].double
    BY DEF Watch!LadderClimbs
  <2>1. i \in DOMAIN log /\ (j \in DOMAIN log \/ j = new)
    BY <1>0
  <2>2. CASE j \in DOMAIN log
    BY <1>0, <2>1, <2>2 DEF Watch!IInv, Watch!LadderClimbs
  <2>3. CASE j = new
    <3>1. PICK r \in alerts : Watch!Tells(log[i], r)
      BY <1>0, <1>2, <2>1
    <3> QED
      BY <1>0, <2>1, <2>3, <3>1 DEF Watch!Tells
  <2> QED
    BY <2>1, <2>2, <2>3
<1>9. Watch!RepeatedOnlyFromSnapshot'
  <2> SUFFICES ASSUME NEW i \in DOMAIN log', NEW j \in DOMAIN log', i < j,
                      log'[i].key = "symbol", log'[j].key = "symbol",
                      log'[i].date < log'[j].date, log'[j].level = 1,
                      {log'[i].date, log'[j].date} \cap faulty = {}
               PROVE  log'[j].basis = "snapshot" \/ log'[i].until <= log'[j].since
    BY DEF Watch!RepeatedOnlyFromSnapshot
  <2>1. i \in DOMAIN log /\ (j \in DOMAIN log \/ j = new)
    BY <1>0
  <2>2. CASE j \in DOMAIN log
    BY <1>0, <2>1, <2>2 DEF Watch!IInv, Watch!RepeatedOnlyFromSnapshot
  <2>3. CASE j = new
    <3>1. log'[i] = log[i] /\ log'[j] = p
      BY <1>0, <2>1, <2>3
    <3>2. log[i].date \notin faulty /\ p.date \notin faulty
      BY <3>1
    <3> QED
      BY <2>1, <3>1, <3>2
  <2> QED
    BY <2>1, <2>2, <2>3
<1>10. Watch!RowsMatchPushes'
  <2>1. \A key, date : Watch!Sent(key, date)' =
           IF p.key = key /\ p.date = date THEN Watch!Sent(key, date) \cup {new}
                                          ELSE Watch!Sent(key, date)
    BY <1>0, <1>1 DEF Watch!Sent
  <2>2. \A r \in alerts : \E i \in Watch!Sent(r.key, r.date)' :
           log'[i].level = r.level /\ log'[i].direction = r.direction
    <3> SUFFICES ASSUME NEW r \in alerts
                 PROVE  \E i \in Watch!Sent(r.key, r.date)' :
                           log'[i].level = r.level /\ log'[i].direction = r.direction
      OBVIOUS
    <3>1. PICK i \in Watch!Sent(r.key, r.date) :
             log[i].level = r.level /\ log[i].direction = r.direction
      BY DEF Watch!IInv, Watch!RowsMatchPushes
    <3>2. i \in DOMAIN log /\ i \in Watch!Sent(r.key, r.date)'
      BY <2>1, <3>1 DEF Watch!Sent
    <3> QED
      BY <1>0, <3>1, <3>2
  <2>3. \A key, date : ~ Watch!Pending(key, date)
                       /\ (Watch!Pending(key, date)' <=> p.key = key /\ p.date = date)
    BY <1>3 DEF Watch!Pending
  <2>4. ASSUME NEW key \in Watch!Work, NEW date \in Watch!Days \ faulty
        PROVE  Watch!Cardinality(Watch!Sent(key, date)') =
                  Watch!Cardinality(Watch!Recorded(key, date))
                  + (IF Watch!Pending(key, date)' THEN 1 ELSE 0)
    <3>1. Watch!Cardinality(Watch!Sent(key, date)) =
                  Watch!Cardinality(Watch!Recorded(key, date))
      <4>1. Watch!Cardinality(Watch!Sent(key, date)) =
                  Watch!Cardinality(Watch!Recorded(key, date))
                     + (IF Watch!Pending(key, date) THEN 1 ELSE 0)
        BY DEF Watch!IInv, Watch!RowsMatchPushes
      <4>2. Watch!Cardinality(Watch!Recorded(key, date)) \in Nat
        BY RowsAreCounted DEF Watch!IInv
      <4> QED
        BY <2>3, <4>1, <4>2
    <3>2. CASE p.key = key /\ p.date = date
      <4>1. Watch!Sent(key, date)' = Watch!Sent(key, date) \cup {new}
        BY <2>1, <3>2
      <4>2. new \notin Watch!Sent(key, date)
        BY <1>0 DEF Watch!Sent
      <4>3. Cardinality(Watch!Sent(key, date)') = Cardinality(Watch!Sent(key, date)) + 1
        <5>1. IsFiniteSet(Watch!Sent(key, date))
          BY SentAreCounted DEF Watch!IInv
        <5> HIDE DEF new
        <5>2. Cardinality(Watch!Sent(key, date) \cup {new}) = Cardinality(Watch!Sent(key, date)) + 1
          BY <4>2, <5>1, FS_AddElement
        <5> QED
          BY <4>1, <5>2
      <4>4. Watch!Cardinality(Watch!Sent(key, date)') = Watch!Cardinality(Watch!Sent(key, date)) + 1
        BY <4>3, WatchCounts
      <4>5. Watch!Pending(key, date)'
        BY <2>3, <3>2
      <4> QED
        BY <3>1, <4>4, <4>5
    <3>3. CASE ~ (p.key = key /\ p.date = date)
      <4>1. Watch!Cardinality(Watch!Recorded(key, date)) \in Nat
        BY RowsAreCounted DEF Watch!IInv
      <4>2. Watch!Sent(key, date)' = Watch!Sent(key, date) /\ ~ Watch!Pending(key, date)'
        BY <2>1, <2>3, <3>3
      <4> QED
        BY <3>1, <4>1, <4>2
    <3> QED
      BY <3>2, <3>3
  <2>5. /\ Watch!Days' = Watch!Days
        /\ \A key, date : Watch!Recorded(key, date)' = Watch!Recorded(key, date)
    BY SameCalendar DEF Watch!Recorded
  <2> QED
    BY <2>2, <2>4, <2>5 DEF Watch!RowsMatchPushes
<1> QED
  BY <1>4, <1>5, <1>6, <1>7, <1>8, <1>9, <1>10

(* The row of the push in hand is written, unless its rung has one.        *)
LEMMA RowWritten ==
    ASSUME WatchConstants, Watch!IInv, Watch!At("persist"), ~ Watch!At("persist")',
           NEW row, Watch!Tells(run.pushed, row), row.created_at = time,
           alerts' = IF Watch!Collides(run.pushed) THEN alerts ELSE alerts \cup {row},
           conf' = conf, log' = log, faulty' = faulty
    PROVE  /\ Watch!TableOK' /\ Watch!PushesRecorded' /\ Watch!PushesDated'
           /\ Watch!RowsMatchPushes' /\ Watch!LadderClimbs'
           /\ Watch!RepeatedOnlyFromSnapshot'
<1>1. Watch!PushesDated' /\ Watch!LadderClimbs' /\ Watch!RepeatedOnlyFromSnapshot'
  BY DEF Watch!IInv, Watch!PushesDated, Watch!LadderClimbs, Watch!RepeatedOnlyFromSnapshot
<1>2. /\ row.key = run.pushed.key /\ row.date = run.pushed.date
      /\ row.level = run.pushed.level /\ row.direction = run.pushed.direction
      /\ run # None /\ run.pushed.date = Watch!Today
  BY DEF Watch!Tells, Watch!IInv, Watch!RunOK, Watch!At
<1>3. /\ log # <<>> /\ log[Len(log)].until <= time
      /\ Watch!Tells(log[Len(log)], run.pushed)
  BY DEF Watch!IInv, Watch!PushInHand
<1>4. /\ alerts \subseteq alerts'
      /\ ~ Watch!Collides(run.pushed) => row \in alerts' /\ row \notin alerts
      /\ \A r \in alerts' : r \in alerts \/ (r = row /\ ~ Watch!Collides(run.pushed))
      /\ run.pushed.date \notin faulty => ~ Watch!Collides(run.pushed)
  <2>1. run.pushed.date \notin faulty => ~ Watch!Collides(run.pushed)
    BY <1>2 DEF Watch!IInv, Watch!RunKnows
  <2> QED
    BY <1>2, <2>1 DEF Watch!Collides
<1>5. Watch!TableOK'
  <2>1. IsFiniteSet(alerts')
    <3>1. IsFiniteSet(alerts)
      BY WatchCounts DEF Watch!IInv, Watch!TableOK
    <3> QED
      BY <3>1, FS_AddElement
  <2>2. \A q, r \in alerts' : q.key = r.key /\ q.date = r.date /\ q.level = r.level => q = r
    BY <1>2, <1>4 DEF Watch!IInv, Watch!TableOK, Watch!Collides
  <2>3. \A r \in alerts' : r.level = 2 =>
           \E q \in alerts' : q.key = r.key /\ q.date = r.date /\ q.level = 1
    BY <1>2, <1>4 DEF Watch!IInv, Watch!TableOK, Watch!PushInHand
  <2> QED
    BY <2>1, <2>2, <2>3, WatchCounts DEF Watch!TableOK
<1>6. Watch!PushesRecorded'
  <2> SUFFICES ASSUME NEW i \in DOMAIN log, log[i].date \notin faulty
               PROVE  \E r \in alerts' : Watch!Tells(log[i], r) /\ r.created_at >= log[i].until
    BY DEF Watch!PushesRecorded, Watch!Tells
  <2>1. CASE i = Len(log)
    <3>1. Watch!Tells(log[i], row) /\ log[i].date = run.pushed.date /\ row.created_at = time
      BY <1>2, <1>3, <2>1 DEF Watch!Tells
    <3>2. row \in alerts'
      BY <1>4, <3>1
    <3>3. row.created_at >= log[i].until
      <4>1. log[i] \in Watch!Pushes
        BY DEF Watch!IInv, Watch!TypeOK
      <4>2. log[i].until \in Nat /\ time \in Nat
        BY <4>1, Calendar DEF Watch!Pushes, Watch!IInv, Watch!TypeOK
      <4> QED
        BY <1>3, <2>1, <3>1, <4>2
    <3> QED
      BY <3>1, <3>2, <3>3
  <2>2. CASE i # Len(log)
    BY <1>4, <2>2 DEF Watch!IInv, Watch!PushesRecorded
  <2> QED
    BY <2>1, <2>2
<1>7. Watch!RowsMatchPushes'
  <2>1. \A key, date : Watch!Sent(key, date)' = Watch!Sent(key, date)
    BY DEF Watch!Sent
  <2>2. \A r \in alerts' : \E i \in Watch!Sent(r.key, r.date) :
           log[i].level = r.level /\ log[i].direction = r.direction
    <3> SUFFICES ASSUME NEW r \in alerts'
                 PROVE  \E i \in Watch!Sent(r.key, r.date) :
                           log[i].level = r.level /\ log[i].direction = r.direction
      OBVIOUS
    <3>1. CASE r \in alerts
      BY <3>1 DEF Watch!IInv, Watch!RowsMatchPushes
    <3>2. CASE r = row
      <4>1. Len(log) \in DOMAIN log
        BY <1>3 DEF Watch!IInv, Watch!TypeOK
      <4> QED
        BY <1>2, <1>3, <3>2, <4>1 DEF Watch!Sent, Watch!Tells
    <3> QED
      BY <1>4, <3>1, <3>2
  <2>3. \A key, date : ~ Watch!Pending(key, date)'
                       /\ (Watch!Pending(key, date) <=> run.pushed.key = key /\ run.pushed.date = date)
    BY DEF Watch!Pending
  <2>4. ASSUME NEW key \in Watch!Work, NEW date \in Watch!Days \ faulty
        PROVE  Watch!Cardinality(Watch!Sent(key, date)) =
                  Watch!Cardinality(Watch!Recorded(key, date)')
                  + (IF Watch!Pending(key, date)' THEN 1 ELSE 0)
    <3>1. Watch!Cardinality(Watch!Sent(key, date)) =
                  Watch!Cardinality(Watch!Recorded(key, date))
                     + (IF Watch!Pending(key, date) THEN 1 ELSE 0)
      BY DEF Watch!IInv, Watch!RowsMatchPushes
    <3>2. IsFiniteSet(Watch!Recorded(key, date)) /\ Watch!Cardinality(Watch!Recorded(key, date)) \in Nat
      BY RowsAreCounted DEF Watch!IInv
    <3>3. CASE run.pushed.key = key /\ run.pushed.date = date
      <4>1. Watch!Recorded(key, date)' = Watch!Recorded(key, date) \cup {row}
            /\ row \notin Watch!Recorded(key, date)
        BY <1>2, <1>4, <3>3 DEF Watch!Recorded
      <4>2. Cardinality(Watch!Recorded(key, date)') = Cardinality(Watch!Recorded(key, date)) + 1
        BY <3>2, <4>1, FS_AddElement
      <4>3. Watch!Cardinality(Watch!Recorded(key, date)') = Watch!Cardinality(Watch!Recorded(key, date)) + 1
        BY <4>2, WatchCounts
      <4>4. Watch!Cardinality(Watch!Recorded(key, date)') \in Nat
        BY <3>2, <4>3
      <4>5. Watch!Pending(key, date) /\ ~ Watch!Pending(key, date)'
        BY <2>3, <3>3
      <4> QED
        BY <3>1, <4>3, <4>4, <4>5
    <3>4. CASE ~ (run.pushed.key = key /\ run.pushed.date = date)
      <4>1. Watch!Recorded(key, date)' = Watch!Recorded(key, date)
        BY <1>2, <1>4, <3>4 DEF Watch!Recorded
      <4>2. ~ Watch!Pending(key, date) /\ ~ Watch!Pending(key, date)'
        BY <2>3, <3>4
      <4> QED
        BY <3>1, <4>1, <4>2
    <3> QED
      BY <3>3, <3>4
  <2>5. Watch!Days' = Watch!Days
    BY SameCalendar
  <2> QED
    BY <2>1, <2>2, <2>4, <2>5 DEF Watch!RowsMatchPushes
<1> QED
  BY <1>1, <1>5, <1>6, <1>7

-----------------------------------------------------------------------------
(* The world moves: the run, the table and the log stay.                   *)
LEMMA WorldKeepsRun ==
    ASSUME WatchConstants, Watch!IInv, UNCHANGED <<conf, alerts, log, faulty, run>>,
           time' \in Watch!Times,
           run # None => time' = time \/ (time' = time + 1 /\ run.moment = time),
           time' >= time
    PROVE  /\ Watch!RunOK' /\ Watch!RunKnows' /\ Watch!PushInHand'
<1>1. Watch!Times' = Watch!Times /\ Watch!Days' = Watch!Days
  BY SameCalendar
<1>2. time \in Nat /\ time' \in Nat
  BY Calendar DEF Watch!IInv, Watch!TypeOK
<1>3. Watch!RunOK'
  <2> SUFFICES ASSUME run # None
               PROVE  /\ run \in Watch!WatchRuns(Watch!Times, Watch!Days)
                      /\ run.moment \in {time', time' - 1}
                      /\ run.node = "persist" => run.pushed.date = Watch!Today
    BY <1>1 DEF Watch!RunOK, Watch!Today
  <2>1. /\ run \in Watch!WatchRuns(Watch!Times, Watch!Days)
        /\ run.node = "persist" => run.pushed.date = Watch!Today
        /\ run.moment \in {time, time - 1}
    BY DEF Watch!IInv, Watch!RunOK
  <2> QED
    BY <1>2, <2>1
<1>4. Watch!RunKnows'
  BY DEF Watch!IInv, Watch!RunKnows, Watch!At, Watch!Today, Watch!Emit, Watch!NoRow,
     Watch!Collides, Watch!get_shock_alert_levels, Watch!get_shock_alert_times
<1>5. Watch!PushInHand'
  <2> SUFFICES ASSUME Watch!At("persist"), log # <<>>, log[Len(log)].until <= time
               PROVE  log[Len(log)].until <= time'
    BY DEF Watch!IInv, Watch!PushInHand, Watch!At, Watch!Today, Watch!Tells
  <2>1. log[Len(log)] \in Watch!Pushes
    BY DEF Watch!IInv, Watch!TypeOK
  <2>2. log[Len(log)].until \in Nat
    BY <2>1, Calendar DEF Watch!Pushes, Watch!IInv, Watch!TypeOK
  <2> QED
    BY <1>2, <2>2
<1> QED
  BY <1>3, <1>4, <1>5

LEMMA WorldKeepsWatch ==
    ASSUME WatchConstants, Watch!IInv,
           Watch!Tick \/ (\E p \in Prices : Watch!Trade(p)) \/ Watch!FastLoopSnapshot
    PROVE  Watch!IInv'
<1>1. UNCHANGED <<conf, alerts, log, faulty, run>>
  BY DEF Watch!Tick, Watch!Trade, Watch!FastLoopSnapshot
<1>2. time \in Watch!Times /\ time \in Nat
  BY Calendar DEF Watch!IInv, Watch!TypeOK
<1>3. /\ time' \in Watch!Times /\ time' >= time
      /\ run # None => time' = time \/ (time' = time + 1 /\ run.moment = time)
  <2>1. CASE Watch!Tick
    <3>1. time' = time + 1 /\ time + 1 <= conf.horizon /\ (run # None => run.moment = time)
      BY <1>2, <2>1, Calendar DEF Watch!Tick, Watch!IInv, Watch!TypeOK
    <3>2. 2 <= time + 1 /\ time + 1 \in Nat
      BY <1>2, Calendar DEF Watch!IInv, Watch!TypeOK
    <3>3. time + 1 \in Watch!Times
      BY <3>1, <3>2, Calendar DEF Watch!IInv, Watch!TypeOK
    <3>4. time + 1 >= time
      BY <1>2
    <3> QED
      BY <3>1, <3>3, <3>4
  <2>2. CASE time' = time
    BY <1>2, <2>2
  <2> QED
    BY <2>1, <2>2 DEF Watch!Trade, Watch!FastLoopSnapshot
<1>4. /\ price' \in Prices /\ past' \in [1 .. 6 -> Prices] /\ trades' \in 0 .. conf.trades
      /\ snapshot' \in [price : Prices, at : Watch!Times] \cup {None}
  <2>1. /\ price \in Prices /\ past \in [1 .. 6 -> Prices] /\ trades \in 0 .. conf.trades
        /\ snapshot \in [price : Prices, at : Watch!Times] \cup {None}
    BY DEF Watch!IInv, Watch!TypeOK
  <2>2. CASE Watch!Tick
    <3>1. /\ past' = [i \in 1 .. 6 |-> IF i = 6 THEN price ELSE past[i + 1]]
          /\ UNCHANGED <<price, trades, snapshot>>
      BY <2>2 DEF Watch!Tick
    <3>2. \A i \in 1 .. 6 : i # 6 => i + 1 \in 1 .. 6
      OBVIOUS
    <3>3. past' \in [1 .. 6 -> Prices]
      BY <2>1, <3>1, <3>2
    <3> QED
      BY <1>1, <2>1, <3>1, <3>3
  <2>3. ASSUME NEW p \in Prices, Watch!Trade(p)
        PROVE  /\ price' \in Prices /\ past' \in [1 .. 6 -> Prices] /\ trades' \in 0 .. conf.trades
               /\ snapshot' \in [price : Prices, at : Watch!Times] \cup {None}
    <3>1. price' = p /\ past' = past /\ snapshot' = snapshot
          /\ trades' = trades + 1 /\ trades < conf.trades
      BY <2>3 DEF Watch!Trade
    <3>2. conf.trades \in Nat
      BY Calendar DEF Watch!IInv, Watch!TypeOK
    <3>3. trades + 1 \in 0 .. conf.trades
      BY <2>1, <3>1, <3>2
    <3> QED
      BY <2>1, <3>1, <3>3
  <2>4. CASE Watch!FastLoopSnapshot
    BY <1>2, <2>1, <2>4 DEF Watch!FastLoopSnapshot, Watch!market
  <2> QED
    BY <2>2, <2>3, <2>4
<1>5. Watch!TypeOK'
  BY <1>1, <1>3, <1>4, SameCalendar DEF Watch!IInv, Watch!TypeOK
<1>6. Watch!RunOK' /\ Watch!RunKnows' /\ Watch!PushInHand'
  BY <1>1, <1>3, WorldKeepsRun
<1>7. /\ Watch!TableOK' /\ Watch!PushesRecorded' /\ Watch!PushesDated'
      /\ Watch!RowsMatchPushes' /\ Watch!LadderClimbs' /\ Watch!RepeatedOnlyFromSnapshot'
  <2>1. Watch!At("persist")' <=> Watch!At("persist")
    BY <1>1 DEF Watch!At
  <2> QED
    BY <1>1, <2>1, NothingTold
<1> QED
  BY <1>5, <1>6, <1>7 DEF Watch!IInv

-----------------------------------------------------------------------------
(* A run starts: what it reads is what the table holds.                    *)
LEMMA ReadsOfTheTable ==
    ASSUME WatchConstants, Watch!TypeOK, NEW today \in Nat, NEW since
    PROVE  /\ Watch!get_sent_shock_alerts(today) \subseteq Watch!Work
           /\ \A key : key \notin Watch!get_sent_shock_alerts(today) =>
                 \A r \in alerts : ~ (r.key = key /\ r.date = today)
           /\ Watch!get_shock_alert_times(since) \subseteq Watch!Times
           /\ Watch!get_shock_alert_levels(today) \subseteq Watch!Rungs
<1>1. \A r \in alerts : /\ r.key \in Watch!Work /\ r.date \in Nat /\ r.created_at \in Watch!Times
                        /\ r.level \in 1 .. Watch!MAX_SHOCK_ALERTS_PER_DAY
                        /\ r.direction \in Watch!Directions
  BY Calendar DEF Watch!TypeOK, Watch!Rows
<1>2. Watch!get_sent_shock_alerts(today) \subseteq Watch!Work
  BY <1>1 DEF Watch!get_sent_shock_alerts
<1>3. \A key : key \notin Watch!get_sent_shock_alerts(today) =>
         \A r \in alerts : ~ (r.key = key /\ r.date = today)
  BY <1>1 DEF Watch!get_sent_shock_alerts
<1>4. Watch!get_shock_alert_times(since) \subseteq Watch!Times
  BY <1>1 DEF Watch!get_shock_alert_times
<1>5. Watch!get_shock_alert_levels(today) \subseteq Watch!Rungs
  BY <1>1 DEF Watch!get_shock_alert_levels, Watch!Rungs
<1> QED
  BY <1>2, <1>3, <1>4, <1>5

LEMMA StartKeepsWatch ==
    ASSUME WatchConstants, Watch!IInv, NEW history \in BOOLEAN, NEW window \in BOOLEAN,
           NEW rungs \in BOOLEAN, Watch!Start(history, window, rungs)
    PROVE  Watch!IInv'
<1> DEFINE today == Watch!Day(time)
           sent == IF history THEN Watch!get_sent_shock_alerts(today) ELSE {}
           since == time - Watch!ROLLING_CHANGE_WINDOW
<1>1. /\ UNCHANGED <<conf, time, price, trades, past, snapshot, alerts, log>>
      /\ run = None
      /\ faulty' = IF history /\ window THEN faulty ELSE faulty \cup {today}
      /\ window \/ conf.kind = "crypto"
  BY DEF Watch!Start, Watch!market
<1>2. run' = [moment |-> time, node |-> "symbol", already_sent |-> sent,
              alert_times |-> IF window /\ conf.kind = "crypto"
                              THEN Watch!get_shock_alert_times(since) ELSE {},
              sent_levels |-> IF rungs /\ conf.ladder
                              THEN Watch!get_shock_alert_levels(today) ELSE {},
              ladder |-> (rungs /\ conf.ladder),
              portfolio |-> (conf.held /\ "portfolio" \notin sent),
              delta |-> None, pushed |-> None]
  BY DEF Watch!Start
<1>3. time \in Watch!Times /\ time \in Nat /\ today \in Nat /\ today \in Watch!Days
      /\ conf.kind \in {"stock", "crypto"}
      /\ conf.ladder \in BOOLEAN /\ conf.held \in BOOLEAN
  BY Calendar, Quarters DEF Watch!IInv, Watch!TypeOK
<1>4. Watch!Today' = today
  BY <1>2 DEF Watch!Today
<1>5. sent \subseteq Watch!Work
  BY <1>3, ReadsOfTheTable DEF Watch!IInv
<1>6. /\ run'.moment = time /\ run'.node = "symbol" /\ run'.already_sent = sent
      /\ run'.ladder <=> rungs /\ conf.ladder
      /\ run'.portfolio <=> conf.held /\ "portfolio" \notin sent
      /\ run'.sent_levels = IF rungs /\ conf.ladder
                            THEN Watch!get_shock_alert_levels(today) ELSE {}
      /\ run'.alert_times = IF window /\ conf.kind = "crypto"
                            THEN Watch!get_shock_alert_times(since) ELSE {}
      /\ run'.pushed = None
  BY <1>2
<1>7. run' \in Watch!WatchRuns(Watch!Times, Watch!Days)
  <2>1. /\ run'.sent_levels \subseteq Watch!Rungs
        /\ run'.alert_times \subseteq Watch!Times
    BY <1>3, <1>6, ReadsOfTheTable DEF Watch!IInv
  <2> QED
    BY <1>2, <1>3, <1>5, <1>6, <2>1 DEF Watch!WatchRuns
<1> HIDE DEF sent, since, today
<1>8. Watch!RunOK'
  BY <1>1, <1>6, <1>7, SameCalendar DEF Watch!RunOK
<1>9. Watch!RunKnows'
  <2>2. \A t : Watch!get_shock_alert_levels(t)' = Watch!get_shock_alert_levels(t)
               /\ Watch!get_shock_alert_times(t)' = Watch!get_shock_alert_times(t)
    BY <1>1 DEF Watch!get_shock_alert_levels, Watch!get_shock_alert_times
  <2>3. ~ Watch!At("persist")'
    BY <1>6 DEF Watch!At
  <2>4. (Watch!At("symbol") /\ run.ladder)' => run'.sent_levels = Watch!get_shock_alert_levels(today)
    BY <1>6
  <2>5. ASSUME today \notin faulty'
        PROVE  history /\ window /\ \A key : key \notin sent =>
                  \A r \in alerts : ~ (r.key = key /\ r.date = today)
    BY <1>1, <1>3, <2>5, ReadsOfTheTable DEF sent, Watch!IInv
  <2>6. ASSUME today \notin faulty'
        PROVE  /\ Watch!Emit' => Watch!NoRow("symbol")'
               /\ run'.portfolio => Watch!NoRow("portfolio")'
    BY <1>1, <1>4, <1>6, <2>5, <2>6 DEF Watch!Emit, Watch!NoRow
  <2>7. ASSUME today \notin faulty', conf.kind = "crypto"
        PROVE  run'.alert_times = Watch!get_shock_alert_times(run'.moment - Watch!ROLLING_CHANGE_WINDOW)
    BY <1>6, <2>5, <2>7 DEF since
  <2> QED
    BY <1>1, <1>4, <2>2, <2>3, <2>4, <2>6, <2>7 DEF Watch!RunKnows, Watch!ROLLING_CHANGE_WINDOW
<1>10. Watch!PushInHand'
  BY <1>6 DEF Watch!PushInHand, Watch!At
<1>11. /\ Watch!TableOK' /\ Watch!PushesRecorded' /\ Watch!PushesDated'
       /\ Watch!RowsMatchPushes' /\ Watch!LadderClimbs' /\ Watch!RepeatedOnlyFromSnapshot'
  <2>1. ~ Watch!At("persist") /\ ~ Watch!At("persist")' /\ faulty \subseteq faulty'
    BY <1>1, <1>6 DEF Watch!At
  <2> QED
    BY <1>1, <2>1, NothingTold
<1>12. Watch!TypeOK'
  <2>1. faulty' \subseteq Watch!Days
    BY <1>1, <1>3 DEF Watch!IInv, Watch!TypeOK
  <2>2. /\ run'.moment \in Watch!Times /\ run'.already_sent \subseteq Watch!Work
        /\ run'.node \in {"symbol", "portfolio", "persist"}
        /\ run'.alert_times \subseteq Watch!Times /\ run'.sent_levels \subseteq Watch!Rungs
    BY <1>7 DEF Watch!WatchRuns
  <2> QED
    BY <1>1, <1>6, <2>1, <2>2, SameCalendar DEF Watch!IInv, Watch!TypeOK, Watch!Rungs, Watch!Work
<1> QED
  BY <1>8, <1>9, <1>10, <1>11, <1>12 DEF Watch!IInv

-----------------------------------------------------------------------------
(* A run goes on to the portfolio, or ends.                                *)
LEMMA RunGoesOn ==
    ASSUME WatchConstants, Watch!IInv, run # None, UNCHANGED <<conf, time>>,
           run' \in Watch!WatchRuns(Watch!Times, Watch!Days),
           run'.node = "portfolio", run'.pushed = None, run'.moment = run.moment,
           run'.portfolio <=> run.portfolio, faulty \subseteq faulty',
           \A r \in alerts' : r \in alerts \/ r.key = "symbol"
    PROVE  /\ Watch!RunOK' /\ Watch!RunKnows' /\ Watch!PushInHand'
           /\ ~ Watch!At("persist")'
<1>1. ~ Watch!At("persist")' /\ ~ Watch!At("symbol")' /\ Watch!Today' = Watch!Today
  BY DEF Watch!At, Watch!Today
<1>2. Watch!RunOK'
  BY <1>1, SameCalendar DEF Watch!IInv, Watch!RunOK
<1>3. Watch!RunKnows'
  BY <1>1 DEF Watch!IInv, Watch!RunKnows, Watch!NoRow
<1>4. Watch!PushInHand'
  BY <1>1 DEF Watch!PushInHand
<1> QED
  BY <1>1, <1>2, <1>3, <1>4

LEMMA RunEnds ==
    ASSUME run' = None
    PROVE  /\ Watch!RunOK' /\ Watch!RunKnows' /\ Watch!PushInHand'
           /\ ~ Watch!At("persist")'
BY DEF Watch!RunOK, Watch!RunKnows, Watch!PushInHand, Watch!At

(* What the types ask of a run.                                            *)
LEMMA TypesOfRun ==
    ASSUME Watch!TypeOK, UNCHANGED <<conf, time, price, trades, past, snapshot>>,
           alerts' \subseteq Watch!Rows, log' \in Seq(Watch!Pushes), Len(log') <= conf.pushes,
           faulty' \subseteq Watch!Days,
           run' # None => run' \in Watch!WatchRuns(Watch!Times, Watch!Days)
                          /\ (run'.node = "persist" <=> run'.pushed # None)
    PROVE  Watch!TypeOK'
<1>1. run' # None => /\ run'.moment \in Watch!Times /\ run'.already_sent \subseteq Watch!Work
                     /\ run'.node \in {"symbol", "portfolio", "persist"}
                     /\ run'.alert_times \subseteq Watch!Times /\ run'.sent_levels \subseteq Watch!Rungs
  BY DEF Watch!WatchRuns
<1> QED
  BY <1>1, SameCalendar DEF Watch!TypeOK, Watch!Rungs, Watch!Work

(* A symbol that is not alerted, and a push that fails.                    *)
LEMMA ToPortfolioKeepsWatch ==
    ASSUME WatchConstants, Watch!IInv, Watch!At("symbol"), NEW delta \in Int \cup {None},
           Watch!ToPortfolio(delta), UNCHANGED <<conf, time, Watch!market, snapshot, alerts, log, faulty>>
    PROVE  Watch!IInv'
<1>1. UNCHANGED <<conf, time, price, trades, past, snapshot, alerts, log, faulty>>
  BY DEF Watch!market
<1>2. run # None /\ run.node = "symbol" /\ run \in Watch!WatchRuns(Watch!Times, Watch!Days)
  BY DEF Watch!At, Watch!IInv, Watch!RunOK
<1>3. run.pushed = None
  BY <1>2 DEF Watch!IInv, Watch!TypeOK
<1>4. run' = [run EXCEPT !.node = "portfolio", !.delta = IF run.portfolio THEN delta ELSE None]
  BY DEF Watch!ToPortfolio
<1>5. /\ run' \in Watch!WatchRuns(Watch!Times, Watch!Days)
      /\ run'.node = "portfolio" /\ run'.pushed = None /\ run'.moment = run.moment
      /\ run'.portfolio <=> run.portfolio
  BY <1>2, <1>3, <1>4 DEF Watch!WatchRuns
<1>6. Watch!RunOK' /\ Watch!RunKnows' /\ Watch!PushInHand' /\ ~ Watch!At("persist")'
  BY <1>1, <1>2, <1>5, RunGoesOn
<1>7. /\ Watch!TableOK' /\ Watch!PushesRecorded' /\ Watch!PushesDated'
      /\ Watch!RowsMatchPushes' /\ Watch!LadderClimbs' /\ Watch!RepeatedOnlyFromSnapshot'
  <2>1. ~ Watch!At("persist")
    BY <1>2 DEF Watch!At
  <2> QED
    BY <1>1, <1>6, <2>1, NothingTold
<1>8. Watch!TypeOK'
  BY <1>1, <1>5, TypesOfRun DEF Watch!IInv, Watch!TypeOK
<1> QED
  BY <1>6, <1>7, <1>8 DEF Watch!IInv

(* A run that ends, or is cancelled: a push in hand makes the day lost.    *)
LEMMA RunEndsKeepsWatch ==
    ASSUME WatchConstants, Watch!IInv, run # None, run' = None,
           UNCHANGED <<conf, time, Watch!market, snapshot, alerts, log>>,
           faulty' = IF Watch!At("persist") THEN faulty \cup {Watch!Today} ELSE faulty
    PROVE  Watch!IInv'
<1>1. UNCHANGED <<conf, time, price, trades, past, snapshot, alerts, log>>
  BY DEF Watch!market
<1>2. Watch!RunOK' /\ Watch!RunKnows' /\ Watch!PushInHand' /\ ~ Watch!At("persist")'
  BY RunEnds
<1>3. Watch!Today \in Watch!Days
  <2>1. run.moment \in Watch!Times
    BY DEF Watch!IInv, Watch!TypeOK
  <2> QED
    BY <2>1, Calendar DEF Watch!Today, Watch!IInv, Watch!TypeOK
<1>4. /\ Watch!TableOK' /\ Watch!PushesRecorded' /\ Watch!PushesDated'
      /\ Watch!RowsMatchPushes' /\ Watch!LadderClimbs' /\ Watch!RepeatedOnlyFromSnapshot'
  BY <1>1, <1>2, NothingTold
<1>5. Watch!TypeOK'
  BY <1>1, <1>3, TypesOfRun DEF Watch!IInv, Watch!TypeOK
<1> QED
  BY <1>2, <1>4, <1>5 DEF Watch!IInv

(* The row is written, or the write fails.                                 *)
LEMMA ContinueIsTyped ==
    ASSUME WatchConstants, Watch!IInv, Watch!At("persist"), Watch!Continue
    PROVE  /\ run.pushed \in Watch!ToRecord(Watch!Days)
           /\ run.pushed.date = Watch!Today /\ Watch!Today \in Watch!Days
           /\ \/ run' = None /\ run.pushed.key = "portfolio"
              \/ /\ run' \in Watch!WatchRuns(Watch!Times, Watch!Days)
                 /\ run'.node = "portfolio" /\ run'.pushed = None
                 /\ run'.moment = run.moment /\ (run'.portfolio <=> run.portfolio)
                 /\ run.pushed.key = "symbol"
<1>1. /\ run # None /\ run.node = "persist" /\ run \in Watch!WatchRuns(Watch!Times, Watch!Days)
      /\ run.pushed.date = Watch!Today /\ run.pushed # None
  BY DEF Watch!At, Watch!IInv, Watch!RunOK, Watch!TypeOK
<1>2. run.pushed \in Watch!ToRecord(Watch!Days)
  BY <1>1 DEF Watch!WatchRuns
<1>3. run.pushed.key \in {"symbol", "portfolio"} /\ run.pushed.date \in Watch!Days
  BY <1>2 DEF Watch!ToRecord, Watch!Work
<1>4. CASE run.pushed.key = "symbol"
  <2>1. run' = [run EXCEPT !.node = "portfolio", !.pushed = None,
                           !.already_sent = run.already_sent \cup {"symbol"}]
    BY <1>4 DEF Watch!Continue
  <2>2. run.already_sent \cup {"symbol"} \in SUBSET Watch!Work
    BY <1>1 DEF Watch!WatchRuns, Watch!Work
  <2> QED
    BY <1>1, <1>2, <1>3, <1>4, <2>1, <2>2 DEF Watch!WatchRuns
<1>5. CASE run.pushed.key # "symbol"
  BY <1>1, <1>2, <1>3, <1>5 DEF Watch!Continue
<1> QED
  BY <1>4, <1>5

LEMMA PersistKeepsWatch ==
    ASSUME WatchConstants, Watch!IInv, Watch!Persist
    PROVE  Watch!IInv'
<1> DEFINE row == [key |-> run.pushed.key, date |-> run.pushed.date, level |-> run.pushed.level,
                   direction |-> run.pushed.direction, created_at |-> time]
<1>1. /\ Watch!At("persist") /\ Watch!Continue
      /\ alerts' = IF Watch!Collides(run.pushed) THEN alerts ELSE alerts \cup {row}
      /\ UNCHANGED <<conf, time, price, trades, past, snapshot, log, faulty>>
  BY DEF Watch!Persist, Watch!market
<1>2. run.pushed \in Watch!ToRecord(Watch!Days) /\ run # None
  BY <1>1, ContinueIsTyped DEF Watch!At
<1>3. row \in Watch!Rows
  BY <1>2 DEF Watch!ToRecord, Watch!Rows, Watch!IInv, Watch!TypeOK
<1>4. Watch!Tells(run.pushed, row) /\ row.created_at = time /\ row.key = run.pushed.key
  BY DEF Watch!Tells
<1> HIDE DEF row
<1>5. Watch!RunOK' /\ Watch!RunKnows' /\ Watch!PushInHand' /\ ~ Watch!At("persist")'
  <2>1. CASE run' = None
    BY <2>1, RunEnds
  <2>2. CASE run' # None
    <3>1. /\ run' \in Watch!WatchRuns(Watch!Times, Watch!Days)
          /\ run'.node = "portfolio" /\ run'.pushed = None
          /\ run'.moment = run.moment /\ (run'.portfolio <=> run.portfolio)
          /\ run.pushed.key = "symbol"
      BY <1>1, <2>2, ContinueIsTyped
    <3>2. \A r \in alerts' : r \in alerts \/ r.key = "symbol"
      BY <1>1, <1>4, <3>1
    <3> QED
      BY <1>1, <1>2, <3>1, <3>2, RunGoesOn
  <2> QED
    BY <2>1, <2>2
<1>6. /\ Watch!TableOK' /\ Watch!PushesRecorded' /\ Watch!PushesDated'
      /\ Watch!RowsMatchPushes' /\ Watch!LadderClimbs' /\ Watch!RepeatedOnlyFromSnapshot'
  BY <1>1, <1>4, <1>5, RowWritten
<1>7. Watch!TypeOK'
  <2>1. alerts' \subseteq Watch!Rows
    BY <1>1, <1>3 DEF Watch!IInv, Watch!TypeOK
  <2>2. run' # None => run' \in Watch!WatchRuns(Watch!Times, Watch!Days)
                      /\ (run'.node = "persist" <=> run'.pushed # None)
    BY <1>1, ContinueIsTyped
  <2> QED
    BY <1>1, <2>1, <2>2, TypesOfRun DEF Watch!IInv, Watch!TypeOK
<1> QED
  BY <1>5, <1>6, <1>7 DEF Watch!IInv

LEMMA PersistFailsKeepsWatch ==
    ASSUME WatchConstants, Watch!IInv, Watch!PersistFails
    PROVE  Watch!IInv'
<1>1. /\ Watch!At("persist") /\ Watch!Continue
      /\ faulty' = faulty \cup {Watch!Today}
      /\ UNCHANGED <<conf, time, price, trades, past, snapshot, alerts, log>>
  BY DEF Watch!PersistFails, Watch!market
<1>2. run # None /\ Watch!Today \in Watch!Days
  BY <1>1, ContinueIsTyped DEF Watch!At
<1>3. Watch!RunOK' /\ Watch!RunKnows' /\ Watch!PushInHand' /\ ~ Watch!At("persist")'
  <2>1. CASE run' = None
    BY <2>1, RunEnds
  <2>2. CASE run' # None
    <3>1. /\ run' \in Watch!WatchRuns(Watch!Times, Watch!Days)
          /\ run'.node = "portfolio" /\ run'.pushed = None
          /\ run'.moment = run.moment /\ (run'.portfolio <=> run.portfolio)
      BY <1>1, <2>2, ContinueIsTyped
    <3> QED
      BY <1>1, <1>2, <3>1, RunGoesOn
  <2> QED
    BY <2>1, <2>2
<1>4. /\ Watch!TableOK' /\ Watch!PushesRecorded' /\ Watch!PushesDated'
      /\ Watch!RowsMatchPushes' /\ Watch!LadderClimbs' /\ Watch!RepeatedOnlyFromSnapshot'
  <2>1. Watch!Today \in faulty' /\ faulty \subseteq faulty'
    BY <1>1
  <2> QED
    BY <1>1, <1>3, <2>1, NothingTold
<1>5. Watch!TypeOK'
  <2>1. run' # None => run' \in Watch!WatchRuns(Watch!Times, Watch!Days)
                      /\ (run'.node = "persist" <=> run'.pushed # None)
    BY <1>1, ContinueIsTyped
  <2> QED
    BY <1>1, <1>2, <2>1, TypesOfRun DEF Watch!IInv, Watch!TypeOK
<1> QED
  BY <1>3, <1>4, <1>5 DEF Watch!IInv

-----------------------------------------------------------------------------
(* An alert goes out, and the run holds what it is to record.              *)
MadeReadings == [basis : {"daily", "snapshot", "weights"}, delta : Int, since : Int,
                 until : Watch!Times]

LEMMA PushIsTyped ==
    ASSUME WatchConstants, Watch!IInv, run # None, ~ Watch!At("persist"),
           NEW key \in Watch!Work, NEW level \in 1 .. Watch!MAX_SHOCK_ALERTS_PER_DAY,
           NEW reading \in MadeReadings, NEW rest \in Int \cup {None},
           run' = [run EXCEPT !.node = "persist", !.delta = rest,
                              !.pushed = [key |-> key, date |-> Watch!Today, level |-> level,
                                          direction |-> Watch!DirectionOf(reading.delta)]]
    PROVE  /\ [key |-> key, date |-> Watch!Today, level |-> level,
                direction |-> Watch!DirectionOf(reading.delta),
                double |-> Watch!Abs(reading.delta) >= Watch!SHOCK_ESCALATION_MULTIPLIER,
                moment |-> run.moment, basis |-> reading.basis,
                since |-> reading.since, until |-> reading.until] \in Watch!Pushes
           /\ run' \in Watch!WatchRuns(Watch!Times, Watch!Days) /\ run' # None
           /\ run'.pushed # None /\ run'.node = "persist" /\ run'.moment = run.moment
           /\ (run'.portfolio <=> run.portfolio) /\ run'.pushed.level = level
           /\ run'.pushed.key = key /\ run'.pushed.date = Watch!Today
           /\ run'.pushed.direction = Watch!DirectionOf(reading.delta)
<1>0. /\ reading.basis \in {"daily", "snapshot", "weights"} /\ reading.delta \in Int
      /\ reading.since \in Int /\ reading.until \in Watch!Times
  BY DEF MadeReadings
<1>1. run \in Watch!WatchRuns(Watch!Times, Watch!Days) /\ run.moment \in Watch!Times
  BY DEF Watch!IInv, Watch!RunOK, Watch!WatchRuns
<1>2. Watch!Today \in Watch!Days
  BY <1>1, Calendar DEF Watch!Today, Watch!IInv, Watch!TypeOK
<1>3. Watch!DirectionOf(reading.delta) \in Watch!Directions
  BY <1>0 DEF Watch!DirectionOf, Watch!Directions
<1>4. (Watch!Abs(reading.delta) >= Watch!SHOCK_ESCALATION_MULTIPLIER) \in BOOLEAN
  BY <1>0 DEF Watch!Abs, Watch!SHOCK_ESCALATION_MULTIPLIER
<1> DEFINE next == [key |-> key, date |-> Watch!Today, level |-> level,
                    direction |-> Watch!DirectionOf(reading.delta)]
<1>5. /\ next \in Watch!ToRecord(Watch!Days) /\ next # None
      /\ next.key = key /\ next.date = Watch!Today /\ next.level = level
      /\ next.direction = Watch!DirectionOf(reading.delta)
  <2>1. next \in Watch!ToRecord(Watch!Days)
    BY <1>2, <1>3 DEF Watch!ToRecord
  <2> QED
    BY <2>1, RecordIsSome DEF Watch!IInv, Watch!TypeOK
<1>6. run' = [run EXCEPT !.node = "persist", !.delta = rest, !.pushed = next]
  OBVIOUS
<1> HIDE DEF next
<1>7. run' \in Watch!WatchRuns(Watch!Times, Watch!Days)
  BY <1>1, <1>5, <1>6 DEF Watch!WatchRuns
<1>8. run' # None
  BY <1>7, RunIsSome DEF Watch!IInv, Watch!TypeOK
<1>9. /\ run'.pushed = next /\ run'.node = "persist" /\ run'.moment = run.moment
      /\ (run'.portfolio <=> run.portfolio)
  BY <1>1, <1>6 DEF Watch!WatchRuns
<1>10. [key |-> key, date |-> Watch!Today, level |-> level,
        direction |-> Watch!DirectionOf(reading.delta),
        double |-> Watch!Abs(reading.delta) >= Watch!SHOCK_ESCALATION_MULTIPLIER,
        moment |-> run.moment, basis |-> reading.basis,
        since |-> reading.since, until |-> reading.until] \in Watch!Pushes
  BY <1>0, <1>1, <1>2, <1>3, <1>4 DEF Watch!Pushes
<1> QED
  BY <1>5, <1>7, <1>8, <1>9, <1>10

LEMMA PushKeepsWatch ==
    ASSUME WatchConstants, Watch!IInv, run # None, ~ Watch!At("persist"), Len(log) < conf.pushes,
           UNCHANGED <<conf, time, Watch!market, snapshot, alerts, faulty>>,
           NEW key \in Watch!Work, NEW level \in 1 .. Watch!MAX_SHOCK_ALERTS_PER_DAY,
           NEW reading \in MadeReadings, NEW rest \in Int \cup {None},
           Watch!Push(key, level, reading),
           run' = [run EXCEPT !.node = "persist", !.delta = rest,
                              !.pushed = [key |-> key, date |-> Watch!Today, level |-> level,
                                          direction |-> Watch!DirectionOf(reading.delta)]],
           level = 2 => \E r \in alerts : r.key = key /\ r.date = Watch!Today /\ r.level = 1,
           Watch!Today \notin faulty =>
              \A r \in alerts : r.key = key /\ r.date = Watch!Today =>
                 /\ key = "symbol" /\ r.level = 1 /\ level = 2
                 /\ \/ Watch!DirectionOf(reading.delta) # r.direction
                    \/ Watch!Abs(reading.delta) >= Watch!SHOCK_ESCALATION_MULTIPLIER,
           Watch!Today \notin faulty /\ key = "symbol" /\ level = 1 /\ reading.basis # "snapshot" =>
              \A i \in DOMAIN log :
                 log[i].key = "symbol" /\ log[i].date < Watch!Today /\ log[i].date \notin faulty =>
                    log[i].until <= reading.since,
           reading.until <= time,
           conf.kind = "stock" /\ key = "symbol" =>
              /\ Watch!Day(reading.until) <= Watch!Today
              /\ reading.basis = "daily" => reading.since = Watch!QuartersPerDay * Watch!Today - 1
    PROVE  Watch!IInv'
<1> DEFINE p == [key |-> key, date |-> Watch!Today, level |-> level,
                 direction |-> Watch!DirectionOf(reading.delta),
                 double |-> Watch!Abs(reading.delta) >= Watch!SHOCK_ESCALATION_MULTIPLIER,
                 moment |-> run.moment, basis |-> reading.basis,
                 since |-> reading.since, until |-> reading.until]
<1>1. UNCHANGED <<conf, time, price, trades, past, snapshot, alerts, faulty>>
  BY DEF Watch!market
<1>2. /\ p \in Watch!Pushes
      /\ run' \in Watch!WatchRuns(Watch!Times, Watch!Days) /\ run' # None
      /\ run'.pushed # None /\ run'.node = "persist" /\ run'.moment = run.moment
      /\ (run'.portfolio <=> run.portfolio) /\ run'.pushed.level = level
      /\ run'.pushed.key = key /\ run'.pushed.date = Watch!Today
      /\ run'.pushed.direction = Watch!DirectionOf(reading.delta)
  BY PushIsTyped, ZenonT(60)
<1>3. /\ log' = Append(log, p)
      /\ p.key = key /\ p.date = Watch!Today /\ p.level = level /\ p.basis = reading.basis
      /\ p.since = reading.since /\ p.until = reading.until
      /\ p.direction = Watch!DirectionOf(reading.delta) /\ p.moment = run.moment
      /\ p.double <=> Watch!Abs(reading.delta) >= Watch!SHOCK_ESCALATION_MULTIPLIER
  BY DEF Watch!Push
<1> HIDE DEF p
<1>4. Watch!At("persist")' /\ ~ Watch!At("symbol")' /\ Watch!Today' = Watch!Today
  BY <1>2 DEF Watch!At, Watch!Today
<1>5. Watch!Tells(p, run'.pushed)
  BY <1>2, <1>3 DEF Watch!Tells
<1>6. Watch!RunOK'
  BY <1>1, <1>2, <1>4, SameCalendar DEF Watch!RunOK, Watch!IInv
<1>7. Watch!RunKnows'
  <2>1. ASSUME Watch!Today \notin faulty
        PROVE  Watch!Collides(run.pushed)' => FALSE
    BY <1>1, <1>2, <2>1 DEF Watch!Collides
  <2> QED
    BY <1>1, <1>2, <1>4, <2>1 DEF Watch!RunKnows, Watch!NoRow, Watch!IInv
<1>8. /\ Watch!PushInHand' /\ Watch!TableOK' /\ Watch!PushesRecorded'
      /\ Watch!PushesDated' /\ Watch!RowsMatchPushes' /\ Watch!LadderClimbs'
      /\ Watch!RepeatedOnlyFromSnapshot'
  <2>1. p.level = 2 => \E r \in alerts : r.key = p.key /\ r.date = p.date /\ r.level = 1
    BY <1>3
  <2>2. Watch!Today \notin faulty =>
              \A r \in alerts : r.key = p.key /\ r.date = p.date =>
                 /\ p.key = "symbol" /\ r.level = 1 /\ p.level = 2
                 /\ p.direction # r.direction \/ p.double
    BY <1>3
  <2>3. Watch!Today \notin faulty /\ p.key = "symbol" /\ p.level = 1 /\ p.basis # "snapshot" =>
              \A i \in DOMAIN log :
                 log[i].key = "symbol" /\ log[i].date < p.date /\ log[i].date \notin faulty =>
                    log[i].until <= p.since
    BY <1>3
  <2>4. /\ p.until <= time
        /\ conf.kind = "stock" /\ p.key = "symbol" =>
              /\ Watch!Day(p.until) <= p.date
              /\ p.basis = "daily" => p.since = Watch!QuartersPerDay * p.date - 1
    BY <1>3
  <2> QED
    BY <1>1, <1>2, <1>3, <1>4, <1>5, <2>1, <2>2, <2>3, <2>4, PushTold
<1>9. Watch!TypeOK'
  <2>1. log \in Seq(Watch!Pushes) /\ conf.pushes \in Nat
    BY Calendar DEF Watch!IInv, Watch!TypeOK
  <2>2. log' \in Seq(Watch!Pushes) /\ Len(log') <= conf.pushes
    BY <1>2, <1>3, <2>1
  <2> QED
    BY <1>1, <1>2, <2>2, TypesOfRun DEF Watch!IInv, Watch!TypeOK
<1> QED
  BY <1>6, <1>7, <1>8, <1>9 DEF Watch!IInv

LEMMA AlertPortfolioKeepsWatch ==
    ASSUME WatchConstants, Watch!IInv, Watch!AlertPortfolio
    PROVE  Watch!IInv'
<1> DEFINE reading == [basis |-> "weights", delta |-> run.delta,
                       since |-> run.moment, until |-> run.moment]
<1>1. /\ Watch!At("portfolio") /\ Len(log) < conf.pushes /\ Watch!PortfolioShock
      /\ Watch!Push("portfolio", 1, reading)
      /\ run' = [run EXCEPT !.node = "persist",
                            !.pushed = [key |-> "portfolio", date |-> Watch!Today, level |-> 1,
                                        direction |-> Watch!DirectionOf(run.delta)]]
      /\ UNCHANGED <<conf, time, Watch!market, snapshot, alerts, faulty>>
  BY DEF Watch!AlertPortfolio
<1>2. run # None /\ ~ Watch!At("persist") /\ run \in Watch!WatchRuns(Watch!Times, Watch!Days)
  BY <1>1 DEF Watch!At, Watch!IInv, Watch!RunOK
<1>3. run.delta \in Int /\ run.portfolio
  BY <1>1, <1>2 DEF Watch!PortfolioShock, Watch!WatchRuns
<1>4. run' = [run EXCEPT !.node = "persist", !.delta = run.delta,
                         !.pushed = [key |-> "portfolio", date |-> Watch!Today, level |-> 1,
                                     direction |-> Watch!DirectionOf(run.delta)]]
  BY <1>1, <1>2 DEF Watch!WatchRuns
<1>5. "portfolio" \in Watch!Work /\ 1 \in 1 .. Watch!MAX_SHOCK_ALERTS_PER_DAY
  BY DEF Watch!Work, Watch!MAX_SHOCK_ALERTS_PER_DAY
<1>6. Watch!Today \notin faulty =>
         \A r \in alerts : ~ (r.key = "portfolio" /\ r.date = Watch!Today)
  BY <1>2, <1>3 DEF Watch!IInv, Watch!RunKnows, Watch!NoRow
<1>7. Watch!Today \notin faulty =>
         \A r \in alerts : r.key = "portfolio" /\ r.date = Watch!Today =>
            /\ "portfolio" = "symbol" /\ r.level = 1 /\ 1 = 2
            /\ \/ Watch!DirectionOf(run.delta) # r.direction
               \/ Watch!Abs(run.delta) >= Watch!SHOCK_ESCALATION_MULTIPLIER
  BY <1>6
<1>8. "portfolio" # "symbol" /\ 1 # 2 /\ run.delta \in Int \cup {None}
  BY <1>3
<1>9. run.moment \in Watch!Times /\ run.moment \in Nat /\ time \in Nat /\ run.moment <= time
  <2>1. run.moment \in Watch!Times /\ run.moment \in {time, time - 1}
    BY <1>2 DEF Watch!IInv, Watch!RunOK, Watch!WatchRuns
  <2> QED
    BY <2>1, Calendar DEF Watch!IInv, Watch!TypeOK
<1>10. reading \in MadeReadings /\ reading.delta = run.delta /\ reading.until <= time
  BY <1>3, <1>9 DEF MadeReadings
<1> HIDE DEF reading
<1>11. /\ run' = [run EXCEPT !.node = "persist", !.delta = run.delta,
                             !.pushed = [key |-> "portfolio", date |-> Watch!Today, level |-> 1,
                                         direction |-> Watch!DirectionOf(reading.delta)]]
       /\ Watch!Today \notin faulty =>
             \A r \in alerts : r.key = "portfolio" /\ r.date = Watch!Today =>
                /\ "portfolio" = "symbol" /\ r.level = 1 /\ 1 = 2
                /\ \/ Watch!DirectionOf(reading.delta) # r.direction
                   \/ Watch!Abs(reading.delta) >= Watch!SHOCK_ESCALATION_MULTIPLIER
  BY <1>4, <1>7, <1>10
<1>12. /\ 1 = 2 => \E r \in alerts : r.key = "portfolio" /\ r.date = Watch!Today /\ r.level = 1
       /\ Watch!Today \notin faulty /\ "portfolio" = "symbol" /\ 1 = 1 /\ reading.basis # "snapshot" =>
             \A i \in DOMAIN log :
                log[i].key = "symbol" /\ log[i].date < Watch!Today /\ log[i].date \notin faulty =>
                   log[i].until <= reading.since
       /\ conf.kind = "stock" /\ "portfolio" = "symbol" =>
             /\ Watch!Day(reading.until) <= Watch!Today
             /\ reading.basis = "daily" => reading.since = Watch!QuartersPerDay * Watch!Today - 1
  BY <1>8
<1> QED
  BY <1>1, <1>2, <1>5, <1>8, <1>10, <1>11, <1>12, PushKeepsWatch, ZenonT(60)

(* A second alert of the day has one rung to climb from.                   *)
LEMMA OneRung ==
    ASSUME WatchConstants, Watch!IInv, Watch!At("symbol"), Watch!Escalating
    PROVE  \E r \in alerts :
              /\ r.key = "symbol" /\ r.date = Watch!Today
              /\ run.sent_levels = {[level |-> 1, direction |-> r.direction]}
              /\ \A q \in alerts : q.key = "symbol" /\ q.date = Watch!Today =>
                    q.level = 1 /\ q.direction = r.direction
<1> DEFINE Of == {a \in alerts : a.date = Watch!Today /\ a.key = "symbol"}
           rung == [a \in Of |-> [level |-> a.level, direction |-> a.direction]]
<1>1. /\ run.ladder /\ run.sent_levels = Watch!get_shock_alert_levels(Watch!Today)
      /\ Watch!Cardinality(run.sent_levels) \in 1 .. 1
  BY DEF Watch!Escalating, Watch!IInv, Watch!RunKnows, Watch!MAX_SHOCK_ALERTS_PER_DAY
<1>2. run.sent_levels = {[level |-> a.level, direction |-> a.direction] : a \in Of}
  BY <1>1 DEF Watch!get_shock_alert_levels
<1>3. rung \in Surjection(Of, run.sent_levels)
  BY <1>2 DEF Surjection
<1>4. IsFiniteSet(Of)
  <2>1. IsFiniteSet(alerts)
    BY WatchCounts DEF Watch!IInv, Watch!TableOK
  <2> QED
    BY <2>1, FS_Subset
<1>5. PICK x : run.sent_levels = {x}
  <2> HIDE DEF Of, rung
  <2>1. IsFiniteSet(run.sent_levels)
    BY <1>3, <1>4, FS_Surjection
  <2>2. Cardinality(run.sent_levels) = 1
    BY <1>1, WatchCounts
  <2> QED
    BY <2>1, <2>2, FS_Singleton
<1>6. PICK r \in Of : x = [level |-> r.level, direction |-> r.direction]
  BY <1>2, <1>5
<1>7. \A q \in Of : q.level = r.level /\ q.direction = r.direction
  <2> SUFFICES ASSUME NEW q \in Of PROVE q.level = r.level /\ q.direction = r.direction
    OBVIOUS
  <2>1. [level |-> q.level, direction |-> q.direction] = [level |-> r.level, direction |-> r.direction]
    BY <1>2, <1>5, <1>6
  <2> QED
    BY <2>1
<1>8. r.level = 1
  <2>1. r.level \in 1 .. 2
    BY DEF Watch!IInv, Watch!TypeOK, Watch!Rows, Watch!MAX_SHOCK_ALERTS_PER_DAY
  <2>2. r.level = 2 => \E q \in Of : q.level = 1
    BY DEF Watch!IInv, Watch!TableOK
  <2> QED
    BY <1>7, <2>1, <2>2
<1> QED
  BY <1>5, <1>6, <1>7, <1>8

LEMMA SecondClimbs ==
    ASSUME NEW delta \in Int, NEW d, NEW rungs, rungs = {[level |-> 1, direction |-> d]}
    PROVE  /\ Watch!next_shock_level(rungs) = 2
           /\ Watch!should_escalate(delta, rungs) =>
                 \/ Watch!DirectionOf(delta) # d
                 \/ Watch!Abs(delta) >= Watch!SHOCK_ESCALATION_MULTIPLIER
<1> DEFINE x == [level |-> 1, direction |-> d]
<1>1. rungs = {x} /\ rungs # {} /\ x.level = 1 /\ x.direction = d
  OBVIOUS
<1> HIDE DEF x
<1>2. {r.level : r \in rungs} = {1}
  BY <1>1
<1>3. (CHOOSE n \in {r.level : r \in rungs} : \A r \in rungs : r.level <= n) = 1
  <2>1. \E n \in {r.level : r \in rungs} : \A r \in rungs : r.level <= n
    BY <1>1, <1>2
  <2> QED
    BY <1>2, <2>1
<1>4. (CHOOSE r \in rungs : \A q \in rungs : q.level <= r.level) = x
  <2>1. \E r \in rungs : \A q \in rungs : q.level <= r.level
    BY <1>1
  <2> QED
    BY <1>1, <2>1
<1> QED
  BY <1>1, <1>3, <1>4 DEF Watch!next_shock_level, Watch!should_escalate

(* Where the quote of a symbol is from, and what its daily change measures.*)
LEMMA QuoteOf ==
    ASSUME WatchConstants, Watch!TypeOK, Watch!RunOK, run # None
    PROVE  /\ Watch!AsOf \in Watch!Times /\ Watch!AsOf <= time
           /\ Watch!DailySince \in Int /\ Watch!DailySince - time + 7 \in 1 .. 6
           /\ conf.kind = "crypto" => Watch!DailySince = time - 4
           /\ conf.kind = "stock" => /\ Watch!Day(Watch!AsOf) <= Watch!Today
                                     /\ Watch!DailySince = 4 * Watch!Day(Watch!AsOf) - 1
<1> DEFINE d == Watch!Day(time)
<1>1. /\ time \in Nat /\ 2 <= time /\ time <= conf.horizon /\ run.moment \in Nat
      /\ run.moment \in {time, time - 1} /\ conf.kind \in {"stock", "crypto"}
  BY Calendar DEF Watch!TypeOK, Watch!RunOK, Watch!WatchRuns
<1>2. d \in Nat /\ 4 * d <= time /\ time <= 4 * d + 3
      /\ (Watch!InSession(time) <=> time >= 4 * d + 2) /\ Watch!Midnight(time) = 4 * d - 1
  BY <1>1, Quarters
<1>3. /\ Watch!Today \in Nat
      /\ 4 * Watch!Today <= run.moment /\ run.moment <= 4 * Watch!Today + 3
  BY <1>1, Quarters DEF Watch!Today
<1> HIDE DEF d
<1>4. CASE conf.kind = "crypto"
  <2>1. Watch!AsOf = time /\ Watch!DailySince = time - 4
    BY <1>4 DEF Watch!AsOf, Watch!DailySince, Watch!ROLLING_CHANGE_WINDOW, Watch!QuartersPerDay
  <2> QED
    BY <1>1, <1>4, <2>1 DEF Watch!TypeOK
<1>5. CASE conf.kind = "stock"
  <2>1. Watch!DailySince = Watch!Midnight(Watch!AsOf)
    BY <1>5 DEF Watch!DailySince
  <2>2. CASE Watch!InSession(time)
    <3>1. Watch!AsOf = time /\ Watch!DailySince = 4 * d - 1 /\ Watch!Day(Watch!AsOf) = d
      BY <1>2, <2>1, <2>2 DEF Watch!AsOf, d
    <3>2. time >= 4 * d + 2 /\ 4 * d - 1 - time + 7 \in 1 .. 6 /\ d <= Watch!Today
          /\ time <= time /\ 4 * d - 1 \in Int
      BY <1>1, <1>2, <1>3, <2>2
    <3>3. time \in Watch!Times
      BY DEF Watch!TypeOK
    <3> QED
      BY <1>5, <3>1, <3>2, <3>3
  <2>3. CASE ~ Watch!InSession(time)
    <3>1. Watch!AsOf = 4 * d - 1 /\ 4 * d - 1 \in Nat /\ 4 * d - 1 \in Watch!Times
      <4>1. Watch!AsOf = 4 * d - 1
        BY <1>2, <1>5, <2>3 DEF Watch!AsOf
      <4>2. 4 * d - 1 \in Nat /\ 2 <= 4 * d - 1 /\ 4 * d - 1 <= conf.horizon
        BY <1>1, <1>2, <2>3, Calendar DEF Watch!TypeOK
      <4> QED
        BY <4>1, <4>2, Calendar DEF Watch!TypeOK
    <3>2. Watch!Day(4 * d - 1) = d - 1 /\ Watch!Midnight(4 * d - 1) = 4 * (d - 1) - 1
      <4>1. Watch!Day(4 * d - 1) = d - 1
        <5> DEFINE t == 4 * d - 1
                   x == Watch!Day(t)
        <5>1. t = 4 * d - 1 /\ t \in Nat
          BY <3>1
        <5> HIDE DEF t
        <5>2. x \in Nat /\ 4 * x <= t /\ t <= 4 * x + 3
          BY <5>1, Quarters
        <5> HIDE DEF x
        <5>3. x = d - 1
          BY <1>2, <5>1, <5>2
        <5> QED
          BY <5>3 DEF x, t
      <4>2. Watch!Midnight(4 * d - 1) = 4 * Watch!Day(4 * d - 1) - 1
        BY <3>1, Quarters
      <4> QED
        BY <4>1, <4>2
    <3>3. Watch!DailySince = 4 * (d - 1) - 1 /\ Watch!Day(Watch!AsOf) = d - 1
      BY <2>1, <3>1, <3>2
    <3> QED
      BY <1>1, <1>2, <1>3, <1>5, <2>3, <3>1, <3>3
  <2> QED
    BY <2>2, <2>3
<1> QED
  BY <1>1, <1>4, <1>5

(* The first alert of a day, from a change of that day: a stock's began at *)
(* the midnight before, a crypto's 24 h ago, later than its last alert.    *)
LEMMA FirstIsFresh ==
    ASSUME WatchConstants, Watch!IInv, Watch!At("symbol"), ~ Watch!Escalating,
           Watch!Today \notin faulty, Watch!UsableDaily, Watch!Reportable(Watch!Daily),
           NEW i \in DOMAIN log, log[i].key = "symbol", log[i].date < Watch!Today,
           log[i].date \notin faulty
    PROVE  log[i].until <= Watch!Daily.since
<1> DEFINE m == run.moment
           end == log[i].until
<1>1. /\ run # None /\ run.node = "symbol" /\ m \in Watch!Times /\ m \in {time, time - 1}
  BY DEF Watch!At, Watch!IInv, Watch!RunOK, Watch!WatchRuns
<1>2. log[i] \in Watch!Pushes
  BY DEF Watch!IInv, Watch!TypeOK
<1>3. end \in Nat /\ log[i].date \in Nat /\ m \in Nat /\ time \in Nat
      /\ conf.kind \in {"stock", "crypto"}
  BY <1>1, <1>2, Calendar DEF Watch!Pushes, Watch!IInv, Watch!TypeOK
<1>4. Watch!Daily.since = Watch!DailySince
  BY DEF Watch!Daily
<1>5. Watch!ROLLING_CHANGE_WINDOW = 4
  BY DEF Watch!ROLLING_CHANGE_WINDOW, Watch!QuartersPerDay
<1>6. CASE conf.kind = "crypto"
  <2>1. PICK r \in alerts : Watch!Tells(log[i], r) /\ r.created_at >= end
    BY <1>1 DEF Watch!IInv, Watch!PushesRecorded, Watch!At
  <2>2. r.key = "symbol" /\ r.created_at \in Nat
    <3>1. r.created_at \in Watch!Times
      BY DEF Watch!IInv, Watch!TypeOK, Watch!Rows
    <3> QED
      BY <2>1, <3>1, Calendar DEF Watch!Tells, Watch!IInv, Watch!TypeOK
  <2>3. ASSUME m - r.created_at < Watch!ROLLING_CHANGE_WINDOW PROVE FALSE
    <3>1. r.created_at >= m - Watch!ROLLING_CHANGE_WINDOW
      BY <1>3, <1>5, <2>2, <2>3
    <3>2. r.created_at \in Watch!get_shock_alert_times(m - Watch!ROLLING_CHANGE_WINDOW)
      BY <2>2, <3>1 DEF Watch!get_shock_alert_times
    <3>3. Watch!get_shock_alert_times(m - Watch!ROLLING_CHANGE_WINDOW) \subseteq run.alert_times
      BY <1>1, <1>6 DEF Watch!IInv, Watch!RunKnows
    <3>4. Watch!is_move_already_alerted(run.alert_times, m)
      BY <2>3, <3>2, <3>3 DEF Watch!is_move_already_alerted
    <3> QED
      BY <1>6, <3>4 DEF Watch!Reportable, Watch!Daily
  <2>4. Watch!DailySince = time - 4
    BY <1>1, <1>6, QuoteOf DEF Watch!IInv
  <2> QED
    BY <1>1, <1>3, <1>4, <1>5, <2>1, <2>2, <2>3, <2>4
<1>7. CASE conf.kind = "stock"
  <2>1. Watch!Day(end) <= log[i].date
    BY <1>7 DEF Watch!IInv, Watch!PushesDated
  <2>2. Watch!Day(Watch!AsOf) = Watch!Today
    BY DEF Watch!UsableDaily, Watch!is_daily_change_fresh, Watch!Today
  <2>3. Watch!DailySince = 4 * Watch!Today - 1
    BY <1>1, <1>7, <2>2, QuoteOf DEF Watch!IInv
  <2>4. Watch!Day(end) \in Nat /\ end <= 4 * Watch!Day(end) + 3 /\ Watch!Today \in Nat
    BY <1>3, Quarters DEF Watch!Today
  <2>5. \A e, x, y, t \in Nat : x <= y /\ y < t /\ e <= 4 * x + 3 => e <= 4 * t - 1
    OBVIOUS
  <2> QED
    BY <1>3, <1>4, <2>1, <2>3, <2>4, <2>5
<1> QED
  BY <1>3, <1>6, <1>7

LEMMA ReadingsAreTyped ==
    ASSUME WatchConstants, Watch!TypeOK, Watch!RunOK, NEW reading \in Watch!Readings
    PROVE  /\ Watch!At("symbol") /\ reading.delta \in Int /\ reading \in MadeReadings
           /\ reading.basis # "snapshot" => Watch!UsableDaily /\ reading = Watch!Daily
           /\ reading.until <= time
           /\ conf.kind = "stock" =>
                 /\ Watch!Day(reading.until) <= Watch!Today
                 /\ reading.basis = "daily" =>
                       reading.since = Watch!QuartersPerDay * Watch!Today - 1
<1>1. Watch!At("symbol") /\ run # None
  BY DEF Watch!Readings, Watch!At
<1>2. price \in Int /\ (\A i \in 1 .. 6 : past[i] \in Int)
      /\ (snapshot # None => snapshot.price \in Int /\ snapshot.at \in Int)
  <2>1. Prices \subseteq Int
    BY DEF WatchConstants
  <2>3. Watch!Times \subseteq Int
    BY Calendar DEF Watch!TypeOK
  <2>2. /\ price \in Prices /\ past \in [1 .. 6 -> Prices]
        /\ snapshot # None => snapshot.price \in Prices /\ snapshot.at \in Watch!Times
    BY DEF Watch!TypeOK
  <2> QED
    BY <2>1, <2>2, <2>3
<1>3. Watch!EndOf(Watch!DailySince) \in Int
  BY <1>1, <1>2, QuoteOf DEF Watch!EndOf
<1>4. Watch!Daily \in MadeReadings /\ Watch!Daily.basis = "daily"
      /\ Watch!Daily.until = Watch!AsOf /\ Watch!Daily.since = Watch!DailySince
  BY <1>1, <1>2, <1>3, QuoteOf DEF Watch!Daily, MadeReadings
<1>5. Watch!UsableSnapshot => /\ Watch!Snapshot \in MadeReadings /\ Watch!Snapshot.basis = "snapshot"
                              /\ Watch!Snapshot.until = Watch!AsOf
  BY <1>1, <1>2, QuoteOf DEF Watch!Snapshot, MadeReadings, Watch!UsableSnapshot
<1>6. \/ reading = Watch!Daily /\ Watch!UsableDaily
      \/ reading = Watch!Snapshot /\ Watch!UsableSnapshot
  BY <1>1 DEF Watch!Readings
<1>7. reading \in MadeReadings /\ reading.until = Watch!AsOf
  BY <1>4, <1>5, <1>6
<1>8. conf.kind = "stock" /\ Watch!UsableDaily =>
         Watch!DailySince = Watch!QuartersPerDay * Watch!Today - 1
  <2>1. Watch!UsableDaily => Watch!Day(Watch!AsOf) = Watch!Today
    BY DEF Watch!UsableDaily, Watch!is_daily_change_fresh, Watch!Today
  <2> QED
    BY <1>1, <2>1, QuoteOf DEF Watch!QuartersPerDay
<1>9. reading.basis # "snapshot" => Watch!UsableDaily /\ reading = Watch!Daily
  BY <1>4, <1>5, <1>6
<1>10. reading.delta \in Int
  BY <1>7 DEF MadeReadings
<1>11. Watch!AsOf <= time /\ (conf.kind = "stock" => Watch!Day(Watch!AsOf) <= Watch!Today)
  BY <1>1, QuoteOf
<1> QED
  BY <1>1, <1>4, <1>7, <1>8, <1>9, <1>10, <1>11

LEMMA AlertSymbolKeepsWatch ==
    ASSUME WatchConstants, Watch!IInv, NEW reading \in Watch!Readings,
           Watch!AlertSymbol(reading)
    PROVE  Watch!IInv'
<1> DEFINE level == IF Watch!Escalating THEN Watch!next_shock_level(run.sent_levels) ELSE 1
           rest == IF run.portfolio THEN reading.delta ELSE None
<1>1. /\ Len(log) < conf.pushes /\ Watch!Reportable(reading)
      /\ Watch!Push("symbol", level, reading)
      /\ run' = [run EXCEPT !.node = "persist", !.delta = rest,
                            !.pushed = [key |-> "symbol", date |-> Watch!Today, level |-> level,
                                        direction |-> Watch!DirectionOf(reading.delta)]]
      /\ UNCHANGED <<conf, time, Watch!market, snapshot, alerts, faulty>>
  BY DEF Watch!AlertSymbol
<1>2. /\ Watch!At("symbol") /\ reading.delta \in Int /\ reading \in MadeReadings
      /\ reading.basis # "snapshot" => Watch!UsableDaily /\ reading = Watch!Daily
      /\ reading.until <= time
      /\ conf.kind = "stock" =>
            /\ Watch!Day(reading.until) <= Watch!Today
            /\ reading.basis = "daily" => reading.since = Watch!QuartersPerDay * Watch!Today - 1
  BY ReadingsAreTyped DEF Watch!IInv
<1>3. run # None /\ ~ Watch!At("persist")
  BY <1>2 DEF Watch!At
<1>4. rest \in Int \cup {None} /\ "symbol" \in Watch!Work
  BY <1>2 DEF Watch!Work
<1>5. /\ level \in 1 .. Watch!MAX_SHOCK_ALERTS_PER_DAY
      /\ level = 2 => \E r \in alerts : r.key = "symbol" /\ r.date = Watch!Today /\ r.level = 1
      /\ Watch!Today \notin faulty =>
              \A r \in alerts : r.key = "symbol" /\ r.date = Watch!Today =>
                 /\ "symbol" = "symbol" /\ r.level = 1 /\ level = 2
                 /\ \/ Watch!DirectionOf(reading.delta) # r.direction
                    \/ Watch!Abs(reading.delta) >= Watch!SHOCK_ESCALATION_MULTIPLIER
      /\ Watch!Today \notin faulty /\ "symbol" = "symbol" /\ level = 1 /\ reading.basis # "snapshot" =>
              \A i \in DOMAIN log :
                 log[i].key = "symbol" /\ log[i].date < Watch!Today /\ log[i].date \notin faulty =>
                    log[i].until <= reading.since
  <2>1. CASE Watch!Escalating
    <3>1. PICK r \in alerts :
              /\ r.key = "symbol" /\ r.date = Watch!Today
              /\ run.sent_levels = {[level |-> 1, direction |-> r.direction]}
              /\ \A q \in alerts : q.key = "symbol" /\ q.date = Watch!Today =>
                    q.level = 1 /\ q.direction = r.direction
      BY <1>2, <2>1, OneRung
    <3>2. Watch!should_escalate(reading.delta, run.sent_levels)
      BY <1>1, <2>1 DEF Watch!Reportable
    <3>3. /\ Watch!next_shock_level(run.sent_levels) = 2
          /\ \/ Watch!DirectionOf(reading.delta) # r.direction
             \/ Watch!Abs(reading.delta) >= Watch!SHOCK_ESCALATION_MULTIPLIER
      BY <1>2, <3>1, <3>2, SecondClimbs
    <3>4. level = 2
      BY <2>1, <3>3
    <3> HIDE DEF level
    <3> QED
      BY <3>1, <3>3, <3>4 DEF Watch!MAX_SHOCK_ALERTS_PER_DAY
  <2>2. CASE ~ Watch!Escalating
    <3>1. level = 1
      BY <2>2
    <3>2. Watch!Emit
      BY <1>1, <2>2 DEF Watch!Reportable, Watch!MeasureOnly
    <3>3. Watch!Today \notin faulty =>
             \A r \in alerts : ~ (r.key = "symbol" /\ r.date = Watch!Today)
      BY <1>2, <1>3, <3>2 DEF Watch!IInv, Watch!RunKnows, Watch!NoRow
    <3>4. Watch!Today \notin faulty /\ reading.basis # "snapshot" =>
              \A i \in DOMAIN log :
                 log[i].key = "symbol" /\ log[i].date < Watch!Today /\ log[i].date \notin faulty =>
                    log[i].until <= reading.since
      BY <1>1, <1>2, <2>2, FirstIsFresh
    <3> HIDE DEF level
    <3> QED
      BY <3>1, <3>3, <3>4 DEF Watch!MAX_SHOCK_ALERTS_PER_DAY
  <2> QED
    BY <2>1, <2>2
<1> HIDE DEF level, rest
<1> QED
  BY <1>1, <1>2, <1>3, <1>4, <1>5, PushKeepsWatch, ZenonT(60)

-----------------------------------------------------------------------------
LEMMA NextKeepsWatch == WatchConstants /\ Watch!IInv /\ [Watch!Next]_Watch!vars => Watch!IInv'
<1> SUFFICES ASSUME WatchConstants, Watch!IInv, [Watch!Next]_Watch!vars
             PROVE  Watch!IInv'
  OBVIOUS
<1>1. CASE UNCHANGED Watch!vars
  <2>1. UNCHANGED <<conf, time, price, trades, past, snapshot, alerts, log, faulty, run>>
    BY <1>1 DEF Watch!vars, Watch!market
  <2>2. Watch!At("persist")' <=> Watch!At("persist")
    BY <2>1 DEF Watch!At
  <2>3. /\ Watch!TableOK' /\ Watch!PushesRecorded' /\ Watch!PushesDated'
        /\ Watch!RowsMatchPushes' /\ Watch!LadderClimbs' /\ Watch!RepeatedOnlyFromSnapshot'
    BY <2>1, <2>2, NothingTold
  <2>4. Watch!RunOK' /\ Watch!RunKnows' /\ Watch!PushInHand'
    <3>1. time \in Watch!Times /\ time \in Nat
      BY Calendar DEF Watch!IInv, Watch!TypeOK
    <3> QED
      BY <2>1, <3>1, WorldKeepsRun
  <2>5. Watch!TypeOK'
    BY <2>1, SameCalendar DEF Watch!IInv, Watch!TypeOK
  <2> QED
    BY <2>3, <2>4, <2>5 DEF Watch!IInv
<1>2. CASE Watch!Tick \/ (\E p \in Prices : Watch!Trade(p)) \/ Watch!FastLoopSnapshot
  BY <1>2, WorldKeepsWatch
<1>3. CASE \E history, window, rungs \in BOOLEAN : Watch!Start(history, window, rungs)
  BY <1>3, StartKeepsWatch
<1>4. CASE Watch!SkipSymbol
  BY <1>4, ToPortfolioKeepsWatch DEF Watch!SkipSymbol
<1>5. ASSUME NEW reading \in Watch!Readings,
             Watch!QuietSymbol(reading) \/ Watch!SymbolPushFails(reading)
      PROVE  Watch!IInv'
  <2>1. Watch!At("symbol") /\ reading.delta \in Int \cup {None}
    BY ReadingsAreTyped DEF Watch!IInv
  <2>2. /\ Watch!ToPortfolio(reading.delta)
        /\ UNCHANGED <<conf, time, Watch!market, snapshot, alerts, log, faulty>>
    BY <1>5 DEF Watch!QuietSymbol, Watch!SymbolPushFails
  <2> QED
    BY <2>1, <2>2, ToPortfolioKeepsWatch
<1>6. ASSUME NEW reading \in Watch!Readings, Watch!AlertSymbol(reading)
      PROVE  Watch!IInv'
  BY <1>6, AlertSymbolKeepsWatch
<1>7. CASE Watch!QuietPortfolio \/ Watch!PortfolioPushFails \/ Watch!Cancelled
  <2>1. /\ run # None /\ run' = None
        /\ UNCHANGED <<conf, time, Watch!market, snapshot, alerts, log>>
        /\ faulty' = IF Watch!At("persist") THEN faulty \cup {Watch!Today} ELSE faulty
    BY <1>7 DEF Watch!QuietPortfolio, Watch!PortfolioPushFails, Watch!Cancelled, Watch!At
  <2> QED
    BY <2>1, RunEndsKeepsWatch
<1>8. CASE Watch!AlertPortfolio
  BY <1>8, AlertPortfolioKeepsWatch
<1>9. CASE Watch!Persist \/ Watch!PersistFails
  BY <1>9, PersistKeepsWatch, PersistFailsKeepsWatch
<1> QED
  BY <1>1, <1>2, <1>3, <1>4, <1>5, <1>6, <1>7, <1>8, <1>9 DEF Watch!Next

(* The shock watch, for every configuration, price and number of alerts:   *)
(* a row stands for a push and, on a day without losses, a push for a row; *)
(* the second alert of such a day climbs, and a move told on an earlier day*)
(* is told again only from a snapshot (scan_watch, _persist_shock_alert).  *)
THEOREM WatchHolds ==
    ASSUME WatchConstants
    PROVE  Watch!Spec => [](/\ Watch!TypeOK /\ Watch!RowsMatchPushes
                            /\ Watch!LadderClimbs /\ Watch!RepeatedOnlyFromSnapshot)
<1>1. Watch!Init => Watch!IInv
  BY InitKeepsWatch
<1>2. Watch!IInv /\ [Watch!Next]_Watch!vars => Watch!IInv'
  BY NextKeepsWatch
<1>3. Watch!IInv => /\ Watch!TypeOK /\ Watch!RowsMatchPushes
                    /\ Watch!LadderClimbs /\ Watch!RepeatedOnlyFromSnapshot
  BY DEF Watch!IInv
<1> QED
  BY <1>1, <1>2, <1>3, PTL DEF Watch!Spec

-----------------------------------------------------------------------------
(* CycleDelivery: the end of a cycle, wherever the phase stops.            *)

(* What the proofs assume of the constants.                                *)
DeliveryConstants == MaxQuotaAlerts \in Nat /\ None \notin Delivery!Outcomes

Ids == 1 .. MaxQuotaAlerts + 1

LEMMA InitKeepsDelivery == DeliveryConstants /\ Delivery!Init => Delivery!IInv
<1> SUFFICES ASSUME DeliveryConstants, Delivery!Init PROVE Delivery!IInv
  OBVIOUS
<1>1. /\ setup \in Delivery!Setups /\ step = "graph" /\ recorded = 0 /\ persisted = 0
      /\ saves = [a \in Ids |-> 0] /\ refused = {}
      /\ todo = Delivery!Audience
      /\ channels = [c \in Delivery!Recipients |-> None]
      /\ report_sent = FALSE /\ assembled = FALSE /\ cycle_row = None
  BY DEF Delivery!Init, Delivery!Audience, Ids
<1>2. MaxQuotaAlerts \in Nat /\ None # "skipped"
  BY DEF DeliveryConstants, Delivery!Outcomes
<1>3. Delivery!Audience \subseteq Delivery!Recipients
  BY DEF Delivery!Audience, Delivery!Recipients
<1>4. Delivery!TypeOK
  <2>1. saves \in [Ids -> Nat] /\ recorded \in 0 .. MaxQuotaAlerts + 1 /\ persisted \in 0 .. recorded
    BY <1>1, <1>2
  <2>2. channels \in [Delivery!Recipients -> Delivery!Outcomes \cup {None}]
    BY <1>1
  <2> QED
    BY <1>1, <1>3, <2>1, <2>2 DEF Delivery!TypeOK, Delivery!Steps, Ids
<1>5. Delivery!SavedOnce
  BY <1>1, <1>2 DEF Delivery!SavedOnce, Ids
<1>6. Delivery!OutcomesOK
  BY <1>1, <1>2 DEF Delivery!OutcomesOK
<1> QED
  BY <1>4, <1>5, <1>6 DEF Delivery!IInv

(* A step that saves no alert and changes no outcome.                      *)
LEMMA MovesKeepDelivery ==
    ASSUME DeliveryConstants, Delivery!IInv,
           \/ Delivery!Record \/ Delivery!Dispatch \/ Delivery!Archive
           \/ Delivery!ReportSent \/ Delivery!Artefacts \/ Delivery!Raises
           \/ UNCHANGED Delivery!deliveryVars
    PROVE  Delivery!IInv'
<1>1. /\ setup' = setup /\ saves' = saves /\ refused' = refused /\ todo' = todo
      /\ channels' = channels /\ assembled' = assembled /\ cycle_row' = cycle_row
  BY DEF Delivery!Record, Delivery!Dispatch, Delivery!Archive, Delivery!ReportSent,
         Delivery!Artefacts, Delivery!Raises, Delivery!deliveryVars, Delivery!alertVars
<1>2. \/ /\ step \in {"graph", "mail", "artefacts"} /\ step' = step
         /\ recorded < MaxQuotaAlerts /\ recorded' = recorded + 1
         /\ persisted' = persisted /\ report_sent' = report_sent
      \/ /\ step = "graph" /\ step' = "assemble"
         /\ recorded' = recorded /\ persisted' = recorded /\ report_sent' = report_sent
      \/ /\ \/ step = "archive" /\ step' = "mail"
            \/ step = "mail" /\ todo = {} /\ step' = "artefacts"
            \/ step = "artefacts" /\ step' = "finally"
            \/ step \in {"assemble", "archive", "mail", "artefacts"} /\ step' = "finally"
            \/ step' = step
         /\ recorded' = recorded /\ persisted' = persisted
         /\ \/ report_sent' = report_sent
            \/ step = "mail" /\ step' = "artefacts" /\ todo = {} /\ report_sent' = TRUE
  BY DEF Delivery!Record, Delivery!Dispatch, Delivery!Archive, Delivery!ReportSent,
         Delivery!Artefacts, Delivery!Raises, Delivery!deliveryVars, Delivery!alertVars
<1>3. /\ step \in Delivery!Steps /\ MaxQuotaAlerts \in Nat
      /\ recorded \in 0 .. MaxQuotaAlerts + 1 /\ persisted \in 0 .. recorded
      /\ refused \subseteq 1 .. recorded /\ saves \in [Ids -> Nat]
  BY DEF DeliveryConstants, Delivery!IInv, Delivery!TypeOK, Ids
<1>4. /\ recorded' \in 0 .. MaxQuotaAlerts + 1 /\ persisted' \in 0 .. recorded'
      /\ refused \subseteq 1 .. recorded' /\ step' \in Delivery!Steps
  BY <1>2, <1>3 DEF Delivery!Steps
<1>5. Delivery!TypeOK'
  <2>1. report_sent' \in BOOLEAN
    BY <1>2 DEF Delivery!IInv, Delivery!TypeOK
  <2> QED
    BY <1>1, <1>4, <2>1 DEF Delivery!IInv, Delivery!TypeOK, Delivery!Recipients
<1>6. Delivery!SavedOnce'
  <2>1. CASE recorded' = recorded /\ persisted' = persisted /\ step' = step
    BY <1>1, <1>3, <2>1 DEF Delivery!IInv, Delivery!SavedOnce, Delivery!Swept
  <2>2. CASE recorded' = recorded + 1 /\ persisted' = persisted
    BY <1>1, <1>2, <1>3, <2>2 DEF Delivery!IInv, Delivery!SavedOnce, Delivery!Swept
  <2>3. CASE step = "graph" /\ step' = "assemble"
    BY <1>1, <1>2, <1>3, <2>3 DEF Delivery!IInv, Delivery!SavedOnce, Delivery!Swept
  <2>4. CASE /\ recorded' = recorded /\ persisted' = persisted
             /\ \/ step = "archive" /\ step' = "mail"
                \/ step = "mail" /\ step' = "artefacts"
                \/ step \in {"assemble", "archive", "mail", "artefacts"} /\ step' = "finally"
    BY <1>1, <1>3, <2>4 DEF Delivery!IInv, Delivery!SavedOnce, Delivery!Swept
  <2> QED
    BY <1>2, <2>1, <2>2, <2>3, <2>4
<1>7. Delivery!OutcomesOK'
  <2>1. Delivery!Audience' = Delivery!Audience
        /\ (Delivery!SkippedWithoutChannel' <=> Delivery!SkippedWithoutChannel)
    BY <1>1 DEF Delivery!Audience, Delivery!SkippedWithoutChannel
  <2>2. step \in {"row", "end"} \/ step' \in {"row", "end"} =>
           step' = step /\ recorded' = recorded /\ (report_sent' <=> report_sent)
    BY <1>2
  <2>3. CASE step' \notin {"row", "end"}
    BY <1>1, <1>2, <2>1, <2>3 DEF Delivery!IInv, Delivery!OutcomesOK, Delivery!Recipients
  <2>4. CASE step' \in {"row", "end"}
    <3>1. Delivery!delivered' <=> Delivery!delivered
      BY <1>1, <2>2, <2>4 DEF Delivery!delivered, Delivery!email_delivered, Delivery!Recipients
    <3>2. report_sent' => todo = {}
      BY <2>2, <2>4 DEF Delivery!IInv, Delivery!OutcomesOK
    <3> QED
      BY <1>1, <2>1, <2>2, <2>4, <3>1, <3>2
         DEF Delivery!IInv, Delivery!OutcomesOK, Delivery!Recipients
  <2> QED
    BY <2>3, <2>4
<1> QED
  BY <1>5, <1>6, <1>7 DEF Delivery!IInv

(* What a sweep of alerts not touched before leaves.                       *)
LEMMA SweepSavesOnce ==
    ASSUME saves \in [Ids -> Nat], NEW S \in SUBSET Ids, Delivery!Persist(S),
           \A a \in S : saves[a] = 0
    PROVE  /\ saves' \in [Ids -> Nat]
           /\ \A a \in Ids \ S : saves'[a] = saves[a]
           /\ \A a \in S : saves'[a] <= 1 /\ (saves'[a] = 1 \/ a \in refused')
           /\ refused \subseteq refused' /\ refused' \subseteq refused \cup S
<1>1. PICK failed \in SUBSET S :
         /\ saves' = [a \in Ids |-> IF a \in S \ failed THEN saves[a] + 1 ELSE saves[a]]
         /\ refused' = refused \cup failed
  BY DEF Delivery!Persist
<1>2. saves' \in [Ids -> Nat]
  BY <1>1
<1>3. \A a \in Ids : saves'[a] = IF a \in S \ failed THEN saves[a] + 1 ELSE saves[a]
  BY <1>1
<1> QED
  BY <1>1, <1>2, <1>3

LEMMA AssembleKeepsDelivery ==
    ASSUME DeliveryConstants, Delivery!IInv, Delivery!Assemble
    PROVE  Delivery!IInv'
<1>1. /\ step = "assemble" /\ step' = "archive" /\ assembled' = TRUE
      /\ Delivery!Persist(1 .. recorded)
      /\ setup' = setup /\ recorded' = recorded /\ persisted' = persisted /\ todo' = todo
      /\ channels' = channels /\ report_sent' = report_sent /\ cycle_row' = cycle_row
  BY DEF Delivery!Assemble
<1>2. /\ MaxQuotaAlerts \in Nat /\ saves \in [Ids -> Nat]
      /\ recorded \in 0 .. MaxQuotaAlerts /\ persisted = recorded
      /\ refused \subseteq 1 .. recorded /\ ~ assembled
  BY <1>1 DEF DeliveryConstants, Delivery!IInv, Delivery!TypeOK, Delivery!SavedOnce, Ids
<1>3. \A a \in Ids : saves[a] = 0
  BY <1>1, <1>2 DEF Delivery!IInv, Delivery!SavedOnce, Delivery!Swept
<1>4. 1 .. recorded \subseteq Ids
  BY <1>2 DEF Ids
<1>5. /\ saves' \in [Ids -> Nat]
      /\ \A a \in Ids \ (1 .. recorded) : saves'[a] = saves[a]
      /\ \A a \in 1 .. recorded : saves'[a] <= 1 /\ (saves'[a] = 1 \/ a \in refused')
      /\ refused' \subseteq refused \cup 1 .. recorded
  BY <1>1, <1>2, <1>3, <1>4, SweepSavesOnce
<1>6. Delivery!TypeOK'
  BY <1>1, <1>2, <1>5 DEF Delivery!IInv, Delivery!TypeOK, Delivery!Steps, Delivery!Recipients, Ids
<1>7. Delivery!SavedOnce'
  <2>1. Delivery!Swept' = 1 .. recorded
    BY <1>1, <1>2 DEF Delivery!Swept
  <2>2. DOMAIN saves' = Ids
    BY <1>5
  <2>3. \A a \in Ids : saves'[a] <= 1 /\ (a \notin 1 .. recorded => saves'[a] = 0)
    BY <1>3, <1>5
  <2> QED
    BY <1>1, <1>2, <1>5, <2>1, <2>2, <2>3 DEF Delivery!SavedOnce
<1>8. Delivery!OutcomesOK'
  BY <1>1 DEF Delivery!IInv, Delivery!OutcomesOK, Delivery!Audience, Delivery!Recipients,
              Delivery!SkippedWithoutChannel
<1> QED
  BY <1>6, <1>7, <1>8 DEF Delivery!IInv

LEMMA SendKeepsDelivery ==
    ASSUME DeliveryConstants, Delivery!IInv, NEW c \in Delivery!Recipients, Delivery!Send(c)
    PROVE  Delivery!IInv'
<1>1. /\ step = "mail" /\ c \in todo /\ todo' = todo \ {c}
      /\ setup' = setup /\ step' = step /\ recorded' = recorded /\ saves' = saves
      /\ refused' = refused /\ persisted' = persisted /\ report_sent' = report_sent
      /\ assembled' = assembled /\ cycle_row' = cycle_row
  BY DEF Delivery!Send, Delivery!alertVars
<1>2. PICK outcome \in Delivery!Outcomes :
         /\ channels' = [channels EXCEPT ![c] = outcome]
         /\ outcome = "skipped" => Delivery!SkippedWithoutChannel
  BY DEF Delivery!Send, Delivery!Outcomes
<1>3. outcome # None /\ channels \in [Delivery!Recipients -> Delivery!Outcomes \cup {None}]
  BY DEF DeliveryConstants, Delivery!IInv, Delivery!TypeOK
<1>4. /\ channels' \in [Delivery!Recipients -> Delivery!Outcomes \cup {None}]
      /\ channels'[c] = outcome
      /\ \A d \in Delivery!Recipients \ {c} : channels'[d] = channels[d]
  BY <1>2, <1>3
<1>5. Delivery!TypeOK'
  BY <1>1, <1>4 DEF Delivery!IInv, Delivery!TypeOK, Delivery!Recipients
<1>6. Delivery!SavedOnce'
  BY <1>1 DEF Delivery!IInv, Delivery!SavedOnce, Delivery!Swept
<1>7. Delivery!OutcomesOK'
  <2>1. Delivery!Audience' = Delivery!Audience /\ Delivery!Audience \subseteq Delivery!Recipients
        /\ (Delivery!SkippedWithoutChannel' <=> Delivery!SkippedWithoutChannel)
        /\ Delivery!Recipients' = Delivery!Recipients
    BY <1>1 DEF Delivery!Audience, Delivery!SkippedWithoutChannel, Delivery!Recipients
  <2>2. /\ \A d \in Delivery!Audience \ todo' : channels'[d] # None
        /\ \A d \in Delivery!Recipients : channels'[d] = "skipped" => Delivery!SkippedWithoutChannel
    BY <1>1, <1>2, <1>3, <1>4, <2>1 DEF Delivery!IInv, Delivery!OutcomesOK
  <2>3. todo' \subseteq Delivery!Audience /\ (report_sent' => todo' = {}) /\ step' = "mail"
    BY <1>1 DEF Delivery!IInv, Delivery!OutcomesOK
  <2> QED
    BY <2>1, <2>2, <2>3 DEF Delivery!OutcomesOK
<1> QED
  BY <1>5, <1>6, <1>7 DEF Delivery!IInv

(* The alerts of the phase are those behind the ones it began with.        *)
LEMMA FinallyKeepsDelivery ==
    ASSUME DeliveryConstants, Delivery!IInv, Delivery!Finally
    PROVE  Delivery!IInv'
<1>1. /\ step = "finally" /\ step' = "row"
      /\ Delivery!Persist(persisted + 1 .. recorded)
      /\ cycle_row' = IF Delivery!SkippedWithoutChannel THEN "none"
                      ELSE IF Delivery!delivered THEN "yes" ELSE "no"
      /\ setup' = setup /\ recorded' = recorded /\ persisted' = persisted /\ todo' = todo
      /\ channels' = channels /\ report_sent' = report_sent /\ assembled' = assembled
  BY DEF Delivery!Finally
<1>2. /\ MaxQuotaAlerts \in Nat /\ saves \in [Ids -> Nat]
      /\ recorded \in 0 .. MaxQuotaAlerts /\ persisted \in 0 .. recorded
      /\ refused \subseteq 1 .. recorded
  BY <1>1 DEF DeliveryConstants, Delivery!IInv, Delivery!TypeOK, Delivery!SavedOnce, Ids
<1>3. /\ \A a \in Ids : saves[a] <= 1 /\ (a \notin 1 .. persisted => saves[a] = 0)
      /\ assembled => \A a \in 1 .. persisted : saves[a] = 1 \/ a \in refused
  BY <1>1, <1>2 DEF Delivery!IInv, Delivery!SavedOnce, Delivery!Swept
<1>4. /\ persisted + 1 .. recorded \subseteq Ids
      /\ \A a \in persisted + 1 .. recorded : a \notin 1 .. persisted
      /\ \A a \in 1 .. recorded : a \in 1 .. persisted \/ a \in persisted + 1 .. recorded
      /\ 1 .. persisted \subseteq Ids
  BY <1>2 DEF Ids
<1>5. \A a \in persisted + 1 .. recorded : saves[a] = 0
  BY <1>3, <1>4
<1>6. /\ saves' \in [Ids -> Nat]
      /\ \A a \in Ids \ (persisted + 1 .. recorded) : saves'[a] = saves[a]
      /\ \A a \in persisted + 1 .. recorded : saves'[a] <= 1 /\ (saves'[a] = 1 \/ a \in refused')
      /\ refused \subseteq refused'
      /\ refused' \subseteq refused \cup (persisted + 1 .. recorded)
  BY <1>1, <1>2, <1>4, <1>5, SweepSavesOnce
<1>7. Delivery!TypeOK'
  <2>1. refused' \subseteq 1 .. recorded
    BY <1>2, <1>6
  <2> QED
    BY <1>1, <1>2, <1>6, <2>1
       DEF Delivery!IInv, Delivery!TypeOK, Delivery!Steps, Delivery!Recipients, Ids
<1>8. Delivery!SavedOnce'
  <2>1. Delivery!Swept' = 1 .. recorded
    BY <1>1 DEF Delivery!Swept
  <2>2. DOMAIN saves' = Ids
    BY <1>6
  <2>3. \A a \in Ids : saves'[a] <= 1 /\ (a \notin 1 .. recorded => saves'[a] = 0)
    <3>1. \A a \in Ids \ (1 .. recorded) : a \notin 1 .. persisted /\ a \notin persisted + 1 .. recorded
      BY <1>2 DEF Ids
    <3> QED
      BY <1>3, <1>6, <3>1
  <2>4. assembled => \A a \in 1 .. persisted : saves'[a] = 1 \/ a \in refused'
    BY <1>3, <1>4, <1>6
  <2> QED
    BY <1>1, <1>2, <1>6, <2>1, <2>2, <2>3, <2>4 DEF Delivery!SavedOnce
<1>9. Delivery!OutcomesOK'
  <2>1. /\ Delivery!Audience' = Delivery!Audience /\ Delivery!Recipients' = Delivery!Recipients
        /\ (Delivery!SkippedWithoutChannel' <=> Delivery!SkippedWithoutChannel)
        /\ (Delivery!delivered' <=> Delivery!delivered)
    BY <1>1 DEF Delivery!Audience, Delivery!SkippedWithoutChannel, Delivery!delivered,
                Delivery!email_delivered, Delivery!Recipients
  <2> QED
    BY <1>1, <2>1 DEF Delivery!IInv, Delivery!OutcomesOK
<1> QED
  BY <1>7, <1>8, <1>9 DEF Delivery!IInv

(* The alert about a report that did not arrive is the last one.           *)
LEMMA FinishKeepsDelivery ==
    ASSUME DeliveryConstants, Delivery!IInv, Delivery!Finish
    PROVE  Delivery!IInv'
<1>1. /\ step = "row" /\ step' = "end"
      /\ setup' = setup /\ persisted' = persisted /\ todo' = todo /\ cycle_row' = cycle_row
      /\ channels' = channels /\ report_sent' = report_sent /\ assembled' = assembled
      /\ IF cycle_row = "no" THEN recorded' = recorded + 1 /\ Delivery!Persist({recorded + 1})
         ELSE recorded' = recorded /\ saves' = saves /\ refused' = refused
  BY DEF Delivery!Finish, Delivery!alertVars
<1>2. /\ MaxQuotaAlerts \in Nat /\ saves \in [Ids -> Nat]
      /\ recorded \in 0 .. MaxQuotaAlerts /\ persisted \in 0 .. recorded
      /\ refused \subseteq 1 .. recorded
  BY <1>1 DEF DeliveryConstants, Delivery!IInv, Delivery!TypeOK, Delivery!SavedOnce, Ids
<1>3. /\ \A a \in Ids : saves[a] <= 1 /\ (a \notin 1 .. recorded => saves[a] = 0)
      /\ assembled => \A a \in 1 .. persisted : saves[a] = 1 \/ a \in refused
      /\ \A a \in persisted + 1 .. recorded : saves[a] = 1 \/ a \in refused
  BY <1>1, <1>2 DEF Delivery!IInv, Delivery!SavedOnce, Delivery!Swept
<1>4. /\ recorded + 1 \in Ids /\ recorded + 1 \notin 1 .. recorded /\ 1 .. recorded \subseteq Ids
      /\ 1 .. persisted \subseteq 1 .. recorded /\ persisted + 1 .. recorded \subseteq 1 .. recorded
  BY <1>2 DEF Ids
<1>5. cycle_row = "no" =>
         /\ saves' \in [Ids -> Nat]
         /\ \A a \in Ids \ {recorded + 1} : saves'[a] = saves[a]
         /\ saves'[recorded + 1] <= 1 /\ (saves'[recorded + 1] = 1 \/ recorded + 1 \in refused')
         /\ refused \subseteq refused' /\ refused' \subseteq refused \cup {recorded + 1}
  <2> SUFFICES ASSUME cycle_row = "no"
               PROVE  /\ saves' \in [Ids -> Nat]
                      /\ \A a \in Ids \ {recorded + 1} : saves'[a] = saves[a]
                      /\ saves'[recorded + 1] <= 1
                      /\ (saves'[recorded + 1] = 1 \/ recorded + 1 \in refused')
                      /\ refused \subseteq refused' /\ refused' \subseteq refused \cup {recorded + 1}
    OBVIOUS
  <2>1. /\ {recorded + 1} \in SUBSET Ids /\ Delivery!Persist({recorded + 1})
        /\ \A a \in {recorded + 1} : saves[a] = 0
    BY <1>1, <1>3, <1>4
  <2> QED
    BY <1>2, <2>1, SweepSavesOnce
<1>6. /\ recorded' \in 0 .. MaxQuotaAlerts + 1 /\ persisted \in 0 .. recorded'
      /\ saves' \in [Ids -> Nat] /\ refused' \subseteq 1 .. recorded'
      /\ \A a \in 1 .. recorded : saves'[a] = saves[a] /\ (a \in refused => a \in refused')
      /\ \A a \in Ids : saves'[a] <= 1 /\ (a \notin 1 .. recorded' => saves'[a] = 0)
      /\ \A a \in 1 .. recorded' : a \in 1 .. recorded \/ (cycle_row = "no" /\ a = recorded + 1)
  <2>1. CASE cycle_row = "no"
    <3>1. recorded' = recorded + 1
      BY <1>1, <2>1
    <3>2. \A a \in Ids : saves'[a] <= 1 /\ (a \notin 1 .. recorded' => saves'[a] = 0)
      BY <1>2, <1>3, <1>5, <2>1, <3>1
    <3>3. 1 .. recorded' = 1 .. recorded \cup {recorded + 1}
      BY <1>2, <3>1
    <3>4. refused' \subseteq 1 .. recorded'
      BY <1>2, <1>5, <2>1, <3>3
    <3>5. /\ recorded' \in 0 .. MaxQuotaAlerts + 1 /\ persisted \in 0 .. recorded'
          /\ recorded + 1 \notin 1 .. recorded
      BY <1>2, <3>1
    <3>6. \A a \in 1 .. recorded : saves'[a] = saves[a] /\ (a \in refused => a \in refused')
      BY <1>4, <1>5, <2>1, <3>5
    <3>7. \A a \in 1 .. recorded' : a \in 1 .. recorded \/ a = recorded + 1
      BY <3>3
    <3>8. saves' \in [Ids -> Nat]
      BY <1>5, <2>1
    <3> QED
      BY <2>1, <3>2, <3>4, <3>5, <3>6, <3>7, <3>8
  <2>2. CASE cycle_row # "no"
    <3>1. recorded' = recorded /\ saves' = saves /\ refused' = refused
      BY <1>1, <2>2
    <3>2. recorded \in 0 .. MaxQuotaAlerts + 1
      BY <1>2
    <3> QED
      BY <1>2, <1>3, <3>1, <3>2
  <2> QED
    BY <2>1, <2>2
<1>7. Delivery!TypeOK'
  BY <1>1, <1>6 DEF Delivery!IInv, Delivery!TypeOK, Delivery!Steps, Delivery!Recipients, Ids
<1>8. Delivery!SavedOnce'
  <2>1. Delivery!Swept' = 1 .. recorded' /\ DOMAIN saves' = Ids
    BY <1>1, <1>6 DEF Delivery!Swept
  <2>2. assembled => \A a \in 1 .. persisted : saves'[a] = 1 \/ a \in refused'
    BY <1>3, <1>4, <1>6
  <2>3. \A a \in persisted + 1 .. recorded' : saves'[a] = 1 \/ a \in refused'
    <3> SUFFICES ASSUME NEW a \in persisted + 1 .. recorded', a # recorded + 1 \/ cycle_row # "no"
                 PROVE  saves'[a] = 1 \/ a \in refused'
      BY <1>5
    <3>1. a \in 1 .. recorded
      BY <1>2, <1>6
    <3>2. a \in persisted + 1 .. recorded
      BY <1>2, <3>1
    <3> QED
      BY <1>3, <1>6, <3>1, <3>2
  <2> QED
    BY <1>1, <1>6, <2>1, <2>2, <2>3 DEF Delivery!SavedOnce
<1>9. Delivery!OutcomesOK'
  <2>1. /\ Delivery!Audience' = Delivery!Audience /\ Delivery!Recipients' = Delivery!Recipients
        /\ (Delivery!SkippedWithoutChannel' <=> Delivery!SkippedWithoutChannel)
        /\ (Delivery!delivered' <=> Delivery!delivered)
    BY <1>1 DEF Delivery!Audience, Delivery!SkippedWithoutChannel, Delivery!delivered,
                Delivery!email_delivered, Delivery!Recipients
  <2>2. cycle_row' = "no" => recorded' > 0 /\ (saves'[recorded'] = 1 \/ recorded' \in refused')
    BY <1>1, <1>2, <1>5
  <2> QED
    BY <1>1, <2>1, <2>2 DEF Delivery!IInv, Delivery!OutcomesOK
<1> QED
  BY <1>7, <1>8, <1>9 DEF Delivery!IInv

LEMMA NextKeepsDelivery ==
    DeliveryConstants /\ Delivery!IInv /\ [Delivery!Next]_Delivery!deliveryVars => Delivery!IInv'
  BY MovesKeepDelivery, AssembleKeepsDelivery, SendKeepsDelivery, FinallyKeepsDelivery,
     FinishKeepsDelivery DEF Delivery!Next, Delivery!Ended

LEMMA IInvImpliesDeliveryAccountedFor ==
    ASSUME DeliveryConstants, Delivery!IInv
    PROVE  Delivery!DeliveryAccountedFor
<1>1. /\ recorded \in Nat /\ persisted \in 0 .. recorded
      /\ channels \in [Delivery!Recipients -> Delivery!Outcomes \cup {None}]
  BY DEF DeliveryConstants, Delivery!IInv, Delivery!TypeOK
<1>2. \A a \in DOMAIN saves : saves[a] <= 1
  BY DEF Delivery!IInv, Delivery!SavedOnce
<1>3. ASSUME step = "end", assembled, NEW a \in 1 .. recorded
      PROVE  saves[a] = 1 \/ a \in refused
  <2>1. a \in 1 .. persisted \/ a \in persisted + 1 .. recorded
    BY <1>1
  <2> QED
    BY <1>3, <2>1 DEF Delivery!IInv, Delivery!SavedOnce
<1>4. ASSUME step = "end"
      PROVE  /\ cycle_row = "yes" => Delivery!Unreached = {}
             /\ cycle_row = "none" <=> Delivery!SkippedWithoutChannel
             /\ Delivery!Unreached # {} /\ ~ Delivery!SkippedWithoutChannel
                   => cycle_row = "no" /\ (saves[recorded] = 1 \/ recorded \in refused)
  <2>1. cycle_row = IF Delivery!SkippedWithoutChannel THEN "none"
                    ELSE IF Delivery!delivered THEN "yes" ELSE "no"
    BY <1>4 DEF Delivery!IInv, Delivery!OutcomesOK
  <2>2. ~ Delivery!SkippedWithoutChannel /\ Delivery!delivered => Delivery!Unreached = {}
    <3> SUFFICES ASSUME ~ Delivery!SkippedWithoutChannel, Delivery!delivered,
                        NEW c \in Delivery!Audience
                 PROVE  channels[c] = "sent"
      BY DEF Delivery!Unreached, Delivery!Audience
    <3>1. c \in Delivery!Recipients
      BY DEF Delivery!Audience, Delivery!Recipients
    <3>2. c \notin todo
      BY DEF Delivery!IInv, Delivery!OutcomesOK, Delivery!delivered
    <3>3. channels[c] # None /\ channels[c] # "skipped"
      BY <3>1, <3>2 DEF Delivery!IInv, Delivery!OutcomesOK
    <3>4. channels[c] # "failed"
      BY <3>1 DEF Delivery!delivered, Delivery!email_delivered
    <3> QED
      BY <1>1, <3>1, <3>3, <3>4 DEF Delivery!Outcomes
  <2>3. cycle_row = "no" => saves[recorded] = 1 \/ recorded \in refused
    BY <1>4 DEF Delivery!IInv, Delivery!OutcomesOK
  <2> QED
    BY <2>1, <2>2, <2>3
<1> QED
  BY <1>2, <1>3, <1>4 DEF Delivery!DeliveryAccountedFor

(* For every set of subscribers and every number of alerts: however the    *)
(* phase ends, an alert is saved once or its own insert failed, a report   *)
(* somebody missed is never booked as delivered and leaves an alert of its *)
(* own (deliver_report, persist_quota_alerts, flag_undelivered_report).    *)
THEOREM DeliveryHolds ==
    ASSUME DeliveryConstants
    PROVE  Delivery!Spec => [](Delivery!TypeOK /\ Delivery!DeliveryAccountedFor)
<1>1. Delivery!Init => Delivery!IInv
  BY InitKeepsDelivery
<1>2. Delivery!IInv /\ [Delivery!Next]_Delivery!deliveryVars => Delivery!IInv'
  BY NextKeepsDelivery
<1>3. Delivery!IInv => Delivery!TypeOK /\ Delivery!DeliveryAccountedFor
  BY IInvImpliesDeliveryAccountedFor DEF Delivery!IInv
<1> QED
  BY <1>1, <1>2, <1>3, PTL DEF Delivery!Spec

-----------------------------------------------------------------------------
(* A set of natural numbers below a bound has a greatest element.          *)
LEMMA GreatestNumber ==
    ASSUME NEW n \in Nat, NEW S \in SUBSET (0 .. n), S # {}
    PROVE  \E m \in S : \A y \in S : y <= m
<1> DEFINE T == {x .. n : x \in S}
<1>1. T \subseteq FiniteSubsetsOf(Nat) /\ T # {}
  <2>1. ASSUME NEW x \in S PROVE x .. n \in FiniteSubsetsOf(Nat)
    BY FS_Interval, x .. n \subseteq Nat, x \in Int, n \in Int DEF FiniteSubsetsOf
  <2> QED
    BY <2>1
<1>2. \E a \in T : \A b \in T : ~ (<<b, a>> \in StrictSubsetOrdering(Nat))
  <2> HIDE DEF T
  <2> QED
    BY <1>1, FS_StrictSubsetOrderingWellFounded, WFMin
<1>3. PICK m \in S : \A y \in S : <<y .. n, m .. n>> \notin StrictSubsetOrdering(Nat)
  BY <1>2
<1>4. \A y \in S : y <= m
  <2> SUFFICES ASSUME NEW y \in S, m < y PROVE FALSE
    OBVIOUS
  <2>1. y .. n \subseteq m .. n /\ m \in m .. n /\ m \notin y .. n
    OBVIOUS
  <2>2. y .. n \in SUBSET Nat /\ m .. n \in SUBSET Nat
    OBVIOUS
  <2> QED
    BY <1>3, <2>1, <2>2 DEF StrictSubsetOrdering
<1> QED
  BY <1>4

-----------------------------------------------------------------------------
(* MailWindow: the sudden moves that the mails tell.                       *)

(* What the proofs assume of the constants.                                *)
MailConstants == LastHour \in Nat /\ MaxMails \in Nat /\ FallbackLookback \in Int

LEMMA LatestHour ==
    ASSUME NEW n \in Nat, NEW S \in SUBSET (0 .. n), S # {}
    PROVE  Mail!Max(S) \in S /\ \A y \in S : y <= Mail!Max(S)
<1>1. PICK m \in S : \A y \in S : y <= m
  BY GreatestNumber
<1>2. \A y \in S : m >= y
  BY <1>1
<1>3. Mail!Max(S) \in S /\ \A y \in S : Mail!Max(S) >= y
  BY <1>2 DEF Mail!Max
<1> QED
  BY <1>3

(* The start of the last cycle whose mail went out.                        *)
Starts(at) ==
    {r.started_at : r \in {q \in cycle_runs : q.report_delivered /\ q.started_at < at}}

LEMMA LastReport ==
    ASSUME MailConstants, Mail!TypeOK, NEW at \in Mail!Hours,
           Mail!get_last_report_at(at) # None
    PROVE  /\ \E r \in cycle_runs : /\ r.report_delivered /\ r.started_at < at
                                    /\ r.started_at = Mail!get_last_report_at(at)
           /\ Mail!get_last_report_at(at) \in Mail!Hours
           /\ \A r \in cycle_runs : r.report_delivered /\ r.started_at < at
                                       => r.started_at <= Mail!get_last_report_at(at)
<1>1. Starts(at) \in SUBSET (0 .. LastHour) /\ LastHour \in Nat
  BY DEF MailConstants, Mail!TypeOK, Mail!Hours, Starts
<1>2. Mail!get_last_report_at(at) = IF Starts(at) = {} THEN None ELSE Mail!Max(Starts(at))
  BY DEF Mail!get_last_report_at, Starts
<1>3. Starts(at) # {} /\ Mail!get_last_report_at(at) = Mail!Max(Starts(at))
  BY <1>2
<1>4. /\ Mail!Max(Starts(at)) \in Starts(at)
      /\ \A y \in Starts(at) : y <= Mail!Max(Starts(at))
  BY <1>1, <1>3, LatestHour
<1> QED
  BY <1>1, <1>3, <1>4 DEF Starts, Mail!Hours

LEMMA InitKeepsMail == MailConstants /\ Mail!Init => Mail!IInv
  BY DEF MailConstants, Mail!Init, Mail!IInv, Mail!TypeOK, Mail!Hours, Mail!Assembled

LEMMA RowsBehindHour ==
    ASSUME MailConstants, Mail!IInv
    PROVE  \A r \in cycle_runs : r.report_delivered => r.started_at <= hour
<1> SUFFICES ASSUME NEW r \in cycle_runs, r.report_delivered PROVE r.started_at <= hour
  OBVIOUS
<1>1. PICK m \in mails : m.started_at = r.started_at
  BY DEF Mail!IInv
<1>2. /\ Mail!Content(m) /\ m.started_at \in Int /\ hour \in Int
  BY DEF MailConstants, Mail!IInv, Mail!TypeOK, Mail!Mail, Mail!Hours
<1>3. m.assembled_at \in Int /\ m.started_at <= m.assembled_at /\ m.assembled_at <= hour
  BY <1>2 DEF MailConstants, Mail!Content, Mail!Hours
<1> QED
  BY <1>1, <1>2, <1>3

(* What a mail has to tell stays told while time passes, moves are stored, *)
(* other mails go out and newer cycles leave their rows.                   *)
LEMMA ContentStays ==
    ASSUME MailConstants, Mail!IInv, NEW m, Mail!Content(m), m.started_at \in Mail!Hours,
           hour' \in Mail!Hours, hour <= hour',
           \A s \in shock_alerts' : s \in shock_alerts \/ s = hour,
           mails \subseteq mails',
           \A r \in cycle_runs' : r \in cycle_runs \/ m.started_at <= r.started_at,
           cycle_runs' \subseteq [started_at : Mail!Hours, report_delivered : BOOLEAN]
    PROVE  Mail!Content(m)'
<1>1. /\ LastHour \in Nat /\ hour \in Mail!Hours /\ shock_alerts \subseteq Mail!Hours
      /\ cycle_runs \subseteq [started_at : Mail!Hours, report_delivered : BOOLEAN]
  BY DEF MailConstants, Mail!IInv, Mail!TypeOK
<1>2. /\ m.assembled_at \in Mail!Hours /\ m.started_at <= m.assembled_at
      /\ m.assembled_at <= hour
      /\ m.fallback \in BOOLEAN /\ m.shocks \in (SUBSET Mail!Hours) \cup {None}
      /\ Mail!Accounted(m, mails) /\ Mail!BehindOlder(m)
  BY DEF Mail!Content
<1>3. m.assembled_at <= hour'
  BY <1>1, <1>2 DEF Mail!Hours
<1>4. Mail!Accounted(m, mails)'
  <2> SUFFICES ASSUME NEW s \in shock_alerts', s < m.assembled_at
               PROVE  \E k \in mails' \cup {m} : k.started_at <= m.started_at
                                   /\ (Mail!Tells(k, s) \/ Mail!LeavesOut(k, s))
    BY DEF Mail!Accounted, Mail!Tells, Mail!LeavesOut
  <2>1. s \in shock_alerts
    BY <1>1, <1>2 DEF Mail!Hours
  <2> QED
    BY <1>2, <2>1 DEF Mail!Accounted
<1>5. Mail!BehindOlder(m)'
  <2> SUFFICES ASSUME NEW r \in cycle_runs', NEW s \in shock_alerts',
                      r.report_delivered, r.started_at < m.started_at,
                      Mail!Tells(m, s), ~ m.fallback
               PROVE  s >= r.started_at
    BY DEF Mail!BehindOlder, Mail!Tells
  <2>1. r.started_at \in Mail!Hours
    OBVIOUS
  <2>2. r \in cycle_runs
    BY <2>1 DEF Mail!Hours
  <2>3. CASE s \in shock_alerts
    BY <1>2, <2>2, <2>3 DEF Mail!BehindOlder
  <2>4. CASE s = hour
    BY <1>1, <2>1, <2>2, <2>4, RowsBehindHour DEF Mail!Hours
  <2> QED
    BY <2>3, <2>4
<1> QED
  BY <1>2, <1>3, <1>4, <1>5 DEF Mail!Content, Mail!Hours

(* A mail is the cycle that was put together: the fields are the same.     *)
LEMMA SameContent ==
    ASSUME NEW c, NEW m, Mail!Content(c), m.started_at = c.started_at,
           m.assembled_at = c.assembled_at, m.fallback = c.fallback, m.shocks = c.shocks
    PROVE  Mail!Content(m)
<1>1. \A s : (Mail!Tells(m, s) <=> Mail!Tells(c, s)) /\ (Mail!LeavesOut(m, s) <=> Mail!LeavesOut(c, s))
  BY DEF Mail!Tells, Mail!LeavesOut
<1>2. Mail!Accounted(m, mails)
  BY <1>1 DEF Mail!Content, Mail!Accounted
<1>3. Mail!BehindOlder(m)
  BY <1>1 DEF Mail!Content, Mail!BehindOlder
<1> QED
  BY <1>2, <1>3 DEF Mail!Content

(* What is put together tells what is stored since the start of the last   *)
(* mail; what is older, that mail had to tell.                             *)
LEMMA AssembledContent ==
    ASSUME MailConstants, Mail!IInv, cycle # None, NEW known \in BOOLEAN, NEW readable \in BOOLEAN,
           NEW c, c.started_at = cycle.started_at, c.assembled_at = hour,
           c.fallback = (~ known \/ Mail!get_last_report_at(cycle.started_at) = None),
           c.shocks = Mail!shocks_since_last_mail(cycle.started_at, known, readable)
    PROVE  Mail!Content(c)
<1> DEFINE last == Mail!get_last_report_at(c.started_at)
           start == Mail!WindowStart(c.started_at, known)
<1>1. /\ Mail!TypeOK /\ LastHour \in Nat /\ hour \in Mail!Hours
      /\ c.started_at \in Mail!Hours /\ c.started_at <= hour
      /\ shock_alerts \subseteq Mail!Hours /\ FallbackLookback \in Int
  BY DEF MailConstants, Mail!IInv, Mail!TypeOK, Mail!CycleOK
<1>2. c.fallback \in BOOLEAN /\ (c.fallback <=> ~ known \/ last = None)
  OBVIOUS
<1>3. c.shocks = IF readable THEN {s \in shock_alerts : s >= start} ELSE None
  BY DEF Mail!shocks_since_last_mail, Mail!get_shock_alerts_since
<1>4. start = IF c.fallback THEN c.started_at - FallbackLookback ELSE last
  BY <1>2 DEF Mail!WindowStart
<1>5. ~ c.fallback =>
         /\ \E r \in cycle_runs : r.report_delivered /\ r.started_at < c.started_at /\ r.started_at = last
         /\ last \in Mail!Hours
         /\ \A r \in cycle_runs : r.report_delivered /\ r.started_at < c.started_at => r.started_at <= last
  BY <1>1, <1>2, LastReport
<1> HIDE DEF last, start
<1>6. \A s \in shock_alerts : s \in Int /\ (Mail!Tells(c, s) <=> readable /\ c.shocks # None /\ s >= start)
  BY <1>1, <1>3 DEF Mail!Tells, Mail!Hours
<1>7. Mail!Accounted(c, mails)
  <2> SUFFICES ASSUME NEW s \in shock_alerts, s < hour,
                      ~ Mail!Tells(c, s), ~ Mail!LeavesOut(c, s)
               PROVE  \E k \in mails : k.started_at <= c.started_at
                                       /\ (Mail!Tells(k, s) \/ Mail!LeavesOut(k, s))
    BY <1>1 DEF Mail!Accounted, Mail!Hours
  <2>1. readable /\ c.shocks # None
    BY <1>3 DEF Mail!LeavesOut
  <2>2. start \in Int
    BY <1>1, <1>4, <1>5 DEF Mail!Hours
  <2>3. s < start
    <3>1. s \in Int /\ ~ (s >= start)
      BY <1>6, <2>1
    <3> QED
      BY <2>2, <3>1
  <2>4. ~ c.fallback /\ start = last
    BY <1>4, <2>3 DEF Mail!LeavesOut
  <2>5. PICK r \in cycle_runs : r.report_delivered /\ r.started_at < c.started_at /\ r.started_at = last
    BY <1>5, <2>4
  <2>6. PICK m \in mails : m.started_at = last
    BY <2>5 DEF Mail!IInv
  <2>7. Mail!Content(m)
    BY DEF Mail!IInv
  <2>8. m.assembled_at \in Mail!Hours /\ last \in Mail!Hours /\ last <= m.assembled_at
    BY <1>5, <2>4, <2>6, <2>7 DEF Mail!Content
  <2>9. s < m.assembled_at
    BY <1>1, <1>6, <2>3, <2>4, <2>8 DEF Mail!Hours
  <2>10. PICK k \in mails : k.started_at <= last /\ (Mail!Tells(k, s) \/ Mail!LeavesOut(k, s))
    BY <2>6, <2>7, <2>9 DEF Mail!Content, Mail!Accounted
  <2>11. k.started_at \in Mail!Hours
    BY <1>1 DEF Mail!TypeOK, Mail!Mail
  <2>12. k.started_at <= c.started_at
    BY <1>1, <2>5, <2>8, <2>10, <2>11 DEF Mail!Hours
  <2> QED
    BY <2>10, <2>12
<1>8. Mail!BehindOlder(c)
  <2> SUFFICES ASSUME NEW r \in cycle_runs, NEW s \in shock_alerts, r.report_delivered,
                      r.started_at < c.started_at, Mail!Tells(c, s), ~ c.fallback
               PROVE  s >= r.started_at
    BY DEF Mail!BehindOlder
  <2>1. s \in Int /\ s >= last
    BY <1>4, <1>6
  <2>2. last \in Int /\ r.started_at \in Int /\ r.started_at <= last
    BY <1>1, <1>5 DEF Mail!TypeOK, Mail!Hours
  <2> QED
    BY <2>1, <2>2
<1>9. c.shocks \in (SUBSET Mail!Hours) \cup {None}
  BY <1>1, <1>3
<1> QED
  BY <1>1, <1>2, <1>7, <1>8, <1>9 DEF Mail!Content, Mail!Hours

(* The types, where a step leaves the rows and the mails alone.            *)
LEMMA TimeKeepsMail ==
    ASSUME MailConstants, Mail!IInv, Mail!Tick \/ Mail!StoreShock
    PROVE  Mail!IInv'
<1>1. /\ cycle_runs' = cycle_runs /\ cycle' = cycle /\ mails' = mails /\ n_cycles' = n_cycles
      /\ \/ hour < LastHour /\ hour' = hour + 1 /\ shock_alerts' = shock_alerts
         \/ hour' = hour /\ shock_alerts' = shock_alerts \cup {hour}
  BY DEF Mail!Tick, Mail!StoreShock
<1>2. /\ LastHour \in Nat /\ hour \in Mail!Hours /\ shock_alerts \subseteq Mail!Hours /\ mails \subseteq Mail!Mail
      /\ cycle_runs \subseteq [started_at : Mail!Hours, report_delivered : BOOLEAN]
      /\ \A s \in shock_alerts : s <= hour
  BY DEF MailConstants, Mail!IInv, Mail!TypeOK
<1>3. /\ hour' \in Mail!Hours /\ hour <= hour' /\ shock_alerts' \subseteq Mail!Hours
      /\ \A s \in shock_alerts' : s \in shock_alerts \/ s = hour
      /\ \A s \in shock_alerts' : s <= hour'
  <2>1. hour' \in Mail!Hours /\ hour <= hour' /\ hour \in Int /\ hour' \in Int
    BY <1>1, <1>2 DEF Mail!Hours
  <2>2. /\ \A s \in shock_alerts' : s \in shock_alerts \/ s = hour
        /\ \A s \in shock_alerts : s \in Mail!Hours /\ s \in Int /\ s <= hour
    BY <1>1, <1>2 DEF Mail!Hours
  <2>3. ASSUME NEW s \in shock_alerts' PROVE s \in Mail!Hours /\ s <= hour'
    <3>1. s \in Mail!Hours /\ s \in Int /\ s <= hour
      <4>1. CASE s \in shock_alerts
        BY <2>2, <4>1
      <4>2. CASE s = hour
        BY <1>2, <2>1, <4>2
      <4> QED
        BY <2>2, <4>1, <4>2
    <3> QED
      BY <2>1, <3>1
  <2> QED
    BY <2>1, <2>2, <2>3
<1>4. \A m : Mail!Content(m) /\ m.started_at \in Mail!Hours => Mail!Content(m)'
  BY <1>1, <1>2, <1>3, ContentStays
<1>5. \A m \in mails' : Mail!Content(m)'
  <2> SUFFICES ASSUME NEW m \in mails PROVE Mail!Content(m)'
    BY <1>1
  <2>1. Mail!Content(m) /\ m.started_at \in Mail!Hours
    BY <1>2 DEF Mail!IInv, Mail!Mail
  <2> QED
    BY <1>4, <2>1
<1>6. Mail!Assembled' => Mail!Content(cycle)'
  <2> SUFFICES ASSUME Mail!Assembled PROVE Mail!Content(cycle)'
    BY <1>1 DEF Mail!Assembled
  <2>1. PICK c : c = cycle
    OBVIOUS
  <2>2. Mail!Content(c) /\ c.started_at \in Mail!Hours
    BY <2>1 DEF Mail!IInv, Mail!TypeOK, Mail!Assembled
  <2>3. Mail!Content(c)' /\ c = cycle'
    BY <1>1, <1>4, <2>1, <2>2
  <2> QED
    BY <2>3
<1>7. Mail!TypeOK'
  BY <1>1, <1>3 DEF Mail!IInv, Mail!TypeOK, Mail!Mail, Mail!Hours
<1>8. cycle' # None => Mail!CycleOK'
  <2> SUFFICES ASSUME cycle # None PROVE Mail!CycleOK'
    BY <1>1
  <2>1. cycle.started_at \in Mail!Hours /\ cycle.started_at <= hour
    BY DEF Mail!IInv, Mail!TypeOK, Mail!CycleOK
  <2>2. cycle.started_at <= hour'
    BY <1>2, <1>3, <2>1 DEF Mail!Hours
  <2> QED
    BY <1>1, <2>2 DEF Mail!IInv, Mail!CycleOK
<1>9. \A r \in cycle_runs' : r.report_delivered => \E m \in mails' : m.started_at = r.started_at
  BY <1>1 DEF Mail!IInv
<1> QED
  BY <1>3, <1>5, <1>6, <1>7, <1>8, <1>9 DEF Mail!IInv

(* A cycle starts, reads, or ends without a row.                           *)
LEMMA CycleKeepsMail ==
    ASSUME MailConstants, Mail!IInv,
           Mail!StartCycle \/ Mail!Assemble \/ Mail!CycleEnds \/ UNCHANGED Mail!vars
    PROVE  Mail!IInv'
<1>1. /\ hour' = hour /\ shock_alerts' = shock_alerts /\ cycle_runs' = cycle_runs
      /\ mails' = mails
  BY DEF Mail!StartCycle, Mail!Assemble, Mail!CycleEnds, Mail!vars
<1>2. /\ LastHour \in Nat /\ hour \in Mail!Hours /\ mails \subseteq Mail!Mail
      /\ cycle_runs \subseteq [started_at : Mail!Hours, report_delivered : BOOLEAN]
  BY DEF MailConstants, Mail!IInv, Mail!TypeOK
<1>3. \A m : Mail!Content(m)' <=> Mail!Content(m)
  BY <1>1 DEF Mail!Content, Mail!Accounted, Mail!BehindOlder, Mail!Tells, Mail!LeavesOut, Mail!Hours
<1>4. n_cycles' \in 0 .. MaxMails
  BY DEF MailConstants, Mail!IInv, Mail!TypeOK, Mail!StartCycle, Mail!Assemble, Mail!CycleEnds, Mail!vars
<1>5. Mail!TypeOK' /\ (cycle' # None => Mail!CycleOK') /\ (Mail!Assembled' => Mail!Content(cycle)')
  <2>1. CASE cycle' = None
    BY <1>1, <1>4, <2>1 DEF Mail!IInv, Mail!TypeOK, Mail!Mail, Mail!Hours, Mail!Assembled
  <2>2. CASE Mail!StartCycle
    <3>1. /\ cycle' = [started_at |-> hour, step |-> "symbols"]
          /\ \A r \in cycle_runs \cup mails : r.started_at < hour
      BY <2>2 DEF Mail!StartCycle
    <3>2. cycle'.started_at = hour /\ cycle'.step = "symbols"
      BY <3>1
    <3>3. Mail!CycleOK'
      <4>1. \A m \in mails : m.started_at < hour /\ m.started_at <= hour
        BY <1>2, <3>1 DEF Mail!Mail, Mail!Hours
      <4> QED
        BY <1>1, <1>2, <3>1, <3>2, <4>1 DEF Mail!CycleOK, Mail!Hours
    <3> QED
      BY <1>1, <1>2, <1>4, <3>2, <3>3
         DEF Mail!IInv, Mail!TypeOK, Mail!Mail, Mail!Hours, Mail!Assembled
  <2>3. CASE Mail!Assemble
    <3>1. cycle # None /\ cycle.step = "symbols"
      BY <2>3 DEF Mail!Assemble
    <3>2. PICK known \in BOOLEAN, readable \in BOOLEAN :
             cycle' = [started_at |-> cycle.started_at, step |-> "assembled",
                       assembled_at |-> hour,
                       fallback |-> ~ known \/ Mail!get_last_report_at(cycle.started_at) = None,
                       shocks |-> Mail!shocks_since_last_mail(cycle.started_at, known, readable)]
      BY <2>3 DEF Mail!Assemble
    <3>3. /\ cycle'.started_at = cycle.started_at /\ cycle'.step = "assembled"
          /\ cycle'.assembled_at = hour
          /\ cycle'.fallback = (~ known \/ Mail!get_last_report_at(cycle.started_at) = None)
          /\ cycle'.shocks = Mail!shocks_since_last_mail(cycle.started_at, known, readable)
      BY <3>2
    <3>4. PICK c : c = cycle'
      OBVIOUS
    <3>5. Mail!Content(c)
      BY <3>1, <3>3, <3>4, AssembledContent
    <3>6. Mail!Content(c)'
      BY <1>3, <3>5
    <3>7. Mail!Content(cycle)'
      BY <3>4, <3>6 DEF Mail!Content, Mail!Accounted, Mail!BehindOlder, Mail!Tells, Mail!LeavesOut
    <3>8. Mail!CycleOK' /\ Mail!TypeOK'
      BY <1>1, <1>4, <3>1, <3>3 DEF Mail!IInv, Mail!TypeOK, Mail!Mail, Mail!Hours, Mail!CycleOK
    <3> QED
      BY <3>7, <3>8
  <2>4. CASE UNCHANGED Mail!vars
    <3>1. cycle' = cycle /\ n_cycles' = n_cycles
      BY <2>4 DEF Mail!vars
    <3>2. Mail!TypeOK' /\ (cycle' # None => Mail!CycleOK') /\ (Mail!Assembled' <=> Mail!Assembled)
      BY <1>1, <3>1 DEF Mail!IInv, Mail!TypeOK, Mail!Mail, Mail!Hours, Mail!CycleOK, Mail!Assembled
    <3>3. Mail!Content(cycle)' <=> Mail!Content(cycle)
      BY <1>1, <3>1 DEF Mail!Content, Mail!Accounted, Mail!BehindOlder, Mail!Tells, Mail!LeavesOut, Mail!Hours
    <3> QED
      BY <3>2, <3>3 DEF Mail!IInv
  <2> QED
    BY <2>1, <2>2, <2>3, <2>4 DEF Mail!CycleEnds
<1> QED
  BY <1>1, <1>3, <1>5 DEF Mail!IInv

(* The mail of a cycle tells what the cycle was put together with.         *)
LEMMA DispatchKeepsMail ==
    ASSUME MailConstants, Mail!IInv, Mail!Dispatch
    PROVE  Mail!IInv'
<1> DEFINE mail == [started_at |-> cycle.started_at, assembled_at |-> cycle.assembled_at,
                    fallback |-> cycle.fallback, shocks |-> cycle.shocks]
<1>1. PICK delivered \in BOOLEAN :
         /\ cycle' = [started_at |-> cycle.started_at, step |-> "sent",
                      report_delivered |-> delivered]
         /\ mails' = IF ~ delivered THEN mails ELSE mails \cup {mail}
  BY DEF Mail!Dispatch
<1>2. /\ cycle # None /\ cycle.step = "assembled" /\ Mail!Content(cycle)
      /\ hour' = hour /\ shock_alerts' = shock_alerts /\ cycle_runs' = cycle_runs
      /\ n_cycles' = n_cycles
  BY DEF Mail!Dispatch, Mail!IInv, Mail!Assembled
<1>3. /\ LastHour \in Nat /\ hour \in Mail!Hours /\ mails \subseteq Mail!Mail
      /\ cycle_runs \subseteq [started_at : Mail!Hours, report_delivered : BOOLEAN]
      /\ cycle.started_at \in Mail!Hours
  BY <1>2 DEF MailConstants, Mail!IInv, Mail!TypeOK
<1>4. /\ mail.started_at = cycle.started_at /\ mail.assembled_at = cycle.assembled_at
      /\ mail.fallback = cycle.fallback /\ mail.shocks = cycle.shocks
  OBVIOUS
<1>5. mail \in Mail!Mail
  BY <1>2, <1>3 DEF Mail!Content, Mail!Mail
<1>6. Mail!Content(mail)
  BY <1>2, <1>4, SameContent
<1>7. mails \subseteq mails' /\ mails' \subseteq mails \cup {mail} /\ (delivered => mail \in mails')
  BY <1>1
<1>8. /\ cycle'.started_at = cycle.started_at /\ cycle'.step = "sent"
      /\ cycle'.report_delivered = delivered
  BY <1>1
<1> HIDE DEF mail
<1>9. \A m \in mails' : Mail!Content(m)'
  <2> SUFFICES ASSUME NEW m \in mails' PROVE Mail!Content(m)'
    OBVIOUS
  <2>1. Mail!Content(m) /\ m.started_at \in Mail!Hours
    BY <1>3, <1>5, <1>6, <1>7 DEF Mail!IInv, Mail!Mail
  <2>2. hour' \in Mail!Hours /\ hour <= hour'
    BY <1>2, <1>3 DEF Mail!Hours
  <2> QED
    BY <1>2, <1>3, <1>7, <2>1, <2>2, ContentStays
<1>10. Mail!TypeOK'
  <2>1. mails' \subseteq Mail!Mail
    BY <1>3, <1>5, <1>7
  <2> QED
    BY <1>2, <1>3, <1>8, <2>1 DEF Mail!IInv, Mail!TypeOK, Mail!Mail, Mail!Hours
<1>11. Mail!CycleOK'
  <2>1. /\ cycle.started_at <= hour
        /\ \A r \in cycle_runs : r.started_at < cycle.started_at
        /\ \A m \in mails : m.started_at <= cycle.started_at
    BY <1>2 DEF Mail!IInv, Mail!CycleOK
  <2>2. \A m \in mails' : m.started_at <= cycle.started_at
    BY <1>3, <1>4, <1>7, <2>1 DEF Mail!Hours
  <2>3. delivered => \E m \in mails' : m.started_at = cycle.started_at
    BY <1>4, <1>7
  <2> QED
    BY <1>2, <1>8, <2>1, <2>2, <2>3 DEF Mail!CycleOK
<1>12. ~ Mail!Assembled'
  BY <1>8 DEF Mail!Assembled
<1>13. \A r \in cycle_runs' : r.report_delivered => \E m \in mails' : m.started_at = r.started_at
  BY <1>2, <1>7 DEF Mail!IInv
<1>14. \A s \in shock_alerts' : s <= hour'
  BY <1>2 DEF Mail!IInv
<1> QED
  BY <1>9, <1>10, <1>11, <1>12, <1>13, <1>14 DEF Mail!IInv

(* The row of a cycle is no older than any mail.                           *)
LEMMA PersistKeepsMail ==
    ASSUME MailConstants, Mail!IInv, Mail!persist_cycle_run
    PROVE  Mail!IInv'
<1> DEFINE entry_row == [started_at |-> cycle.started_at, report_delivered |-> cycle.report_delivered]
<1>1. /\ cycle # None /\ cycle.step = "sent" /\ cycle_runs' = cycle_runs \cup {entry_row} /\ cycle' = None
      /\ hour' = hour /\ shock_alerts' = shock_alerts /\ mails' = mails /\ n_cycles' = n_cycles
  BY DEF Mail!persist_cycle_run
<1>2. /\ LastHour \in Nat /\ hour \in Mail!Hours /\ mails \subseteq Mail!Mail
      /\ cycle_runs \subseteq [started_at : Mail!Hours, report_delivered : BOOLEAN]
      /\ cycle.started_at \in Mail!Hours
      /\ cycle.report_delivered \in BOOLEAN
      /\ \A m \in mails : m.started_at <= cycle.started_at
      /\ cycle.report_delivered => \E m \in mails : m.started_at = cycle.started_at
  BY <1>1 DEF MailConstants, Mail!IInv, Mail!TypeOK, Mail!CycleOK
<1>3. /\ entry_row \in [started_at : Mail!Hours, report_delivered : BOOLEAN]
      /\ entry_row.started_at = cycle.started_at /\ entry_row.report_delivered = cycle.report_delivered
  BY <1>2
<1> HIDE DEF entry_row
<1>4. \A r \in cycle_runs' : r \in cycle_runs \/ r = entry_row
  BY <1>1
<1>5. \A m \in mails' : Mail!Content(m)'
  <2> SUFFICES ASSUME NEW m \in mails PROVE Mail!Content(m)'
    BY <1>1
  <2>1. Mail!Content(m) /\ m.started_at \in Mail!Hours
    BY <1>2 DEF Mail!IInv, Mail!Mail
  <2>2. hour' \in Mail!Hours /\ hour <= hour'
    BY <1>1, <1>2 DEF Mail!Hours
  <2>3. /\ \A r \in cycle_runs' : r \in cycle_runs \/ m.started_at <= r.started_at
        /\ cycle_runs' \subseteq [started_at : Mail!Hours, report_delivered : BOOLEAN]
    BY <1>2, <1>3, <1>4
  <2> QED
    BY <1>1, <2>1, <2>2, <2>3, ContentStays
<1>6. Mail!TypeOK'
  <2>1. cycle_runs' \subseteq [started_at : Mail!Hours, report_delivered : BOOLEAN]
    BY <1>2, <1>3, <1>4
  <2> QED
    BY <1>1, <2>1 DEF Mail!IInv, Mail!TypeOK, Mail!Mail, Mail!Hours
<1>7. \A r \in cycle_runs' : r.report_delivered => \E m \in mails' : m.started_at = r.started_at
  BY <1>1, <1>2, <1>3, <1>4 DEF Mail!IInv
<1>8. ~ Mail!Assembled' /\ \A s \in shock_alerts' : s <= hour'
  BY <1>1 DEF Mail!Assembled, Mail!IInv
<1> QED
  BY <1>1, <1>5, <1>6, <1>7, <1>8 DEF Mail!IInv

LEMMA NextKeepsMail == MailConstants /\ Mail!IInv /\ [Mail!Next]_Mail!vars => Mail!IInv'
  BY TimeKeepsMail, CycleKeepsMail, DispatchKeepsMail, PersistKeepsMail DEF Mail!Next

LEMMA IInvImpliesMailProperties ==
    ASSUME MailConstants, Mail!IInv
    PROVE  Mail!MovesReachTheMail /\ Mail!ToldAgainOnlyInOverlap
<1>1. Mail!MovesReachTheMail
  BY DEF Mail!IInv, Mail!Content, Mail!Accounted, Mail!MovesReachTheMail
<1>2. Mail!ToldAgainOnlyInOverlap
  <2> SUFFICES ASSUME NEW k \in mails, NEW m \in mails, NEW s \in shock_alerts,
                      k.started_at < m.started_at, Mail!Tells(k, s), Mail!Tells(m, s),
                      ~ m.fallback,
                      [started_at |-> k.started_at, report_delivered |-> TRUE] \in cycle_runs
               PROVE  s >= k.started_at
    BY DEF Mail!ToldAgainOnlyInOverlap
  <2> DEFINE r == [started_at |-> k.started_at, report_delivered |-> TRUE]
  <2>1. r \in cycle_runs /\ r.report_delivered /\ r.started_at = k.started_at
    OBVIOUS
  <2>2. Mail!BehindOlder(m)
    BY DEF Mail!IInv, Mail!Content
  <2> QED
    BY <2>1, <2>2 DEF Mail!BehindOlder
<1> QED
  BY <1>1, <1>2

(* For every number of hours, moves and cycles: a move stored before a     *)
(* mail was put together is told by it or was by an earlier one, unless    *)
(* such a mail could not read what it needed; it is told again only for a  *)
(* reason (shocks_since_last_mail, persist_cycle_run).                     *)
THEOREM MailHolds ==
    ASSUME MailConstants
    PROVE  Mail!Spec => [](Mail!TypeOK /\ Mail!MovesReachTheMail /\ Mail!ToldAgainOnlyInOverlap)
<1>1. Mail!Init => Mail!IInv
  BY InitKeepsMail
<1>2. Mail!IInv /\ [Mail!Next]_Mail!vars => Mail!IInv'
  BY NextKeepsMail
<1>3. Mail!IInv => Mail!TypeOK /\ Mail!MovesReachTheMail /\ Mail!ToldAgainOnlyInOverlap
  BY IInvImpliesMailProperties DEF Mail!IInv
<1> QED
  BY <1>1, <1>2, <1>3, PTL DEF Mail!Spec

-----------------------------------------------------------------------------
(* DeadMan: a loop that leaves no trace is told, one that does is not.     *)

(* What the proofs assume of the constants.  A limit of the Fast Loop      *)
(* below 6 h would already count today's slot, one above 28 h not yet      *)
(* yesterday's; the Slow Loop runs on Sundays, early or late.  The         *)
(* calendar begins with a trading day, so that there is one to look back at*)
SwitchConstants ==
    /\ LastDay \in Nat /\ \A holidays \in Closures : 0 \notin holidays
    /\ GapChoices \subseteq [fast : {0} \cup 6 .. 28, slow : {0} \cup 175 .. 213]
    /\ None \notin {"calm", "mail", "exit_1"}

LEMMA CalendarFacts ==
    ASSUME SwitchConstants, calendar \in Switch!Calendars
    PROVE  /\ calendar.trading \subseteq 0 .. LastDay /\ 0 \in calendar.trading
           /\ calendar.switch \in Int /\ calendar.offset \in {4, 5}
<1>1. PICK holidays \in Closures, s \in Switch!Sundays, o \in {4, 5} :
         calendar = [trading |-> Switch!Weekdays \ holidays, switch |-> s, offset |-> o]
  BY DEF Switch!Calendars
<1>2. Switch!Weekdays \subseteq 0 .. LastDay /\ 0 \in Switch!Weekdays
  <2>1. LastDay \in Nat /\ 0 \in 0 .. LastDay /\ 0 % 7 < 5
    BY DEF SwitchConstants
  <2> QED
    BY <2>1 DEF Switch!Weekdays, Switch!Weekday, Switch!Days
<1>3. s \in Int
  BY DEF Switch!Sundays, Switch!Days
<1> QED
  BY <1>1, <1>2, <1>3 DEF SwitchConstants

LEMMA MidnightIs ==
    ASSUME SwitchConstants, calendar \in Switch!Calendars, NEW d \in Int
    PROVE  Switch!Midnight(d) = 1440 * d + 240 \/ Switch!Midnight(d) = 1440 * d + 300
<1>1. calendar.switch \in Int /\ (calendar.offset = 4 \/ calendar.offset = 5)
  BY CalendarFacts
<1> QED
  BY <1>1 DEF Switch!Midnight, Switch!Day

(* Hours and days of a moment.                                             *)
LEMMA DayAndMinute ==
    ASSUME NEW t \in Nat
    PROVE  /\ t \div 1440 \in Nat /\ t % 1440 \in 0 .. 1439
           /\ t = 1440 * (t \div 1440) + (t % 1440)
  OBVIOUS

LEMMA MomentOf ==
    ASSUME NEW d \in Nat, NEW m \in 0 .. 1439
    PROVE  /\ 1440 * d + m \in Nat
           /\ (1440 * d + m) \div 1440 = d /\ (1440 * d + m) % 1440 = m
  OBVIOUS

LEMMA LimitsAre ==
    ASSUME SwitchConstants, Switch!IInv
    PROVE  /\ limits.fast \in Int /\ limits.slow \in Int
           /\ limits.fast > 0 => limits.fast >= 360 /\ limits.fast <= 1680
           /\ limits.slow > 0 => limits.slow >= 10500 /\ limits.slow <= 12780
<1>1. PICK gap \in GapChoices : limits = [fast |-> 60 * gap.fast, slow |-> 60 * gap.slow]
  BY DEF Switch!IInv, Switch!Limits
<1>2. /\ gap.fast \in Int /\ (gap.fast = 0 \/ (gap.fast >= 6 /\ gap.fast <= 28))
      /\ gap.slow \in Int /\ (gap.slow = 0 \/ (gap.slow >= 175 /\ gap.slow <= 213))
  <2>1. gap \in [fast : {0} \cup 6 .. 28, slow : {0} \cup 175 .. 213]
    BY DEF SwitchConstants
  <2>2. gap.fast \in {0} \cup 6 .. 28 /\ gap.slow \in {0} \cup 175 .. 213
    BY <2>1
  <2> QED
    BY <2>2
<1>3. limits.fast = 60 * gap.fast /\ limits.slow = 60 * gap.slow
  BY <1>1
<1> QED
  BY <1>2, <1>3

LEMMA InitKeepsSwitch == SwitchConstants /\ Switch!Init => Switch!IInv
<1> SUFFICES ASSUME SwitchConstants, Switch!Init PROVE Switch!IInv
  OBVIOUS
<1>1. clock = 120 /\ fast_seen = None /\ slow_seen = None /\ report = Switch!Silence
  BY DEF Switch!Init
<1>2. clock \in Nat /\ Switch!Now = 120 /\ Switch!Today = 0
  BY <1>1 DEF Switch!Now, Switch!Today, Switch!Day
<1>3. report.how = None /\ report.named = {}
  BY <1>1 DEF Switch!Silence, Switch!Told
<1>4. Switch!TypeOK
  BY <1>1, <1>3 DEF Switch!Init, Switch!TypeOK, SwitchConstants
<1> QED
  BY <1>1, <1>2, <1>4 DEF Switch!Init, Switch!IInv, Switch!ReportOK, Switch!Slots, Switch!SlowSlotOK,
                   SwitchConstants

(* Time goes on to the next slot of the day or to the next day.            *)
LEMMA NextMoment ==
    ASSUME SwitchConstants, Switch!IInv, Switch!Pass
    PROVE  clock' \in Nat /\ clock <= clock' /\ Switch!Now' \in Switch!Slots /\ Switch!Today' <= LastDay
<1>1. /\ clock = 1440 * Switch!Today + Switch!Now /\ Switch!Today \in Nat
      /\ Switch!Now \in {120, 180, 330, 557, 720} /\ Switch!Today <= LastDay /\ LastDay \in Nat
      /\ clock \in Nat
  BY DayAndMinute DEF SwitchConstants, Switch!IInv, Switch!Now, Switch!Today, Switch!Day, Switch!Slots
<1>2. clock' = IF Switch!Later # {} THEN Switch!Min(Switch!Later) ELSE Switch!Tomorrow
  BY DEF Switch!Pass
<1>3. Switch!Later = {1440 * Switch!Today + m : m \in {n \in {120, 180, 330, 557, 720} : n > Switch!Now}}
  BY DEF Switch!Later, Switch!Slots, Switch!Day
<1>4. CASE Switch!Later # {}
  <2>1. \E x \in Switch!Later : \A y \in Switch!Later : x <= y
    <3>1. CASE Switch!Now = 120
      BY <1>1, <1>3, <3>1
    <3>2. CASE Switch!Now = 180
      BY <1>1, <1>3, <3>2
    <3>3. CASE Switch!Now = 330
      BY <1>1, <1>3, <3>3
    <3>4. CASE Switch!Now = 557
      BY <1>1, <1>3, <3>4
    <3>5. CASE Switch!Now = 720
      BY <1>1, <1>3, <1>4, <3>5
    <3> QED
      BY <1>1, <3>1, <3>2, <3>3, <3>4, <3>5
  <2>2. clock' \in Switch!Later
    BY <1>2, <1>4, <2>1 DEF Switch!Min
  <2>3. PICK m \in {120, 180, 330, 557, 720} : clock' = 1440 * Switch!Today + m /\ m > Switch!Now
    BY <1>3, <2>2
  <2>4. m \in 0 .. 1439
    BY <2>3
  <2>5. clock' \in Nat /\ clock' \div 1440 = Switch!Today /\ clock' % 1440 = m
    <3> DEFINE d == Switch!Today
    <3>1. d \in Nat
      BY <1>1
    <3> HIDE DEF d
    <3>2. /\ 1440 * d + m \in Nat
          /\ (1440 * d + m) \div 1440 = d /\ (1440 * d + m) % 1440 = m
      BY <2>4, <3>1
    <3> QED
      BY <2>3, <3>2 DEF d
  <2> QED
    BY <1>1, <2>3, <2>5 DEF Switch!Now, Switch!Today, Switch!Day, Switch!Slots
<1>5. CASE Switch!Later = {} /\ Switch!Today < LastDay
  <2>1. clock' = 1440 * (Switch!Today + 1) + 120
    BY <1>2, <1>5 DEF Switch!Tomorrow, Switch!Day
  <2>2. clock' \in Nat /\ clock' \div 1440 = Switch!Today + 1 /\ clock' % 1440 = 120
    BY <1>1, <2>1, MomentOf
  <2> QED
    BY <1>1, <1>5, <2>1, <2>2 DEF Switch!Now, Switch!Today, Switch!Day, Switch!Slots
<1>6. CASE Switch!Later = {} /\ ~ (Switch!Today < LastDay)
  <2>1. clock' = clock
    BY <1>2, <1>6 DEF Switch!Tomorrow
  <2> QED
    BY <1>1, <2>1 DEF Switch!Now, Switch!Today, Switch!Day, Switch!Slots
<1> QED
  BY <1>4, <1>5, <1>6

LEMMA PassKeepsSwitch ==
    ASSUME SwitchConstants, Switch!IInv, Switch!Pass
    PROVE  Switch!IInv'
<1>1. /\ report' = Switch!Silence /\ calendar' = calendar /\ limits' = limits
      /\ fast_seen' = fast_seen /\ slow_seen' = slow_seen
  BY DEF Switch!Pass
<1>2. clock \in Nat /\ clock' \in Nat /\ clock <= clock' /\ Switch!Now' \in Switch!Slots /\ Switch!Today' <= LastDay
  BY NextMoment DEF Switch!IInv
<1>3. report'.how = None /\ report'.named = {}
  BY <1>1 DEF Switch!Silence, Switch!Told
<1>4. 0 .. clock \subseteq 0 .. clock'
  BY <1>2
<1>5. Switch!TypeOK'
  <2>1. calendar' \in Switch!Calendars'
    BY <1>1 DEF Switch!IInv, Switch!TypeOK, Switch!Calendars
  <2> QED
    BY <1>1, <1>3, <1>4, <2>1 DEF Switch!IInv, Switch!TypeOK, SwitchConstants
<1>6. Switch!ReportOK'
  BY <1>1 DEF Switch!ReportOK, Switch!Silence, Switch!Told
<1>7. Switch!SlowSlotOK' /\ limits' \in Switch!Limits'
  BY <1>1 DEF Switch!IInv, Switch!SlowSlotOK, Switch!Day, Switch!Limits
<1> QED
  BY <1>2, <1>5, <1>6, <1>7 DEF Switch!IInv, Switch!Slots

(* The loops run when the switch has nothing to tell.                      *)
LEMMA LoopKeepsSwitch ==
    ASSUME SwitchConstants, Switch!IInv, Switch!FastLoop \/ Switch!SlowLoop
    PROVE  Switch!IInv'
<1>1. /\ report' = report /\ calendar' = calendar /\ limits' = limits /\ clock' = clock
      /\ Switch!Now \in {120, 180, 330, 720}
      /\ fast_seen' \in {fast_seen, clock}
      /\ slow_seen' = slow_seen \/ (slow_seen' = clock /\ Switch!Now \in {180, 720})
  BY DEF Switch!FastLoop, Switch!SlowLoop
<1>2. report = Switch!Silence
  BY <1>1 DEF Switch!IInv, Switch!ReportOK
<1>3. clock \in Nat /\ clock \in 0 .. clock
  BY DEF Switch!IInv
<1>4. Switch!TypeOK'
  BY <1>1, <1>3 DEF Switch!IInv, Switch!TypeOK, Switch!Calendars
<1>5. Switch!SlowSlotOK'
  BY <1>1 DEF Switch!IInv, Switch!SlowSlotOK, Switch!Now, Switch!Day
<1>6. Switch!ReportOK'
  BY <1>1, <1>2 DEF Switch!ReportOK, Switch!Silence, Switch!Told
<1>7. /\ Switch!Now' = Switch!Now /\ Switch!Today' = Switch!Today
      /\ limits' \in Switch!Limits'
  BY <1>1 DEF Switch!IInv, Switch!Now, Switch!Today, Switch!Day, Switch!Limits
<1> QED
  BY <1>1, <1>3, <1>4, <1>5, <1>6, <1>7 DEF Switch!IInv, Switch!Slots

LEMMA CheckKeepsSwitch ==
    ASSUME SwitchConstants, Switch!IInv,
           Switch!ProbeFails \/ Switch!ReadFails \/ Switch!Compare
    PROVE  Switch!IInv'
<1>1. /\ Switch!Now = 557 /\ calendar' = calendar /\ limits' = limits /\ clock' = clock
      /\ fast_seen' = fast_seen /\ slow_seen' = slow_seen
  BY DEF Switch!ProbeFails, Switch!ReadFails, Switch!Compare, Switch!Check
<1>2. /\ report'.how \in {"calm", "mail", "exit_1"}
      /\ report'.how = "mail" => report'.named # {}
      /\ report'.named \in {Switch!overdue_jobs, {"database"}, {"traces"}}
  <2>1. CASE Switch!ProbeFails
    BY <2>1 DEF Switch!ProbeFails, Switch!Mail, Switch!Told
  <2>2. CASE Switch!ReadFails
    BY <2>2 DEF Switch!ReadFails, Switch!Told
  <2>3. CASE Switch!Compare
    BY <2>3 DEF Switch!Compare, Switch!Mail, Switch!Told
  <2> QED
    BY <2>1, <2>2, <2>3
<1>3. Switch!overdue_jobs' = Switch!overdue_jobs
  BY <1>1 DEF Switch!overdue_jobs, Switch!is_overdue, Switch!is_overdue_on_trading_days,
              Switch!due_slots, Switch!Midnight, Switch!Day
<1>4. Switch!TypeOK'
  BY <1>1, <1>2 DEF Switch!IInv, Switch!TypeOK, Switch!Calendars
<1>5. Switch!ReportOK' /\ Switch!Now' = 557 /\ Switch!Today' = Switch!Today
  BY <1>1, <1>2, <1>3 DEF Switch!ReportOK, Switch!Now, Switch!Today, Switch!Day
<1>6. Switch!SlowSlotOK' /\ limits' \in Switch!Limits'
  BY <1>1 DEF Switch!IInv, Switch!SlowSlotOK, Switch!Day, Switch!Limits
<1> QED
  BY <1>1, <1>4, <1>5, <1>6 DEF Switch!IInv, Switch!Slots

LEMMA NextKeepsSwitch == SwitchConstants /\ Switch!IInv /\ [Switch!Next]_Switch!vars => Switch!IInv'
<1> SUFFICES ASSUME SwitchConstants, Switch!IInv, UNCHANGED Switch!vars PROVE Switch!IInv'
  BY PassKeepsSwitch, LoopKeepsSwitch, CheckKeepsSwitch DEF Switch!Next
<1>1. /\ calendar' = calendar /\ limits' = limits /\ clock' = clock
      /\ fast_seen' = fast_seen /\ slow_seen' = slow_seen /\ report' = report
  BY DEF Switch!vars
<1>2. Switch!overdue_jobs' = Switch!overdue_jobs
  BY <1>1 DEF Switch!overdue_jobs, Switch!is_overdue, Switch!is_overdue_on_trading_days,
              Switch!due_slots, Switch!Midnight, Switch!Day
<1>3. Switch!ReportOK'
  BY <1>1, <1>2 DEF Switch!IInv, Switch!ReportOK, Switch!Now, Switch!Silence, Switch!Told, Switch!Day
<1>4. Switch!TypeOK' /\ Switch!SlowSlotOK' /\ limits' \in Switch!Limits'
  BY <1>1 DEF Switch!IInv, Switch!TypeOK, Switch!Calendars, Switch!SlowSlotOK, Switch!Day, Switch!Limits
<1>5. Switch!Now' = Switch!Now /\ Switch!Today' = Switch!Today
  BY <1>1 DEF Switch!Now, Switch!Today, Switch!Day
<1> QED
  BY <1>1, <1>3, <1>4, <1>5 DEF Switch!IInv, Switch!Slots

(* The trading day before a day that is not the first.                     *)
LEMMA DayBefore ==
    ASSUME SwitchConstants, calendar \in Switch!Calendars, NEW d \in Nat, d > 0
    PROVE  /\ Switch!PreviousTradingDay(d) \in calendar.trading
           /\ Switch!PreviousTradingDay(d) \in 0 .. LastDay
           /\ Switch!PreviousTradingDay(d) < d
           /\ \A e \in calendar.trading : e < d => e <= Switch!PreviousTradingDay(d)
<1> DEFINE S == {e \in calendar.trading : e < d}
<1>1. S \in SUBSET (0 .. LastDay) /\ S # {} /\ LastDay \in Nat
  BY CalendarFacts DEF SwitchConstants
<1>2. \E m \in S : \A y \in S : m >= y
  <2>1. PICK m \in S : \A y \in S : y <= m
    BY <1>1, GreatestNumber
  <2> QED
    BY <2>1
<1>3. Switch!PreviousTradingDay(d) = Switch!Max(S)
  BY DEF Switch!PreviousTradingDay
<1>4. Switch!Max(S) \in S /\ \A y \in S : Switch!Max(S) >= y
  BY <1>2 DEF Switch!Max
<1> QED
  BY <1>1, <1>3, <1>4

(* At the time of the switch the days before today are due, and no other.  *)
LEMMA DueBeforeToday ==
    ASSUME SwitchConstants, Switch!IInv, Switch!Now = 557, limits.fast > 0,
           NEW d \in calendar.trading
    PROVE  Switch!Midnight(d) + limits.fast <= clock <=> d < Switch!Today
<1>1. clock = 1440 * Switch!Today + 557 /\ Switch!Today \in Nat
  BY DayAndMinute DEF Switch!IInv, Switch!Now, Switch!Today, Switch!Day
<1>2. d \in Int
  BY CalendarFacts DEF Switch!IInv, Switch!TypeOK
<1>3. Switch!Midnight(d) = 1440 * d + 240 \/ Switch!Midnight(d) = 1440 * d + 300
  BY <1>2, MidnightIs DEF Switch!IInv, Switch!TypeOK
<1>4. limits.fast \in Int /\ limits.fast >= 360 /\ limits.fast <= 1680
  BY LimitsAre
<1> QED
  BY <1>1, <1>2, <1>3, <1>4

(* A trace before the midnight of a day is one of an earlier day of the    *)
(* exchange.                                                               *)
LEMMA BeforeMidnight ==
    ASSUME SwitchConstants, calendar \in Switch!Calendars, NEW t \in Nat, NEW d \in Int
    PROVE  t < Switch!Midnight(d) <=> Switch!ExchangeDay(t) < d
<1>1. t \div 1440 \in Nat /\ t % 1440 \in 0 .. 1439 /\ t = 1440 * (t \div 1440) + (t % 1440)
  BY DayAndMinute
<1> DEFINE q == t \div 1440
           r == t % 1440
<1>2. q \in Int /\ r \in 0 .. 1439 /\ t = 1440 * q + r
  BY <1>1
<1>3. Switch!ExchangeDay(t) = IF t < Switch!Midnight(q) THEN q - 1 ELSE q
  BY DEF Switch!ExchangeDay, Switch!Day
<1> HIDE DEF q, r
<1>4. /\ Switch!Midnight(q) = 1440 * q + 240 \/ Switch!Midnight(q) = 1440 * q + 300
      /\ Switch!Midnight(d) = 1440 * d + 240 \/ Switch!Midnight(d) = 1440 * d + 300
  BY <1>2, MidnightIs
<1>5. CASE d = q
  BY <1>2, <1>3, <1>5, <1>4
<1>6. CASE d < q
  BY <1>2, <1>3, <1>6, <1>4
<1>7. CASE d > q
  BY <1>2, <1>3, <1>7, <1>4
<1> QED
  BY <1>2, <1>5, <1>6, <1>7

LEMMA FastLoopIsTold ==
    ASSUME SwitchConstants, Switch!IInv, Switch!Now = 557, Switch!Today > 0, limits.fast > 0,
           fast_seen # None
    PROVE  Switch!is_overdue_on_trading_days(fast_seen, limits.fast)
              <=> Switch!ExchangeDay(fast_seen) < Switch!PreviousTradingDay(Switch!Today)
<1>1. /\ calendar \in Switch!Calendars /\ fast_seen \in Nat /\ clock \in Nat
      /\ Switch!Today \in Nat
  BY DayAndMinute DEF Switch!IInv, Switch!TypeOK, Switch!Today, Switch!Day
<1> DEFINE p == Switch!PreviousTradingDay(Switch!Today)
<1>2. /\ p \in calendar.trading /\ p \in Int /\ p < Switch!Today
      /\ \A e \in calendar.trading : e < Switch!Today => e <= p
  BY <1>1, DayBefore
<1>3. calendar.trading \subseteq Int
  BY <1>1, CalendarFacts
<1> HIDE DEF p
<1>4. Switch!is_overdue_on_trading_days(fast_seen, limits.fast)
         <=> \E d \in calendar.trading : d < Switch!Today /\ fast_seen < Switch!Midnight(d)
  <2>1. Switch!due_slots(limits.fast) = {Switch!Midnight(d) :
           d \in {e \in calendar.trading : Switch!Midnight(e) + limits.fast <= clock}}
    BY DEF Switch!due_slots
  <2>2. \A d \in calendar.trading : Switch!Midnight(d) + limits.fast <= clock <=> d < Switch!Today
    BY DueBeforeToday
  <2> QED
    BY <2>1, <2>2 DEF Switch!is_overdue_on_trading_days
<1>5. \A d \in calendar.trading : fast_seen < Switch!Midnight(d) <=> Switch!ExchangeDay(fast_seen) < d
  BY <1>1, <1>3, BeforeMidnight
<1>6. Switch!ExchangeDay(fast_seen) \in Int
  <2>1. fast_seen \div 1440 \in Int
    BY <1>1, DayAndMinute
  <2> QED
    BY <2>1 DEF Switch!ExchangeDay, Switch!Day
<1>7. (\E d \in calendar.trading : d < Switch!Today /\ Switch!ExchangeDay(fast_seen) < d)
         <=> Switch!ExchangeDay(fast_seen) < p
  BY <1>1, <1>2, <1>3, <1>6
<1> QED
  BY <1>4, <1>5, <1>7 DEF p

LEMMA SlowLoopIsTold ==
    ASSUME SwitchConstants, Switch!IInv, Switch!Now = 557, limits.slow > 0, slow_seen # None
    PROVE  /\ Switch!is_overdue(slow_seen, limits.slow) =>
                 Switch!Today - slow_seen \div Switch!Day > 7
           /\ Switch!Today - slow_seen \div Switch!Day > 8 =>
                 Switch!is_overdue(slow_seen, limits.slow)
<1>1. clock = 1440 * Switch!Today + 557 /\ Switch!Today \in Int
  BY DayAndMinute DEF Switch!IInv, Switch!Now, Switch!Today, Switch!Day
<1>2. slow_seen \in Nat /\ (slow_seen % 1440 = 180 \/ slow_seen % 1440 = 720)
  <2>1. slow_seen \in Nat /\ Switch!SlowSlotOK
    BY DEF Switch!IInv, Switch!TypeOK
  <2> QED
    BY <2>1 DEF Switch!SlowSlotOK, Switch!Day
<1> DEFINE q == slow_seen \div 1440
<1>3. q \in Int /\ (slow_seen = 1440 * q + 180 \/ slow_seen = 1440 * q + 720)
  BY <1>2, DayAndMinute
<1>4. limits.slow \in Int /\ limits.slow >= 10500 /\ limits.slow <= 12780
  BY LimitsAre
<1>5. Switch!is_overdue(slow_seen, limits.slow) <=> clock - slow_seen > limits.slow
  BY DEF Switch!is_overdue
<1>6. slow_seen \div Switch!Day = q
  BY DEF Switch!Day
<1> HIDE DEF q
<1> QED
  BY <1>1, <1>3, <1>4, <1>5, <1>6

LEMMA IInvImpliesSilenceIsTold ==
    ASSUME SwitchConstants, Switch!IInv
    PROVE  Switch!SilenceIsTold
<1> SUFFICES ASSUME Switch!Compared, Switch!Today > 0
             PROVE  /\ ("fast_loop" \in report.named) =
                          (/\ limits.fast > 0
                           /\ \/ fast_seen = None
                              \/ Switch!ExchangeDay(fast_seen) < Switch!PreviousTradingDay(Switch!Today))
                    /\ "slow_loop" \in report.named =>
                          limits.slow > 0
                          /\ (slow_seen = None \/ Switch!Today - slow_seen \div Switch!Day > 7)
                    /\ limits.slow > 0
                       /\ (slow_seen = None \/ Switch!Today - slow_seen \div Switch!Day > 8)
                          => "slow_loop" \in report.named
  BY DEF Switch!SilenceIsTold
<1>1. report # Switch!Silence
  BY DEF Switch!Compared, Switch!Silence, Switch!Told
<1>2. Switch!Now = 557 /\ report.named = Switch!overdue_jobs
  <2>1. Switch!Now = 557 /\ report.named \in {Switch!overdue_jobs, {"database"}, {"traces"}}
    BY <1>1 DEF Switch!IInv, Switch!ReportOK
  <2>2. report.named # {"database"} /\ report.named # {"traces"}
    BY DEF Switch!Compared
  <2> QED
    BY <2>1, <2>2
<1>3. /\ "fast_loop" \in report.named <=>
            limits.fast > 0 /\ Switch!is_overdue_on_trading_days(fast_seen, limits.fast)
      /\ "slow_loop" \in report.named <=>
            limits.slow > 0 /\ Switch!is_overdue(slow_seen, limits.slow)
  BY <1>2 DEF Switch!overdue_jobs
<1>4. /\ fast_seen = None => Switch!is_overdue_on_trading_days(fast_seen, limits.fast)
      /\ slow_seen = None => Switch!is_overdue(slow_seen, limits.slow)
  BY DEF Switch!is_overdue_on_trading_days, Switch!is_overdue
<1>5. limits.fast > 0 /\ fast_seen # None =>
         (Switch!is_overdue_on_trading_days(fast_seen, limits.fast)
            <=> Switch!ExchangeDay(fast_seen) < Switch!PreviousTradingDay(Switch!Today))
  BY <1>2, FastLoopIsTold
<1>6. limits.slow > 0 /\ slow_seen # None =>
         /\ Switch!is_overdue(slow_seen, limits.slow) =>
               Switch!Today - slow_seen \div Switch!Day > 7
         /\ Switch!Today - slow_seen \div Switch!Day > 8 =>
               Switch!is_overdue(slow_seen, limits.slow)
  BY <1>2, SlowLoopIsTold
<1> DEFINE mark == Switch!ExchangeDay(fast_seen) < Switch!PreviousTradingDay(Switch!Today)
           gap == Switch!Today - slow_seen \div Switch!Day
<1>7. ("fast_loop" \in report.named) <=> limits.fast > 0 /\ (fast_seen = None \/ mark)
  BY <1>3, <1>4, <1>5
<1>8. /\ "slow_loop" \in report.named => limits.slow > 0 /\ (slow_seen = None \/ gap > 7)
      /\ limits.slow > 0 /\ (slow_seen = None \/ gap > 8) => "slow_loop" \in report.named
  BY <1>3, <1>4, <1>6
<1> HIDE DEF mark, gap
<1>9. ("fast_loop" \in report.named) = (limits.fast > 0 /\ (fast_seen = None \/ mark))
  BY <1>7
<1> QED
  BY <1>8, <1>9 DEF mark, gap

(* For every calendar whose first day trades, every limit of the Fast Loop *)
(* from 6 to 28 hours and of the Slow Loop from 175 to 213, among them the *)
(* defaults 26 and 192, and any pause: the Fast Loop is named exactly when *)
(* it left no trace on the last trading day before today nor since; the    *)
(* Slow Loop not for a week after a run, and two days after a missed one   *)
(* (overdue_jobs, due_slots).                                              *)
THEOREM SwitchHolds ==
    ASSUME SwitchConstants
    PROVE  Switch!Spec => [](Switch!TypeOK /\ Switch!SilenceIsTold)
<1>1. Switch!Init => Switch!IInv
  BY InitKeepsSwitch
<1>2. Switch!IInv /\ [Switch!Next]_Switch!vars => Switch!IInv'
  BY NextKeepsSwitch
<1>3. Switch!IInv => Switch!TypeOK /\ Switch!SilenceIsTold
  BY IInvImpliesSilenceIsTold DEF Switch!IInv
<1> QED
  BY <1>1, <1>2, <1>3, PTL DEF Switch!Spec

-----------------------------------------------------------------------------
(* MerkleTree: what the verifier accepts.  Its recursive functions are     *)
(* given by CHOOSE: that there are such functions, and what they say of    *)
(* every number, is shown from sets of numbers that hold 0 and with each   *)
(* number the next.                                                        *)
LEMMA Induction ==
    ASSUME NEW S, 0 \in S, \A n \in Nat : n \in S => n + 1 \in S
    PROVE  \A n \in Nat : n \in S
<1> SUFFICES ASSUME NEW n \in Nat, n \notin S PROVE FALSE
  OBVIOUS
<1> DEFINE T == {k \in 0 .. n : k \notin S}
<1>1. T \in SUBSET Nat /\ T # {}
  OBVIOUS
<1>2. PICK m \in T : \A y \in T : m <= y
  <2> HIDE DEF T
  <2> QED
    BY <1>1, LeastElement
<1>3. m \in Nat \ {0} /\ m - 1 \in 0 .. n /\ m - 1 + 1 = m
  OBVIOUS
<1>4. m - 1 \in S
  BY <1>2, <1>3
<1> QED
  BY <1>3, <1>4

(* A function into V may be defined at x by its values where the measure m *)
(* is smaller than at x.                                                   *)
Recursion(D, V, m, F) ==
    /\ V # {} /\ m \in [D -> Nat] /\ F \in [[D -> V] -> [D -> V]]
    /\ \A g, h \in [D -> V] : \A x \in D :
          (\A y \in D : m[y] < m[x] => g[y] = h[y]) => F[g][x] = F[h][x]

Defined(D, V, F) == \E f \in [D -> V] : f = F[f]

LEMMA DefinedByMeasure ==
    ASSUME NEW D, NEW V, NEW m, NEW F, Recursion(D, V, m, F)
    PROVE  Defined(D, V, F)
<1> USE DEF Recursion
<1> DEFINE Upto(g, n) == \A x \in D : m[x] < n => g[x] = F[g][x]
           P == {n \in Nat : \E g \in [D -> V] : Upto(g, n)}
           Q == {n \in Nat : \A g, h \in [D -> V] :
                    Upto(g, n) /\ Upto(h, n) => \A x \in D : m[x] < n => g[x] = h[x]}
<1>1. \A g \in [D -> V] : F[g] \in [D -> V] /\ \A x \in D : F[g][x] \in V
  OBVIOUS
<1>2. \A n \in Nat : n \in P
  <2>1. 0 \in P
    <3>1. PICK v : v \in V
      OBVIOUS
    <3>2. [x \in D |-> v] \in [D -> V]
      BY <3>1
    <3>3. Upto([x \in D |-> v], 0)
      OBVIOUS
    <3> QED
      BY <3>2, <3>3
  <2>2. ASSUME NEW n \in Nat, n \in P PROVE n + 1 \in P
    <3>1. PICK g \in [D -> V] : Upto(g, n)
      BY <2>2
    <3> DEFINE h == [x \in D |-> F[g][x]]
    <3>2. h \in [D -> V]
      BY <1>1
    <3>3. \A x \in D : m[x] < n => g[x] = h[x]
      BY <3>1
    <3>4. ASSUME NEW x \in D, m[x] < n + 1 PROVE h[x] = F[h][x]
      <4>1. \A y \in D : m[y] < m[x] => g[y] = h[y]
        BY <3>3, <3>4
      <4> HIDE DEF h
      <4>2. F[g][x] = F[h][x]
        BY <3>2, <4>1
      <4> QED
        BY <4>2 DEF h
    <3> HIDE DEF h
    <3>5. Upto(h, n + 1)
      BY <3>4
    <3> QED
      BY <3>2, <3>5
  <2> HIDE DEF P
  <2> QED
    BY <2>1, <2>2, Induction
<1>3. \A n \in Nat : n \in Q
  <2>1. 0 \in Q
    OBVIOUS
  <2>2. ASSUME NEW n \in Nat, n \in Q PROVE n + 1 \in Q
    <3> HIDE DEF Upto
    <3> SUFFICES ASSUME NEW g \in [D -> V], NEW h \in [D -> V], Upto(g, n + 1), Upto(h, n + 1),
                        NEW x \in D, m[x] < n + 1
                 PROVE  g[x] = h[x]
      OBVIOUS
    <3> USE DEF Upto
    <3>1. Upto(g, n) /\ Upto(h, n)
      OBVIOUS
    <3>2. \A y \in D : m[y] < m[x] => g[y] = h[y]
      BY <2>2, <3>1
    <3>3. F[g][x] = F[h][x]
      BY <3>2
    <3> QED
      BY <3>3
  <2> HIDE DEF Q
  <2> QED
    BY <2>1, <2>2, Induction
<1> DEFINE G == [n \in Nat |-> CHOOSE g \in [D -> V] : Upto(g, n)]
           f == [x \in D |-> G[m[x] + 1][x]]
<1>4. \A n \in Nat : G[n] \in [D -> V] /\ Upto(G[n], n)
  <2>1. \A n \in Nat : \E g \in [D -> V] : Upto(g, n)
    BY <1>2
  <2> HIDE DEF Upto
  <2> QED
    BY <2>1
<1> HIDE DEF G
<1>5. f \in [D -> V]
  BY <1>4
<1>6. ASSUME NEW x \in D PROVE f[x] = F[f][x]
  <2> DEFINE g == G[m[x] + 1]
  <2>1. m[x] \in Nat /\ m[x] + 1 \in Nat /\ g \in [D -> V] /\ Upto(g, m[x] + 1) /\ f[x] = g[x]
    BY <1>4
  <2>2. g[x] = F[g][x]
    BY <2>1
  <2>3. ASSUME NEW y \in D, m[y] < m[x] PROVE g[y] = f[y]
    <3> DEFINE h == G[m[y] + 1]
    <3>1. m[y] \in Nat /\ m[y] + 1 \in Nat /\ h \in [D -> V] /\ Upto(h, m[y] + 1) /\ f[y] = h[y]
      BY <1>4
    <3>2. Upto(g, m[y] + 1)
      BY <2>1, <2>3, <3>1
    <3>3. m[y] + 1 \in Q
      BY <1>3, <3>1
    <3> HIDE DEF g, h, Upto
    <3>4. \A z \in D : m[z] < m[y] + 1 => g[z] = h[z]
      BY <2>1, <3>1, <3>2, <3>3
    <3> QED
      BY <3>1, <3>4
  <2> HIDE DEF g, f
  <2>4. F[g][x] = F[f][x]
    BY <1>5, <2>1, <2>3
  <2> QED
    BY <2>1, <2>2, <2>4
<1> HIDE DEF f
<1>7. F[f] \in [D -> V]
  BY <1>5
<1>8. f = F[f]
  BY <1>5, <1>6, <1>7
<1> QED
  BY <1>5, <1>8 DEF Defined

-----------------------------------------------------------------------------
(* The powers of two.                                                      *)
LEMMA PowerIs ==
    /\ Tree!Power[0] = 1
    /\ \A i \in Nat : Tree!Power[i + 1] = 2 * Tree!Power[i]
<1> DEFINE F == [g \in [Nat -> Nat] |-> [i \in Nat |-> IF i = 0 THEN 1 ELSE 2 * g[i - 1]]]
           m == [i \in Nat |-> i]
<1>1. F \in [[Nat -> Nat] -> [Nat -> Nat]]
  <2>1. ASSUME NEW g \in [Nat -> Nat]
        PROVE  [i \in Nat |-> IF i = 0 THEN 1 ELSE 2 * g[i - 1]] \in [Nat -> Nat]
    OBVIOUS
  <2> QED
    BY <2>1
<1>2. m \in [Nat -> Nat]
  OBVIOUS
<1>3. \A g, h \in [Nat -> Nat] : \A x \in Nat :
         (\A y \in Nat : m[y] < m[x] => g[y] = h[y]) => F[g][x] = F[h][x]
  <2> SUFFICES ASSUME NEW g \in [Nat -> Nat], NEW h \in [Nat -> Nat], NEW x \in Nat,
                      \A y \in Nat : y < x => g[y] = h[y]
               PROVE  F[g][x] = F[h][x]
    OBVIOUS
  <2>1. x # 0 => x - 1 \in Nat /\ x - 1 < x
    OBVIOUS
  <2> QED
    BY <2>1
<1>4. \E f \in [Nat -> Nat] : f = F[f]
  <2>1. Nat # {}
    OBVIOUS
  <2> HIDE DEF F, m
  <2>2. Recursion(Nat, Nat, m, F)
    BY <1>1, <1>2, <1>3, <2>1 DEF Recursion
  <2>3. Defined(Nat, Nat, F)
    BY <2>2, DefinedByMeasure
  <2> QED
    BY <2>3 DEF Defined
<1>5. \E f : f = [i \in Nat |-> IF i = 0 THEN 1 ELSE 2 * f[i - 1]]
  <2>1. PICK f \in [Nat -> Nat] : f = F[f]
    BY <1>4
  <2>2. f = [i \in Nat |-> IF i = 0 THEN 1 ELSE 2 * f[i - 1]]
    BY <2>1
  <2> QED
    BY <2>2
<1>6. Tree!Power = [i \in Nat |-> IF i = 0 THEN 1 ELSE 2 * Tree!Power[i - 1]]
  BY <1>5 DEF Tree!Power
<1> HIDE DEF F, m
<1>7. ASSUME NEW i \in Nat PROVE Tree!Power[i + 1] = 2 * Tree!Power[i]
  <2>1. i + 1 \in Nat /\ i + 1 # 0 /\ i + 1 - 1 = i
    OBVIOUS
  <2> QED
    BY <1>6, <2>1
<1> QED
  BY <1>6, <1>7

-----------------------------------------------------------------------------
LEMMA PowerGrows ==
    \A i \in Nat : /\ Tree!Power[i] \in Nat /\ i < Tree!Power[i]
                   /\ \A j \in Nat : i < j => 2 * Tree!Power[i] <= Tree!Power[j]
<1> DEFINE S == {i \in Nat : Tree!Power[i] \in Nat /\ i < Tree!Power[i]}
<1>1. \A i \in Nat : i \in S
  <2>1. 0 \in S
    BY PowerIs
  <2>2. ASSUME NEW n \in Nat, n \in S PROVE n + 1 \in S
    <3>1. n + 1 \in Nat /\ Tree!Power[n + 1] = 2 * Tree!Power[n]
      BY PowerIs
    <3>2. Tree!Power[n] \in Nat /\ n < Tree!Power[n]
      BY <2>2
    <3> QED
      BY <3>1, <3>2
  <2> HIDE DEF S
  <2> QED
    BY <2>1, <2>2, Induction
<1>2. ASSUME NEW i \in Nat PROVE \A j \in Nat : i < j => 2 * Tree!Power[i] <= Tree!Power[j]
  <2> DEFINE T == {j \in Nat : i < j => 2 * Tree!Power[i] <= Tree!Power[j]}
  <2>1. 0 \in T
    OBVIOUS
  <2>2. ASSUME NEW j \in Nat, j \in T PROVE j + 1 \in T
    <3>1. j + 1 \in Nat /\ Tree!Power[j + 1] = 2 * Tree!Power[j]
      BY PowerIs
    <3>2. Tree!Power[j] \in Nat /\ Tree!Power[i] \in Nat
      BY <1>1
    <3>3. i < j + 1 => i < j \/ i = j
      OBVIOUS
    <3>4. i < j => 2 * Tree!Power[i] <= Tree!Power[j]
      BY <2>2
    <3>5. i < j + 1 => 2 * Tree!Power[i] <= Tree!Power[j + 1]
      BY <3>1, <3>2, <3>3, <3>4
    <3> QED
      BY <3>1, <3>5
  <2> HIDE DEF T
  <2>3. \A j \in Nat : j \in T
    BY <2>1, <2>2, Induction
  <2> QED
    BY <2>3 DEF T
<1> QED
  BY <1>1, <1>2

(* A slice of more than p and at most 2 p leaves is split behind p.        *)
LEMMA SplitIs ==
    ASSUME NEW size \in Nat, size >= 2
    PROVE  /\ Tree!Split(size) \in 1 .. size - 1
           /\ \A i \in Nat : Tree!Power[i] < size /\ size <= 2 * Tree!Power[i] =>
                             Tree!Split(size) = Tree!Power[i]
<1> DEFINE P == {Tree!Power[i] : i \in 0 .. size}
           T == {i \in 0 .. size : size <= 2 * Tree!Power[i]}
<1>1. size \in T
  BY PowerGrows
<1>2. PICK i \in T : \A y \in T : i <= y
  <2>1. T \in SUBSET Nat /\ T # {}
    BY <1>1
  <2> HIDE DEF T
  <2> QED
    BY <2>1, LeastElement
<1>3. i \in Nat /\ Tree!Power[i] \in Nat /\ size <= 2 * Tree!Power[i]
  BY PowerGrows
<1>4. Tree!Power[i] < size
  <2>1. CASE i = 0
    BY <2>1, PowerIs
  <2>2. CASE i # 0
    <3>1. i - 1 \in 0 .. size /\ i - 1 + 1 = i /\ i - 1 \notin T
      BY <1>2, <2>2
    <3>2. Tree!Power[i] = 2 * Tree!Power[i - 1] /\ Tree!Power[i - 1] \in Nat
      BY <3>1, PowerIs, PowerGrows
    <3> QED
      BY <3>1, <3>2
  <2> QED
    BY <2>1, <2>2
<1>5. \E k \in P : k < size /\ size <= 2 * k
  BY <1>3, <1>4
<1>6. /\ Tree!Split(size) \in P
      /\ Tree!Split(size) < size /\ size <= 2 * Tree!Split(size)
  <2> HIDE DEF P
  <2>1. Tree!Split(size) = CHOOSE k \in P : k < size /\ size <= 2 * k
    BY DEF Tree!Split, P
  <2> QED
    BY <1>5, <2>1
<1>7. PICK j \in Nat : Tree!Split(size) = Tree!Power[j]
  BY <1>6
<1>8. Tree!Power[j] \in Nat
  BY PowerGrows
<1>9. ASSUME NEW k \in Nat, Tree!Power[k] < size, size <= 2 * Tree!Power[k]
      PROVE  Tree!Split(size) = Tree!Power[k]
  <2>1. Tree!Power[k] \in Nat /\ (j < k => 2 * Tree!Power[j] <= Tree!Power[k])
        /\ (k < j => 2 * Tree!Power[k] <= Tree!Power[j])
    BY PowerGrows
  <2>2. j < k \/ k < j \/ j = k
    OBVIOUS
  <2> QED
    BY <1>6, <1>7, <1>8, <1>9, <2>1, <2>2
<1> QED
  BY <1>6, <1>7, <1>8, <1>9

-----------------------------------------------------------------------------
(* The two parts of a slice are shorter than it.                           *)
LEMMA PartsOfASlice ==
    ASSUME NEW s \in Tree!Slices
    PROVE  /\ s[1] \in Nat /\ s[2] \in Nat \ {0} /\ s = <<s[1], s[2]>>
           /\ s[2] # 1 =>
                 LET k == Tree!Split(s[2])
                 IN  /\ k \in 1 .. s[2] - 1
                     /\ Tree!Left(s) = <<s[1], k>> /\ Tree!Right(s) = <<s[1] + k, s[2] - k>>
                     /\ Tree!Left(s) \in Tree!Slices /\ Tree!Left(s)[2] = k
                     /\ Tree!Right(s) \in Tree!Slices /\ Tree!Right(s)[2] = s[2] - k
<1>1. s[1] \in Nat /\ s[2] \in Nat \ {0} /\ s = <<s[1], s[2]>>
  BY DEF Tree!Slices
<1>2. ASSUME s[2] # 1
      PROVE  LET k == Tree!Split(s[2])
             IN  /\ k \in 1 .. s[2] - 1
                 /\ Tree!Left(s) = <<s[1], k>> /\ Tree!Right(s) = <<s[1] + k, s[2] - k>>
                 /\ Tree!Left(s) \in Tree!Slices /\ Tree!Left(s)[2] = k
                 /\ Tree!Right(s) \in Tree!Slices /\ Tree!Right(s)[2] = s[2] - k
  <2> DEFINE k == Tree!Split(s[2])
  <2>1. s[2] \in Nat /\ s[2] >= 2
    BY <1>1, <1>2
  <2>2. k \in 1 .. s[2] - 1
    BY <2>1, SplitIs
  <2>3. Tree!Left(s) = <<s[1], k>> /\ Tree!Right(s) = <<s[1] + k, s[2] - k>>
    BY DEF Tree!Left, Tree!Right
  <2> HIDE DEF k
  <2>4. k \in Nat \ {0} /\ s[1] + k \in Nat /\ s[2] - k \in Nat \ {0}
    BY <1>1, <2>1, <2>2
  <2>5. /\ Tree!Left(s) \in Tree!Slices /\ Tree!Left(s)[2] = k
        /\ Tree!Right(s) \in Tree!Slices /\ Tree!Right(s)[2] = s[2] - k
    BY <1>1, <2>3, <2>4 DEF Tree!Slices
  <2> QED
    BY <2>2, <2>3, <2>5 DEF k
<1> QED
  BY <1>1, <1>2

(* No set is known to hold all hashes, so that DefinedByMeasure cannot say *)
(* this: SubtreeHash is what its definition says.                          *)
LEMMA SubtreeHashIs ==
    \A s \in Tree!Slices :
       Tree!SubtreeHash[s] =
          IF s[2] = 1 THEN Tree!LeafHash(Tree!Leaf(s[1]))
          ELSE Tree!NodeHash(Tree!SubtreeHash[Tree!Left(s)], Tree!SubtreeHash[Tree!Right(s)])
<1> DEFINE D == Tree!Slices
           Body(g, s) == IF s[2] = 1 THEN Tree!LeafHash(Tree!Leaf(s[1]))
                         ELSE Tree!NodeHash(g[Tree!Left(s)], g[Tree!Right(s)])
           Upto(g, n) == \A s \in D : s[2] < n => g[s] = Body(g, s)
           P == {n \in Nat : \E g : Upto(g, n)}
           Q == {n \in Nat : \A g, h :
                    Upto(g, n) /\ Upto(h, n) => \A s \in D : s[2] < n => g[s] = h[s]}
<1>1. ASSUME NEW g, NEW h, NEW s \in D, \A r \in D : r[2] < s[2] => g[r] = h[r]
      PROVE  Body(g, s) = Body(h, s)
  <2>1. CASE s[2] = 1
    BY <2>1
  <2>2. CASE s[2] # 1
    <3>1. /\ Tree!Left(s) \in D /\ Tree!Left(s)[2] < s[2]
          /\ Tree!Right(s) \in D /\ Tree!Right(s)[2] < s[2]
      BY <2>2, PartsOfASlice
    <3>2. g[Tree!Left(s)] = h[Tree!Left(s)] /\ g[Tree!Right(s)] = h[Tree!Right(s)]
      BY <1>1, <3>1
    <3> QED
      BY <3>2
  <2> QED
    BY <2>1, <2>2
<1>2. \A s \in D : s[2] \in Nat \ {0}
  BY PartsOfASlice
<1> HIDE DEF Body, D
<1>3. \A n \in Nat : n \in P
  <2>1. 0 \in P
    BY <1>2
  <2>2. ASSUME NEW n \in Nat, n \in P PROVE n + 1 \in P
    <3>1. PICK g : Upto(g, n)
      BY <2>2
    <3> DEFINE h == [s \in D |-> Body(g, s)]
    <3>2. \A s \in D : s[2] < n => g[s] = h[s]
      BY <3>1
    <3>3. ASSUME NEW s \in D, s[2] < n + 1 PROVE h[s] = Body(h, s)
      <4>1. \A r \in D : r[2] < s[2] => g[r] = h[r]
        BY <1>2, <3>2, <3>3
      <4>2. h[s] = Body(g, s)
        OBVIOUS
      <4> HIDE DEF h
      <4>3. Body(g, s) = Body(h, s)
        BY <1>1, <4>1
      <4> QED
        BY <4>2, <4>3
    <3> HIDE DEF h
    <3>4. Upto(h, n + 1)
      BY <3>3
    <3> QED
      BY <3>4
  <2> HIDE DEF P
  <2> QED
    BY <2>1, <2>2, Induction
<1>4. \A n \in Nat : n \in Q
  <2>1. 0 \in Q
    BY <1>2
  <2>2. ASSUME NEW n \in Nat, n \in Q PROVE n + 1 \in Q
    <3> SUFFICES ASSUME NEW g, NEW h, Upto(g, n + 1), Upto(h, n + 1), NEW s \in D, s[2] < n + 1
                 PROVE  g[s] = h[s]
      OBVIOUS
    <3>1. Upto(g, n) /\ Upto(h, n)
      BY <1>2
    <3>2. \A r \in D : r[2] < s[2] => g[r] = h[r]
      BY <1>2, <2>2, <3>1
    <3>3. Body(g, s) = Body(h, s)
      BY <1>1, <3>2
    <3> QED
      BY <3>3
  <2> HIDE DEF Q
  <2> QED
    BY <2>1, <2>2, Induction
<1> DEFINE G == [n \in Nat |-> CHOOSE g : Upto(g, n)]
           f == [s \in D |-> G[s[2] + 1][s]]
<1>5. \A n \in Nat : Upto(G[n], n)
  <2>1. \A n \in Nat : \E g : Upto(g, n)
    BY <1>3
  <2> HIDE DEF Upto
  <2> QED
    BY <2>1
<1> HIDE DEF G
<1>6. ASSUME NEW s \in D PROVE f[s] = Body(f, s)
  <2> DEFINE g == G[s[2] + 1]
  <2>1. s[2] \in Nat /\ s[2] + 1 \in Nat /\ f[s] = g[s]
    BY <1>2
  <2>2. Upto(g, s[2] + 1)
    BY <1>5, <2>1
  <2>3. g[s] = Body(g, s)
    BY <2>1, <2>2
  <2>4. ASSUME NEW r \in D, r[2] < s[2] PROVE g[r] = f[r]
    <3> DEFINE h == G[r[2] + 1]
    <3>1. r[2] \in Nat /\ r[2] + 1 \in Nat /\ f[r] = h[r]
      BY <1>2
    <3>2. Upto(h, r[2] + 1)
      BY <1>5, <3>1
    <3>3. Upto(g, r[2] + 1)
      BY <1>2, <2>1, <2>2, <2>4, <3>1
    <3>4. r[2] + 1 \in Q
      BY <1>4, <3>1
    <3> HIDE DEF g, h, Upto
    <3>5. \A z \in D : z[2] < r[2] + 1 => g[z] = h[z]
      BY <3>2, <3>3, <3>4
    <3> QED
      BY <3>1, <3>5
  <2> HIDE DEF g, f
  <2>5. Body(g, s) = Body(f, s)
    BY <1>1, <2>4
  <2> QED
    BY <2>1, <2>3, <2>5
<1>7. f = [s \in D |-> Body(f, s)]
  BY <1>6
<1> HIDE DEF f
<1>8. \E g : g = [s \in D |-> Body(g, s)]
  BY <1>7
<1>9. Tree!SubtreeHash = [s \in D |-> Body(Tree!SubtreeHash, s)]
  BY <1>8 DEF Tree!SubtreeHash, Body, D
<1> QED
  BY <1>9 DEF Body, D

-----------------------------------------------------------------------------
Hashes == {Tree!SubtreeHash[s] : s \in Tree!Slices}

(* A step of inclusion_proof: the proof of a part and the hash of the other.*)
StepOfProof(g, s, i) ==
    IF s[2] = 1 THEN <<>>
    ELSE IF i < Tree!Split(s[2])
         THEN Append(g[Tree!Left(s)][i], Tree!SubtreeHash[Tree!Right(s)])
         ELSE Append(g[Tree!Right(s)][i - Tree!Split(s[2])], Tree!SubtreeHash[Tree!Left(s)])

LEMMA InclusionProofIs ==
    \A s \in Tree!Slices : \A i \in Nat :
       /\ Tree!inclusion_proof[s][i] \in Seq(Hashes)
       /\ Tree!inclusion_proof[s][i] = StepOfProof(Tree!inclusion_proof, s, i)
<1> DEFINE D == Tree!Slices
           V == [Nat -> Seq(Hashes)]
           m == [s \in D |-> s[2]]
           F == [g \in [D -> V] |-> [s \in D |-> [i \in Nat |-> StepOfProof(g, s, i)]]]
<1>1. V # {} /\ m \in [D -> Nat] /\ \A s \in D : m[s] = s[2]
  <2>1. [i \in Nat |-> <<>>] \in V
    OBVIOUS
  <2>2. \A s \in D : s[2] \in Nat
    BY PartsOfASlice
  <2> QED
    BY <2>1, <2>2
<1>2. ASSUME NEW s \in D, s[2] # 1
      PROVE  /\ Tree!Split(s[2]) \in 1 .. s[2] - 1 /\ s[2] \in Nat
             /\ Tree!Left(s) \in D /\ Tree!Left(s)[2] < s[2]
             /\ Tree!Right(s) \in D /\ Tree!Right(s)[2] < s[2]
             /\ Tree!SubtreeHash[Tree!Left(s)] \in Hashes
             /\ Tree!SubtreeHash[Tree!Right(s)] \in Hashes
  <2>1. Tree!Left(s) \in D /\ Tree!Right(s) \in D
    BY <1>2, PartsOfASlice
  <2> QED
    BY <1>2, <2>1, PartsOfASlice DEF Hashes
<1>3. ASSUME NEW g, NEW s \in D, NEW i \in Nat,
             s[2] # 1 => g[Tree!Left(s)] \in V /\ g[Tree!Right(s)] \in V
      PROVE  StepOfProof(g, s, i) \in Seq(Hashes)
  <2>1. CASE s[2] = 1
    BY <2>1 DEF StepOfProof
  <2>2. CASE s[2] # 1
    <3> DEFINE k == Tree!Split(s[2])
               l == Tree!Left(s)
               r == Tree!Right(s)
    <3>1. /\ k \in Nat /\ l \in D /\ r \in D
          /\ Tree!SubtreeHash[l] \in Hashes /\ Tree!SubtreeHash[r] \in Hashes
      BY <1>2, <2>2
    <3>2. StepOfProof(g, s, i) = IF i < k THEN Append(g[l][i], Tree!SubtreeHash[r])
                                 ELSE Append(g[r][i - k], Tree!SubtreeHash[l])
      BY <2>2 DEF StepOfProof
    <3>3. g[l] \in V /\ g[r] \in V
      BY <1>3, <2>2
    <3> HIDE DEF D, k, l, r
    <3>4. g[l][i] \in Seq(Hashes) /\ (~(i < k) => i - k \in Nat /\ g[r][i - k] \in Seq(Hashes))
      BY <3>1, <3>3
    <3> QED
      BY <3>1, <3>2, <3>4
  <2> QED
    BY <2>1, <2>2
<1>4. F \in [[D -> V] -> [D -> V]]
  <2>1. ASSUME NEW g \in [D -> V]
        PROVE  [s \in D |-> [i \in Nat |-> StepOfProof(g, s, i)]] \in [D -> V]
    <3>1. \A s \in D : s[2] # 1 => g[Tree!Left(s)] \in V /\ g[Tree!Right(s)] \in V
      <4> HIDE DEF D, V
      <4> QED
        BY <1>2
    <3> QED
      BY <1>3, <3>1
  <2> QED
    BY <2>1
<1>5. ASSUME NEW g \in [D -> V], NEW h \in [D -> V], NEW s \in D,
             \A r \in D : m[r] < m[s] => g[r] = h[r]
      PROVE  F[g][s] = F[h][s]
  <2>1. \A r \in D : r[2] < s[2] => g[r] = h[r]
    BY <1>1, <1>5
  <2>2. ASSUME NEW i \in Nat PROVE StepOfProof(g, s, i) = StepOfProof(h, s, i)
    <3>1. CASE s[2] = 1
      BY <3>1 DEF StepOfProof
    <3>2. CASE s[2] # 1
      <4>1. g[Tree!Left(s)] = h[Tree!Left(s)] /\ g[Tree!Right(s)] = h[Tree!Right(s)]
        BY <1>2, <2>1, <3>2
      <4> QED
        BY <3>2, <4>1 DEF StepOfProof
    <3> QED
      BY <3>1, <3>2
  <2>3. /\ F[g][s] = [i \in Nat |-> StepOfProof(g, s, i)]
        /\ F[h][s] = [i \in Nat |-> StepOfProof(h, s, i)]
    OBVIOUS
  <2> HIDE DEF F
  <2> QED
    BY <2>2, <2>3
<1>6. \E f \in [D -> V] : f = [s \in D |-> [i \in Nat |-> StepOfProof(f, s, i)]]
  <2>1. Recursion(D, V, m, F)
    <3> HIDE DEF D, V, m, F
    <3> QED
      BY <1>1, <1>4, <1>5 DEF Recursion
  <2>2. Defined(D, V, F)
    <3> HIDE DEF D, V, m, F
    <3> QED
      BY <2>1, DefinedByMeasure
  <2>3. PICK f \in [D -> V] : f = F[f]
    <3> HIDE DEF D, V, m, F
    <3> QED
      BY <2>2 DEF Defined
  <2>4. F[f] = [s \in D |-> [i \in Nat |-> StepOfProof(f, s, i)]]
    OBVIOUS
  <2> HIDE DEF F
  <2> QED
    BY <2>3, <2>4
<1> DEFINE p == Tree!inclusion_proof
<1>7. p = [s \in D |-> [i \in Nat |-> StepOfProof(p, s, i)]]
  <2> DEFINE Is(f) == f = [s \in D |-> [i \in Nat |-> StepOfProof(f, s, i)]]
  <2>1. \E f : Is(f)
    BY <1>6
  <2>2. p = CHOOSE f : Is(f)
    BY Zenon DEF Tree!inclusion_proof, StepOfProof
  <2> HIDE DEF Is, p
  <2>3. Is(p)
    BY <2>1, <2>2
  <2> QED
    BY <2>3 DEF Is
<1>8. \A s \in D : /\ p[s] = [i \in Nat |-> StepOfProof(p, s, i)]
                  /\ \A i \in Nat : p[s][i] = StepOfProof(p, s, i)
  <2> HIDE DEF p, D
  <2> QED
    BY <1>7
<1> DEFINE T == {n \in Nat : \A s \in D : s[2] <= n => p[s] \in V}
<1>9. \A n \in Nat : n \in T
  <2>1. 0 \in T
    BY PartsOfASlice
  <2>2. ASSUME NEW n \in Nat, n \in T PROVE n + 1 \in T
    <3> SUFFICES ASSUME NEW s \in D, s[2] <= n + 1 PROVE p[s] \in V
      OBVIOUS
    <3>1. ASSUME s[2] # 1 PROVE p[Tree!Left(s)] \in V /\ p[Tree!Right(s)] \in V
      <4>1. /\ Tree!Left(s) \in D /\ Tree!Left(s)[2] \in Nat /\ Tree!Left(s)[2] < s[2]
            /\ Tree!Right(s) \in D /\ Tree!Right(s)[2] \in Nat /\ Tree!Right(s)[2] < s[2]
        BY <1>1, <1>2, <3>1, PartsOfASlice
      <4>2. Tree!Left(s)[2] <= n /\ Tree!Right(s)[2] <= n
        BY <4>1, PartsOfASlice
      <4> HIDE DEF p, V
      <4> QED
        BY <2>2, <4>1, <4>2
    <3>2. \A i \in Nat : StepOfProof(p, s, i) \in Seq(Hashes)
      <4> HIDE DEF p, V
      <4> QED
        BY <1>3, <3>1
    <3> HIDE DEF p
    <3> QED
      BY <1>8, <3>2
  <2> HIDE DEF T
  <2> QED
    BY <2>1, <2>2, Induction
<1>10. ASSUME NEW s \in D PROVE p[s] \in V
  <2>1. s[2] \in Nat /\ s[2] <= s[2]
    BY PartsOfASlice
  <2> HIDE DEF p, V, D
  <2> QED
    BY <1>9, <2>1
<1>11. ASSUME NEW s \in D, NEW i \in Nat PROVE p[s][i] \in Seq(Hashes)
  <2> HIDE DEF p, D
  <2> QED
    BY <1>10
<1> QED
  BY <1>8, <1>11

-----------------------------------------------------------------------------
(* The loop of verify_inclusion that halves both positions.                *)
LEMMA ClimbIs ==
    \A f, s \in Nat :
       Tree!Climb[<<f, s>>] = IF f % 2 = 1 \/ f = 0 THEN <<f, s>>
                              ELSE Tree!Climb[<<f \div 2, s \div 2>>]
<1> DEFINE D == Nat \X Nat
           Step(g, p) == IF p[1] % 2 = 1 \/ p[1] = 0 THEN p ELSE g[<<p[1] \div 2, p[2] \div 2>>]
           m == [p \in D |-> p[1]]
           F == [g \in [D -> D] |-> [p \in D |-> Step(g, p)]]
<1>1. D # {} /\ m \in [D -> Nat] /\ \A p \in D : m[p] = p[1]
  <2>1. <<0, 0>> \in D
    OBVIOUS
  <2> QED
    BY <2>1
<1>2. ASSUME NEW p \in D, ~ (p[1] % 2 = 1 \/ p[1] = 0)
      PROVE  <<p[1] \div 2, p[2] \div 2>> \in D /\ <<p[1] \div 2, p[2] \div 2>>[1] < p[1]
  <2>1. p[1] \in Nat /\ p[2] \in Nat /\ p[1] # 0
    BY <1>2
  <2>2. p[1] \div 2 \in Nat /\ p[2] \div 2 \in Nat /\ p[1] \div 2 < p[1]
    BY <2>1
  <2> QED
    BY <2>2
<1>3. ASSUME NEW g \in [D -> D], NEW p \in D PROVE Step(g, p) \in D
  <2> HIDE DEF D
  <2>1. CASE p[1] % 2 = 1 \/ p[1] = 0
    BY <2>1
  <2>2. CASE ~ (p[1] % 2 = 1 \/ p[1] = 0)
    BY <1>2, <2>2
  <2> QED
    BY <2>1, <2>2
<1>4. F \in [[D -> D] -> [D -> D]]
  <2>1. ASSUME NEW g \in [D -> D] PROVE [p \in D |-> Step(g, p)] \in [D -> D]
    <3> HIDE DEF Step, D
    <3> QED
      BY <1>3
  <2> HIDE DEF Step, D
  <2> QED
    BY <2>1
<1>5. ASSUME NEW g \in [D -> D], NEW h \in [D -> D], NEW p \in D,
             \A r \in D : m[r] < m[p] => g[r] = h[r]
      PROVE  F[g][p] = F[h][p]
  <2>1. \A r \in D : r[1] < p[1] => g[r] = h[r]
    BY <1>1, <1>5
  <2>2. Step(g, p) = Step(h, p)
    <3> HIDE DEF D
    <3>1. CASE p[1] % 2 = 1 \/ p[1] = 0
      BY <3>1
    <3>2. CASE ~ (p[1] % 2 = 1 \/ p[1] = 0)
      BY <1>2, <2>1, <3>2
    <3> QED
      BY <3>1, <3>2
  <2>3. F[g][p] = Step(g, p) /\ F[h][p] = Step(h, p)
    <3> HIDE DEF Step, D
    <3> QED
      OBVIOUS
  <2> HIDE DEF F, Step
  <2> QED
    BY <2>2, <2>3
<1>6. \E f \in [D -> D] : f = [p \in D |-> Step(f, p)]
  <2>1. Recursion(D, D, m, F)
    <3> HIDE DEF D, m, F
    <3> QED
      BY <1>1, <1>4, <1>5 DEF Recursion
  <2>2. Defined(D, D, F)
    <3> HIDE DEF D, m, F
    <3> QED
      BY <2>1, DefinedByMeasure
  <2>3. PICK f \in [D -> D] : f = F[f]
    <3> HIDE DEF D, m, F
    <3> QED
      BY <2>2 DEF Defined
  <2>4. F[f] = [p \in D |-> Step(f, p)]
    <3> HIDE DEF Step, D
    <3> QED
      OBVIOUS
  <2> HIDE DEF F, Step
  <2> QED
    BY <2>3, <2>4
<1> DEFINE c == Tree!Climb
<1>7. c = [p \in D |-> Step(c, p)]
  <2>1. \E f : f = [p \in D |-> Step(f, p)]
    BY <1>6
  <2> QED
    BY <2>1 DEF Tree!Climb
<1> HIDE DEF c
<1>8. \A p \in D : c[p] = Step(c, p)
  <2> HIDE DEF Step, D
  <2> QED
    BY <1>7
<1>9. ASSUME NEW f \in Nat, NEW s \in Nat
      PROVE  c[<<f, s>>] = IF f % 2 = 1 \/ f = 0 THEN <<f, s>> ELSE c[<<f \div 2, s \div 2>>]
  <2>1. <<f, s>> \in D /\ <<f, s>>[1] = f /\ <<f, s>>[2] = s
    OBVIOUS
  <2>2. c[<<f, s>>] = Step(c, <<f, s>>)
    BY <1>8, <2>1
  <2> QED
    BY <2>1, <2>2
<1>10. \A f, s \in Nat :
          c[<<f, s>>] = IF f % 2 = 1 \/ f = 0 THEN <<f, s>> ELSE c[<<f \div 2, s \div 2>>]
  BY <1>9, Zenon
<1> QED
  BY <1>10, Zenon DEF c

-----------------------------------------------------------------------------
(* The levels of the tree: at a level it is cut into blocks of p leaves, a *)
(* power of two, the last of which may be shorter.                         *)
Powers == {Tree!Power[i] : i \in Nat}
Block(n, low, p) == <<low, IF low + p <= n THEN p ELSE n - low>>

LEMMA PowersAre ==
    /\ 1 \in Powers
    /\ \A p \in Powers : p \in Nat \ {0} /\ 2 * p \in Powers
<1>1. 1 \in Powers
  BY PowerIs DEF Powers
<1>2. ASSUME NEW p \in Powers PROVE p \in Nat \ {0} /\ 2 * p \in Powers
  <2>1. PICK i \in Nat : p = Tree!Power[i]
    BY DEF Powers
  <2>2. i + 1 \in Nat /\ 2 * p = Tree!Power[i + 1] /\ p \in Nat /\ i < p
    BY <2>1, PowerIs, PowerGrows
  <2> QED
    BY <2>2 DEF Powers
<1> QED
  BY <1>1, <1>2

TwoBlocks(n, low, p, s, l, r) ==
    /\ s \in Tree!Slices /\ l \in Tree!Slices
    /\ n <= low + p => s = l
    /\ low + p < n =>
          /\ r \in Tree!Slices
          /\ Tree!SubtreeHash[s] = Tree!NodeHash(Tree!SubtreeHash[l], Tree!SubtreeHash[r])
          /\ \A x \in Nat :
                /\ x < p => Tree!inclusion_proof[s][x]
                              = Append(Tree!inclusion_proof[l][x], Tree!SubtreeHash[r])
                /\ p <= x => Tree!inclusion_proof[s][x]
                              = Append(Tree!inclusion_proof[r][x - p], Tree!SubtreeHash[l])

(* A block of 2 p leaves that is not yet full of its first half is that    *)
(* half; otherwise it is split into blocks of p.                           *)
LEMMA BlocksAreSplit ==
    ASSUME NEW n \in Nat, NEW p \in Powers, NEW low \in Nat, low < n,
           NEW s, s = Block(n, low, 2 * p),
           NEW l, l = Block(n, low, p),
           NEW r, r = Block(n, low + p, p)
    PROVE  TwoBlocks(n, low, p, s, l, r)
<1>1. p \in Nat \ {0}
  BY PowersAre
<1>2. s \in Tree!Slices /\ l \in Tree!Slices
  BY <1>1 DEF Block, Tree!Slices
<1>3. ASSUME n <= low + p PROVE s = l
  <2>1. low + 2 * p <= n => 2 * p = n - low /\ p = n - low
    BY <1>1, <1>3
  <2>2. low + p <= n => p = n - low
    BY <1>1, <1>3
  <2> QED
    BY <1>1, <1>3, <2>1, <2>2 DEF Block
<1>4. ASSUME low + p < n
      PROVE  /\ r \in Tree!Slices
             /\ Tree!SubtreeHash[s] = Tree!NodeHash(Tree!SubtreeHash[l], Tree!SubtreeHash[r])
             /\ \A x \in Nat :
                   /\ x < p => Tree!inclusion_proof[s][x]
                                 = Append(Tree!inclusion_proof[l][x], Tree!SubtreeHash[r])
                   /\ p <= x => Tree!inclusion_proof[s][x]
                                 = Append(Tree!inclusion_proof[r][x - p], Tree!SubtreeHash[l])
  <2>1. r \in Tree!Slices
    BY <1>1, <1>4 DEF Block, Tree!Slices
  <2>2. s[1] = low /\ s[2] \in Nat /\ p < s[2] /\ s[2] <= 2 * p /\ s[2] >= 2 /\ s[2] # 1
    BY <1>1, <1>4 DEF Block
  <2>3. Tree!Split(s[2]) = p
    <3>1. PICK i \in Nat : p = Tree!Power[i]
      BY DEF Powers
    <3> QED
      BY <2>2, <3>1, SplitIs
  <2>4. Tree!Left(s) = l
    BY <1>1, <1>4, <2>2, <2>3 DEF Tree!Left, Block
  <2>5. Tree!Right(s) = r
    <3>1. s[2] = IF low + 2 * p <= n THEN 2 * p ELSE n - low
      BY DEF Block
    <3>2. s[2] - p = IF low + p + p <= n THEN p ELSE n - (low + p)
      BY <1>1, <1>4, <3>1
    <3> QED
      BY <2>2, <2>3, <3>2 DEF Tree!Right, Block
  <2>6. Tree!SubtreeHash[s] = Tree!NodeHash(Tree!SubtreeHash[l], Tree!SubtreeHash[r])
    BY <1>2, <2>2, <2>4, <2>5, SubtreeHashIs
  <2>7. \A x \in Nat :
           /\ x < p => Tree!inclusion_proof[s][x]
                         = Append(Tree!inclusion_proof[l][x], Tree!SubtreeHash[r])
           /\ p <= x => Tree!inclusion_proof[s][x]
                         = Append(Tree!inclusion_proof[r][x - p], Tree!SubtreeHash[l])
    <3> TAKE x \in Nat
    <3>1. Tree!inclusion_proof[s][x] = StepOfProof(Tree!inclusion_proof, s, x)
      BY <1>2, InclusionProofIs
    <3>2. p <= x => ~(x < p)
      BY <1>1
    <3> QED
      BY <2>2, <2>3, <2>4, <2>5, <3>1, <3>2 DEF StepOfProof
  <2> QED
    BY <2>1, <2>6, <2>7
<1> QED
  BY <1>2, <1>3, <1>4 DEF TwoBlocks

LEMMA Halves ==
    ASSUME NEW f \in Nat, NEW p \in Nat
    PROVE  /\ f \div 2 \in Nat /\ f % 2 \in {0, 1} /\ f = 2 * (f \div 2) + (f % 2)
           /\ f % 2 = 0 => f * p = (f \div 2) * (2 * p)
           /\ f % 2 = 1 => f * p = (f \div 2) * (2 * p) + p
           /\ f % 2 = 1 => (f - 1) * p = (f \div 2) * (2 * p)
<1> DEFINE q == f \div 2
           r == f % 2
<1>1. q \in Nat /\ r \in {0, 1} /\ f = 2 * q + r
  OBVIOUS
<1> HIDE DEF q, r
<1>2. (2 * q) * p = q * (2 * p) /\ (2 * q + 1) * p = q * (2 * p) + p
  BY <1>1
<1>3. r = 0 => f * p = q * (2 * p)
  BY <1>1, <1>2
<1>4. r = 1 => f * p = q * (2 * p) + p /\ f - 1 = 2 * q
  BY <1>1, <1>2
<1>5. r = 1 => (f - 1) * p = q * (2 * p)
  BY <1>1, <1>2, <1>4
<1> QED
  BY <1>1, <1>3, <1>4, <1>5 DEF q, r

LEMMA TimesKeepsOrder ==
    ASSUME NEW a \in Nat, NEW b \in Nat, NEW p \in Nat, a < b
    PROVE  a * p + p <= b * p /\ a * p \in Nat /\ b * p \in Nat
<1> DEFINE S == {n \in Nat : a * p + p <= (a + 1 + n) * p}
<1>1. 0 \in S
  OBVIOUS
<1>2. ASSUME NEW n \in Nat, n \in S PROVE n + 1 \in S
  <2>1. (a + 1 + (n + 1)) * p = (a + 1 + n) * p + p
    OBVIOUS
  <2> QED
    BY <1>2, <2>1
<1> HIDE DEF S
<1>3. \A n \in Nat : n \in S
  BY <1>1, <1>2, Induction
<1>4. b - a - 1 \in Nat /\ a + 1 + (b - a - 1) = b
  OBVIOUS
<1>5. a * p + p <= b * p
  BY <1>3, <1>4 DEF S
<1> QED
  BY <1>5

(* The root is the only block with a proof as long as the whole.           *)
Whole(n, b, x, low) ==
    b = <<0, n>> \/ Len(Tree!inclusion_proof[b][x - low]) < Len(Tree!inclusion_proof[<<0, n>>][x])

LEMMA PartIsNotWhole ==
    ASSUME NEW n \in Nat, NEW x \in Nat, x < n, NEW low \in Nat, low <= x, NEW k \in Nat, k <= x,
           NEW s \in Tree!Slices, s[1] = low, NEW r \in Tree!Slices, NEW h \in Hashes,
           Whole(n, s, x, low),
           Tree!inclusion_proof[s][x - low] = Append(Tree!inclusion_proof[r][x - k], h)
    PROVE  Whole(n, r, x, k)
<1> DEFINE P == Tree!inclusion_proof
           R == <<0, n>>
<1>1. R \in Tree!Slices /\ x - low \in Nat /\ x - k \in Nat
  BY DEF Tree!Slices
<1>2. P[r][x - k] \in Seq(Hashes) /\ P[s][x - low] \in Seq(Hashes) /\ P[R][x] \in Seq(Hashes)
  <2> HIDE DEF R
  <2> QED
    BY <1>1, InclusionProofIs
<1>3. P[s][x - low] = Append(P[r][x - k], h)
  OBVIOUS
<1>4. s = R => P[s][x - low] = P[R][x]
  <2>1. s = R => x - low = x
    OBVIOUS
  <2> QED
    BY <2>1
<1>5. s = R \/ Len(P[s][x - low]) < Len(P[R][x])
  BY DEF Whole
<1> HIDE DEF P, R
<1>6. Len(P[s][x - low]) = Len(P[r][x - k]) + 1 /\ Len(P[r][x - k]) \in Nat
      /\ Len(P[R][x]) \in Nat
  <2>1. PICK a \in Seq(Hashes) : a = P[r][x - k]
    BY <1>2
  <2>2. PICK b \in Seq(Hashes) : b = P[s][x - low]
    BY <1>2
  <2>3. PICK c \in Seq(Hashes) : c = P[R][x]
    BY <1>2
  <2>4. b = Append(a, h)
    BY <1>3, <2>1, <2>2
  <2>5. Len(b) = Len(a) + 1 /\ Len(a) \in Nat /\ Len(c) \in Nat
    BY <2>4
  <2> QED
    BY <2>1, <2>2, <2>3, <2>5
<1>7. Len(P[r][x - k]) < Len(P[R][x])
  <2>1. PICK a \in Nat : a = Len(P[r][x - k])
    BY <1>6
  <2>2. PICK c \in Nat : c = Len(P[R][x])
    BY <1>6
  <2>3. s = R => Len(P[s][x - low]) = c
    BY <1>4, <2>2
  <2>4. s = R \/ Len(P[s][x - low]) < c
    BY <1>5, <2>2
  <2>5. Len(P[s][x - low]) = a + 1
    BY <1>6, <2>1
  <2>6. a < c
    BY <2>3, <2>4, <2>5
  <2> QED
    BY <2>1, <2>2, <2>6
<1> QED
  BY <1>7 DEF Whole, P, R

LEMMA PartsHaveShorterProofs ==
    ASSUME NEW n \in Nat, NEW x \in Nat, x < n, NEW p \in Powers, NEW f \in Nat,
           f * p <= x, x < f * p + p
    PROVE  Whole(n, Block(n, f * p, p), x, f * p)
<1> DEFINE Short(i, g) ==
              g * Tree!Power[i] <= x /\ x < g * Tree!Power[i] + Tree!Power[i] =>
                 Whole(n, Block(n, g * Tree!Power[i], Tree!Power[i]), x, g * Tree!Power[i])
           S == {d \in Nat : \A i, g \in Nat : n <= Tree!Power[i + d] => Short(i, g)}
<1>1. 0 \in S
  <2> SUFFICES ASSUME NEW i \in Nat, NEW g \in Nat, n <= Tree!Power[i],
                      g * Tree!Power[i] <= x, x < g * Tree!Power[i] + Tree!Power[i]
               PROVE  Whole(n, Block(n, g * Tree!Power[i], Tree!Power[i]), x, g * Tree!Power[i])
    BY PowerGrows
  <2> DEFINE q == Tree!Power[i]
  <2>1. q \in Nat
    BY PowerGrows
  <2> HIDE DEF q
  <2>2. g = 0
    <3>1. 0 < g => 0 * q + q <= g * q
      BY <2>1, TimesKeepsOrder
    <3> QED
      BY <2>1, <3>1 DEF q
  <2>3. g * q = 0
    BY <2>1, <2>2
  <2>4. (IF 0 + q <= n THEN q ELSE n - 0) = n
    <3>1. n <= q
      BY DEF q
    <3> QED
      BY <2>1, <3>1
  <2>5. Block(n, 0, q) = <<0, n>>
    BY <2>4 DEF Block
  <2> QED
    BY <2>3, <2>5 DEF Whole, q
<1>2. ASSUME NEW d \in Nat, d \in S PROVE d + 1 \in S
  <2> SUFFICES ASSUME NEW i \in Nat, NEW g \in Nat, n <= Tree!Power[i + (d + 1)],
                      g * Tree!Power[i] <= x, x < g * Tree!Power[i] + Tree!Power[i]
               PROVE  Whole(n, Block(n, g * Tree!Power[i], Tree!Power[i]), x, g * Tree!Power[i])
    OBVIOUS
  <2>1. PICK q \in Powers : q = Tree!Power[i]
    BY DEF Powers
  <2>2. PICK k \in Nat : k = g * q
    BY <2>1, PowersAre
  <2>3. PICK half \in Nat : half = g \div 2
    OBVIOUS
  <2>4. PICK low \in Nat : low = half * (2 * q)
    BY <2>3, PowersAre
  <2>5. /\ k = low \/ k = low + q
        /\ q \in Nat \ {0} /\ k <= x /\ x < k + q
    BY <2>1, <2>2, <2>3, <2>4, PowersAre, Halves
  <2>6. Whole(n, Block(n, low, 2 * q), x, low)
    <3>1. i + 1 \in Nat /\ Tree!Power[i + 1] = 2 * q /\ i + (d + 1) = (i + 1) + d
      BY <2>1, PowerIs
    <3>2. Short(i + 1, half)
      BY <1>2, <2>3, <3>1
    <3> QED
      BY <2>4, <2>5, <3>1, <3>2
  <2>12. PICK s : s = Block(n, low, 2 * q)
    OBVIOUS
  <2>13. PICK l : l = Block(n, low, q)
    OBVIOUS
  <2>14. PICK r : r = Block(n, low + q, q)
    OBVIOUS
  <2> DEFINE P == Tree!inclusion_proof
  <2>7. /\ s \in Tree!Slices /\ l \in Tree!Slices /\ low < n
        /\ n <= low + q => s = l
        /\ low + q < n =>
              /\ r \in Tree!Slices
              /\ x - low < q => P[s][x - low] = Append(P[l][x - low], Tree!SubtreeHash[r])
              /\ q <= x - low =>
                    P[s][x - low] = Append(P[r][(x - low) - q], Tree!SubtreeHash[l])
    <3>1. low < n /\ x - low \in Nat
      BY <2>4, <2>5
    <3>2. /\ s \in Tree!Slices /\ l \in Tree!Slices
          /\ n <= low + q => s = l
          /\ low + q < n =>
                /\ r \in Tree!Slices
                /\ \A y \in Nat :
                      /\ y < q => P[s][y] = Append(P[l][y], Tree!SubtreeHash[r])
                      /\ q <= y => P[s][y] = Append(P[r][y - q], Tree!SubtreeHash[l])
      <4>1. TwoBlocks(n, low, q, s, l, r)
        BY <2>1, <2>4, <2>12, <2>13, <2>14, <3>1, BlocksAreSplit
      <4> QED
        BY <4>1, Zenon DEF TwoBlocks
    <3> HIDE DEF P
    <3>3. PICK y \in Nat : y = x - low
      BY <3>1
    <3> QED
      BY <3>1, <3>2, <3>3
  <2> HIDE DEF P
  <2>8. CASE k = low /\ n <= low + q
    <3>1. s = l
      BY <2>7, <2>8
    <3> QED
      BY <2>1, <2>2, <2>6, <2>8, <2>12, <2>13, <3>1
  <2>9. CASE k = low /\ low + q < n
    <3>1. /\ P[s][x - low] = Append(P[l][x - low], Tree!SubtreeHash[r]) /\ x - low \in Nat
          /\ r \in Tree!Slices
      BY <2>4, <2>5, <2>7, <2>9
    <3>2. Whole(n, l, x, low)
      <4>1. Tree!SubtreeHash[r] \in Hashes
        BY <3>1 DEF Hashes
      <4>2. s[1] = low /\ low <= x /\ Whole(n, s, x, low)
        BY <2>5, <2>6, <2>9, <2>12 DEF Block
      <4> QED
        BY <2>4, <2>7, <3>1, <4>1, <4>2, PartIsNotWhole DEF P
    <3> QED
      BY <2>1, <2>2, <2>9, <2>13, <3>2
  <2>10. CASE k = low + q
    <3>1. /\ P[s][x - low] = Append(P[r][x - k], Tree!SubtreeHash[l]) /\ x - low \in Nat
          /\ r \in Tree!Slices /\ k <= x /\ low <= x
      <4>1. q <= x - low /\ x - low \in Nat /\ (x - low) - q = x - k /\ low + q < n
            /\ k <= x /\ low <= x
        BY <2>4, <2>5, <2>10
      <4> QED
        BY <2>7, <4>1
    <3>2. Whole(n, r, x, k)
      <4>1. Tree!SubtreeHash[l] \in Hashes
        BY <2>7 DEF Hashes
      <4>2. s[1] = low /\ Whole(n, s, x, low)
        BY <2>6, <2>12 DEF Block
      <4> QED
        BY <2>4, <2>7, <3>1, <4>1, <4>2, PartIsNotWhole DEF P
    <3> QED
      BY <2>1, <2>2, <2>10, <2>14, <3>2
  <2>11. n <= low + q \/ low + q < n
    BY <2>4, <2>5
  <2> QED
    BY <2>5, <2>8, <2>9, <2>10, <2>11
<1> HIDE DEF Short
<1>3. \A d \in Nat : d \in S
  <2> HIDE DEF S
  <2> QED
    BY <1>1, <1>2, Induction
<1>4. PICK i \in Nat : p = Tree!Power[i]
  BY DEF Powers
<1>5. n <= Tree!Power[i + n]
  <2>1. i + n \in Nat /\ Tree!Power[i + n] \in Nat /\ i + n < Tree!Power[i + n]
    BY PowerGrows
  <2> QED
    BY <2>1
<1>6. Short(i, f)
  BY <1>3, <1>5
<1> QED
  BY <1>4, <1>6 DEF Short

-----------------------------------------------------------------------------
(* A hash is the term it was computed from.                                *)
LEMMA HashesDiffer ==
    /\ \A a, b, c : Tree!LeafHash(a) # Tree!NodeHash(b, c)
    /\ \A a, b : Tree!LeafHash(a) = Tree!LeafHash(b) <=> a = b
    /\ \A a, b, c, d : Tree!NodeHash(a, b) = Tree!NodeHash(c, d) <=> a = c /\ b = d
    /\ \A a, b : Tree!LeafHash(a) # <<"empty">> /\ Tree!NodeHash(a, b) # <<"empty">>
<1>1. \A a, b, c : Tree!LeafHash(a) # Tree!NodeHash(b, c)
  <2> SUFFICES ASSUME NEW a, NEW b, NEW c, Tree!LeafHash(a) = Tree!NodeHash(b, c) PROVE FALSE
    OBVIOUS
  <2>1. Tree!LeafHash(a)[1] = "leaf" /\ Tree!NodeHash(b, c)[1] = "node"
    BY DEF Tree!LeafHash, Tree!NodeHash
  <2> QED
    BY <2>1
<1>2. \A a, b : Tree!LeafHash(a) = Tree!LeafHash(b) <=> a = b
  <2>1. \A a : Tree!LeafHash(a)[2] = a
    BY DEF Tree!LeafHash
  <2> QED
    BY <2>1
<1>3. \A a, b, c, d : Tree!NodeHash(a, b) = Tree!NodeHash(c, d) <=> a = c /\ b = d
  <2>1. \A a, b : Tree!NodeHash(a, b)[2] = a /\ Tree!NodeHash(a, b)[3] = b
    BY DEF Tree!NodeHash
  <2> QED
    BY <2>1
<1>4. \A a, b : Tree!LeafHash(a) # <<"empty">> /\ Tree!NodeHash(a, b) # <<"empty">>
  <2>1. \A a, b : Tree!LeafHash(a)[1] = "leaf" /\ Tree!NodeHash(a, b)[1] = "node"
    BY DEF Tree!LeafHash, Tree!NodeHash
  <2>2. <<"empty">>[1] = "empty"
    OBVIOUS
  <2> QED
    BY <2>1, <2>2
<1> QED
  BY <1>1, <1>2, <1>3, <1>4

(* The hashes of the slices of a tree of n leaves.                         *)
Inside(n) == {s \in Tree!Slices : s[1] + s[2] <= n}
TreeNodes(n) == {Tree!SubtreeHash[s] : s \in Inside(n)}

LEMMA NodesOfATree ==
    ASSUME NEW n \in Nat
    PROVE  /\ \A leaf : Tree!LeafHash(leaf) \in TreeNodes(n) =>
                           \E i \in 0 .. n - 1 : leaf = Tree!Leaf(i)
           /\ \A l, r : Tree!NodeHash(l, r) \in TreeNodes(n) =>
                           l \in TreeNodes(n) /\ r \in TreeNodes(n)
           /\ n # 0 => Tree!SubtreeHash[<<0, n>>] \in TreeNodes(n)
<1>1. ASSUME NEW s \in Inside(n), s[2] = 1
      PROVE  Tree!SubtreeHash[s] = Tree!LeafHash(Tree!Leaf(s[1])) /\ s[1] \in 0 .. n - 1
  <2>1. s \in Tree!Slices /\ s[1] \in Nat /\ s[1] + 1 <= n
    BY <1>1, PartsOfASlice DEF Inside
  <2> QED
    BY <1>1, <2>1, SubtreeHashIs
<1>2. ASSUME NEW s \in Inside(n), s[2] # 1
      PROVE  /\ Tree!SubtreeHash[s] = Tree!NodeHash(Tree!SubtreeHash[Tree!Left(s)],
                                                    Tree!SubtreeHash[Tree!Right(s)])
             /\ Tree!Left(s) \in Inside(n) /\ Tree!Right(s) \in Inside(n)
  <2>1. s \in Tree!Slices /\ s[1] + s[2] <= n
    BY DEF Inside
  <2>2. PICK k : k = Tree!Split(s[2])
    OBVIOUS
  <2>3. /\ k \in 1 .. s[2] - 1 /\ s[1] \in Nat /\ s[2] \in Nat
        /\ Tree!Left(s) = <<s[1], k>> /\ Tree!Right(s) = <<s[1] + k, s[2] - k>>
        /\ Tree!Left(s) \in Tree!Slices /\ Tree!Right(s) \in Tree!Slices
    BY <1>2, <2>1, <2>2, PartsOfASlice
  <2>4. Tree!Left(s) \in Inside(n)
    BY <2>1, <2>3 DEF Inside
  <2>5. Tree!Right(s) \in Inside(n)
    <3>1. s[1] + k + (s[2] - k) <= n
      BY <2>1, <2>3
    <3> QED
      BY <2>3, <3>1 DEF Inside
  <2> QED
    BY <1>2, <2>1, <2>4, <2>5, SubtreeHashIs
<1>3. ASSUME NEW leaf, Tree!LeafHash(leaf) \in TreeNodes(n)
      PROVE  \E i \in 0 .. n - 1 : leaf = Tree!Leaf(i)
  <2>1. PICK s \in Inside(n) : Tree!LeafHash(leaf) = Tree!SubtreeHash[s]
    BY <1>3 DEF TreeNodes
  <2>2. s[2] = 1
    BY <1>2, <2>1, HashesDiffer
  <2> QED
    BY <1>1, <2>1, <2>2, HashesDiffer
<1>4. ASSUME NEW l, NEW r, Tree!NodeHash(l, r) \in TreeNodes(n)
      PROVE  l \in TreeNodes(n) /\ r \in TreeNodes(n)
  <2>1. PICK s \in Inside(n) : Tree!NodeHash(l, r) = Tree!SubtreeHash[s]
    BY <1>4 DEF TreeNodes
  <2>2. s[2] # 1
    BY <1>1, <2>1, HashesDiffer
  <2> QED
    BY <1>2, <2>1, <2>2, HashesDiffer DEF TreeNodes
<1>5. ASSUME n # 0 PROVE Tree!SubtreeHash[<<0, n>>] \in TreeNodes(n)
  <2>1. <<0, n>> \in Inside(n)
    BY <1>5 DEF Inside, Tree!Slices
  <2> QED
    BY <2>1 DEF TreeNodes
<1> QED
  BY <1>3, <1>4, <1>5

-----------------------------------------------------------------------------
Agree(proof, honest) == \A j \in 1 .. Len(honest) : proof[j] = honest[j]

(* Where the loop stands, in a tree of n leaves: computed is the hash of   *)
(* the block of the claimed position if leaf and nodes so far were honest. *)
At(n, c, p, f, s, hash, left) ==
    LET low    == f * p
        honest == Tree!inclusion_proof[Block(n, low, p)][c.index - low]
    IN  /\ f \in Nat /\ s \in Nat
        /\ s * p < n /\ n <= s * p + p
        /\ low <= c.index /\ c.index < low + p
        /\ Len(c.proof) = Len(honest) + left
        /\ hash = Tree!SubtreeHash[Block(n, low, p)] <=>
              c.leaf = Tree!Leaf(c.index) /\ Agree(c.proof, honest)

Claimed(n, c) ==
    n \in Nat /\ c.index \in Nat /\ c.index < n /\ c.proof \in Seq(Hashes)

LEMMA PositionsAreOrdered ==
    ASSUME NEW n, NEW c, Claimed(n, c), NEW p \in Powers, NEW f, NEW s, NEW hash, NEW left,
           At(n, c, p, f, s, hash, left)
    PROVE  f <= s
<1>1. /\ f \in Nat /\ s \in Nat /\ p \in Nat /\ c.index \in Nat /\ n \in Nat
      /\ f * p <= c.index /\ n <= s * p + p /\ c.index < n
  BY PowersAre DEF At, Claimed
<1>2. s < f => s * p + p <= f * p
  BY <1>1, TimesKeepsOrder
<1>3. f * p \in Nat /\ s * p \in Nat
  BY <1>1
<1> QED
  BY <1>1, <1>2, <1>3

LEMMA AtIs ==
    ASSUME NEW n, NEW c, Claimed(n, c), NEW p \in Powers, NEW f, NEW s, NEW hash, NEW left,
           At(n, c, p, f, s, hash, left),
           NEW x, x = c.index, NEW k, k = f * p, NEW a, a = s * p
    PROVE  /\ x \in Nat /\ k \in Nat /\ a \in Nat
           /\ n \in Nat /\ f \in Nat /\ s \in Nat /\ p \in Nat \ {0}
           /\ a < n /\ n <= a + p /\ x < n /\ k <= x /\ x < k + p
<1>1. /\ f \in Nat /\ s \in Nat /\ p \in Nat \ {0} /\ c.index \in Nat /\ n \in Nat
      /\ s * p < n /\ n <= s * p + p /\ f * p <= c.index /\ c.index < f * p + p /\ c.index < n
  BY PowersAre DEF At, Claimed
<1>2. f * p \in Nat /\ s * p \in Nat
  BY <1>1
<1>3. x \in Nat /\ k \in Nat /\ a \in Nat
  BY <1>1, <1>2, Zenon
<1>4. a < n /\ n <= a + p /\ x < n /\ k <= x /\ x < k + p
  BY <1>1, Zenon
<1> QED
  BY <1>1, <1>3, <1>4, Zenon

NextNode(c, left) == c.proof[Len(c.proof) - left + 1]

(* When the hash of the block of twice the size is the claimed one exactly *)
(* when the next node of an honest proof is the claimed one, the loop      *)
(* stands at that block.                                                   *)
OneUp(n, c, p, f, hash, left, up, other) ==
    LET k == f * p
        low == (f \div 2) * (2 * p)
    IN  /\ low <= c.index /\ c.index < low + 2 * p
        /\ Tree!inclusion_proof[Block(n, low, 2 * p)][c.index - low]
              = Append(Tree!inclusion_proof[Block(n, k, p)][c.index - k], other)
        /\ up = Tree!SubtreeHash[Block(n, low, 2 * p)] <=>
              /\ hash = Tree!SubtreeHash[Block(n, k, p)]
              /\ NextNode(c, left) = other

LEMMA LastIsHalved ==
    ASSUME NEW n \in Nat, NEW p \in Nat \ {0}, NEW s \in Nat, s * p < n, n <= s * p + p
    PROVE  (s \div 2) * (2 * p) < n /\ n <= (s \div 2) * (2 * p) + 2 * p
<1>1. PICK b : b = (s \div 2) * (2 * p)
  OBVIOUS
<1>2. PICK a : a = s * p
  OBVIOUS
<1>3. a \in Nat /\ b \in Nat /\ (a = b \/ a = b + p)
  BY <1>1, <1>2, Halves
<1>4. a < n /\ n <= a + p
  BY <1>2, Zenon
<1>5. b < n /\ n <= b + 2 * p
  BY <1>3, <1>4
<1> QED
  BY <1>1, <1>5, Zenon

LEMMA OneMore ==
    ASSUME NEW honest \in Seq(Hashes), NEW other \in Hashes, NEW proof
    PROVE  LET joined == Append(honest, other)
           IN  /\ Len(joined) = Len(honest) + 1
               /\ Len(honest) \in Nat
               /\ Agree(proof, joined) <=> Agree(proof, honest) /\ proof[Len(honest) + 1] = other
<1> DEFINE joined == Append(honest, other)
<1>1. /\ Len(joined) = Len(honest) + 1 /\ Len(honest) \in Nat
      /\ joined[Len(honest) + 1] = other
      /\ \A j \in 1 .. Len(honest) : joined[j] = honest[j]
  OBVIOUS
<1> HIDE DEF joined
<1>2. \A j \in 1 .. Len(joined) : j \in 1 .. Len(honest) \/ j = Len(honest) + 1
  BY <1>1
<1>3. Len(honest) + 1 \in 1 .. Len(joined) /\ \A j \in 1 .. Len(honest) : j \in 1 .. Len(joined)
  BY <1>1
<1>4. (\A j \in 1 .. Len(joined) : proof[j] = joined[j]) <=>
         /\ \A j \in 1 .. Len(honest) : proof[j] = honest[j]
         /\ proof[Len(honest) + 1] = other
  BY <1>1, <1>2, <1>3
<1> QED
  BY <1>1, <1>4, Zenon DEF joined, Agree

LEMMA Joined ==
    ASSUME NEW n, NEW c, Claimed(n, c), NEW p \in Powers, NEW f, NEW s, NEW hash,
           NEW left \in Nat \ {0}, At(n, c, p, f, s, hash, left),
           NEW up, NEW other \in Hashes, OneUp(n, c, p, f, hash, left, up, other)
    PROVE  At(n, c, 2 * p, f \div 2, s \div 2, up, left - 1)
<1>1. PICK low : low = (f \div 2) * (2 * p)
  OBVIOUS
<1>2. PICK k : k = f * p
  OBVIOUS
<1>3. PICK a : a = s * p
  OBVIOUS
<1>4. PICK x : x = c.index
  OBVIOUS
<1>5. PICK honest : honest = Tree!inclusion_proof[Block(n, k, p)][x - k]
  OBVIOUS
<1>6. /\ x \in Nat /\ k \in Nat /\ a \in Nat
      /\ n \in Nat /\ f \in Nat /\ s \in Nat /\ p \in Nat \ {0}
      /\ a < n /\ n <= a + p /\ x < n /\ k <= x /\ x < k + p
  BY <1>2, <1>3, <1>4, AtIs
<1>7. /\ Len(c.proof) = Len(honest) + left
      /\ hash = Tree!SubtreeHash[Block(n, k, p)] <=>
            c.leaf = Tree!Leaf(x) /\ Agree(c.proof, honest)
  BY <1>2, <1>4, <1>5, Zenon DEF At
<1>8. honest \in Seq(Hashes)
  <2>1. k < n /\ x - k \in Nat
    BY <1>6
  <2>2. Block(n, k, p) \in Tree!Slices
    BY <1>6, <2>1 DEF Block, Tree!Slices
  <2> QED
    BY <1>5, <2>1, <2>2, InclusionProofIs
<1>9. PICK joined : joined = Tree!inclusion_proof[Block(n, low, 2 * p)][x - low]
  OBVIOUS
<1>10. /\ low <= x /\ x < low + 2 * p
       /\ joined = Append(honest, other)
       /\ up = Tree!SubtreeHash[Block(n, low, 2 * p)] <=>
             /\ hash = Tree!SubtreeHash[Block(n, k, p)]
             /\ c.proof[Len(c.proof) - left + 1] = other
  BY <1>1, <1>2, <1>4, <1>5, <1>9, Zenon DEF OneUp, NextNode
<1>11. /\ Len(joined) = Len(honest) + 1
       /\ Len(honest) \in Nat
       /\ Agree(c.proof, joined) <=>
             Agree(c.proof, honest) /\ c.proof[Len(honest) + 1] = other
  BY <1>8, <1>10, OneMore, Zenon
<1>12. Len(c.proof) = Len(joined) + (left - 1) /\ Len(c.proof) - left + 1 = Len(honest) + 1
  <2>1. PICK all : all = Len(c.proof)
    OBVIOUS
  <2>2. PICK short : short = Len(honest)
    OBVIOUS
  <2>3. PICK long : long = Len(joined)
    OBVIOUS
  <2>4. all = short + left /\ long = short + 1 /\ short \in Nat
    BY <1>7, <1>11, <2>1, <2>2, <2>3, Zenon
  <2>5. all = long + (left - 1) /\ all - left + 1 = short + 1
    BY <2>4
  <2> QED
    BY <2>1, <2>2, <2>3, <2>5, Zenon
<1>13. up = Tree!SubtreeHash[Block(n, low, 2 * p)] <=>
          c.leaf = Tree!Leaf(x) /\ Agree(c.proof, joined)
  BY <1>7, <1>10, <1>11, <1>12, Zenon
<1>14. (s \div 2) * (2 * p) < n /\ n <= (s \div 2) * (2 * p) + 2 * p
  <2>1. s * p < n /\ n <= s * p + p
    BY <1>3, <1>6, Zenon
  <2> QED
    BY <1>6, <2>1, LastIsHalved, Zenon
<1>15. f \div 2 \in Nat /\ s \div 2 \in Nat
  BY <1>6
<1> QED
  BY <1>1, <1>4, <1>9, <1>10, <1>12, <1>13, <1>14, <1>15, Zenon DEF At

LEMMA NodeTaken ==
    ASSUME NEW n, NEW c, Claimed(n, c), NEW p \in Powers, NEW f, NEW s, NEW hash,
           NEW left \in Nat \ {0}, At(n, c, p, f, s, hash, left)
    PROVE  /\ f % 2 = 1 =>
                 At(n, c, 2 * p, f \div 2, s \div 2, Tree!NodeHash(NextNode(c, left), hash), left - 1)
           /\ f % 2 # 1 /\ f # s =>
                 At(n, c, 2 * p, f \div 2, s \div 2, Tree!NodeHash(hash, NextNode(c, left)), left - 1)
<1>1. PICK low : low = (f \div 2) * (2 * p)
  OBVIOUS
<1>2. PICK k : k = f * p
  OBVIOUS
<1>3. PICK a : a = s * p
  OBVIOUS
<1>4. PICK x : x = c.index
  OBVIOUS
<1>5. /\ x \in Nat /\ k \in Nat /\ a \in Nat
      /\ n \in Nat /\ f \in Nat /\ s \in Nat /\ p \in Nat \ {0}
      /\ a < n /\ n <= a + p /\ x < n /\ k <= x /\ x < k + p
  BY <1>2, <1>3, <1>4, AtIs
<1>6. /\ f % 2 = 1 => k = low + p
      /\ f % 2 # 1 => k = low
  <2>1. /\ f % 2 \in {0, 1}
        /\ f % 2 = 0 => f * p = (f \div 2) * (2 * p)
        /\ f % 2 = 1 => f * p = (f \div 2) * (2 * p) + p
    BY <1>5, Halves
  <2> QED
    BY <1>1, <1>2, <2>1, Zenon
<1>7. low \in Nat
  BY <1>1, <1>5
<1>8. PICK b : b = Block(n, low, 2 * p)
  OBVIOUS
<1>9. PICK l : l = Block(n, low, p)
  OBVIOUS
<1>10. PICK r : r = Block(n, low + p, p)
  OBVIOUS
<1>11. low < n /\ low <= x /\ x < low + 2 * p
  BY <1>5, <1>6, <1>7
<1>12. TwoBlocks(n, low, p, b, l, r)
  BY <1>5, <1>7, <1>8, <1>9, <1>10, <1>11, BlocksAreSplit
<1>13. PICK h : h = NextNode(c, left)
  OBVIOUS
<1>14. ASSUME f % 2 = 1
       PROVE  At(n, c, 2 * p, f \div 2, s \div 2, Tree!NodeHash(h, hash), left - 1)
  <2>1. k = low + p
    BY <1>6, <1>14, Zenon
  <2>2. PICK y : y = x - low
    OBVIOUS
  <2>3. low + p < n /\ y \in Nat /\ p <= y /\ y - p = x - k
    BY <1>5, <1>7, <1>11, <2>1, <2>2
  <2>4. /\ Tree!inclusion_proof[b][y]
             = Append(Tree!inclusion_proof[r][y - p], Tree!SubtreeHash[l])
        /\ Tree!SubtreeHash[b] = Tree!NodeHash(Tree!SubtreeHash[l], Tree!SubtreeHash[r])
    BY <1>12, <2>3, Zenon DEF TwoBlocks
  <2>5. Tree!inclusion_proof[b][x - low]
           = Append(Tree!inclusion_proof[r][x - k], Tree!SubtreeHash[l])
    BY <2>2, <2>3, <2>4, Zenon
  <2>6. Tree!SubtreeHash[l] \in Hashes
    BY <1>12 DEF TwoBlocks, Hashes
  <2>7. Tree!NodeHash(h, hash) = Tree!SubtreeHash[b] <=>
           hash = Tree!SubtreeHash[r] /\ h = Tree!SubtreeHash[l]
    BY <2>4, HashesDiffer
  <2>8. OneUp(n, c, p, f, hash, left, Tree!NodeHash(h, hash), Tree!SubtreeHash[l])
    BY <1>1, <1>2, <1>4, <1>8, <1>10, <1>11, <1>13, <2>1, <2>5, <2>7, Zenon DEF OneUp
  <2> QED
    BY <2>6, <2>8, Joined
<1>15. ASSUME f % 2 # 1, f # s
       PROVE  At(n, c, 2 * p, f \div 2, s \div 2, Tree!NodeHash(hash, h), left - 1)
  <2>1. k = low
    BY <1>6, <1>15, Zenon
  <2>2. f < s
    <3>1. f <= s
      BY PositionsAreOrdered
    <3> QED
      BY <1>5, <1>15, <3>1
  <2>3. k + p <= a
    <3>1. f * p + p <= s * p
      BY <1>5, <2>2, TimesKeepsOrder
    <3> QED
      BY <1>2, <1>3, <3>1, Zenon
  <2>4. PICK y : y = x - low
    OBVIOUS
  <2>5. low + p < n /\ y \in Nat /\ y < p
    BY <1>5, <1>7, <1>11, <2>1, <2>3, <2>4
  <2>6. /\ Tree!inclusion_proof[b][y]
             = Append(Tree!inclusion_proof[l][y], Tree!SubtreeHash[r])
        /\ Tree!SubtreeHash[b] = Tree!NodeHash(Tree!SubtreeHash[l], Tree!SubtreeHash[r])
    BY <1>12, <2>5, Zenon DEF TwoBlocks
  <2>7. Tree!SubtreeHash[r] \in Hashes
    BY <1>12, <2>5 DEF TwoBlocks, Hashes
  <2>8. Tree!NodeHash(hash, h) = Tree!SubtreeHash[b] <=>
           hash = Tree!SubtreeHash[l] /\ h = Tree!SubtreeHash[r]
    BY <2>6, HashesDiffer
  <2>9. OneUp(n, c, p, f, hash, left, Tree!NodeHash(hash, h), Tree!SubtreeHash[r])
    BY <1>1, <1>2, <1>4, <1>8, <1>9, <1>11, <1>13, <2>1, <2>4, <2>6, <2>8, Zenon DEF OneUp
  <2> QED
    BY <2>7, <2>9, Joined
<1> QED
  BY <1>13, <1>14, <1>15, Zenon

-----------------------------------------------------------------------------
(* The last node of a height is taken up to the height where it has a left *)
(* sibling: until then its block has no other half.                        *)
LEMMA Raised ==
    ASSUME NEW n, NEW c, Claimed(n, c), NEW p \in Powers, NEW f, NEW hash, NEW left,
           At(n, c, p, f, f, hash, left), f % 2 # 1
    PROVE  At(n, c, 2 * p, f \div 2, f \div 2, hash, left)
<1>1. PICK low : low = (f \div 2) * (2 * p)
  OBVIOUS
<1>2. PICK k : k = f * p
  OBVIOUS
<1>3. PICK x : x = c.index
  OBVIOUS
<1>4. /\ x \in Nat /\ k \in Nat
      /\ n \in Nat /\ f \in Nat /\ p \in Nat \ {0}
      /\ k < n /\ n <= k + p /\ x < n /\ k <= x /\ x < k + p
  BY <1>2, <1>3, AtIs
<1>5. k = low
  <2>1. /\ f % 2 \in {0, 1}
        /\ f % 2 = 0 => f * p = (f \div 2) * (2 * p)
    BY <1>4, Halves
  <2> QED
    BY <1>1, <1>2, <2>1, Zenon
<1>6. PICK b : b = Block(n, low, 2 * p)
  OBVIOUS
<1>7. PICK l : l = Block(n, low, p)
  OBVIOUS
<1>8. PICK r : r = Block(n, low + p, p)
  OBVIOUS
<1>9. b = l
  <2>1. TwoBlocks(n, low, p, b, l, r)
    BY <1>4, <1>5, <1>6, <1>7, <1>8, BlocksAreSplit
  <2> QED
    BY <1>4, <1>5, <2>1, Zenon DEF TwoBlocks
<1>10. PICK honest : honest = Tree!inclusion_proof[b][x - low]
  OBVIOUS
<1>11. /\ Len(c.proof) = Len(honest) + left
       /\ hash = Tree!SubtreeHash[b] <=> c.leaf = Tree!Leaf(x) /\ Agree(c.proof, honest)
  BY <1>2, <1>3, <1>5, <1>7, <1>9, <1>10, Zenon DEF At
<1>12. low < n /\ n <= low + 2 * p /\ low <= x /\ x < low + 2 * p
  BY <1>4, <1>5
<1>13. f \div 2 \in Nat
  BY <1>4
<1> QED
  BY <1>1, <1>3, <1>6, <1>10, <1>11, <1>12, <1>13, Zenon DEF At

ClimbsTo(n, c, f, hash, left) ==
    \E q \in Powers : \E g \in Nat :
       g % 2 = 1 /\ Tree!Climb[<<f, f>>] = <<g, g>> /\ At(n, c, q, g, g, hash, left)

LEMMA Climbed ==
    ASSUME NEW n, NEW c, Claimed(n, c), NEW p \in Powers, NEW f \in Nat \ {0}, NEW hash, NEW left,
           At(n, c, p, f, f, hash, left)
    PROVE  ClimbsTo(n, c, f, hash, left)
<1> DEFINE Goal(g, q) == At(n, c, q, g, g, hash, left) => ClimbsTo(n, c, g, hash, left)
           S == {d \in Nat : \A g \in Nat \ {0} : \A q \in Powers : g <= d => Goal(g, q)}
<1>1. 0 \in S
  OBVIOUS
<1>2. ASSUME NEW d \in Nat, d \in S PROVE d + 1 \in S
  <2> SUFFICES ASSUME NEW g \in Nat \ {0}, NEW q \in Powers, g <= d + 1,
                      At(n, c, q, g, g, hash, left)
               PROVE  ClimbsTo(n, c, g, hash, left)
    OBVIOUS
  <2>1. g % 2 = 1 \/ g = 0 => Tree!Climb[<<g, g>>] = <<g, g>>
    BY ClimbIs
  <2>2. ~ (g % 2 = 1 \/ g = 0) => Tree!Climb[<<g, g>>] = Tree!Climb[<<g \div 2, g \div 2>>]
    BY ClimbIs
  <2>3. CASE g % 2 = 1
    BY <2>1, <2>3 DEF ClimbsTo
  <2>4. CASE g % 2 # 1
    <3>1. PICK h : h = g \div 2
      OBVIOUS
    <3>2. h \in Nat \ {0} /\ h <= d
      BY <2>4, <3>1
    <3>3. At(n, c, 2 * q, h, h, hash, left) /\ 2 * q \in Powers
      BY <2>4, <3>1, Raised, PowersAre
    <3>4. ClimbsTo(n, c, h, hash, left)
      BY <1>2, <3>2, <3>3
    <3>5. Tree!Climb[<<g, g>>] = Tree!Climb[<<h, h>>]
      BY <2>2, <2>4, <3>1
    <3> QED
      BY <3>4, <3>5, Zenon DEF ClimbsTo
  <2> QED
    BY <2>3, <2>4
<1>3. \A d \in Nat : d \in S
  <2> HIDE DEF S
  <2> QED
    BY <1>1, <1>2, Induction
<1>4. f <= f /\ f \in S
  BY <1>3
<1> QED
  BY <1>4

(* At the root nothing of the claim may be left and all of it must agree;  *)
(* below it an honest proof has more nodes than were taken.                *)
LEMMA AtTheRoot ==
    ASSUME NEW n, NEW c, Claimed(n, c), NEW p \in Powers, NEW f, NEW hash, NEW left,
           At(n, c, p, f, 0, hash, left),
           NEW honest, honest = Tree!inclusion_proof[<<0, n>>][c.index]
    PROVE  /\ Len(c.proof) = Len(honest) + left
           /\ hash = Tree!SubtreeHash[<<0, n>>] <=>
                 c.leaf = Tree!Leaf(c.index) /\ Agree(c.proof, honest)
<1>1. PICK x : x = c.index
  OBVIOUS
<1>2. PICK k : k = f * p
  OBVIOUS
<1>3. PICK a : a = 0 * p
  OBVIOUS
<1>4. /\ x \in Nat /\ f \in Nat /\ n \in Nat /\ p \in Nat \ {0} /\ a < n /\ n <= a + p
  BY <1>1, <1>2, <1>3, AtIs
<1>5. f <= 0
  BY PositionsAreOrdered
<1>6. f = 0
  BY <1>4, <1>5
<1>7. a = 0 /\ k = 0
  BY <1>2, <1>3, <1>4, <1>6
<1>8. Block(n, k, p) = <<0, n>>
  <2>1. (IF 0 + p <= n THEN p ELSE n - 0) = n
    BY <1>4, <1>7
  <2> QED
    BY <1>7, <2>1, Zenon DEF Block
<1>9. x - k = x
  BY <1>4, <1>7
<1> QED
  BY <1>1, <1>2, <1>8, <1>9, Zenon DEF At

LEMMA BelowTheRoot ==
    ASSUME NEW n, NEW c, Claimed(n, c), NEW p \in Powers, NEW f, NEW s, s # 0, NEW hash,
           At(n, c, p, f, s, hash, 0)
    PROVE  c.proof # Tree!inclusion_proof[<<0, n>>][c.index]
<1>1. PICK x : x = c.index
  OBVIOUS
<1>2. PICK k : k = f * p
  OBVIOUS
<1>3. PICK a : a = s * p
  OBVIOUS
<1>4. /\ x \in Nat /\ k \in Nat /\ a \in Nat
      /\ n \in Nat /\ f \in Nat /\ s \in Nat /\ p \in Nat \ {0}
      /\ a < n /\ n <= a + p /\ x < n /\ k <= x /\ x < k + p
  BY <1>1, <1>2, <1>3, AtIs
<1>5. p <= a
  <2>1. 0 * p + p <= s * p
    BY <1>4, TimesKeepsOrder
  <2>2. 0 * p = 0
    BY <1>4
  <2> QED
    BY <1>3, <1>4, <2>1, <2>2
<1>6. Block(n, k, p) # <<0, n>>
  <2>1. Block(n, k, p)[2] < n
    BY <1>4, <1>5 DEF Block
  <2> QED
    BY <1>4, <2>1
<1>7. Whole(n, Block(n, k, p), x, k)
  <2>1. f * p <= x /\ x < f * p + p
    BY <1>2, <1>4, Zenon
  <2> QED
    BY <1>2, <1>4, <2>1, PartsHaveShorterProofs
<1>8. PICK honest : honest = Tree!inclusion_proof[Block(n, k, p)][x - k]
  OBVIOUS
<1>9. Len(c.proof) = Len(honest) + 0
  BY <1>1, <1>2, <1>8, Zenon DEF At
<1>10. PICK all : all = Tree!inclusion_proof[<<0, n>>][x]
  OBVIOUS
<1>11. honest \in Seq(Hashes) /\ all \in Seq(Hashes)
  <2>1. k < n /\ x - k \in Nat /\ <<0, n>> \in Tree!Slices
    BY <1>4 DEF Tree!Slices
  <2>2. Block(n, k, p) \in Tree!Slices
    BY <1>4, <2>1 DEF Block, Tree!Slices
  <2> QED
    BY <1>4, <1>8, <1>10, <2>1, <2>2, InclusionProofIs
<1>12. Len(honest) < Len(all)
  BY <1>6, <1>7, <1>8, <1>10, Zenon DEF Whole
<1>13. Len(c.proof) # Len(all)
  BY <1>9, <1>11, <1>12
<1> QED
  BY <1>1, <1>10, <1>13, Zenon

-----------------------------------------------------------------------------
(* What the proofs assume of the constants.                                *)
TreeConstants == MaxLeaves \in Nat

TreeType ==
    /\ n_leaves \in Nat
    /\ claim.index \in Nat /\ claim.tree_size \in Nat \ {0} /\ claim.index < claim.tree_size
    /\ claim.proof \in Seq(Hashes) /\ path \in Seq(Hashes)
(* What is left of the proof is the end of it.                             *)
EndOf(c, rest) ==
    /\ Len(rest) <= Len(c.proof)
    /\ \A k \in 1 .. Len(rest) : rest[k] = c.proof[Len(c.proof) - Len(rest) + k]
TreePath == EndOf(claim, path)
(* A hash of the tree commits to the leaf it was computed from.            *)
CommitsTo(n, c, hash) ==
    hash # <<"empty">> /\ (hash \in TreeNodes(n) => Tree!LeafHash(c.leaf) \in TreeNodes(n))
TreeLeaf == CommitsTo(n_leaves, claim, computed)
(* A claim that states the size of the tree: the loop stands at a block of *)
(* its position.                                                           *)
TreePlace ==
    claim.tree_size = n_leaves =>
       \E p \in Powers : At(n_leaves, claim, p, fn, sn, computed, Len(path))
TreeInv ==
    TreeType /\ TreePath /\ TreeLeaf
    /\ TreePlace /\ Tree!VerifiedIffIncluded

(* What one more node leaves of the proof.                                 *)
LEMMA TakenNode ==
    ASSUME TreeType, TreePath, path # <<>>
    PROVE  /\ Tail(path) \in Seq(Hashes) /\ Len(Tail(path)) = Len(path) - 1
           /\ Len(path) \in Nat \ {0} /\ EndOf(claim, Tail(path))
           /\ Head(path) = NextNode(claim, Len(path))
<1>1. PICK all : all = Len(claim.proof)
  OBVIOUS
<1>2. PICK old : old = Len(path)
  OBVIOUS
<1>3. PICK rest : rest = Tail(path)
  OBVIOUS
<1>4. PICK new : new = Len(rest)
  OBVIOUS
<1>5. path \in Seq(Hashes) /\ claim.proof \in Seq(Hashes)
  BY DEF TreeType
<1>6. /\ rest \in Seq(Hashes) /\ new = old - 1 /\ old \in Nat \ {0} /\ all \in Nat
      /\ \A k \in 1 .. new : rest[k] = path[k + 1]
      /\ Head(path) = path[1]
  BY <1>1, <1>2, <1>3, <1>4, <1>5
<1>7. old <= all /\ \A k \in 1 .. old : path[k] = claim.proof[all - old + k]
  BY <1>1, <1>2 DEF TreePath, EndOf
<1>8. ASSUME NEW k \in 1 .. new
      PROVE  rest[k] = claim.proof[all - new + k]
  <2>1. k + 1 \in 1 .. old /\ all - old + (k + 1) = all - new + k
    BY <1>6
  <2> QED
    BY <1>6, <1>7, <2>1
<1>9. new <= all
  BY <1>6, <1>7
<1>10. 1 \in 1 .. old
  BY <1>6
<1>11. Head(path) = NextNode(claim, old)
  BY <1>1, <1>6, <1>7, <1>10 DEF NextNode
<1>12. EndOf(claim, rest)
  BY <1>1, <1>4, <1>8, <1>9 DEF EndOf
<1> QED
  BY <1>2, <1>3, <1>4, <1>6, <1>11, <1>12

LEMMA ClaimIsMade ==
    ASSUME TreeType, claim.tree_size = n_leaves PROVE Claimed(n_leaves, claim)
BY DEF TreeType, Claimed

LEMMA InitKeepsTree ==
    ASSUME TreeConstants, Tree!Init PROVE TreeInv
<1>1. /\ n_leaves \in Nat /\ claim \in Tree!Claims(n_leaves)
      /\ computed = Tree!LeafHash(claim.leaf) /\ path = claim.proof
      /\ fn = claim.index /\ sn = claim.tree_size - 1 /\ verdict = None
  BY DEF Tree!Init, TreeConstants
<1>2. /\ claim.index \in Nat /\ claim.tree_size \in Nat \ {0}
      /\ claim.index < claim.tree_size /\ claim.proof \in Tree!Pieces(n_leaves)
  BY <1>1 DEF Tree!Claims, TreeConstants
<1>3. Tree!Pieces(n_leaves) \subseteq Seq(Hashes)
  <2>1. Tree!Proofs(n_leaves) \subseteq Seq(Hashes)
    <3> SUFFICES ASSUME NEW i \in 0 .. n_leaves - 1
                 PROVE  Tree!inclusion_proof[<<0, n_leaves>>][i] \in Seq(Hashes)
      BY DEF Tree!Proofs
    <3>1. <<0, n_leaves>> \in Tree!Slices /\ i \in Nat
      BY <1>1 DEF Tree!Slices
    <3> QED
      BY <3>1, InclusionProofIs
  <2>2. ASSUME NEW q \in Seq(Hashes), NEW i \in 1 .. Len(q), NEW j \in 1 .. Len(q)
        PROVE  SubSeq(q, i, j) \in Seq(Hashes)
    OBVIOUS
  <2>3. <<>> \in Seq(Hashes)
    OBVIOUS
  <2> SUFFICES ASSUME NEW piece \in Tree!Pieces(n_leaves) PROVE piece \in Seq(Hashes)
    OBVIOUS
  <2>4. \/ piece = <<>>
        \/ \E q \in Tree!Proofs(n_leaves) : \E i, j \in 1 .. Len(q) : piece = SubSeq(q, i, j)
    BY DEF Tree!Pieces
  <2>5. CASE \E q \in Tree!Proofs(n_leaves) : \E i, j \in 1 .. Len(q) : piece = SubSeq(q, i, j)
    <3>1. PICK q \in Seq(Hashes) : \E i, j \in 1 .. Len(q) : piece = SubSeq(q, i, j)
      BY <2>1, <2>5
    <3> QED
      BY <2>2, <3>1
  <2> QED
    BY <2>3, <2>4, <2>5
<1>4. TreeType
  BY <1>1, <1>2, <1>3 DEF TreeType
<1>5. TreePath
  <2>1. path \in Seq(Hashes) /\ path = claim.proof
    BY <1>1, <1>4 DEF TreeType
  <2>2. Len(path) \in Nat /\ Len(claim.proof) = Len(path)
    BY <2>1
  <2> QED
    BY <2>1, <2>2 DEF TreePath, EndOf
<1>6. TreeLeaf
  BY <1>1, HashesDiffer DEF TreeLeaf, CommitsTo
<1>7. ASSUME claim.tree_size = n_leaves
      PROVE  At(n_leaves, claim, 1, fn, sn, computed, Len(path))
  <2>1. PICK n : n = n_leaves
    OBVIOUS
  <2>2. PICK x : x = claim.index
    OBVIOUS
  <2>3. n \in Nat \ {0} /\ x \in Nat /\ x < n /\ fn = x /\ sn = n - 1
    BY <1>1, <1>2, <1>7, <2>1, <2>2
  <2>4. x * 1 = x /\ x - x = 0 /\ (n - 1) * 1 = n - 1 /\ n - 1 \in Nat
        /\ n - 1 < n /\ n <= n - 1 + 1 /\ x <= x /\ x < x + 1
    BY <2>3
  <2>5. Block(n, x, 1) = <<x, 1>> /\ <<x, 1>> \in Tree!Slices
    BY <2>3 DEF Block, Tree!Slices
  <2>6. /\ Tree!inclusion_proof[<<x, 1>>][0] = <<>>
        /\ Tree!SubtreeHash[<<x, 1>>] = Tree!LeafHash(Tree!Leaf(x))
    <3>1. <<x, 1>>[2] = 1 /\ <<x, 1>>[1] = x /\ 0 \in Nat
      OBVIOUS
    <3> QED
      BY <2>5, <3>1, InclusionProofIs, SubtreeHashIs DEF StepOfProof
  <2>7. Agree(claim.proof, <<>>)
    BY DEF Agree
  <2>8. Len(claim.proof) = Len(<<>>) + Len(path)
    BY <1>1, <1>4 DEF TreeType
  <2>9. computed = Tree!LeafHash(Tree!Leaf(x)) <=> claim.leaf = Tree!Leaf(x)
    BY <1>1, HashesDiffer
  <2> QED
    BY <2>1, <2>2, <2>3, <2>4, <2>5, <2>6, <2>7, <2>8, <2>9, Zenon DEF At
<1>8. TreePlace
  BY <1>7, PowersAre DEF TreePlace
<1>9. Tree!VerifiedIffIncluded
  BY <1>1 DEF Tree!VerifiedIffIncluded
<1> QED
  BY <1>4, <1>5, <1>6, <1>8, <1>9 DEF TreeInv

LEMMA NextKeepsTree ==
    ASSUME TreeInv, [Tree!Next]_(Tree!treeVars) PROVE TreeInv'
<1> USE DEF Tree!loop, Tree!treeVars
<1>1. TreeType /\ TreePath /\ TreeLeaf /\ TreePlace
  BY DEF TreeInv
<1>2. CASE Tree!TakeLeft
  <2>1. /\ verdict = None /\ path # <<>> /\ sn # 0
        /\ fn % 2 = 1 \/ fn = sn
        /\ computed' = Tree!NodeHash(Head(path), computed)
        /\ fn' = Tree!Climb[<<fn, sn>>][1] \div 2 /\ sn' = Tree!Climb[<<fn, sn>>][2] \div 2
        /\ path' = Tail(path) /\ n_leaves' = n_leaves /\ claim' = claim /\ verdict' = verdict
    BY <1>2 DEF Tree!TakeLeft
  <2>2. /\ path' \in Seq(Hashes) /\ Len(path') = Len(path) - 1 /\ Len(path) \in Nat \ {0}
        /\ EndOf(claim, path') /\ Head(path) = NextNode(claim, Len(path))
    BY <1>1, <2>1, TakenNode, Zenon
  <2>3. TreeType' /\ TreePath'
    BY <1>1, <2>1, <2>2, Zenon DEF TreeType, TreePath
  <2>4. TreeLeaf'
    <3>1. n_leaves \in Nat
      BY <1>1 DEF TreeType
    <3>2. computed' # <<"empty">>
      BY <2>1, HashesDiffer
    <3>3. computed' \in TreeNodes(n_leaves) => Tree!LeafHash(claim.leaf) \in TreeNodes(n_leaves)
      BY <1>1, <2>1, <3>1, NodesOfATree DEF TreeLeaf, CommitsTo
    <3>4. CommitsTo(n_leaves, claim, computed')
      BY <3>2, <3>3, Zenon DEF CommitsTo
    <3> QED
      BY <2>1, <3>4, Zenon DEF TreeLeaf
  <2>5. ASSUME claim.tree_size = n_leaves
        PROVE  \E q \in Powers : At(n_leaves, claim, q, fn', sn', computed', Len(path'))
    <3>1. Claimed(n_leaves, claim)
      BY <1>1, <2>5, ClaimIsMade
    <3>2. PICK p \in Powers : At(n_leaves, claim, p, fn, sn, computed, Len(path))
      BY <1>1, <2>5 DEF TreePlace
    <3>3. fn \in Nat /\ sn \in Nat
      BY <3>2 DEF At
    <3>4. \E q \in Powers : \E g, s \in Nat :
             /\ g % 2 = 1 /\ Tree!Climb[<<fn, sn>>] = <<g, s>>
             /\ At(n_leaves, claim, q, g, s, computed, Len(path))
      <4>1. CASE fn % 2 = 1
        <5>1. Tree!Climb[<<fn, sn>>] = <<fn, sn>>
          BY <3>3, <4>1, ClimbIs
        <5> QED
          BY <3>2, <3>3, <4>1, <5>1
      <4>2. CASE fn = sn
        <5>1. ClimbsTo(n_leaves, claim, fn, computed, Len(path))
          BY <2>1, <3>1, <3>2, <3>3, <4>2, Climbed
        <5> QED
          BY <4>2, <5>1 DEF ClimbsTo
      <4> QED
        BY <2>1, <4>1, <4>2
    <3>5. PICK q \in Powers, g \in Nat, s \in Nat :
             /\ g % 2 = 1 /\ Tree!Climb[<<fn, sn>>] = <<g, s>>
             /\ At(n_leaves, claim, q, g, s, computed, Len(path))
      BY <3>4
    <3>6. At(n_leaves, claim, 2 * q, g \div 2, s \div 2,
             Tree!NodeHash(NextNode(claim, Len(path)), computed), Len(path) - 1)
      BY <2>2, <3>1, <3>5, NodeTaken
    <3>7. fn' = g \div 2 /\ sn' = s \div 2
      BY <2>1, <3>5
    <3>8. At(n_leaves, claim, 2 * q, fn', sn', computed', Len(path'))
      BY <2>1, <2>2, <3>6, <3>7, Zenon
    <3> QED
      BY <3>8, PowersAre
  <2>6. TreePlace'
    BY <2>1, <2>5, Zenon DEF TreePlace
  <2>7. Tree!VerifiedIffIncluded'
    BY <2>1 DEF Tree!VerifiedIffIncluded
  <2> QED
    BY <2>3, <2>4, <2>6, <2>7 DEF TreeInv
<1>3. CASE Tree!TakeRight
  <2>1. /\ verdict = None /\ path # <<>> /\ sn # 0
        /\ ~ (fn % 2 = 1 \/ fn = sn)
        /\ computed' = Tree!NodeHash(computed, Head(path))
        /\ fn' = fn \div 2 /\ sn' = sn \div 2
        /\ path' = Tail(path) /\ n_leaves' = n_leaves /\ claim' = claim /\ verdict' = verdict
    BY <1>3 DEF Tree!TakeRight
  <2>2. /\ path' \in Seq(Hashes) /\ Len(path') = Len(path) - 1 /\ Len(path) \in Nat \ {0}
        /\ EndOf(claim, path') /\ Head(path) = NextNode(claim, Len(path))
    BY <1>1, <2>1, TakenNode, Zenon
  <2>3. TreeType' /\ TreePath'
    BY <1>1, <2>1, <2>2, Zenon DEF TreeType, TreePath
  <2>4. TreeLeaf'
    <3>1. n_leaves \in Nat
      BY <1>1 DEF TreeType
    <3>2. computed' # <<"empty">>
      BY <2>1, HashesDiffer
    <3>3. computed' \in TreeNodes(n_leaves) => Tree!LeafHash(claim.leaf) \in TreeNodes(n_leaves)
      BY <1>1, <2>1, <3>1, NodesOfATree DEF TreeLeaf, CommitsTo
    <3>4. CommitsTo(n_leaves, claim, computed')
      BY <3>2, <3>3, Zenon DEF CommitsTo
    <3> QED
      BY <2>1, <3>4, Zenon DEF TreeLeaf
  <2>5. ASSUME claim.tree_size = n_leaves
        PROVE  \E q \in Powers : At(n_leaves, claim, q, fn', sn', computed', Len(path'))
    <3>1. Claimed(n_leaves, claim)
      BY <1>1, <2>5, ClaimIsMade
    <3>2. PICK p \in Powers : At(n_leaves, claim, p, fn, sn, computed, Len(path))
      BY <1>1, <2>5 DEF TreePlace
    <3>3. At(n_leaves, claim, 2 * p, fn \div 2, sn \div 2,
             Tree!NodeHash(computed, NextNode(claim, Len(path))), Len(path) - 1)
      <4>1. fn % 2 # 1 /\ fn # sn
        BY <2>1
      <4>2. Len(path) \in Nat \ {0}
        BY <2>2
      <4> QED
        BY <3>1, <3>2, <4>1, <4>2, NodeTaken, Zenon
    <3>4. At(n_leaves, claim, 2 * p, fn', sn', computed', Len(path'))
      BY <2>1, <2>2, <3>3, Zenon
    <3> QED
      BY <3>4, PowersAre
  <2>6. TreePlace'
    BY <2>1, <2>5, Zenon DEF TreePlace
  <2>7. Tree!VerifiedIffIncluded'
    BY <2>1 DEF Tree!VerifiedIffIncluded
  <2> QED
    BY <2>3, <2>4, <2>6, <2>7 DEF TreeInv
<1>4. CASE Tree!TooLong
  <2>1. /\ path # <<>> /\ sn = 0 /\ verdict' = FALSE
        /\ n_leaves' = n_leaves /\ claim' = claim /\ computed' = computed /\ path' = path
        /\ fn' = fn /\ sn' = sn
    BY <1>4 DEF Tree!TooLong
  <2>2. TreeType' /\ TreePath' /\ TreeLeaf' /\ TreePlace'
    BY <1>1, <2>1, Zenon DEF TreeType, TreePath, TreeLeaf, TreePlace
  <2>3. ASSUME claim.tree_size = n_leaves PROVE ~ Tree!Honest
    <3>1. Claimed(n_leaves, claim)
      BY <1>1, <2>3, ClaimIsMade
    <3>2. PICK p \in Powers : At(n_leaves, claim, p, fn, 0, computed, Len(path))
      BY <1>1, <2>1, <2>3 DEF TreePlace
    <3>3. PICK honest : honest = Tree!inclusion_proof[<<0, n_leaves>>][claim.index]
      OBVIOUS
    <3>4. Len(claim.proof) = Len(honest) + Len(path)
      BY <3>1, <3>2, <3>3, AtTheRoot
    <3>5. Len(path) \in Nat \ {0}
      BY <1>1, <2>1 DEF TreeType
    <3>6. Len(claim.proof) \in Nat
      BY <1>1 DEF TreeType
    <3>7. claim.proof # honest
      BY <3>4, <3>5, <3>6
    <3> QED
      BY <3>3, <3>7 DEF Tree!Honest
  <2>4. Tree!VerifiedIffIncluded'
    BY <2>1, <2>3 DEF Tree!VerifiedIffIncluded, Tree!Honest
  <2> QED
    BY <2>2, <2>4 DEF TreeInv
<1>5. CASE Tree!Conclude
  <2>1. /\ path = <<>> /\ verdict' = (sn = 0 /\ computed = Tree!merkle_root(n_leaves))
        /\ n_leaves' = n_leaves /\ claim' = claim /\ computed' = computed /\ path' = path
        /\ fn' = fn /\ sn' = sn
    BY <1>5 DEF Tree!Conclude
  <2>2. TreeType' /\ TreePath' /\ TreeLeaf' /\ TreePlace'
    BY <1>1, <2>1, Zenon DEF TreeType, TreePath, TreeLeaf, TreePlace
  <2>3. ASSUME computed = Tree!merkle_root(n_leaves) PROVE Tree!InTree
    <3>1. n_leaves \in Nat
      BY <1>1 DEF TreeType
    <3>2. n_leaves # 0
      BY <1>1, <2>3 DEF TreeLeaf, CommitsTo, Tree!merkle_root
    <3>3. computed \in TreeNodes(n_leaves)
      BY <2>3, <3>1, <3>2, NodesOfATree DEF Tree!merkle_root
    <3> QED
      BY <1>1, <3>1, <3>3, NodesOfATree DEF TreeLeaf, CommitsTo, Tree!InTree
  <2>4. ASSUME claim.tree_size = n_leaves
        PROVE  (sn = 0 /\ computed = Tree!merkle_root(n_leaves)) <=> Tree!Honest
    <3>1. Claimed(n_leaves, claim) /\ n_leaves \in Nat \ {0}
      BY <1>1, <2>4, ClaimIsMade DEF TreeType
    <3>2. PICK p \in Powers : At(n_leaves, claim, p, fn, sn, computed, 0)
      <4>1. Len(path) = 0
        BY <2>1
      <4> QED
        BY <1>1, <2>4, <4>1 DEF TreePlace
    <3>3. PICK honest : honest = Tree!inclusion_proof[<<0, n_leaves>>][claim.index]
      OBVIOUS
    <3>4. CASE sn = 0
      <4>1. /\ Len(claim.proof) = Len(honest) + 0
            /\ computed = Tree!SubtreeHash[<<0, n_leaves>>] <=>
                  claim.leaf = Tree!Leaf(claim.index) /\ Agree(claim.proof, honest)
        BY <3>1, <3>2, <3>3, <3>4, AtTheRoot
      <4>2. honest \in Seq(Hashes) /\ claim.proof \in Seq(Hashes)
        <5>1. <<0, n_leaves>> \in Tree!Slices /\ claim.index \in Nat
          BY <1>1, <3>1 DEF TreeType, Tree!Slices
        <5> QED
          BY <1>1, <3>3, <5>1, InclusionProofIs DEF TreeType
      <4>3. Agree(claim.proof, honest) <=> claim.proof = honest
        <5>1. PICK proof : proof = claim.proof
          OBVIOUS
        <5>2. Len(proof) = Len(honest) /\ proof \in Seq(Hashes)
          BY <4>1, <4>2, <5>1
        <5>3. (\A j \in 1 .. Len(honest) : proof[j] = honest[j]) => proof = honest
          BY <4>2, <5>2
        <5> QED
          BY <5>1, <5>3 DEF Agree
      <4>4. Tree!merkle_root(n_leaves) = Tree!SubtreeHash[<<0, n_leaves>>]
        BY <3>1 DEF Tree!merkle_root
      <4> QED
        BY <2>4, <3>3, <3>4, <4>1, <4>3, <4>4, Zenon DEF Tree!Honest
    <3>5. CASE sn # 0
      <4>1. claim.proof # honest
        BY <3>1, <3>2, <3>3, <3>5, BelowTheRoot
      <4> QED
        BY <3>3, <3>5, <4>1 DEF Tree!Honest
    <3> QED
      BY <3>4, <3>5
  <2>5. Tree!VerifiedIffIncluded'
    BY <2>1, <2>3, <2>4 DEF Tree!VerifiedIffIncluded, Tree!Honest, Tree!InTree
  <2> QED
    BY <2>2, <2>5 DEF TreeInv
<1>6. CASE UNCHANGED Tree!treeVars
  BY <1>6 DEF TreeInv, TreeType, TreePath, TreeLeaf, TreePlace,
              Tree!VerifiedIffIncluded, Tree!Honest, Tree!InTree
<1>7. CASE Tree!Done
  BY <1>6, <1>7 DEF Tree!Done
<1> QED
  BY <1>2, <1>3, <1>4, <1>5, <1>6, <1>7 DEF Tree!Next

(* For every size of the published tree and every claim about it, whatever *)
(* position and size it states: what is accepted is in the tree, and a     *)
(* claim that states the published size is accepted exactly when it is the *)
(* honest proof of its position (verify_inclusion, inclusion_proof).       *)
THEOREM TreeHolds ==
    ASSUME TreeConstants PROVE Tree!Spec => []Tree!VerifiedIffIncluded
<1>1. Tree!Init => TreeInv
  BY InitKeepsTree
<1>2. TreeInv /\ [Tree!Next]_(Tree!treeVars) => TreeInv'
  BY NextKeepsTree
<1>3. TreeInv => Tree!VerifiedIffIncluded
  BY DEF TreeInv
<1> QED
  BY <1>1, <1>2, <1>3, PTL DEF Tree!Spec
=============================================================================
