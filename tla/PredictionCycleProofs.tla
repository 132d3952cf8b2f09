----------------------- MODULE PredictionCycleProofs -----------------------
(***************************************************************************)
(* Proofs about PredictionCycle.  For any number of overlapping runs: the  *)
(* inductive invariant IInv, hence type correctness and LedgerNeverAhead,  *)
(* and SettledIsFinal.  For one run at a time: NeverSettledAndExpired and  *)
(* ExitIsSettlement.                                                       *)
(***************************************************************************)
EXTENDS PredictionCycle, TLAPS

(* IInv split in the part about the tables and the one about a process, as *)
(* operators of the values so that they apply to both ends of a step.      *)
IsSettled(lg, h) == lg[h] # None /\ lg[h].actual # None

StoreOK(lg, tr, sn, n) ==
    /\ n \in Hours
    /\ lg \in [Hours -> Row \cup {None}]
    /\ tr \in [Hours -> Trade \cup {None}]
    /\ sn \in [price : Prices, hour : Hours] \cup {None}
    /\ \A h \in Hours : IsSettled(lg, h) => h < n
    /\ \A h \in Hours : tr[h] # None => lg[h] # None
    /\ \A h \in Hours : tr[h] # None /\ tr[h].exit # None => IsSettled(lg, h)

ProcessOK(x, lg, n) ==
    /\ x \in RunState
    /\ x.node \in Priced => x.price # None
    /\ x.node \in WithRow => x.last # None /\ lg[x.last.hour] # None
    /\ x.node \in {"settle", "close_trade"} => x.last.hour < n
    /\ x.node = "close_trade" => IsSettled(lg, x.last.hour)
    /\ \A h \in x.due : lg[h] # None

(* What a step may do to the log as the other processes see it. *)
Grows(lg, lg2) ==
    \A h \in Hours : /\ lg[h] # None => lg2[h] # None
                     /\ IsSettled(lg, h) => IsSettled(lg2, h)

LEMMA SplitIInv ==
    IInv <=> /\ StoreOK(log, trade, snap, now)
             /\ run \in [Runs -> RunState]
             /\ \A r \in Runs : ProcessOK(run[r], log, now)
  <1>1. ASSUME IInv
        PROVE  /\ StoreOK(log, trade, snap, now)
               /\ run \in [Runs -> RunState]
               /\ \A r \in Runs : ProcessOK(run[r], log, now)
    <2>1. StoreOK(log, trade, snap, now)
      BY <1>1 DEF IInv, TypeOK, RowsAreOlder, LedgerNeverAhead, StoreOK, IsSettled,
                  Settled, Closed
    <2>2. ASSUME NEW r \in Runs PROVE ProcessOK(run[r], log, now)
      BY <1>1, <2>2 DEF IInv, TypeOK, RowsAreOlder, ProcessOK, IsSettled, Settled, WithRow
    <2>3. QED BY <1>1, <2>1, <2>2 DEF IInv, TypeOK
  <1>2. ASSUME StoreOK(log, trade, snap, now), run \in [Runs -> RunState],
               \A r \in Runs : ProcessOK(run[r], log, now)
        PROVE  IInv
    BY <1>2 DEF IInv, TypeOK, RowsAreOlder, LedgerNeverAhead, StoreOK, ProcessOK, IsSettled,
                Settled, Closed, WithRow
  <1>3. QED BY <1>1, <1>2

(* A process that did not move keeps what it relies on while the log grows *)
(* and time goes on.                                                       *)
LEMMA OthersKeep ==
    ASSUME NEW x, NEW lg, NEW lg2, NEW n \in Int, NEW n2 \in Int,
           ProcessOK(x, lg, n), Grows(lg, lg2), n <= n2
    PROVE  ProcessOK(x, lg2, n2)
  <1>1. x.last # None => x.last.hour \in Hours /\ x.last.hour \in Int
    BY DEF ProcessOK, RunState, LastRead, Hours
  <1>2. x.due \subseteq Hours
    BY DEF ProcessOK, RunState
  <1>3. x.node \in {"settle", "close_trade"} => x.node \in WithRow
    BY DEF WithRow
  <1>4. QED BY <1>1, <1>2, <1>3 DEF ProcessOK, Grows

(* A step of process r re-establishes IInv when the tables are well formed *)
(* after it, r itself is, and the log only grows.                          *)
LEMMA StepLemma ==
    ASSUME IInv, NEW r \in Runs,
           run' \in [Runs -> RunState],
           \A q \in Runs \ {r} : run'[q] = run[q],
           ProcessOK(run'[r], log', now'),
           StoreOK(log', trade', snap', now'),
           Grows(log, log'), now' = now
    PROVE  IInv'
  <1>1. now \in Int
    BY DEF IInv, TypeOK, Hours
  <1>2. \A q \in Runs : ProcessOK(run[q], log, now)
    BY SplitIInv
  <1>3. ASSUME NEW q \in Runs, q # r PROVE ProcessOK(run'[q], log', now')
    BY <1>1, <1>2, <1>3, OthersKeep
  <1>4. \A q \in Runs : ProcessOK(run'[q], log', now')
    BY <1>3
  <1>5. QED BY <1>4 DEF IInv, TypeOK, RowsAreOlder, LedgerNeverAhead, StoreOK, ProcessOK,
                        IsSettled, Settled, Closed, WithRow

(* The same for a step that leaves the tables alone. *)
LEMMA QuietStep ==
    ASSUME IInv, NEW r \in Runs, UNCHANGED Store,
           run' \in [Runs -> RunState],
           \A q \in Runs \ {r} : run'[q] = run[q],
           ProcessOK(run'[r], log, now)
    PROVE  IInv'
  <1>1. Grows(log, log)
    BY DEF Grows
  <1>2. StoreOK(log, trade, snap, now)
    BY SplitIInv
  <1>3. log' = log /\ trade' = trade /\ snap' = snap /\ now' = now
    BY DEF Store
  <1>4. StoreOK(log', trade', snap', now') /\ Grows(log, log') /\ ProcessOK(run'[r], log', now')
    BY <1>1, <1>2, <1>3
  <1>5. QED BY <1>3, <1>4, StepLemma

(* Assigning a process its new state changes nobody else's. *)
LEMMA Assign ==
    ASSUME NEW f \in [Runs -> RunState], NEW g, NEW r \in Runs, NEW x \in RunState,
           g = [f EXCEPT ![r] = x]
    PROVE  /\ g \in [Runs -> RunState]
           /\ \A q \in Runs \ {r} : g[q] = f[q]
           /\ g[r] = x
  OBVIOUS

(* Moving to a node. *)
LEMMA GotoStep ==
    ASSUME IInv, NEW r \in Runs, NEW n \in Nodes, Goto(r, n)
    PROVE  /\ run' \in [Runs -> RunState]
           /\ \A q \in Runs \ {r} : run'[q] = run[q]
           /\ run'[r] = At(n, run[r].ref, run[r].price, run[r].last, run[r].due)
  <1>1. run \in [Runs -> RunState]
    BY DEF IInv, TypeOK
  <1>2. run[r] \in RunState
    BY <1>1
  <1>3. [run[r] EXCEPT !.node = n] = At(n, run[r].ref, run[r].price, run[r].last, run[r].due)
    BY <1>2 DEF RunState, At
  <1>4. At(n, run[r].ref, run[r].price, run[r].last, run[r].due) \in RunState
    BY <1>2 DEF RunState, At
  <1>5. run' = [run EXCEPT ![r] = At(n, run[r].ref, run[r].price, run[r].last, run[r].due)]
    BY <1>3 DEF Goto
  <1>6. QED BY <1>1, <1>4, <1>5, Assign

(* The states a process is put in that rely on nothing. *)
LEMMA IdleOK ==
    ASSUME NEW lg, NEW n
    PROVE  /\ Idle \in RunState /\ ProcessOK(Idle, lg, n)
           /\ LastStep \in RunState /\ ProcessOK(LastStep, lg, n)
  <1>1. Idle \in RunState /\ LastStep \in RunState
    BY DEF Idle, LastStep, At, RunState, Nodes
  <1>2. Idle.node = "idle" /\ Idle.due = {} /\ LastStep.node = "overdue" /\ LastStep.due = {}
    BY DEF Idle, LastStep, At
  <1>3. QED BY <1>1, <1>2 DEF ProcessOK, Priced, InGraph, WithRow

-----------------------------------------------------------------------------
(* Steps that leave the tables alone. *)

LEMMA LeavesGraph ==
    ASSUME IInv, NEW r \in Runs, UNCHANGED Store,
           run' = [run EXCEPT ![r] = Idle] \/ run' = [run EXCEPT ![r] = LastStep]
    PROVE  IInv'
  <1>1. run \in [Runs -> RunState]
    BY DEF IInv, TypeOK
  <1>2. Idle \in RunState /\ ProcessOK(Idle, log, now)
    BY IdleOK
  <1>3. LastStep \in RunState /\ ProcessOK(LastStep, log, now)
    BY IdleOK
  <1>4. CASE run' = [run EXCEPT ![r] = Idle]
    <2>1. /\ run' \in [Runs -> RunState]
          /\ \A q \in Runs \ {r} : run'[q] = run[q]
          /\ run'[r] = Idle
      BY <1>1, <1>2, <1>4, Assign
    <2>2. QED BY <1>2, <2>1, QuietStep
  <1>5. CASE run' = [run EXCEPT ![r] = LastStep]
    <2>1. /\ run' \in [Runs -> RunState]
          /\ \A q \in Runs \ {r} : run'[q] = run[q]
          /\ run'[r] = LastStep
      BY <1>1, <1>3, <1>5, Assign
    <2>2. QED BY <1>3, <2>1, QuietStep
  <1>6. QED BY <1>4, <1>5

LEMMA MovesOn ==
    ASSUME IInv, NEW r \in Runs, UNCHANGED Store,
           NEW n \in {"gate", "save", "save_snapshot"},
           run[r].node \in Priced, Goto(r, n)
    PROVE  IInv'
  <1>1. n \in Nodes
    BY DEF Nodes
  <1>2. /\ run' \in [Runs -> RunState]
        /\ \A q \in Runs \ {r} : run'[q] = run[q]
        /\ run'[r] = At(n, run[r].ref, run[r].price, run[r].last, run[r].due)
    BY <1>1, GotoStep
  <1>3. run'[r].node = n /\ run'[r].price = run[r].price /\ run'[r].due = run[r].due
    BY <1>2 DEF At
  <1>4. run'[r] \in RunState
    BY <1>2
  <1>5. ProcessOK(run[r], log, now)
    BY SplitIInv
  <1>6. ProcessOK(run'[r], log, now)
    BY <1>3, <1>4, <1>5 DEF ProcessOK, WithRow
  <1>7. QED BY <1>2, <1>6, QuietStep

LEMMA BeginKeeps ==
    ASSUME IInv, NEW r \in Runs, Begin(r)
    PROVE  IInv'
  <1>1. Reference \in [price : Prices, stale : BOOLEAN] \cup {None}
    BY DEF Reference, IInv, TypeOK, Age
  <1>2. At("check_price", Reference, None, None, {}) \in RunState
    BY <1>1 DEF At, RunState, Nodes
  <1>3. run \in [Runs -> RunState]
    BY DEF IInv, TypeOK
  <1>4. run' = [run EXCEPT ![r] = At("check_price", Reference, None, None, {})]
    BY DEF Begin
  <1>5. /\ run' \in [Runs -> RunState]
        /\ \A q \in Runs \ {r} : run'[q] = run[q]
        /\ run'[r] = At("check_price", Reference, None, None, {})
    BY <1>2, <1>3, <1>4, Assign
  <1>6. run'[r] \in RunState /\ run'[r].node = "check_price" /\ run'[r].due = {}
    BY <1>2, <1>5 DEF At
  <1>7. ProcessOK(run'[r], log, now)
    BY <1>6 DEF ProcessOK, Priced, InGraph, WithRow
  <1>8. QED BY <1>5, <1>7, QuietStep DEF Begin

LEMMA CheckPriceKeeps ==
    ASSUME IInv, NEW r \in Runs, CheckPrice(r)
    PROVE  IInv'
  <1>1. PICK p \in Prices :
            run' = [run EXCEPT ![r] = At("reflect", run[r].ref, p, None, {})]
    BY DEF CheckPrice
  <1>2. run \in [Runs -> RunState] /\ run[r] \in RunState
    BY DEF IInv, TypeOK
  <1>3. At("reflect", run[r].ref, p, None, {}) \in RunState
    BY <1>2 DEF At, RunState, Nodes
  <1>4. /\ run' \in [Runs -> RunState]
        /\ \A q \in Runs \ {r} : run'[q] = run[q]
        /\ run'[r] = At("reflect", run[r].ref, p, None, {})
    BY <1>1, <1>2, <1>3, Assign
  <1>5. /\ run'[r] \in RunState /\ run'[r].node = "reflect"
        /\ run'[r].due = {} /\ run'[r].price = p
    BY <1>3, <1>4 DEF At
  <1>6. p # None
    BY PricesAssumption
  <1>7. ProcessOK(run'[r], log, now)
    BY <1>5, <1>6 DEF ProcessOK, WithRow
  <1>8. QED BY <1>4, <1>7, QuietStep DEF CheckPrice

LEMMA ReadDueKeeps ==
    ASSUME IInv, NEW r \in Runs, ReadDue(r)
    PROVE  IInv'
  <1>1. PICK h \in Hours :
            /\ Due(h)
            /\ run' = [run EXCEPT ![r] =
                          At("settle", run[r].ref, run[r].price, LastPrediction(h), {})]
    BY DEF ReadDue
  <1>2. run \in [Runs -> RunState] /\ run[r] \in RunState
    BY DEF IInv, TypeOK
  <1>3. log[h] # None /\ log[h] \in Row /\ h < now
    <2>1. log[h] # None /\ now - h >= MinAge
      BY <1>1 DEF Due, Waiting, Age
    <2>2. now \in Int /\ h \in Int /\ MinAge \in Nat /\ MinAge > 0
      BY AgesAssumption DEF IInv, TypeOK, Hours
    <2>3. log \in [Hours -> Row \cup {None}]
      BY DEF IInv, TypeOK
    <2>4. QED BY <2>1, <2>2, <2>3
  <1>4. LastPrediction(h) \in LastRead
    BY <1>3 DEF LastPrediction, LastRead, Row
  <1>5. At("settle", run[r].ref, run[r].price, LastPrediction(h), {}) \in RunState
    BY <1>2, <1>4 DEF At, RunState, Nodes
  <1>6. /\ run' \in [Runs -> RunState]
        /\ \A q \in Runs \ {r} : run'[q] = run[q]
        /\ run'[r] = At("settle", run[r].ref, run[r].price, LastPrediction(h), {})
    BY <1>1, <1>2, <1>5, Assign
  <1>7. /\ run'[r] \in RunState /\ run'[r].node = "settle" /\ run'[r].due = {}
        /\ run'[r].price = run[r].price /\ run'[r].last = LastPrediction(h)
        /\ run'[r].last.hour = h
    BY <1>5, <1>6 DEF At, LastPrediction
  <1>8. run[r].price # None
    BY DEF IInv, TypeOK, ReadDue, Priced, InGraph
  <1>9. LastPrediction(h) # None
    BY <1>4, NoneAssumption
  <1>10. ProcessOK(run'[r], log, now)
    BY <1>3, <1>7, <1>8, <1>9 DEF ProcessOK
  <1>11. QED BY <1>6, <1>10, QuietStep DEF ReadDue

LEMMA ReadOverdueKeeps ==
    ASSUME IInv, NEW r \in Runs, ReadOverdue(r)
    PROVE  IInv'
  <1> DEFINE D == {h \in Hours : Overdue(h)}
  <1>1. run \in [Runs -> RunState]
    BY DEF IInv, TypeOK
  <1>2. At("expire", None, None, None, D) \in RunState
    BY DEF At, RunState, Nodes
  <1>3. run' = [run EXCEPT ![r] = At("expire", None, None, None, D)]
    BY DEF ReadOverdue
  <1>4. \A h \in D : log[h] # None
    BY DEF Overdue, Waiting
  <1> HIDE DEF D
  <1>5. /\ run' \in [Runs -> RunState]
        /\ \A q \in Runs \ {r} : run'[q] = run[q]
        /\ run'[r] = At("expire", None, None, None, D)
    BY <1>1, <1>2, <1>3, Assign
  <1>6. run'[r] \in RunState /\ run'[r].node = "expire" /\ run'[r].due = D
    BY <1>2, <1>5 DEF At
  <1>7. ProcessOK(run'[r], log, now)
    BY <1>4, <1>6 DEF ProcessOK, Priced, InGraph, WithRow
  <1>8. QED BY <1>5, <1>7, QuietStep DEF ReadOverdue

-----------------------------------------------------------------------------
(* Steps that write a table. *)

LEMMA SettleKeeps ==
    ASSUME IInv, NEW r \in Runs, Settle(r)
    PROVE  IInv'
  <1> DEFINE h == run[r].last.hour
             p == run[r].price
  <1>1. ProcessOK(run[r], log, now) /\ StoreOK(log, trade, snap, now)
    BY SplitIInv
  <1>2. run[r].node = "settle"
    BY DEF Settle
  <1>3. p \in Prices /\ p # None /\ run[r].last \in LastRead
    BY <1>1, <1>2 DEF ProcessOK, RunState, Priced, InGraph, WithRow
  <1>4. h \in Hours /\ log[h] # None /\ log[h] \in Row /\ h < now
    BY <1>1, <1>2, <1>3 DEF ProcessOK, WithRow, LastRead, StoreOK
  <1>5. [log[h] EXCEPT !.actual = p] \in Row /\ [log[h] EXCEPT !.actual = p].actual = p
    BY <1>3, <1>4 DEF Row
  <1>6. [log[h] EXCEPT !.actual = p] # None
    BY <1>5, NoneAssumption
  <1>7. log' = log \/ log' = [log EXCEPT ![h] = [log[h] EXCEPT !.actual = p]]
    BY DEF Settle, UpdateAccuracy
  <1>8. log' \in [Hours -> Row \cup {None}] /\ \A g \in Hours \ {h} : log'[g] = log[g]
    BY <1>1, <1>5, <1>7 DEF StoreOK
  <1>9. IsSettled(log', h)
    <2>1. CASE log[h].actual = None
      BY <1>1, <1>3, <1>4, <1>5, <1>6, <2>1 DEF Settle, UpdateAccuracy, IsSettled, StoreOK
    <2>2. CASE log[h].actual # None
      BY <1>4, <2>2 DEF Settle, UpdateAccuracy, IsSettled
    <2>3. QED BY <2>1, <2>2
  <1>10. Grows(log, log')
    BY <1>8, <1>9 DEF Grows, IsSettled
  <1>11. StoreOK(log', trade', snap', now')
    BY <1>1, <1>4, <1>8, <1>9, <1>10 DEF StoreOK, Grows, IsSettled, Settle
  <1>12. "close_trade" \in Nodes
    BY DEF Nodes
  <1>13. /\ run' \in [Runs -> RunState]
         /\ \A q \in Runs \ {r} : run'[q] = run[q]
         /\ run'[r] = At("close_trade", run[r].ref, run[r].price, run[r].last, run[r].due)
    BY <1>12, GotoStep DEF Settle
  <1>14. /\ run'[r].node = "close_trade" /\ run'[r].price = p /\ run'[r].last = run[r].last
         /\ run'[r].due = run[r].due
    BY <1>13 DEF At
  <1>15. run'[r] \in RunState
    BY <1>13
  <1>16. run[r].last # None /\ run[r].due \subseteq Hours /\ \A g \in run[r].due : log[g] # None
    BY <1>1, <1>2 DEF ProcessOK, RunState, WithRow
  <1>17. ProcessOK(run'[r], log', now')
    BY <1>3, <1>4, <1>9, <1>10, <1>14, <1>15, <1>16 DEF ProcessOK, IsSettled, Grows, Settle
  <1>18. now' = now
    BY DEF Settle
  <1>19. QED BY <1>10, <1>11, <1>13, <1>17, <1>18, StepLemma

LEMMA CloseTradeKeeps ==
    ASSUME IInv, NEW r \in Runs, CloseTrade(r)
    PROVE  IInv'
  <1> DEFINE h == run[r].last.hour
             p == run[r].price
             t == [side |-> trade[h].side, entry |-> trade[h].entry, exit |-> p,
                   pnl |-> close_trade(run[r].last.trend, run[r].last.price, p)]
  <1>1. ProcessOK(run[r], log, now) /\ StoreOK(log, trade, snap, now)
    BY SplitIInv
  <1>2. run[r].node = "close_trade"
    BY DEF CloseTrade
  <1>3. p \in Prices /\ p # None /\ run[r].last \in LastRead
    BY <1>1, <1>2 DEF ProcessOK, RunState, Priced, InGraph, WithRow
  <1>4. h \in Hours /\ IsSettled(log, h)
    BY <1>1, <1>2, <1>3 DEF ProcessOK, LastRead
  <1>5. close_trade(run[r].last.trend, run[r].last.price, p) \in Pnl
    <2>1. run[r].last.price \in Nat /\ p \in Nat
      BY <1>3, PricesAssumption DEF LastRead
    <2>2. signal_of(run[r].last.trend) \in {-1, 0, 1}
      BY DEF signal_of
    <2>3. signal_of(run[r].last.trend) * (p - run[r].last.price) \in Int
      BY <2>1, <2>2
    <2>4. QED BY <2>1, <2>3 DEF close_trade, Pnl
  <1>6. trade[h] # None => t \in Trade
    BY <1>1, <1>3, <1>4, <1>5 DEF StoreOK, Trade
  <1>7. trade' = trade \/ (trade[h] # None /\ trade' = [trade EXCEPT ![h] = t])
    BY DEF CloseTrade
  <1> HIDE DEF t
  <1>8. /\ trade' \in [Hours -> Trade \cup {None}]
        /\ \A g \in Hours \ {h} : trade'[g] = trade[g]
        /\ trade'[h] # None => trade[h] # None
    BY <1>1, <1>4, <1>6, <1>7 DEF StoreOK
  <1>9. StoreOK(log', trade', snap', now')
    BY <1>1, <1>4, <1>8 DEF StoreOK, CloseTrade
  <1>10. "gate" \in Nodes
    BY DEF Nodes
  <1>11. /\ run' \in [Runs -> RunState]
         /\ \A q \in Runs \ {r} : run'[q] = run[q]
         /\ run'[r] = At("gate", run[r].ref, run[r].price, run[r].last, run[r].due)
    BY <1>10, GotoStep DEF CloseTrade
  <1>12. run'[r].node = "gate" /\ run'[r].price = p /\ run'[r].due = run[r].due
    BY <1>11 DEF At
  <1>13. run'[r] \in RunState
    BY <1>11
  <1>14. ProcessOK(run'[r], log', now')
    BY <1>1, <1>3, <1>12, <1>13 DEF ProcessOK, WithRow, CloseTrade
  <1>15. Grows(log, log') /\ now' = now
    BY DEF Grows, CloseTrade
  <1>16. QED BY <1>9, <1>11, <1>14, <1>15, StepLemma

LEMMA SaveKeeps ==
    ASSUME IInv, NEW r \in Runs, Save(r)
    PROVE  IInv'
  <1>1. PICK t \in Trends :
            /\ log' = [log EXCEPT ![now] = Upserted(run[r].price, t)]
            /\ run' = [run EXCEPT ![r] =
                          At("open_trade", run[r].ref, run[r].price,
                             [hour |-> now, price |-> run[r].price, trend |-> t], {})]
    BY DEF Save
  <1> DEFINE w == Upserted(run[r].price, t)
             l == [hour |-> now, price |-> run[r].price, trend |-> t]
  <1>2. ProcessOK(run[r], log, now) /\ StoreOK(log, trade, snap, now)
    BY SplitIInv
  <1>3. run[r].price \in Prices /\ run[r].price # None /\ run[r] \in RunState
    BY <1>2 DEF Save, ProcessOK, RunState, Priced, InGraph
  <1>4. now \in Hours /\ now \in Int
    BY <1>2 DEF StoreOK, Hours
  <1>5. log[now] \in Row \cup {None} /\ (log[now] # None => log[now].actual = None)
    BY <1>2, <1>4 DEF StoreOK, IsSettled
  <1>6. w \in Row /\ w.actual = None
    BY <1>3, <1>5 DEF Upserted, Row
  <1>7. w # None
    BY <1>6, NoneAssumption
  <1> HIDE DEF w
  <1>8. /\ log' \in [Hours -> Row \cup {None}]
        /\ \A g \in Hours \ {now} : log'[g] = log[g]
        /\ log'[now] = w
    BY <1>1, <1>2, <1>4, <1>6 DEF StoreOK, w
  <1>9. ~ IsSettled(log, now) /\ ~ IsSettled(log', now)
    BY <1>5, <1>6, <1>8 DEF IsSettled
  <1>10. Grows(log, log')
    BY <1>7, <1>8, <1>9 DEF Grows, IsSettled
  <1>11. StoreOK(log', trade', snap', now')
    BY <1>2, <1>8, <1>9, <1>10 DEF StoreOK, Grows, IsSettled, Save
  <1>12. l \in LastRead /\ l.hour = now
    BY <1>3, <1>4 DEF LastRead
  <1>13. l # None
    BY <1>12, NoneAssumption
  <1> HIDE DEF l
  <1>14. At("open_trade", run[r].ref, run[r].price, l, {}) \in RunState
    BY <1>3, <1>12 DEF At, RunState, Nodes
  <1>15. run \in [Runs -> RunState]
    BY DEF IInv, TypeOK
  <1>16. run' = [run EXCEPT ![r] = At("open_trade", run[r].ref, run[r].price, l, {})]
    BY <1>1 DEF l
  <1>17. /\ run' \in [Runs -> RunState]
         /\ \A q \in Runs \ {r} : run'[q] = run[q]
         /\ run'[r] = At("open_trade", run[r].ref, run[r].price, l, {})
    BY <1>14, <1>15, <1>16, Assign
  <1>18. /\ run'[r].node = "open_trade" /\ run'[r].price = run[r].price
         /\ run'[r].last = l /\ run'[r].due = {}
    BY <1>17 DEF At
  <1>19. run'[r] \in RunState
    BY <1>17
  <1>20. ProcessOK(run'[r], log', now')
    BY <1>3, <1>7, <1>8, <1>12, <1>13, <1>18, <1>19 DEF ProcessOK
  <1>21. now' = now
    BY DEF Save
  <1>22. QED BY <1>10, <1>11, <1>17, <1>20, <1>21, StepLemma

LEMMA OpenTradeKeeps ==
    ASSUME IInv, NEW r \in Runs, OpenTrade(r)
    PROVE  IInv'
  <1> DEFINE h == run[r].last.hour
             t == [side |-> run[r].last.trend, entry |-> run[r].last.price,
                   exit |-> None, pnl |-> NoPnl]
  <1>1. ProcessOK(run[r], log, now) /\ StoreOK(log, trade, snap, now)
    BY SplitIInv
  <1>2. run[r].node = "open_trade"
    BY DEF OpenTrade
  <1>3. /\ run[r].last \in LastRead /\ h \in Hours /\ log[h] # None
        /\ run[r].price # None
    BY <1>1, <1>2 DEF ProcessOK, RunState, WithRow, LastRead, Priced, InGraph
  <1>4. t \in Trade /\ t.exit = None
    BY <1>3 DEF Trade, LastRead, NoPnl, Pnl
  <1>5. trade' = trade \/ trade' = [trade EXCEPT ![h] = t]
    BY DEF OpenTrade
  <1> HIDE DEF t
  <1>6. /\ trade' \in [Hours -> Trade \cup {None}]
        /\ \A g \in Hours \ {h} : trade'[g] = trade[g]
        /\ trade'[h] = trade[h] \/ trade'[h] = t
    BY <1>1, <1>3, <1>4, <1>5 DEF StoreOK
  <1>7. StoreOK(log', trade', snap', now')
    BY <1>1, <1>3, <1>4, <1>6 DEF StoreOK, OpenTrade
  <1>8. "save_snapshot" \in Nodes
    BY DEF Nodes
  <1>9. /\ run' \in [Runs -> RunState]
        /\ \A q \in Runs \ {r} : run'[q] = run[q]
        /\ run'[r] = At("save_snapshot", run[r].ref, run[r].price, run[r].last, run[r].due)
    BY <1>8, GotoStep DEF OpenTrade
  <1>10. /\ run'[r].node = "save_snapshot" /\ run'[r].price = run[r].price
         /\ run'[r].due = run[r].due
    BY <1>9 DEF At
  <1>11. run'[r] \in RunState
    BY <1>9
  <1>12. ProcessOK(run'[r], log', now')
    BY <1>1, <1>3, <1>10, <1>11 DEF ProcessOK, WithRow, OpenTrade
  <1>13. Grows(log, log') /\ now' = now
    BY DEF Grows, OpenTrade
  <1>14. QED BY <1>7, <1>9, <1>12, <1>13, StepLemma

LEMMA SaveSnapshotKeeps ==
    ASSUME IInv, NEW r \in Runs, SaveSnapshot(r)
    PROVE  IInv'
  <1>1. ProcessOK(run[r], log, now) /\ StoreOK(log, trade, snap, now)
    BY SplitIInv
  <1>2. run[r].price \in Prices
    BY <1>1 DEF ProcessOK, RunState, Priced, InGraph, SaveSnapshot
  <1>3. StoreOK(log', trade', snap', now')
    BY <1>1, <1>2 DEF StoreOK, SaveSnapshot
  <1>4. run \in [Runs -> RunState]
    BY DEF IInv, TypeOK
  <1>5. LastStep \in RunState /\ ProcessOK(LastStep, log', now')
    BY IdleOK
  <1>6. /\ run' \in [Runs -> RunState]
        /\ \A q \in Runs \ {r} : run'[q] = run[q]
        /\ run'[r] = LastStep
    BY <1>4, <1>5, Assign DEF SaveSnapshot, Done
  <1>7. Grows(log, log') /\ now' = now
    BY DEF Grows, SaveSnapshot
  <1>8. QED BY <1>3, <1>5, <1>6, <1>7, StepLemma

LEMMA DueUpdate ==
    ASSUME NEW x \in RunState, NEW d
    PROVE  [x EXCEPT !.due = d] = At(x.node, x.ref, x.price, x.last, d)
  BY DEF RunState, At

LEMMA FlagRowKeeps ==
    ASSUME IInv, NEW r \in Runs, FlagRow(r)
    PROVE  IInv'
  <1>1. PICK h \in run[r].due :
            /\ log' = IF log[h].actual = None THEN [log EXCEPT ![h].expired = TRUE] ELSE log
            /\ run' = [run EXCEPT ![r].due = @ \ {h}]
    BY DEF FlagRow
  <1>2. ProcessOK(run[r], log, now) /\ StoreOK(log, trade, snap, now)
    BY SplitIInv
  <1>3. run[r] \in RunState /\ run \in [Runs -> RunState] /\ run[r].node = "expire"
    BY <1>2 DEF ProcessOK, IInv, TypeOK, FlagRow
  <1>4. h \in Hours /\ log[h] # None /\ log[h] \in Row
    BY <1>2, <1>3 DEF ProcessOK, RunState, StoreOK
  <1> DEFINE w == [log[h] EXCEPT !.expired = TRUE]
  <1>5. w \in Row /\ w.actual = log[h].actual
    BY <1>4 DEF Row
  <1>6. w # None
    BY <1>5, NoneAssumption
  <1>7. log' = log \/ log' = [log EXCEPT ![h] = w]
    BY <1>1
  <1> HIDE DEF w
  <1>8. /\ log' \in [Hours -> Row \cup {None}]
        /\ \A g \in Hours \ {h} : log'[g] = log[g]
        /\ log'[h] = log[h] \/ log'[h] = w
    BY <1>2, <1>4, <1>5, <1>7 DEF StoreOK
  <1>9. \A g \in Hours : /\ log'[g] # None <=> log[g] # None
                         /\ IsSettled(log', g) <=> IsSettled(log, g)
    BY <1>4, <1>5, <1>6, <1>8 DEF IsSettled
  <1>10. Grows(log, log')
    BY <1>9 DEF Grows
  <1>11. StoreOK(log', trade', snap', now')
    BY <1>2, <1>8, <1>9 DEF StoreOK, FlagRow
  <1>12. [run[r] EXCEPT !.due = run[r].due \ {h}]
            = At("expire", run[r].ref, run[r].price, run[r].last, run[r].due \ {h})
    BY <1>3, DueUpdate
  <1>13. At("expire", run[r].ref, run[r].price, run[r].last, run[r].due \ {h}) \in RunState
    BY <1>3 DEF RunState, At
  <1>14. run' = [run EXCEPT ![r] =
                    At("expire", run[r].ref, run[r].price, run[r].last, run[r].due \ {h})]
    BY <1>1, <1>12
  <1>15. /\ run' \in [Runs -> RunState]
         /\ \A q \in Runs \ {r} : run'[q] = run[q]
         /\ run'[r] = At("expire", run[r].ref, run[r].price, run[r].last, run[r].due \ {h})
    BY <1>3, <1>13, <1>14, Assign
  <1>16. run'[r].node = "expire" /\ run'[r].due = run[r].due \ {h}
    BY <1>15 DEF At
  <1>17. run'[r] \in RunState
    BY <1>15
  <1>18. \A g \in run[r].due : g \in Hours /\ log[g] # None
    BY <1>2 DEF ProcessOK, RunState
  <1>19. ProcessOK(run'[r], log', now')
    BY <1>9, <1>16, <1>17, <1>18 DEF ProcessOK, Priced, InGraph, WithRow
  <1>20. now' = now
    BY DEF FlagRow
  <1>21. QED BY <1>10, <1>11, <1>15, <1>19, <1>20, StepLemma

LEMMA TickKeeps ==
    ASSUME IInv, Tick
    PROVE  IInv'
  <1>1. now \in Int /\ now' \in Hours /\ now <= now' /\ now' \in Int
    BY AgesAssumption DEF Tick, IInv, TypeOK, Hours
  <1>2. /\ StoreOK(log, trade, snap, now)
        /\ \A r \in Runs : ProcessOK(run[r], log, now)
    BY SplitIInv
  <1>3. Hours \subseteq Int
    BY DEF Hours
  <1>4. StoreOK(log', trade', snap', now')
    BY <1>1, <1>2, <1>3 DEF StoreOK, Tick
  <1>5. Grows(log, log)
    BY DEF Grows
  <1>6. \A r \in Runs : ProcessOK(run[r], log, now')
    BY <1>1, <1>2, <1>5, OthersKeep
  <1>7. run' = run /\ log' = log /\ run \in [Runs -> RunState]
    BY DEF Tick, IInv, TypeOK
  <1>8. \A r \in Runs : ProcessOK(run'[r], log', now')
    BY <1>6, <1>7
  <1>9. QED BY <1>4, <1>7, <1>8 DEF IInv, TypeOK, RowsAreOlder, LedgerNeverAhead, StoreOK,
                        ProcessOK, IsSettled, Settled, Closed, WithRow

-----------------------------------------------------------------------------
(* The invariant. *)

LEMMA InitIInv == Init => IInv
  <1> SUFFICES ASSUME Init PROVE IInv
    OBVIOUS
  <1>1. StoreOK(log, trade, snap, now)
    BY AgesAssumption DEF Init, StoreOK, IsSettled, Hours
  <1>2. \A r \in Runs : run[r] = Idle
    BY DEF Init
  <1>3. \A r \in Runs : ProcessOK(run[r], log, now)
    BY <1>2, IdleOK
  <1>4. run \in [Runs -> RunState]
    BY IdleOK DEF Init
  <1>5. QED BY <1>1, <1>3, <1>4, SplitIInv

LEMMA RunKeeps ==
    ASSUME IInv, NEW r \in Runs, RunStep(r) \/ Crash(r)
    PROVE  IInv'
  <1>1. CASE Begin(r)
    BY <1>1, BeginKeeps
  <1>2. CASE SkipSymbol(r) \/ OutlierReading(r) \/ CutByBudget(r) \/ SymbolFails(r)
    BY <1>2, LeavesGraph DEF SkipSymbol, OutlierReading, CutByBudget, SymbolFails, Done
  <1>3. CASE ExpireDone(r) \/ Crash(r)
    BY <1>3, LeavesGraph DEF ExpireDone, Crash
  <1>4. CASE NothingDue(r) \/ CloseFails(r)
    BY <1>4, MovesOn DEF NothingDue, CloseFails, Priced, InGraph
  <1>5. CASE Ignore(r) \/ Analyze(r) \/ NoTrade(r)
    BY <1>5, MovesOn DEF Ignore, Analyze, NoTrade, Priced, InGraph
  <1>6. CASE CheckPrice(r)
    BY <1>6, CheckPriceKeeps
  <1>7. CASE ReadDue(r)
    BY <1>7, ReadDueKeeps
  <1>8. CASE Settle(r)
    BY <1>8, SettleKeeps
  <1>9. CASE CloseTrade(r)
    BY <1>9, CloseTradeKeeps
  <1>10. CASE Save(r)
    BY <1>10, SaveKeeps
  <1>11. CASE OpenTrade(r)
    BY <1>11, OpenTradeKeeps
  <1>12. CASE SaveSnapshot(r)
    BY <1>12, SaveSnapshotKeeps
  <1>13. CASE ReadOverdue(r)
    BY <1>13, ReadOverdueKeeps
  <1>14. CASE FlagRow(r)
    BY <1>14, FlagRowKeeps
  <1>15. QED
    BY <1>1, <1>2, <1>3, <1>4, <1>5, <1>6, <1>7, <1>8, <1>9, <1>10, <1>11, <1>12, <1>13,
       <1>14 DEF RunStep, GraphStep

LEMMA NextIInv == IInv /\ [Next]_vars => IInv'
  <1> SUFFICES ASSUME IInv, [Next]_vars PROVE IInv'
    OBVIOUS
  <1>1. CASE Tick
    BY <1>1, TickKeeps
  <1>2. ASSUME NEW r \in Runs, RunStep(r) \/ Crash(r) PROVE IInv'
    BY <1>2, RunKeeps
  <1>3. CASE UNCHANGED vars
    BY <1>3 DEF vars, IInv, TypeOK, RowsAreOlder, LedgerNeverAhead, Settled, Closed, WithRow
  <1>4. QED BY <1>1, <1>2, <1>3 DEF Next

(* IInv holds of every behaviour, with any number of overlapping runs. *)
THEOREM Invariance == Spec => []IInv
  <1>1. QED BY InitIInv, NextIInv, PTL DEF Spec

(* Type correctness of the tables and of the processes. *)
THEOREM TypeCorrect == Spec => []TypeOK
  <1>1. IInv => TypeOK
    BY DEF IInv
  <1>2. QED BY <1>1, Invariance, PTL

(* However runs overlap, fail and crash, a closed position belongs to a    *)
(* settled prediction: "ledger nigdy nie wyprzedza prediction_logs".       *)
THEOREM LedgerStaysBehind == Spec => []LedgerNeverAhead
  <1>1. IInv => LedgerNeverAhead
    BY DEF IInv
  <1>2. QED BY <1>1, Invariance, PTL

(* Which actions write the log, and that they leave settled rows alone.    *)
LEMMA LogWriters ==
    ASSUME IInv, [Next]_vars, NEW h \in Hours, Settled(h)
    PROVE  log'[h] = log[h]
  <1>1. h < now /\ log[h] # None /\ log[h].actual # None /\ h # now
    BY DEF IInv, RowsAreOlder, Settled, TypeOK, Hours
  <1>2. ASSUME NEW r \in Runs, Settle(r) PROVE log'[h] = log[h]
    BY <1>1, <1>2 DEF Settle, UpdateAccuracy, IInv, TypeOK
  <1>3. ASSUME NEW r \in Runs, Save(r) PROVE log'[h] = log[h]
    BY <1>1, <1>3 DEF Save, IInv, TypeOK
  <1>4. ASSUME NEW r \in Runs, FlagRow(r) PROVE log'[h] = log[h]
    BY <1>1, <1>4 DEF FlagRow, IInv, TypeOK
  <1>5. ASSUME NEW r \in Runs, RunStep(r) \/ Crash(r), ~ Settle(r), ~ Save(r), ~ FlagRow(r)
        PROVE  log' = log
    BY <1>5 DEF RunStep, GraphStep, Store, Begin, SkipSymbol, CheckPrice, OutlierReading,
        ReadDue, NothingDue, CloseTrade, CloseFails, Ignore, CutByBudget, Analyze, OpenTrade,
        NoTrade, SaveSnapshot, SymbolFails, ReadOverdue, ExpireDone, Crash
  <1>6. CASE Tick \/ UNCHANGED vars
    BY <1>6 DEF Tick, vars
  <1>7. QED BY <1>2, <1>3, <1>4, <1>5, <1>6 DEF Next

(* No order of overlapping runs' calls changes a settled prediction. *)
THEOREM SettlementIsFinal == Spec => SettledIsFinal
  <1>1. IInv /\ [Next]_vars => [\A h \in Hours : Settled(h) => log'[h] = log[h]]_vars
    BY LogWriters
  <1>2. QED BY <1>1, Invariance, PTL DEF Spec, SettledIsFinal

-----------------------------------------------------------------------------
(* One run at a time. *)

OneRun == \A r, s \in Runs : r = s

(* While a run settles a row, the row is as the run read it, and until it  *)
(* closes the position, the row has the price the run settled it with.     *)
SerialOK ==
    /\ NeverSettledAndExpired
    /\ ExitIsSettlement
    /\ \A r \in Runs : run[r].node = "settle" =>
          /\ log[run[r].last.hour].actual = None
          /\ ~ log[run[r].last.hour].expired
    /\ \A r \in Runs : run[r].node = "close_trade" =>
          /\ log[run[r].last.hour].actual = run[r].price
          /\ ~ log[run[r].last.hour].expired

(* The only ways into the two nodes. *)
Enters(r) ==
    /\ run'[r].node = "settle" => ReadDue(r)
    /\ run'[r].node = "close_trade" => Settle(r)

LEMMA EntersBy ==
    ASSUME IInv, NEW r \in Runs, RunStep(r) \/ Crash(r)
    PROVE  Enters(r)
  <1>1. run \in [Runs -> RunState] /\ run[r] \in RunState
    BY DEF IInv, TypeOK
  <1>2. CASE Begin(r) \/ CheckPrice(r) \/ ReadOverdue(r)
    BY <1>1, <1>2 DEF Enters, Begin, CheckPrice, ReadOverdue, At
  <1>3. CASE SkipSymbol(r) \/ OutlierReading(r) \/ CutByBudget(r) \/ SymbolFails(r)
    BY <1>1, <1>3 DEF Enters, SkipSymbol, OutlierReading, CutByBudget, SymbolFails, Done, LastStep, At
  <1>4. CASE ExpireDone(r) \/ Crash(r)
    BY <1>1, <1>4 DEF Enters, ExpireDone, Crash, Idle, At
  <1>5. CASE NothingDue(r) \/ CloseFails(r) \/ Ignore(r) \/ Analyze(r) \/ NoTrade(r)
    BY <1>1, <1>5 DEF Enters, NothingDue, CloseFails, Ignore, Analyze, NoTrade, Goto, RunState
  <1>6. CASE CloseTrade(r) \/ OpenTrade(r)
    BY <1>1, <1>6 DEF Enters, CloseTrade, OpenTrade, Goto, RunState
  <1>7. CASE Save(r)
    BY <1>1, <1>7 DEF Enters, Save, At
  <1>8. CASE SaveSnapshot(r)
    BY <1>1, <1>8 DEF Enters, SaveSnapshot, Done, LastStep, At
  <1>9. CASE FlagRow(r)
    BY <1>1, <1>9 DEF Enters, FlagRow, RunState
  <1>10. CASE ReadDue(r)
    <2>1. run'[r].node = "settle"
      BY <1>1, <1>10 DEF ReadDue, At
    <2>2. QED BY <1>10, <2>1 DEF Enters
  <1>11. CASE Settle(r)
    <2>1. run'[r].node = "close_trade"
      BY <1>1, <1>11 DEF Settle, Goto, RunState
    <2>2. QED BY <1>11, <2>1 DEF Enters
  <1>12. \/ Begin(r) \/ CheckPrice(r) \/ ReadOverdue(r)
         \/ SkipSymbol(r) \/ OutlierReading(r) \/ CutByBudget(r) \/ SymbolFails(r)
         \/ ExpireDone(r) \/ Crash(r)
         \/ NothingDue(r) \/ CloseFails(r) \/ Ignore(r) \/ Analyze(r) \/ NoTrade(r)
         \/ CloseTrade(r) \/ OpenTrade(r) \/ Save(r) \/ SaveSnapshot(r) \/ FlagRow(r)
         \/ ReadDue(r) \/ Settle(r)
    BY DEF RunStep, GraphStep
  <1>13. QED
    BY <1>2, <1>3, <1>4, <1>5, <1>6, <1>7, <1>8, <1>9, <1>10, <1>11, <1>12

(* What a settlement of a row still waiting does. *)
LEMMA SettleWaiting ==
    ASSUME IInv, SerialOK, NEW r \in Runs, Settle(r)
    PROVE  /\ run[r].last.hour \in Hours
           /\ log' = [log EXCEPT ![run[r].last.hour].actual = run[r].price]
           /\ log'[run[r].last.hour].actual = run[r].price
           /\ ~ log'[run[r].last.hour].expired
           /\ run'[r].last = run[r].last /\ run'[r].price = run[r].price
  <1> DEFINE h == run[r].last.hour
  <1>1. run[r].node = "settle" /\ run[r] \in RunState /\ run[r].last # None
    BY DEF Settle, IInv, TypeOK, WithRow
  <1>2. h \in Hours /\ log[h] # None /\ log[h] \in Row
    BY <1>1 DEF IInv, TypeOK, RowsAreOlder, RunState, LastRead
  <1>3. log[h].actual = None /\ ~ log[h].expired
    BY <1>1 DEF SerialOK
  <1>4. log' = [log EXCEPT ![h].actual = run[r].price]
    BY <1>3 DEF Settle, UpdateAccuracy
  <1>5. log'[h] = [log[h] EXCEPT !.actual = run[r].price]
    BY <1>2, <1>4 DEF IInv, TypeOK
  <1>6. log'[h].actual = run[r].price /\ log'[h].expired = log[h].expired
    BY <1>2, <1>5 DEF Row
  <1>7. "close_trade" \in Nodes /\ Goto(r, "close_trade")
    BY DEF Nodes, Settle
  <1>8. run'[r] = At("close_trade", run[r].ref, run[r].price, run[r].last, run[r].due)
    BY <1>7, GotoStep
  <1>9. run'[r].last = run[r].last /\ run'[r].price = run[r].price
    BY <1>8 DEF At
  <1>10. QED BY <1>2, <1>3, <1>4, <1>6, <1>9

LEMMA SerialCounts ==
    ASSUME IInv, SerialOK, [Next]_vars
    PROVE  NeverSettledAndExpired'
  <1> SUFFICES ASSUME NEW h \in Hours PROVE ~ (Settled(h) /\ Expired(h))'
    BY DEF NeverSettledAndExpired
  <1>1. ~ (Settled(h) /\ Expired(h))
    BY DEF SerialOK, NeverSettledAndExpired
  <1>2. log \in [Hours -> Row \cup {None}]
    BY DEF IInv, TypeOK
  <1>3. ASSUME NEW r \in Runs, Settle(r) PROVE ~ (Settled(h) /\ Expired(h))'
    <2>1. CASE h = run[r].last.hour
      BY <1>3, <2>1, SettleWaiting DEF Expired
    <2>2. CASE h # run[r].last.hour
      BY <1>1, <1>2, <1>3, <2>2, SettleWaiting DEF Settled, Expired
    <2>3. QED BY <2>1, <2>2
  <1>4. ASSUME NEW r \in Runs, Save(r) PROVE ~ (Settled(h) /\ Expired(h))'
    <2>1. PICK t \in Trends : log' = [log EXCEPT ![now] = Upserted(run[r].price, t)]
      BY <1>4 DEF Save
    <2>2. CASE h = now
      <3>1. log'[h].expired = FALSE
        BY <1>2, <2>1, <2>2 DEF Upserted
      <3>2. QED BY <3>1 DEF Expired
    <2>3. CASE h # now
      BY <1>1, <1>2, <2>1, <2>3 DEF Settled, Expired
    <2>4. QED BY <2>2, <2>3
  <1>5. ASSUME NEW r \in Runs, FlagRow(r) PROVE ~ (Settled(h) /\ Expired(h))'
    <2>1. PICK g \in run[r].due :
             log' = IF log[g].actual = None THEN [log EXCEPT ![g].expired = TRUE] ELSE log
      BY <1>5 DEF FlagRow
    <2>2. g \in Hours /\ log[g] # None /\ log[g] \in Row
      BY <1>2 DEF IInv, TypeOK, RowsAreOlder, RunState
    <2>3. CASE log[g].actual = None /\ h = g
      <3>1. log'[h] = [log[h] EXCEPT !.expired = TRUE]
        BY <1>2, <2>1, <2>3
      <3>2. log'[h].actual = None
        BY <2>2, <2>3, <3>1 DEF Row
      <3>3. QED BY <3>2 DEF Settled
    <2>4. CASE log[g].actual # None \/ h # g
      <3>1. log'[h] = log[h]
        BY <1>2, <2>1, <2>4
      <3>2. QED BY <1>1, <3>1 DEF Settled, Expired
    <2>5. QED BY <2>3, <2>4
  <1>6. CASE log' = log
    BY <1>1, <1>6 DEF Settled, Expired
  <1>7. ASSUME NEW r \in Runs, RunStep(r) \/ Crash(r), ~ Settle(r), ~ Save(r), ~ FlagRow(r)
        PROVE  log' = log
    BY <1>7 DEF RunStep, GraphStep, Store, Begin, SkipSymbol, CheckPrice, OutlierReading,
        ReadDue, NothingDue, CloseTrade, CloseFails, Ignore, CutByBudget, Analyze, OpenTrade,
        NoTrade, SaveSnapshot, SymbolFails, ReadOverdue, ExpireDone, Crash
  <1>8. Tick \/ UNCHANGED vars => log' = log
    BY DEF Tick, vars
  <1>9. QED BY <1>3, <1>4, <1>5, <1>6, <1>7, <1>8 DEF Next

LEMMA SerialExits ==
    ASSUME IInv, SerialOK, [Next]_vars
    PROVE  ExitIsSettlement'
  <1> SUFFICES ASSUME NEW h \in Hours, Closed(h)' PROVE trade'[h].exit = log'[h].actual
    BY DEF ExitIsSettlement
  <1>1. /\ log \in [Hours -> Row \cup {None}]
        /\ trade \in [Hours -> Trade \cup {None}]
    BY DEF IInv, TypeOK
  <1>2. ASSUME Closed(h), trade'[h] = trade[h] PROVE trade'[h].exit = log'[h].actual
    <2>1. Settled(h) /\ trade[h].exit = log[h].actual
      BY <1>2 DEF IInv, LedgerNeverAhead, SerialOK, ExitIsSettlement
    <2>2. log'[h] = log[h]
      BY <2>1, LogWriters
    <2>3. QED BY <1>2, <2>1, <2>2
  <1>3. ASSUME NEW r \in Runs, CloseTrade(r) PROVE trade'[h].exit = log'[h].actual
    <2>1. /\ run[r].node = "close_trade" /\ log' = log
          /\ log[run[r].last.hour].actual = run[r].price
      BY <1>3 DEF CloseTrade, SerialOK
    <2>2. CASE trade'[h] = trade[h]
      BY <1>2, <2>2 DEF Closed
    <2>3. CASE trade'[h] # trade[h]
      <3>1. h = run[r].last.hour /\ trade'[h].exit = run[r].price
        BY <1>1, <1>3, <2>3 DEF CloseTrade
      <3>2. QED BY <2>1, <3>1
    <2>4. QED BY <2>2, <2>3
  <1>4. ASSUME NEW r \in Runs, OpenTrade(r) PROVE trade'[h].exit = log'[h].actual
    <2>1. CASE trade'[h] = trade[h]
      BY <1>2, <2>1 DEF Closed
    <2>2. CASE trade'[h] # trade[h]
      <3>1. trade'[h].exit = None
        BY <1>1, <1>4, <2>2 DEF OpenTrade
      <3>2. QED BY <3>1 DEF Closed
    <2>3. QED BY <2>1, <2>2
  <1>5. CASE trade' = trade
    BY <1>2, <1>5 DEF Closed
  <1>6. ASSUME NEW r \in Runs, RunStep(r) \/ Crash(r), ~ CloseTrade(r), ~ OpenTrade(r)
        PROVE  trade' = trade
    BY <1>6 DEF RunStep, GraphStep, Store, Begin, SkipSymbol, CheckPrice, OutlierReading,
        ReadDue, NothingDue, Settle, CloseFails, Ignore, CutByBudget, Analyze, Save,
        NoTrade, SaveSnapshot, SymbolFails, ReadOverdue, FlagRow, ExpireDone, Crash
  <1>7. Tick \/ UNCHANGED vars => trade' = trade
    BY DEF Tick, vars
  <1>8. QED BY <1>3, <1>4, <1>5, <1>6, <1>7 DEF Next

LEMMA SerialReads ==
    ASSUME OneRun, IInv, SerialOK, [Next]_vars, NEW q \in Runs
    PROVE  /\ run'[q].node = "settle" =>
                 /\ log'[run'[q].last.hour].actual = None
                 /\ ~ log'[run'[q].last.hour].expired
           /\ run'[q].node = "close_trade" =>
                 /\ log'[run'[q].last.hour].actual = run'[q].price
                 /\ ~ log'[run'[q].last.hour].expired
  <1>1. CASE log' = log /\ run' = run
    BY <1>1 DEF SerialOK
  <1>2. ASSUME RunStep(q) \/ Crash(q), run'[q].node = "settle"
        PROVE  /\ log'[run'[q].last.hour].actual = None
               /\ ~ log'[run'[q].last.hour].expired
    <2>1. ReadDue(q)
      BY <1>2, EntersBy DEF Enters
    <2>2. PICK h \in Hours :
             /\ Due(h)
             /\ run' = [run EXCEPT ![q] =
                           At("settle", run[q].ref, run[q].price, LastPrediction(h), {})]
      BY <2>1 DEF ReadDue
    <2>3. run'[q].last.hour = h
      BY <2>2 DEF At, LastPrediction, IInv, TypeOK
    <2>4. log' = log /\ log[h].actual = None /\ ~ log[h].expired
      BY <2>1, <2>2 DEF ReadDue, Store, Due, Waiting, Expired
    <2>5. QED BY <2>3, <2>4
  <1>3. ASSUME RunStep(q) \/ Crash(q), run'[q].node = "close_trade"
        PROVE  /\ log'[run'[q].last.hour].actual = run'[q].price
               /\ ~ log'[run'[q].last.hour].expired
    BY <1>3, EntersBy, SettleWaiting DEF Enters
  <1>4. CASE Tick \/ UNCHANGED vars
    BY <1>1, <1>4 DEF Tick, vars
  <1>5. ASSUME NEW r \in Runs, RunStep(r) \/ Crash(r) PROVE r = q
    BY DEF OneRun
  <1>6. QED BY <1>2, <1>3, <1>4, <1>5 DEF Next

LEMMA SerialInduction ==
    ASSUME OneRun
    PROVE  /\ Init => SerialOK
           /\ IInv /\ SerialOK /\ [Next]_vars => SerialOK'
  <1>1. Init => SerialOK
    BY DEF Init, SerialOK, NeverSettledAndExpired, ExitIsSettlement, Settled, Expired, Closed,
           Idle, At
  <1>2. IInv /\ SerialOK /\ [Next]_vars => SerialOK'
    BY SerialCounts, SerialExits, SerialReads DEF SerialOK
  <1>3. QED BY <1>1, <1>2

(* One run at a time, a prediction is scored or expires, never both. *)
THEOREM ScoredOrExpired == OneRun => (Spec => []NeverSettledAndExpired)
  <1>1. ASSUME OneRun PROVE Spec => []NeverSettledAndExpired
    <2>1. Init => SerialOK
      BY <1>1, SerialInduction
    <2>2. IInv /\ SerialOK /\ [Next]_vars => SerialOK'
      BY <1>1, SerialInduction
    <2>3. SerialOK => NeverSettledAndExpired
      BY DEF SerialOK
    <2>4. QED BY <2>1, <2>2, <2>3, Invariance, PTL DEF Spec
  <1>2. QED BY <1>1

(* One run at a time, a position closes at the settlement's price. *)
THEOREM ExitPrice == OneRun => (Spec => []ExitIsSettlement)
  <1>1. ASSUME OneRun PROVE Spec => []ExitIsSettlement
    <2>1. Init => SerialOK
      BY <1>1, SerialInduction
    <2>2. IInv /\ SerialOK /\ [Next]_vars => SerialOK'
      BY <1>1, SerialInduction
    <2>3. SerialOK => ExitIsSettlement
      BY DEF SerialOK
    <2>4. QED BY <2>1, <2>2, <2>3, Invariance, PTL DEF Spec
  <1>2. QED BY <1>1

-----------------------------------------------------------------------------
(* No move is absorbed. *)

(* The reference a run in the graph holds is the newest snapshot's. *)
HoldsReference(r) ==
    IF snap = None THEN run[r].ref = None
    ELSE /\ run[r].ref # None /\ run[r].ref.price = snap.price
         /\ run[r].ref.stale => Age(snap.hour) > RefMaxAge

(* What one process has to show for MovesKept. *)
KeepsMove(r) ==
    /\ run[r].node \in InGraph => HoldsReference(r)
    /\ run[r].node = "save" => Passes(r)
    /\ run[r].node = "open_trade" /\ snap # None => Recorded(r)
    /\ run[r].node = "save_snapshot" /\ Passes(r) => Recorded(r)

LEMMA SplitMovesKept ==
    MovesKept <=> (snap # None => snap.hour <= now) /\ \A r \in Runs : KeepsMove(r)
  BY DEF MovesKept, KeepsMove, HoldsReference

LEMMA SplitMovesKeptNext ==
    MovesKept' <=> ((snap # None => snap.hour <= now)' /\ \A r \in Runs : KeepsMove(r)')
  BY DEF MovesKept, KeepsMove, HoldsReference

(* A node that is left for good relies on nothing. *)
LEMMA OutsideKeeps ==
    ASSUME NEW r \in Runs, run'[r].node \notin InGraph
    PROVE  KeepsMove(r)'
  BY DEF KeepsMove, InGraph

(* A step inside the graph that leaves reference, price, snapshot and      *)
(* clock alone.                                                            *)
LEMMA SameReference ==
    ASSUME NEW r \in Runs, MovesKept, run[r].node \in InGraph,
           run'[r].ref = run[r].ref, snap' = snap, now' = now
    PROVE  HoldsReference(r)'
  BY SplitMovesKept DEF KeepsMove, HoldsReference, Age

(* The nodes before the gate only have to hold the reference. *)
LEMMA BeforeGateKeeps ==
    ASSUME NEW r \in Runs, run'[r].node \notin {"save", "open_trade", "save_snapshot"},
           HoldsReference(r)'
    PROVE  KeepsMove(r)'
  BY DEF KeepsMove

LEMMA GoesOn ==
    ASSUME IInv, NEW r \in Runs, NEW n \in Nodes, Goto(r, n)
    PROVE  /\ run'[r].node = n /\ run'[r].ref = run[r].ref
           /\ run'[r].price = run[r].price /\ run'[r].last = run[r].last
  <1>1. run'[r] = At(n, run[r].ref, run[r].price, run[r].last, run[r].due)
    BY GotoStep
  <1>2. QED BY <1>1 DEF At

LEMMA MoveBegin ==
    ASSUME IInv, NEW r \in Runs, Begin(r) PROVE KeepsMove(r)'
  <1>1. /\ run'[r].node = "check_price" /\ run'[r].ref = Reference
        /\ snap' = snap /\ now' = now
    BY DEF Begin, At, IInv, TypeOK, Store
  <1>2. HoldsReference(r)'
    <2>1. CASE snap = None
      BY <1>1, <2>1 DEF HoldsReference, Reference
    <2>2. CASE snap # None
      <3>1. snap.price \in Prices /\ (Age(snap.hour) > RefMaxAge) \in BOOLEAN
        BY <2>2 DEF IInv, TypeOK
      <3>2. Reference = [price |-> snap.price, stale |-> Age(snap.hour) > RefMaxAge]
        BY <2>2 DEF Reference
      <3>3. Reference # None
        <4> DEFINE stale == Age(snap.hour) > RefMaxAge
        <4>1. Reference = [price |-> snap.price, stale |-> stale] /\ stale \in BOOLEAN
          BY <3>1, <3>2
        <4> HIDE DEF stale
        <4>2. [price |-> snap.price, stale |-> stale] \in [price : Prices, stale : BOOLEAN]
          BY <3>1, <4>1
        <4>3. QED BY <4>1, <4>2, ReferenceAssumption
      <3>4. Reference.price = snap.price /\ (Reference.stale <=> Age(snap.hour) > RefMaxAge)
        BY <3>2
      <3>5. Age(snap.hour)' = Age(snap.hour)
        BY <1>1 DEF Age
      <3>6. QED BY <1>1, <2>2, <3>3, <3>4, <3>5 DEF HoldsReference
    <2>3. QED BY <2>1, <2>2
  <1>3. QED BY <1>1, <1>2, BeforeGateKeeps

LEMMA MoveBeforeGate ==
    ASSUME IInv, MovesKept, NEW r \in Runs,
           CheckPrice(r) \/ ReadDue(r) \/ NothingDue(r) \/ Settle(r) \/ CloseTrade(r)
              \/ CloseFails(r)
    PROVE  KeepsMove(r)'
  <1>1. "gate" \in Nodes /\ "close_trade" \in Nodes
    BY DEF Nodes
  <1>2. snap' = snap /\ now' = now /\ run[r].node \in InGraph
    BY DEF CheckPrice, ReadDue, NothingDue, Settle, CloseTrade, CloseFails, Store, InGraph
  <1>3. /\ run'[r].ref = run[r].ref
        /\ run'[r].node \notin {"save", "open_trade", "save_snapshot"}
    <2>1. run \in [Runs -> RunState]
      BY DEF IInv, TypeOK
    <2>2. CASE CheckPrice(r) \/ ReadDue(r)
      BY <2>1, <2>2 DEF CheckPrice, ReadDue, At
    <2>3. CASE NothingDue(r) \/ CloseTrade(r) \/ CloseFails(r)
      <3>1. Goto(r, "gate")
        BY <2>3 DEF NothingDue, CloseTrade, CloseFails
      <3>2. QED BY <1>1, <3>1, GoesOn
    <2>4. CASE Settle(r)
      <3>1. Goto(r, "close_trade")
        BY <2>4 DEF Settle
      <3>2. QED BY <1>1, <3>1, GoesOn
    <2>5. QED BY <2>2, <2>3, <2>4
  <1>4. QED BY <1>2, <1>3, SameReference, BeforeGateKeeps

(* Passes depends on the reference and the price of the run only. *)
LEMMA SamePasses ==
    ASSUME NEW r \in Runs, run'[r].ref = run[r].ref, run'[r].price = run[r].price
    PROVE  Passes(r)' <=> Passes(r)
  BY DEF Passes, HasFresh

LEMMA MoveGate ==
    ASSUME IInv, MovesKept, NEW r \in Runs, Ignore(r) \/ Analyze(r)
    PROVE  KeepsMove(r)'
  <1>1. "save" \in Nodes /\ "save_snapshot" \in Nodes
    BY DEF Nodes
  <1>2. snap' = snap /\ now' = now /\ run[r].node \in InGraph
    BY DEF Ignore, Analyze, Store, InGraph
  <1>3. CASE Ignore(r)
    <2>1. Goto(r, "save_snapshot") /\ ~ Passes(r)
      BY <1>3 DEF Ignore
    <2>2. /\ run'[r].node = "save_snapshot" /\ run'[r].ref = run[r].ref
          /\ run'[r].price = run[r].price
      BY <1>1, <2>1, GoesOn
    <2>3. ~ Passes(r)' /\ HoldsReference(r)'
      BY <1>2, <2>1, <2>2, SamePasses, SameReference
    <2>4. QED BY <2>2, <2>3 DEF KeepsMove
  <1>4. CASE Analyze(r)
    <2>1. Goto(r, "save") /\ Passes(r)
      BY <1>4 DEF Analyze
    <2>2. /\ run'[r].node = "save" /\ run'[r].ref = run[r].ref
          /\ run'[r].price = run[r].price
      BY <1>1, <2>1, GoesOn
    <2>3. Passes(r)' /\ HoldsReference(r)'
      BY <1>2, <2>1, <2>2, SamePasses, SameReference
    <2>4. QED BY <2>2, <2>3 DEF KeepsMove
  <1>5. QED BY <1>3, <1>4

(* The saved prediction records the move that passed the gate. *)
LEMMA MoveSaved ==
    ASSUME IInv, MovesKept, NEW r \in Runs, Save(r)
    PROVE  KeepsMove(r)'
  <1>1. PICK t \in Trends :
          /\ log' = [log EXCEPT ![now] = Upserted(run[r].price, t)]
          /\ run' = [run EXCEPT ![r] =
                        At("open_trade", run[r].ref, run[r].price,
                           [hour |-> now, price |-> run[r].price, trend |-> t], {})]
    BY DEF Save
  <1>2. /\ run'[r].node = "open_trade" /\ run'[r].ref = run[r].ref
        /\ run'[r].price = run[r].price
    BY <1>1 DEF At, IInv, TypeOK
  <1>3. snap' = snap /\ now' = now /\ run[r].node \in InGraph
    BY DEF Save, InGraph
  <1>4. ASSUME snap # None PROVE Recorded(r)'
    <2>1. now \in Hours /\ log'[now] = Upserted(run[r].price, t)
      BY <1>1 DEF IInv, TypeOK
    <2>2. Upserted(run[r].price, t).price = run[r].price
      BY DEF Upserted
    <2>3. log'[now] # None
      <3>1. IInv'
        BY SaveKeeps
      <3>2. Upserted(run[r].price, t) \in Row
        <4>1. run[r].price \in Prices
          BY DEF IInv, TypeOK, RunState, Save, Priced, InGraph
        <4>2. (IF log[now] = None THEN None ELSE log[now].actual) \in Prices \cup {None}
          BY <2>1 DEF IInv, TypeOK, Row
        <4>3. QED BY <4>1, <4>2 DEF Upserted, Row
      <3>3. QED BY <2>1, <3>2, NoneAssumption
    <2>4. snap.hour <= now
      BY <1>4, SplitMovesKept
    <2>5. snap'.hour <= now /\ now <= now'
      BY <1>3, <2>1, <2>4 DEF Hours
    <2>6. QED BY <1>2, <2>1, <2>2, <2>3, <2>5 DEF Recorded
  <1>5. HoldsReference(r)'
    BY <1>2, <1>3, SameReference
  <1>6. QED BY <1>2, <1>3, <1>4, <1>5 DEF KeepsMove

LEMMA MoveAfterSave ==
    ASSUME IInv, MovesKept, NEW r \in Runs, OpenTrade(r) \/ NoTrade(r)
    PROVE  KeepsMove(r)'
  <1>1. "save_snapshot" \in Nodes /\ Goto(r, "save_snapshot")
    BY DEF Nodes, OpenTrade, NoTrade
  <1>2. /\ run'[r].node = "save_snapshot" /\ run'[r].ref = run[r].ref
        /\ run'[r].price = run[r].price
    BY <1>1, GoesOn
  <1>3. /\ snap' = snap /\ now' = now /\ log' = log /\ run[r].node = "open_trade"
        /\ run[r].node \in InGraph
    BY DEF OpenTrade, NoTrade, Store, InGraph
  <1>4. KeepsMove(r)
    BY SplitMovesKept
  <1>5. HoldsReference(r)'
    BY <1>2, <1>3, SameReference
  <1>6. ASSUME Passes(r)' PROVE Recorded(r)'
    <2>1. Passes(r)
      BY <1>2, <1>6, SamePasses
    <2>2. snap # None
      BY <1>3, <1>4, <2>1 DEF KeepsMove, HoldsReference, Passes, HasFresh
    <2>3. Recorded(r)
      BY <1>3, <1>4, <2>2 DEF KeepsMove
    <2>4. QED BY <1>2, <1>3, <2>3 DEF Recorded
  <1>7. QED BY <1>2, <1>5, <1>6 DEF KeepsMove

(* The clock only makes a reference older. *)
LEMMA MoveTick ==
    ASSUME IInv, MovesKept, Tick
    PROVE  MovesKept'
  <1>1. /\ now' = now + 1 /\ log' = log /\ snap' = snap /\ run' = run
        /\ now \in Int /\ RefMaxAge \in Int
    BY AgesAssumption DEF Tick, IInv, TypeOK, Hours
  <1>2. snap # None => snap.hour \in Int /\ snap.hour <= now
    BY SplitMovesKept DEF IInv, TypeOK, Hours
  <1>3. (snap # None => snap.hour <= now)'
    BY <1>1, <1>2
  <1>4. ASSUME NEW r \in Runs PROVE KeepsMove(r)'
    <2>1. KeepsMove(r)
      BY SplitMovesKept
    <2>2. HoldsReference(r) => HoldsReference(r)'
      <3>1. CASE snap = None
        BY <1>1, <3>1 DEF HoldsReference
      <3>2. CASE snap # None
        <4>1. Age(snap.hour) > RefMaxAge => Age(snap.hour)' > RefMaxAge
          BY <1>1, <1>2, <3>2 DEF Age
        <4>2. QED BY <1>1, <3>2, <4>1 DEF HoldsReference
      <3>3. QED BY <3>1, <3>2
    <2>3. Recorded(r) => Recorded(r)'
      BY <1>1 DEF Recorded, Hours
    <2>4. Passes(r)' <=> Passes(r)
      BY <1>1, SamePasses
    <2>5. QED BY <1>1, <2>1, <2>2, <2>3, <2>4 DEF KeepsMove
  <1>5. QED BY <1>3, <1>4, SplitMovesKeptNext

(* Every other step takes its process out of the graph, or is taken        *)
(* outside of it.                                                          *)
LEMMA MoveElsewhere ==
    ASSUME IInv, NEW r \in Runs,
           \/ SkipSymbol(r) \/ OutlierReading(r) \/ CutByBudget(r) \/ SymbolFails(r)
           \/ SaveSnapshot(r) \/ ReadOverdue(r) \/ FlagRow(r) \/ ExpireDone(r) \/ Crash(r)
    PROVE  KeepsMove(r)'
  <1>1. run \in [Runs -> RunState]
    BY DEF IInv, TypeOK
  <1>2. CASE \/ SkipSymbol(r) \/ OutlierReading(r) \/ CutByBudget(r) \/ SymbolFails(r)
             \/ SaveSnapshot(r)
    <2>1. run'[r].node = "overdue"
      BY <1>1, <1>2 DEF SkipSymbol, OutlierReading, CutByBudget, SymbolFails, SaveSnapshot,
                        Done, LastStep, At
    <2>2. QED BY <2>1, OutsideKeeps DEF InGraph
  <1>3. CASE ReadOverdue(r) \/ FlagRow(r)
    <2>1. run'[r].node = "expire"
      BY <1>1, <1>3 DEF ReadOverdue, FlagRow, At, RunState
    <2>2. QED BY <2>1, OutsideKeeps DEF InGraph
  <1>4. CASE ExpireDone(r) \/ Crash(r)
    <2>1. run'[r].node = "idle"
      BY <1>1, <1>4 DEF ExpireDone, Crash, Idle, At
    <2>2. QED BY <2>1, OutsideKeeps DEF InGraph
  <1>5. QED BY <1>2, <1>3, <1>4

LEMMA MoveStep ==
    ASSUME IInv, MovesKept, NEW r \in Runs, RunStep(r) \/ Crash(r)
    PROVE  KeepsMove(r)'
  BY MoveBegin, MoveBeforeGate, MoveGate, MoveSaved, MoveAfterSave, MoveElsewhere
     DEF RunStep, GraphStep

(* The snapshot is written with the hour of the clock and with nothing     *)
(* else: only by SaveSnapshot.                                             *)
LEMMA SnapshotWriters ==
    ASSUME NEW r \in Runs, RunStep(r) \/ Crash(r)
    PROVE  now' = now /\ (snap' = snap \/ SaveSnapshot(r))
  BY DEF RunStep, GraphStep, Store, Begin, SkipSymbol, CheckPrice, OutlierReading,
         ReadDue, NothingDue, Settle, CloseTrade, CloseFails, Ignore, CutByBudget, Analyze,
         Save, OpenTrade, NoTrade, SaveSnapshot, SymbolFails, ReadOverdue, FlagRow,
         ExpireDone, Crash

LEMMA NextMovesKept ==
    ASSUME OneRun, IInv, MovesKept, [Next]_vars
    PROVE  MovesKept'
  <1>1. CASE Tick
    BY <1>1, MoveTick
  <1>2. CASE UNCHANGED vars
    BY <1>2 DEF vars, MovesKept, Recorded, Passes, HasFresh, Age
  <1>3. ASSUME NEW r \in Runs, RunStep(r) \/ Crash(r) PROVE MovesKept'
    <2>1. KeepsMove(r)'
      BY <1>3, MoveStep
    <2>2. \A q \in Runs : KeepsMove(q)'
      <3> SUFFICES ASSUME NEW q \in Runs PROVE KeepsMove(q)'
        OBVIOUS
      <3>1. q = r
        BY DEF OneRun
      <3>2. QED BY <2>1, <3>1
    <2>3. (snap # None => snap.hour <= now)'
      <3>1. CASE snap' = snap
        BY <1>3, <3>1, SnapshotWriters, SplitMovesKept
      <3>2. CASE SaveSnapshot(r)
        BY <3>2 DEF SaveSnapshot, IInv, TypeOK, Hours
      <3>3. QED BY <1>3, <3>1, <3>2, SnapshotWriters
    <2>4. QED BY <2>2, <2>3, SplitMovesKeptNext
  <1>4. QED BY <1>1, <1>2, <1>3 DEF Next

(* When the reference makes a move past the threshold, the run that saves  *)
(* it passed the gate, and its prediction carries the new price.           *)
LEMMA ReferenceMoves ==
    ASSUME IInv, MovesKept, [Next]_vars, snap # None, snap' # snap,
           Age(snap.hour) <= RefMaxAge, Moves(snap.price, snap'.price)
    PROVE  \E h \in snap.hour .. now : log[h] # None /\ log[h].price = snap'.price
  <1>1. PICK r \in Runs : SaveSnapshot(r)
    BY SnapshotWriters DEF Next, Tick, vars
  <1>2. /\ run[r].node = "save_snapshot" /\ run[r].node \in InGraph
        /\ snap'.price = run[r].price
    BY <1>1 DEF SaveSnapshot, InGraph
  <1>3. KeepsMove(r)
    BY SplitMovesKept
  <1>4. /\ run[r].ref # None /\ run[r].ref.price = snap.price
        /\ run[r].ref.stale => Age(snap.hour) > RefMaxAge
    BY <1>2, <1>3 DEF KeepsMove, HoldsReference
  <1>5. ~ (Age(snap.hour) > RefMaxAge)
    BY AgesAssumption DEF Age, IInv, TypeOK, Hours
  <1>6. Passes(r)
    BY <1>2, <1>4, <1>5 DEF Passes, HasFresh
  <1>7. PICK h \in Hours : /\ snap.hour <= h /\ h <= now
                           /\ log[h] # None /\ log[h].price = run[r].price
    BY <1>2, <1>3, <1>6 DEF KeepsMove, Recorded
  <1>8. h \in snap.hour .. now
    BY <1>7 DEF Hours, IInv, TypeOK
  <1>9. QED BY <1>2, <1>7, <1>8

(* One run at a time, a move past the threshold from a fresh reference is  *)
(* never absorbed: whatever fails, is cut or crashes, the reference makes  *)
(* such a move only behind a prediction that carries the new price.        *)
THEOREM NoMoveIsLost == OneRun => (Spec => NoMoveAbsorbed)
  <1>1. ASSUME OneRun PROVE Spec => NoMoveAbsorbed
    <2>1. Init => MovesKept
      BY DEF Init, MovesKept, Idle, At, InGraph
    <2>2. IInv /\ MovesKept /\ [Next]_vars => MovesKept'
      BY <1>1, NextMovesKept
    <2>3. IInv /\ MovesKept /\ [Next]_vars =>
            [ (snap # None /\ snap' # snap /\ Age(snap.hour) <= RefMaxAge
                 /\ Moves(snap.price, snap'.price))
              => \E h \in snap.hour .. now : log[h] # None /\ log[h].price = snap'.price ]_vars
      BY ReferenceMoves
    <2>4. QED BY <2>1, <2>2, <2>3, Invariance, PTL DEF Spec, NoMoveAbsorbed
  <1>2. QED BY <1>1
=============================================================================
