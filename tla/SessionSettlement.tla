-------------------------- MODULE SessionSettlement --------------------------
(***************************************************************************)
(* What the quotes of a prediction and of its settlement say of the        *)
(* sessions of the exchange.  check_price fetches a quote and reads the    *)
(* clock after it; the row of the prediction is saved later, and a run     *)
(* repeated in its hour replaces the price but not the stamp of the row.   *)
(* reflect reads the clock once more.  The market opens or closes between  *)
(* any two of these steps.  A price is represented by the time of its      *)
(* trade, so a property can ask which trade a stored price is.             *)
(***************************************************************************)
EXTENDS Integers, FiniteSetsExt

CONSTANTS None,
          LastSession,    \* bound: the last day a session may be held
          Calendars       \* closed days, and days that close early

(* A day has five moments: before the open, open, early close, close, and  *)
(* the evening.  Day 0 and the day after the last one have sessions.       *)
Moments == 5
Days == 0 .. LastSession + 1
Times == 1 .. Moments * (LastSession + 1) - 1
DayOf(t) == t \div Moments

(* Days of a calendar are in 1 .. LastSession.                             *)

VARIABLES sessions_of,   \* the calendar of the behaviour
          moment,        \* the time
          current_price, \* None, or what the predicting run read
          prediction,    \* None, or its row
          fetched,       \* None, or the quote of the settling run
          price_checked, \* None, or what check_price put into its state
          settled        \* None, or the columns the settlement writes

vars == <<sessions_of, moment, current_price, prediction, fetched,
          price_checked, settled>>

-----------------------------------------------------------------------------
is_trading_day(d) == d \in Days /\ d \notin sessions_of.closed

opens_at(d) == Moments * d + 1

closes_at(d) == Moments * d + (IF d \in sessions_of.early THEN 2 ELSE 3)

TradingDays == {d \in Days : is_trading_day(d)}

(* The day of the session whose opening is the first after t, and of the   *)
(* last one that opened until t.                                           *)
next_open(t) == Min({d \in TradingDays : opens_at(d) > t})
last_started_session(t) == Max({d \in TradingDays : opens_at(d) <= t})

Trades == UNION {opens_at(d) .. closes_at(d) : d \in TradingDays}

(* The quote of a provider that knows the trades until t: price, open of   *)
(* its session, close of the session before (none on day 0).               *)
QuoteUntil(t) ==
    LET quoted_at == Max({u \in Trades : u <= t})
        session   == DayOf(quoted_at)
        earlier   == {d \in TradingDays : d < session}
    IN  [quoted_at |-> quoted_at,
         open_price |-> opens_at(session),
         prev_close |-> IF earlier = {} THEN None ELSE closes_at(Max(earlier))]

ByDate(quoted_at, now) == DayOf(quoted_at) < DayOf(now) \* mutant: by the date

(* A quote of a session before the last one that opened.                   *)
is_stale(quoted_at, now) == quoted_at < opens_at(last_started_session(now))

settles_on_stale_quote(quoted_at) ==
    quoted_at < opens_at(next_open(prediction.created_at))

(* The close of the last session that is over, with its day; None when the *)
(* quote does not say whose close it has.                                  *)
session_close_of(quote, now) ==
    LET session == last_started_session(now)
    IN  CASE quote.quoted_at < opens_at(session) -> None
          [] quote.quoted_at >= opens_at(session) /\ now >= closes_at(session) ->
                [price |-> quote.quoted_at, session_day |-> session]
          [] OTHER ->
                IF quote.prev_close = None THEN None
                ELSE [price |-> quote.prev_close,
                      session_day |-> last_started_session(opens_at(session) - 1)]

settles(close) == close.session_day >= next_open(prediction.created_at)

in_session(t) == t < closes_at(last_started_session(t))

(* The open of the first session after the stamp, while the quote is of    *)
(* that session; for a stamp within a session the prediction's own price.  *)
executable_entry(quote, now) ==
    LET session == last_started_session(now)
    IN  CASE in_session(prediction.created_at) -> prediction.price_at_prediction
          [] OTHER -> IF session = next_open(prediction.created_at)
                         /\ quote.quoted_at >= opens_at(session)
                      THEN quote.open_price ELSE None

-----------------------------------------------------------------------------
Init ==
    /\ sessions_of \in Calendars /\ moment \in Times
    /\ current_price = None /\ prediction = None
    /\ fetched = None /\ price_checked = None /\ settled = None

(* A run lasts minutes: it sees one opening or closing, at most.           *)
TimePasses ==
    /\ settled = None /\ moment + 1 \in Times
    /\ current_price # None => moment = current_price.at
    /\ moment' = moment + 1
    /\ UNCHANGED <<sessions_of, current_price, prediction, fetched,
                   price_checked, settled>>

(* Two times that can be in one hour of the clock.  The exchange opens     *)
(* within one; its sessions end on the hour, and the evening follows.      *)
OneHour(t, u) == u = t \/ (u = t + 1 /\ t % Moments \in {0, 3})

(* What a run read in check_price, until now, to predict with.             *)
PriceRead(quote, now) ==
    [price |-> quote.quoted_at, at |-> now,
     stale_quote |-> is_stale(quote.quoted_at, now)]

(* The provider may lag behind the trades.  A run of another hour saves    *)
(* another row.                                                            *)
ReadPrice ==
    /\ current_price = None /\ fetched = None
    /\ prediction # None => OneHour(prediction.created_at, moment)
    /\ \E t \in Times :
          t <= moment /\ current_price' = PriceRead(QuoteUntil(t), moment)
    /\ UNCHANGED <<sessions_of, moment, prediction, fetched, price_checked, settled>>

(* The row is stamped by the database when it is inserted.  The upsert of  *)
(* a run of the same hour replaces what the run says, and not the stamp.   *)
Row(created_at, saved_at, read) ==
    [created_at |-> created_at, saved_at |-> saved_at,
     price_at_prediction |-> read.price, priced_at |-> read.at,
     stale_quote |-> read.stale_quote]

SavePrediction ==
    /\ current_price # None
    /\ \/ prediction = None /\ prediction' = Row(moment, moment, current_price)
       \/ /\ prediction # None /\ OneHour(prediction.created_at, moment)
          /\ prediction' = Row(prediction.created_at, moment, current_price)
    /\ current_price' = None
    /\ UNCHANGED <<sessions_of, moment, fetched, price_checked, settled>>

(* The run fails, is ignored by the gate, or saves the row of a new hour.  *)
RunEnds ==
    /\ current_price # None /\ current_price' = None
    /\ UNCHANGED <<sessions_of, moment, prediction, fetched, price_checked, settled>>

(* A run of another hour settles it (reflection_min_age_hours).            *)
GetQuote ==
    /\ prediction # None /\ moment > prediction.saved_at
    /\ current_price = None /\ fetched = None
    /\ \E t \in Times : t <= moment /\ fetched' = QuoteUntil(t)
    /\ UNCHANGED <<sessions_of, moment, current_price, prediction, price_checked, settled>>

CheckPrice ==
    /\ fetched # None /\ price_checked = None
    /\ price_checked' = [at |-> moment,
                         session_close |-> session_close_of(fetched, moment)]
    /\ UNCHANGED <<sessions_of, moment, current_price, prediction, fetched, settled>>

(* The column keeps the TRUE of the save.                                  *)
Settlement ==
    LET close == price_checked.session_close
    IN  IF settles_on_stale_quote(fetched.quoted_at)
        THEN [stale_quote |-> TRUE, session_close |-> None, entry_price |-> None]
        ELSE [stale_quote |-> prediction.stale_quote,
              session_close |-> IF close # None /\ settles(close) THEN close ELSE None,
              entry_price |-> executable_entry(fetched, moment)]

Reflect ==
    /\ price_checked # None /\ settled = None
    /\ settled' = Settlement
    /\ UNCHANGED <<sessions_of, moment, current_price, prediction, fetched, price_checked>>

Next ==
    \/ TimePasses
    \/ ReadPrice
    \/ SavePrediction
    \/ RunEnds
    \/ GetQuote
    \/ CheckPrice
    \/ Reflect
    \/ /\ settled # None \/ moment + 1 \notin Times   \* the bound
       /\ UNCHANGED vars

Spec == Init /\ [][Next]_vars

-----------------------------------------------------------------------------
TypeOK ==
    /\ sessions_of \in Calendars /\ moment \in Times
    /\ current_price # None => current_price.price \in Trades
    /\ prediction # None => prediction.created_at \in Times
    /\ fetched # None => fetched.quoted_at \in Trades
    /\ price_checked # None => price_checked.at \in Times
    /\ settled # None => settled.stale_quote \in BOOLEAN

(* The quote of the settlement is behind: trades between its own and the   *)
(* reading of the clock, by a slow provider or because the market went on. *)
QuoteIsBehind ==
    \E u \in Trades : fetched.quoted_at < u /\ u <= price_checked.at

OpenedWithin(t, u) == \E d \in TradingDays : t < opens_at(d) /\ opens_at(d) <= u

(* A price of after the last save of the row.  A run repeated in the hour  *)
(* of the opening may have read the price its settlement still answers.    *)
AfterThePrediction(price) ==
    \/ price > prediction.saved_at
    \/ prediction.saved_at # prediction.created_at /\ QuoteIsBehind

(* The row says a session runs.  Its price is of that session, unless the  *)
(* run read it before the opening, or the column tells it was old then.    *)
OfTheRunningSession(price) ==
    /\ price <= prediction.saved_at
    /\ \/ opens_at(last_started_session(prediction.created_at)) <= price
       \/ prediction.stale_quote
       \/ prediction.priced_at < opens_at(last_started_session(prediction.created_at))

(* The first trade after the stamp of the row.                             *)
FirstToTrade(price) ==
    /\ prediction.created_at < price
    /\ \A u \in Trades : u < price => u <= prediction.created_at

(* A settlement counts exactly if no session had opened since the price    *)
(* the prediction was made on when that was read, and one opened after its *)
(* stamp, until the quote; it is then not settled on a price it could have *)
(* been made on.  The close beside it is of such a session too, and of the *)
(* day it names, unless the quote was behind.  The entry price is what the *)
(* prediction was made on, for a stamp in a session, and otherwise the     *)
(* first price to trade after it.                                          *)
SessionPricesFollow ==
    settled # None =>
        LET close == settled.session_close
            entry == settled.entry_price
        IN  /\ ~settled.stale_quote <=>
                  /\ ~OpenedWithin(prediction.price_at_prediction, prediction.priced_at)
                  /\ OpenedWithin(prediction.created_at, fetched.quoted_at)
            /\ ~settled.stale_quote => AfterThePrediction(fetched.quoted_at)
            /\ close # None =>
                  /\ prediction.created_at < opens_at(close.session_day)
                  /\ close.price \in opens_at(close.session_day)
                                     .. closes_at(close.session_day)
                  /\ close.price = closes_at(close.session_day) \/ QuoteIsBehind
                  /\ AfterThePrediction(close.price)
            /\ entry # None =>
                  IF in_session(prediction.created_at)
                  THEN entry = prediction.price_at_prediction /\ OfTheRunningSession(entry)
                  ELSE FirstToTrade(entry)

(* The inductive invariant.  Each step has what the one before it found;   *)
(* the clock has not gone back, and stands still behind the settlement.    *)
IInv ==
    /\ sessions_of \in Calendars /\ moment \in Times
    /\ current_price # None =>
          /\ fetched = None
          /\ \E t, now \in Times :
                /\ t <= now /\ now <= moment /\ moment <= now + 1
                /\ current_price = PriceRead(QuoteUntil(t), now)
    /\ prediction # None =>
          \E created, saved, t, now \in Times :
             /\ OneHour(created, saved) /\ t <= now /\ now <= saved /\ saved <= moment
             /\ prediction = Row(created, saved, PriceRead(QuoteUntil(t), now))
    /\ fetched # None =>
          /\ prediction # None /\ prediction.saved_at < moment
          /\ \E t \in Times : t <= moment /\ fetched = QuoteUntil(t)
    /\ price_checked # None =>
          /\ fetched # None
          /\ \E now \in Times :
                /\ fetched.quoted_at <= now /\ now <= moment
                /\ prediction.saved_at < now
                /\ price_checked = [at |-> now, session_close |-> session_close_of(fetched, now)]
    /\ settled # None => price_checked # None /\ settled = Settlement
=============================================================================
