---------------------------- MODULE AnalystBooks -----------------------------
(***************************************************************************)
(* One machine-run portfolio: that of an analyst, of the arbitrator or of  *)
(* a day trader, and the four kinds of background work that trade in it.   *)
(*                                                                         *)
(* The prediction pipeline publishes a signal and lets the conviction      *)
(* trader open a position on it at once.  The end-of-day settlement opens  *)
(* what the trader missed (the forced buy), then what is left of the       *)
(* analyst's signals (the backfill), then closes what has expired.  Ticks  *)
(* run the stop-loss watcher over analysts and the arbitrator, and the     *)
(* strategies or the closing of the session over day traders.  The monthly *)
(* reset closes everything and tops the cash up.                           *)
(*                                                                         *)
(* Every statement commits on its own, none of the four waits for another, *)
(* and cash, realized profit and status follow the position rows by        *)
(* increments: opening a long pays for it, a short is paid.                *)
(***************************************************************************)
EXTENDS Integers, Sequences, FiniteSets, Sums

CONSTANTS
  Kinds,           \* the kinds of portfolio considered
  Pipelines,       \* prediction runs in flight
  Settlements,     \* settlement runs (cron and admin endpoint)
  Ticks,           \* runs of the watcher or of the day traders' scheduler
  Resets,          \* monthly reset runs (cron and admin endpoint)
  Strengths,       \* strengths of a signal, see Strong and Percent
  Verdicts,        \* what a prediction may say: a direction, at a strength
  Percent,         \* percentage of the balance put on a signal of a strength
  TradePercent,    \* the same for a day trader, times the strategy's multiplier
  InitialBalance,  \* initial_balance, and the target of the monthly reset
  Prices,          \* prices an instrument may have, 0 when it has none
  PaperDays,       \* days a new portfolio stays on paper
  MaxDays,         \* bound: days
  MaxEvents,       \* bound: runs started, failed statements, deaths of the process
  MaxInFlight,     \* bound: runs at the same time
  MaxSignals,      \* bound: signals published
  MaxPositions     \* bound: positions opened

ASSUME ConstantsAssumption ==
  /\ Kinds \subseteq {"analyst", "arbitrator", "day_trader"}
  /\ Strengths \subseteq {"weak", "strong", "certain"}
  /\ Verdicts \subseteq {"up", "down", "flat"} \X Strengths
  /\ Percent \in [Strengths -> 0..100]
  /\ TradePercent \in 0..100
  /\ InitialBalance \in Nat \ {0}
  /\ Prices \subseteq Nat
  /\ {PaperDays, MaxDays, MaxEvents, MaxInFlight, MaxSignals, MaxPositions}
       \subseteq Nat
  /\ \A group \in {Pipelines, Settlements, Ticks, Resets} : IsFiniteSet(group)

Actors == Pipelines \cup Settlements \cup Ticks \cup Resets

VARIABLES
  kind,      \* kind of the portfolio, never changes
  status,    \* status of the portfolio
  cash,      \* current_balance
  realized,  \* total_realized_pnl
  positions, \* the rows of analyst_positions
  signals,   \* the rows of market_predictions
  ledger,    \* bailout_ledger: the top-up of each day that has a row
  today,     \* current_date
  actor,     \* what each run is doing
  drift,     \* history: why cash or profit may differ from the positions
  raced,     \* history: signals two runs were about to open at once
  due,       \* history: signals a settlement has dealt with
  flat,      \* history: positions a closing of the session has dealt with
  judged,    \* history: the cash the status should be the status of
  events     \* runs started and failures so far

books == <<status, cash, realized, positions>>
history == <<drift, raced, due, flat, judged>>
vars == <<kind, books, signals, ledger, today, actor, history, events>>

-----------------------------------------------------------------------------
(* Data *)

Directions == {"long", "short"}

Statuses == {"active", "warning", "probation", "suspended"}

Position == [direction : Directions, quantity : Nat \ {0}, entry : Prices \ {0},
             exit : Prices \cup {0}, paper : BOOLEAN, signal : 0..MaxSignals,
             status : {"open", "closed"}]

Signal == [direction : {"up", "down", "flat"}, strength : Strengths,
           day : 0..MaxDays, paper : BOOLEAN, settled : BOOLEAN]

(* CONVICTION_TRADE_THRESHOLD: a certain signal, at 100, is above it too, but
   above the half-open sizing tiers as well.                               *)
Strong(s) == signals[s].strength \in {"strong", "certain"}

AtLeastZero(n) == IF n > 0 THEN n ELSE 0

calculatePositionSize(balance, price, percent) ==
  IF price = 0 \/ percent = 0 THEN 0
  ELSE AtLeastZero((balance * percent) \div (100 * price))

calculatePnl(p) ==
  p.quantity * (IF p.direction = "long" THEN p.exit - p.entry ELSE p.entry - p.exit)

(* Four fifths, three fifths, two fifths of the initial balance: of the cash,
   whatever is held in positions.                                          *)
determinePortfolioStatus(balance) ==
  IF 5 * balance >= 4 * InitialBalance THEN "active"
  ELSE IF 5 * balance >= 3 * InitialBalance THEN "warning"
  ELSE IF 5 * balance >= 2 * InitialBalance THEN "probation"
  ELSE "suspended"

(* What opening and closing a position move on the cash. *)
Paid(p) == p.quantity * p.entry * (IF p.direction = "short" THEN 1 ELSE -1)
Returned(p) == p.quantity * p.exit * (IF p.direction = "short" THEN -1 ELSE 1)

(* What a run holds between two statements: the order it is about to place,
   the position it is closing, the balance or status it read, the signals or
   positions it still has to treat, the signals as it read them, what it
   will have dealt with.  The SELECTs have no ORDER BY, so what there is to
   treat is a set, and the next one is any of it.                          *)
Idle == [op |-> "idle", pc |-> "idle", signal |-> 0, rows |-> <<>>, direction |-> "long",
         quantity |-> 0, price |-> 0, paper |-> FALSE, position |-> 0,
         balance |-> 0, grade |-> "active", todo |-> {}, seen |-> {}]

OpenPositions == {i \in DOMAIN positions : positions[i].status = "open"}

PositionsOf(s) == {i \in DOMAIN positions : positions[i].signal = s}

Tradable == {s \in DOMAIN signals : /\ signals[s].day = today
                                    /\ signals[s].direction # "flat"
                                    /\ ~signals[s].paper}

Set(a, state) == actor' = [actor EXCEPT ![a] = state]

Sure(balance) == [cash |-> balance, sure |-> TRUE]
Unsure == [cash |-> 0, sure |-> FALSE]

(* The cash has moved: a check still to come will see it, one that has read
   already will write what it read.                                        *)
Judge(a, balance) ==
  LET others == {b \in Actors \ {a} : actor[b].pc \in {"check", "status"}}
  IN judged' =
       IF others = {} THEN judged
       ELSE IF judged.sure /\ \A b \in others : actor[b].pc = "check"
       THEN Sure(balance)
       ELSE Unsure

(* The close just booked is to be judged by this cash. *)
Judged(a, balance) ==
  IF \E b \in Actors \ {a} : actor[b].pc = "status" THEN Unsure ELSE Sure(balance)

(* After a signal or a position is dealt with. *)
Continue(p) ==
  IF p.op = "strategy" THEN Idle
  ELSE IF p.op = "trader" THEN [Idle EXCEPT !.op = "paper", !.pc = "paper", !.signal = p.signal]
  ELSE [Idle EXCEPT !.op = p.op, !.pc = "next", !.todo = p.todo, !.seen = p.seen,
                    !.rows = IF p.todo = {} THEN <<>> ELSE p.rows]

Event ==
  /\ events < MaxEvents
  /\ events' = events + 1

Start(a) ==
  /\ actor[a] = Idle
  /\ Cardinality({b \in Actors : actor[b] # Idle}) < MaxInFlight
  /\ Event

Init ==
  /\ kind \in Kinds
  /\ status = "active"
  /\ cash = InitialBalance
  /\ realized = 0
  /\ positions = <<>>
  /\ signals = <<>>
  /\ ledger = [d \in {} |-> 0]
  /\ today = 0
  /\ actor = [a \in Actors |-> Idle]
  /\ drift = {}
  /\ raced = {}
  /\ due = {}
  /\ flat = {}
  /\ judged = [cash |-> InitialBalance, sure |-> TRUE]
  /\ events = 0

-----------------------------------------------------------------------------
(* Opening *)

(* An analyst has one unsettled signal on the instrument: publishing writes
   over it, with the same id.  The arbitrator's are all rows of their own.  *)
Active == IF kind = "analyst" THEN {s \in DOMAIN signals : ~signals[s].settled} ELSE {}

(* The trader takes a signal up when it is strong, a flat one included. *)
Publish(a, direction, strength) ==
  LET new == [direction |-> direction, strength |-> strength, day |-> today,
              paper |-> FALSE, settled |-> FALSE]
  IN /\ kind # "day_trader"
     /\ Start(a)
     /\ \E s \in IF Active = {} THEN {Len(signals) + 1} ELSE Active :
          /\ s <= MaxSignals
          /\ signals' = IF Active = {} THEN Append(signals, new)
                        ELSE [signals EXCEPT ![s] = new]
          /\ LET p == [Idle EXCEPT !.op = "trader", !.signal = s]
             IN Set(a, IF strength = "weak" THEN Continue(p)
                       ELSE [p EXCEPT !.pc = "portfolio", !.rows = signals'])
     /\ UNCHANGED <<kind, books, ledger, today, history>>

(* The run is over, or it has the analyst's paper configuration predict too:
   over the row just published.  Nobody trades on what a paper row says.
   Once the row is settled the unique key (run, analyst) refuses the paper one. *)
PublishPaper(a) ==
  LET p == actor[a]
  IN /\ p.pc = "paper"
     /\ \/ UNCHANGED signals
        \/ /\ p.signal \in Active
           /\ signals' = [signals EXCEPT ![p.signal].paper = TRUE]
     /\ Set(a, Idle)
     /\ UNCHANGED <<kind, books, ledger, today, history, events>>

(* Mutant: a position of size zero is opened. *)
SizeAnyPosition(a, price) ==
  LET p == actor[a]
      s == p.rows[p.signal]
  IN /\ p.pc = "portfolio"
     /\ Set(a, [p EXCEPT !.pc = IF p.op = "backfill" THEN "insert" ELSE "lookup",
                         !.direction = IF s.direction = "down" THEN "short" ELSE "long",
                         !.quantity = calculatePositionSize(cash, price, Percent[s.strength]),
                         !.price = price])
     /\ UNCHANGED <<kind, books, signals, ledger, today, history, events>>

(* The portfolio is read and the position sized.  Only the backfill looks at
   the paper period and at a suspension.                                   *)
SizePosition(a, price) ==
  LET p == actor[a]
      s == p.rows[p.signal]
      quantity == calculatePositionSize(cash, price, Percent[s.strength])
  IN /\ p.pc = "portfolio"
     /\ Set(a, IF quantity = 0
               THEN Continue([p EXCEPT !.seen = @ \ {p.signal}])
               ELSE [p EXCEPT !.pc = IF p.op = "backfill" THEN "insert" ELSE "lookup",
                              !.direction = IF s.direction = "down" THEN "short" ELSE "long",
                              !.quantity = quantity, !.price = price,
                              !.rows = IF p.todo = {} THEN <<>> ELSE @,
                              !.paper = @ \/ (p.op = "backfill" /\ status = "suspended")])
     /\ UNCHANGED <<kind, books, signals, ledger, today, history, events>>

(* Mutant: the look-up only finds positions that are still open. *)
FindOpenPosition(a) ==
  LET p == actor[a]
  IN /\ p.pc = "lookup"
     /\ Set(a, IF PositionsOf(p.signal) \cap OpenPositions = {}
               THEN [p EXCEPT !.pc = "insert"] ELSE Continue(p))
     /\ UNCHANGED <<kind, books, signals, ledger, today, history, events>>

FindPosition(a) ==
  LET p == actor[a]
  IN /\ p.pc = "lookup"
     /\ Set(a, IF PositionsOf(p.signal) = {}
               THEN [p EXCEPT !.pc = "insert"] ELSE Continue(p))
     /\ UNCHANGED <<kind, books, signals, ledger, today, history, events>>

(* b has looked for a position on the signal and not yet inserted its own. *)
AboutToOpen(b, s) ==
  \/ actor[b].signal = s /\ actor[b].pc = "insert"
  \/ /\ actor[b].op = "backfill"
     /\ \/ s \in actor[b].todo
        \/ actor[b].signal = s /\ actor[b].pc \in {"period", "portfolio"}

InsertPosition(a) ==
  LET p == actor[a]
  IN /\ p.pc = "insert"
     /\ Len(positions) < MaxPositions
     /\ positions' = Append(positions,
          [direction |-> p.direction, quantity |-> p.quantity, entry |-> p.price,
           exit |-> 0, paper |-> p.paper, signal |-> p.signal, status |-> "open"])
     /\ raced' = IF p.signal # 0 /\ \E b \in Actors \ {a} : AboutToOpen(b, p.signal)
                 THEN raced \cup {p.signal} ELSE raced
     /\ Set(a, IF p.paper THEN Continue(p)
               ELSE [p EXCEPT !.pc = "cash", !.position = Len(positions) + 1])
     /\ UNCHANGED <<kind, status, cash, realized, signals, ledger, today, drift,
                    due, flat, judged, events>>

(* Mutant: a short is paid for, as a long is. *)
MoveCashAsLong(a) ==
  LET p == actor[a]
  IN /\ p.pc = "cash"
     /\ cash' = cash - p.quantity * p.price
     /\ Set(a, Continue(p))
     /\ UNCHANGED <<kind, status, realized, positions, signals, ledger, today,
                    history, events>>

MoveCash(a) ==
  LET p == actor[a]
  IN /\ p.pc = "cash"
     /\ cash' = cash + Paid(positions[p.position])
     /\ Judge(a, cash')
     /\ Set(a, Continue(p))
     /\ UNCHANGED <<kind, status, realized, positions, signals, ledger, today,
                    drift, raced, due, flat, events>>

-----------------------------------------------------------------------------
(* Closing *)

(* The UPDATE is by id: a row that was closed in between is closed again, at
   another price, and credited again.                                      *)
ClosePosition(a) ==
  LET p == actor[a]
      i == p.position
  IN /\ p.pc = "close"
     /\ positions' = [positions EXCEPT ![i].status = "closed", ![i].exit = p.price]
     /\ drift' = IF i \in OpenPositions \/ positions[i].paper THEN drift
                 ELSE drift \cup {"closed twice"}
     /\ Set(a, IF positions[i].paper THEN Continue(p) ELSE [p EXCEPT !.pc = "credit"])
     /\ UNCHANGED <<kind, status, cash, realized, signals, ledger, today, raced,
                    due, flat, judged, events>>

(* What the run books: the row as it read it, closed at its own price. *)
Closing(p) == [positions[p.position] EXCEPT !.exit = p.price]

(* From here on the run knows its portfolio only. *)
Booked(p) == [p EXCEPT !.pc = "check", !.position = 0, !.price = 0]

Credit(a) ==
  LET p == actor[a]
  IN /\ p.pc = "credit"
     /\ cash' = cash + Returned(Closing(p))
     /\ realized' = realized + calculatePnl(Closing(p))
     /\ judged' = Judged(a, cash')
     /\ Set(a, Booked(p))
     /\ UNCHANGED <<kind, status, positions, signals, ledger, today, drift, raced,
                    due, flat, events>>

(* Mutant: a check only ever takes the active status away. *)
CheckForWorse(a) ==
  LET p == actor[a]
      grade == determinePortfolioStatus(cash)
  IN /\ p.pc = "check"
     /\ Set(a, IF grade = status \/ grade = "active" THEN Continue(p)
               ELSE [p EXCEPT !.pc = "status", !.grade = grade])
     /\ UNCHANGED <<kind, books, signals, ledger, today, history, events>>

CheckStatus(a) ==
  LET p == actor[a]
      grade == determinePortfolioStatus(cash)
  IN /\ p.pc = "check"
     /\ Set(a, IF grade = status THEN Continue(p)
               ELSE [p EXCEPT !.pc = "status", !.grade = grade])
     /\ UNCHANGED <<kind, books, signals, ledger, today, history, events>>

UpdateStatus(a) ==
  LET p == actor[a]
  IN /\ p.pc = "status"
     /\ status' = p.grade
     /\ Set(a, Continue(p))
     /\ UNCHANGED <<kind, cash, realized, positions, signals, ledger, today,
                    history, events>>

(* The next position of a run that closes: its price, and the row again if
   there is one.  The watcher may keep it.                                 *)
NextToClose(a, i, price) ==
  LET p == actor[a]
      rest == p.todo \ {i}
  IN /\ p.pc = "next"
     /\ p.op \in {"resolve", "watch", "flat", "reset"}
     /\ i \in p.todo
     /\ \/ /\ price # 0 /\ i \in OpenPositions
           /\ Set(a, [p EXCEPT !.pc = "close", !.position = i, !.price = price,
                               !.todo = rest])
        \/ /\ i \notin OpenPositions
           /\ Set(a, [p EXCEPT !.todo = rest])
        \/ /\ price = 0 \/ p.op = "watch"
           /\ Set(a, [p EXCEPT !.todo = rest, !.seen = @ \ {i}])
     /\ UNCHANGED <<kind, books, signals, ledger, today, history, events>>

-----------------------------------------------------------------------------
(* The settlement: the forced buy, the backfill, the expired positions *)

StartSettlement(a) ==
  LET strong == {s \in Tradable : Strong(s)}
  IN /\ kind # "day_trader"
     /\ Start(a)
     /\ Set(a, [Idle EXCEPT !.op = "forced", !.pc = "next", !.rows = signals,
                            !.todo = strong, !.seen = strong])
     /\ UNCHANGED <<kind, books, signals, ledger, today, history>>

NextSignal(a, s) ==
  LET p == actor[a]
  IN /\ p.pc = "next"
     /\ p.op \in {"forced", "backfill"}
     /\ s \in p.todo
     /\ Set(a, [p EXCEPT !.pc = IF p.op = "forced" THEN "portfolio" ELSE "period",
                         !.signal = s, !.todo = @ \ {s}])
     /\ UNCHANGED <<kind, books, signals, ledger, today, history, events>>

(* Mutant: the strong signals are left to the forced buy. *)
SelectWeak(a) ==
  LET p == actor[a]
      all == IF kind = "analyst" THEN Tradable ELSE {}
      left == {s \in all : PositionsOf(s) = {} /\ ~Strong(s)}
  IN /\ p.op = "forced" /\ p.pc = "next" /\ p.todo = {}
     /\ Set(a, [p EXCEPT !.op = "backfill", !.pc = "next", !.rows = signals,
                         !.todo = left, !.seen = @ \cup all])
     /\ UNCHANGED <<kind, books, signals, ledger, today, history, events>>

(* The arbitrator's signals are not of role analyst. *)
SelectSignals(a) ==
  LET p == actor[a]
      all == IF kind = "analyst" THEN Tradable ELSE {}
      left == {s \in all : PositionsOf(s) = {}}
  IN /\ p.op = "forced" /\ p.pc = "next" /\ p.todo = {}
     /\ Set(a, [p EXCEPT !.op = "backfill", !.pc = "next", !.rows = signals,
                         !.todo = left, !.seen = @ \cup all])
     /\ UNCHANGED <<kind, books, signals, ledger, today, history, events>>

(* A new portfolio is on paper, and one whose cash is down by a fifth. *)
isInPaperTradingPeriod(a) ==
  LET p == actor[a]
  IN /\ p.pc = "period"
     /\ Set(a, [p EXCEPT !.pc = "portfolio",
                         !.paper = today < PaperDays \/ 5 * cash <= 4 * InitialBalance])
     /\ UNCHANGED <<kind, books, signals, ledger, today, history, events>>

(* The day's signals leave the dashboard; a run to come publishes new rows. *)
MarkSettled(a) ==
  LET p == actor[a]
  IN /\ p.op = "backfill" /\ p.pc = "next" /\ p.todo = {}
     /\ signals' = [s \in DOMAIN signals |-> [signals[s] EXCEPT !.settled = TRUE]]
     /\ due' = due \cup p.seen
     /\ Set(a, [Idle EXCEPT !.op = "resolve", !.pc = "expired"])
     /\ UNCHANGED <<kind, books, ledger, today, drift, raced, flat, judged, events>>

(* Expired positions are those opened longer ago than the horizon of their
   signal.                                                                 *)
SelectExpired(a, expired) ==
  LET p == actor[a]
  IN /\ p.pc = "expired"
     /\ expired \subseteq {i \in OpenPositions : positions[i].signal # 0}
     /\ Set(a, [p EXCEPT !.pc = "next", !.todo = expired])
     /\ UNCHANGED <<kind, books, signals, ledger, today, history, events>>

-----------------------------------------------------------------------------
(* Ticks *)

(* One run of the outcome tracking at a time. *)
StartWatch(a) ==
  /\ kind # "day_trader"
  /\ \A b \in Actors : actor[b].op # "watch"
  /\ OpenPositions # {}
  /\ Start(a)
  /\ Set(a, [Idle EXCEPT !.op = "watch", !.pc = "next", !.todo = OpenPositions])
  /\ UNCHANGED <<kind, books, signals, ledger, today, history>>

(* Portfolios are read first; one whose status is not active is left out, of
   the closing of the session too.                                         *)
StartStrategies(a, op) ==
  /\ kind = "day_trader"
  /\ op \in {"strategy", "flat"}
  /\ status = "active"
  /\ Start(a)
  /\ Set(a, [Idle EXCEPT !.op = op, !.pc = "positions", !.balance = cash])
  /\ UNCHANGED <<kind, books, signals, ledger, today, history>>

(* A strategy opens, closes one of the positions it is shown, or holds.  The
   size comes from the balance read with the portfolio.                    *)
Decide(a, direction, price) ==
  LET p == actor[a]
      quantity == calculatePositionSize(p.balance, price, TradePercent)
  IN /\ p.op = "strategy"
     /\ p.pc = "positions"
     /\ \/ Set(a, IF quantity = 0 THEN Idle
                  ELSE [p EXCEPT !.pc = "insert", !.direction = direction, !.balance = 0,
                                 !.quantity = quantity, !.price = price])
        \/ \E i \in OpenPositions :
             Set(a, IF price = 0 THEN Idle
                    ELSE [p EXCEPT !.pc = "close", !.position = i, !.price = price,
                                   !.balance = 0])
        \/ Set(a, Idle)
     /\ UNCHANGED <<kind, books, signals, ledger, today, history, events>>

(* Mutant: the closing of the session leaves shorts open. *)
SelectLongs(a) ==
  LET p == actor[a]
      longs == {i \in OpenPositions : positions[i].direction = "long"}
  IN /\ p.op = "flat"
     /\ p.pc = "positions"
     /\ Set(a, [p EXCEPT !.pc = "next", !.todo = longs, !.seen = OpenPositions])
     /\ UNCHANGED <<kind, books, signals, ledger, today, history, events>>

SelectFlat(a) ==
  LET p == actor[a]
  IN /\ p.op = "flat"
     /\ p.pc = "positions"
     /\ Set(a, [p EXCEPT !.pc = "next", !.todo = OpenPositions,
                         !.seen = OpenPositions, !.balance = 0])
     /\ UNCHANGED <<kind, books, signals, ledger, today, history, events>>

(* A run that closes has no position left. *)
Finish(a) ==
  LET p == actor[a]
  IN /\ p.pc = "next"
     /\ p.op \in {"resolve", "watch", "flat"}
     /\ p.todo = {}
     /\ flat' = IF p.op = "flat" THEN flat \cup p.seen ELSE flat
     /\ Set(a, Idle)
     /\ UNCHANGED <<kind, books, signals, ledger, today, drift, raced, due, judged,
                    events>>

-----------------------------------------------------------------------------
(* The monthly reset *)

StartReset(a) ==
  /\ Start(a)
  /\ Set(a, [Idle EXCEPT !.op = "reset", !.pc = "next", !.todo = OpenPositions])
  /\ UNCHANGED <<kind, books, signals, ledger, today, history>>

ReadBalance(a) ==
  LET p == actor[a]
  IN /\ p.op = "reset" /\ p.pc = "next" /\ p.todo = {}
     /\ Set(a, [p EXCEPT !.pc = "ledger", !.balance = cash])
     /\ UNCHANGED <<kind, books, signals, ledger, today, history, events>>

(* Unique for the portfolio and the day. *)
InsertBailout(a) ==
  LET p == actor[a]
  IN /\ p.pc = "ledger"
     /\ IF today \in DOMAIN ledger
        THEN Set(a, Idle) /\ UNCHANGED ledger
        ELSE /\ ledger' = [d \in DOMAIN ledger \cup {today} |->
                          IF d = today THEN AtLeastZero(InitialBalance - p.balance)
                          ELSE ledger[d]]
             /\ Set(a, [p EXCEPT !.pc = "topup"])
     /\ UNCHANGED <<kind, books, signals, today, history, events>>

(* The cash is set, not raised: what was above the target, and what moved
   since the balance was read, is not in the ledger.                       *)
TopUp(a) ==
  LET p == actor[a]
  IN /\ p.pc = "topup"
     /\ cash' = InitialBalance
     /\ drift' = drift \cup (IF cash # p.balance THEN {"overwritten"} ELSE {})
                      \cup (IF p.balance > InitialBalance THEN {"profit cut"} ELSE {})
     /\ Judge(a, cash')
     /\ Set(a, Idle)
     /\ UNCHANGED <<kind, status, realized, positions, signals, ledger, today,
                    raced, due, flat, events>>

-----------------------------------------------------------------------------
(* Failures and time *)

(* A failed statement.  A failed look-up is taken for nothing found, a failed
   reading of the portfolio's age for a new portfolio; a failed INSERT or
   SELECT gives the signal or position up; the other errors are not looked
   at, and the run goes on as if the statement had been done.  The one thing
   left out is ensurePortfolio, which makes up a second portfolio.         *)
StatementFails(a) ==
  LET p == actor[a]
  IN /\ Event
     /\ \/ /\ p.pc = "lookup"
           /\ Set(a, [p EXCEPT !.pc = "insert"])
           /\ raced' = raced \cup {p.signal}
           /\ UNCHANGED <<drift, judged>>
        \/ /\ p.pc = "period"
           /\ Set(a, [p EXCEPT !.pc = "portfolio", !.paper = TRUE])
           /\ UNCHANGED <<drift, raced, judged>>
        \/ /\ p.pc \in {"portfolio", "insert"}
           /\ <<p.op, p.pc>> # <<"backfill", "portfolio">>
           /\ Set(a, Continue([p EXCEPT !.seen = @ \ {p.signal}]))
           /\ UNCHANGED <<drift, raced, judged>>
        \/ /\ p.pc = "next" /\ p.op \in {"resolve", "flat", "reset"}
           /\ \E i \in p.todo :
                Set(a, [p EXCEPT !.todo = @ \ {i}, !.seen = @ \ {i}])
           /\ UNCHANGED <<drift, raced, judged>>
        \/ /\ p.pc = "close"
           /\ drift' = IF positions[p.position].paper THEN drift
                       ELSE drift \cup {"lost update"}
           /\ Set(a, LET given == [p EXCEPT !.seen = @ \ {p.position}]
                     IN IF positions[p.position].paper THEN Continue(given)
                        ELSE [given EXCEPT !.pc = "credit"])
           /\ UNCHANGED <<raced, judged>>
        \/ /\ p.pc = "credit"
           /\ drift' = drift \cup {"lost update"}
           /\ judged' = Judged(a, cash)
           /\ Set(a, Booked(p))
           /\ UNCHANGED raced
        \/ /\ p.pc \in {"cash", "topup"}
           /\ drift' = drift \cup {"lost update"}
           /\ Set(a, IF p.pc = "cash" THEN Continue(p) ELSE Idle)
           /\ UNCHANGED <<raced, judged>>
        \/ /\ p.pc \in {"check", "status"}
           /\ judged' = Unsure
           /\ Set(a, Continue(p))
           /\ UNCHANGED <<drift, raced>>
     /\ UNCHANGED <<kind, books, signals, ledger, today, due, flat>>

(* The API process dies: what its runs had still to write is not written. *)
Crash ==
  /\ Event
  /\ \E a \in Actors : actor[a] # Idle
  /\ actor' = [a \in Actors |-> Idle]
  /\ drift' = IF \E a \in Actors : actor[a].pc \in {"cash", "credit", "topup"}
              THEN drift \cup {"lost update"} ELSE drift
  /\ judged' = IF \E a \in Actors : actor[a].pc \in {"credit", "check", "status"}
               THEN Unsure ELSE judged
  /\ UNCHANGED <<kind, books, signals, ledger, today, raced, due, flat>>

NewDay ==
  /\ today < MaxDays
  /\ today' = today + 1
  /\ UNCHANGED <<kind, books, signals, ledger, actor, history, events>>

Pipeline(a) ==
  \/ \E verdict \in Verdicts : Publish(a, verdict[1], verdict[2])
  \/ PublishPaper(a)

Settlement(a) ==
  \/ StartSettlement(a)
  \/ \E s \in actor[a].todo : NextSignal(a, s)
  \/ SelectSignals(a)
  \/ isInPaperTradingPeriod(a)
  \/ MarkSettled(a)
  \/ \E expired \in SUBSET OpenPositions : SelectExpired(a, expired)

DayTick(a) ==
  \/ StartWatch(a)
  \/ \E op \in {"strategy", "flat"} : StartStrategies(a, op)
  \/ \E direction \in Directions, price \in Prices : Decide(a, direction, price)
  \/ SelectFlat(a)

Reset(a) ==
  \/ StartReset(a)
  \/ ReadBalance(a)
  \/ InsertBailout(a)
  \/ TopUp(a)

Statement(a) ==
  \/ \E price \in Prices :
       \/ SizePosition(a, price)
       \/ \E i \in actor[a].todo : NextToClose(a, i, price)
  \/ FindPosition(a)
  \/ InsertPosition(a)
  \/ MoveCash(a)
  \/ ClosePosition(a)
  \/ Credit(a)
  \/ CheckStatus(a)
  \/ UpdateStatus(a)
  \/ Finish(a)

Next ==
  \/ \E a \in Pipelines : Pipeline(a)
  \/ \E a \in Settlements : Settlement(a)
  \/ \E a \in Ticks : DayTick(a)
  \/ \E a \in Resets : Reset(a)
  \/ \E a \in Actors : Statement(a) \/ StatementFails(a)
  \/ Crash
  \/ NewDay

Spec == Init /\ [][Next]_vars

-----------------------------------------------------------------------------
(* Properties *)

(* The portfolio, its positions and signals are rows the schema accepts, and
   a position of a day trader has no signal.                               *)
TypeOK ==
  /\ kind \in Kinds
  /\ status \in Statuses
  /\ cash \in Int
  /\ realized \in Int
  /\ positions \in Seq(Position)
  /\ Len(positions) <= MaxPositions
  /\ \A i \in DOMAIN positions :
       (positions[i].signal = 0) <=> (kind = "day_trader")
  /\ signals \in Seq(Signal)
  /\ ledger \in [DOMAIN ledger -> Nat]
  /\ DOMAIN ledger \subseteq 0..MaxDays
  /\ today \in 0..MaxDays
  /\ \A a \in Actors :
       /\ actor[a].op = "idle" <=> actor[a].pc = "idle"
       /\ actor[a].position \in 0..Len(positions)
       /\ actor[a].signal \in 0..Len(signals)
  /\ drift \subseteq {"closed twice", "lost update", "overwritten", "profit cut"}

At(pc) == {a \in Actors : actor[a].pc = pc}

Real == {i \in DOMAIN positions : ~positions[i].paper}

(* What the position rows, the resets and the runs under way make the cash. *)
CashOfPositions ==
  InitialBalance
  + Sum([i \in Real |-> Paid(positions[i])])
  - Sum([a \in At("cash") |-> Paid(positions[actor[a].position])])
  + Sum([i \in Real \ OpenPositions |-> Returned(positions[i])])
  - Sum([a \in At("credit") |-> Returned(Closing(actor[a]))])
  + Sum(ledger)
  - Sum([a \in At("topup") |-> AtLeastZero(InitialBalance - actor[a].balance)])

ProfitOfPositions ==
  Sum([i \in Real \ OpenPositions |-> calculatePnl(positions[i])])
  - Sum([a \in At("credit") |-> calculatePnl(Closing(actor[a]))])

(* Cash is what was there at first, moved by the positions that are not on
   paper, and topped up by the ledger; profit is that of the closed ones.
   It stops being so for these reasons only: a row closed twice, a failure
   between the row and the portfolio, a reset that overwrote a movement or
   took away what was above the target.                                    *)
BooksBalance ==
  /\ drift = {} => cash = CashOfPositions
  /\ drift \cap {"closed twice", "lost update"} = {} => realized = ProfitOfPositions

(* However pipeline and settlements overlap, a signal is traded once: only
   two runs that both looked before either inserted, or a failed look-up,
   make it two positions.                                                  *)
OnePositionPerSignal ==
  \A s \in DOMAIN signals \ raced : Cardinality(PositionsOf(s)) <= 1

(* A settlement leaves none of the day's signals untraded: the strong ones of
   an arbitrator or analyst, and an analyst's weak ones, got a position from
   whichever of the three paths came first, unless it came out at size zero
   or its statement failed.                                                *)
SettledSignalsAreTraded ==
  \A s \in due : PositionsOf(s) # {}

(* When a closing of the session is over, no position it found is open, even
   where other ticks or the reset were closing the same ones; statements
   that failed and instruments without a price excepted.                   *)
SessionEndsFlat == flat \cap OpenPositions = {}

(* The status is that of the cash after the last close, whoever closed, as
   long as no other close booked between a check and its write: a benched
   portfolio stays so when it is topped up.                                *)
StatusIsOfTheLastClose ==
  judged.sure /\ At("credit") \cup At("check") \cup At("status") = {}
    => status = determinePortfolioStatus(judged.cash)

=============================================================================
