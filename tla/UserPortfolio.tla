---------------------------- MODULE UserPortfolio ----------------------------
(***************************************************************************)
(* A user's paper portfolio: the cash row (prediction.user_portfolios),    *)
(* the positions on one instrument, the trades queued for settlement and   *)
(* the bailout ledger.  Worked on, at the same time, by the user's         *)
(* requests (queue, cancel, execute now, close), by the end-of-day         *)
(* settlement that executes queued trades, and by the monthly reset that   *)
(* closes everything and brings the cash back to its target.               *)
(*                                                                         *)
(* Every statement commits on its own: a position row and the cash that    *)
(* pays for it are two UPDATEs, positions are updated by id from rows read *)
(* earlier, and cash moves by increments everywhere but in the reset.      *)
(* Users do not share rows, and positions on other instruments share only  *)
(* the cash, so one user and one instrument stand for all.                 *)
(***************************************************************************)
EXTENDS Integers, Sequences, FiniteSets, Sums

CONSTANTS
  Requests,     \* requests of the user in flight
  Settlements,  \* settlement runs that may overlap (cron and admin endpoint)
  Resets,       \* reset runs that may overlap (cron and admin endpoint)
  Calls,        \* what the user asks for, a subset of FillCalls \cup {"close"}
  Prices,       \* the prices the instrument may have when it is read
  Quantities,   \* the quantities an immediate trade may ask for
  QueueQuantities, \* the quantities a queued trade may ask for
  Target,       \* initialBalance and RESET_TARGET
  MaxInFlight,  \* bound: requests and runs that overlap
  MaxStarts,    \* bound: requests and runs started
  MaxPositions, \* bound: positions ever opened
  MaxTrades,    \* bound: trades ever queued
  MaxDays,      \* bound: days
  MaxFailures   \* bound: failed statements and deaths of the API process

Directions == {"long", "short"}

FillCalls == {"immediate", "destination"}

ASSUME ConstantsAssumption ==
  /\ Calls \subseteq FillCalls \cup {"close"}
  /\ Prices \subseteq Nat \ {0}
  /\ Quantities \subseteq Nat \ {0}
  /\ QueueQuantities \subseteq Nat \ {0}
  /\ Target \in Nat
  /\ MaxInFlight \in Nat \ {0}
  /\ MaxStarts \in Nat
  /\ MaxPositions \in Nat
  /\ MaxTrades \in Nat
  /\ MaxDays \in Nat \ {0}
  /\ MaxFailures \in Nat
  /\ IsFiniteSet(Requests) /\ IsFiniteSet(Settlements) /\ IsFiniteSet(Resets)
  /\ Requests \cap Settlements = {}
  /\ Requests \cap Resets = {}
  /\ Settlements \cap Resets = {}

Actors == Requests \cup Settlements \cup Resets

VARIABLES
  cash,       \* current_balance
  realized,   \* total_realized_pnl
  positions,  \* the rows of user_positions, oldest first
  trades,     \* the rows of user_trade_queue, oldest first
  ledger,     \* topup_amount of the ledger row of each day, -1 for no row
  today,      \* current_date
  actor,      \* what each request or run is doing
  filled,     \* history: the quantity traded on behalf of each trade
  drift,      \* history: what has made cash and positions disagree
  spent       \* starts and failures so far

vars == <<cash, realized, positions, trades, ledger, today, actor, filled,
          drift, spent>>

-----------------------------------------------------------------------------
(* Data *)

Position == [status : {"open", "closed"}, direction : Directions,
             quantity : Nat, entry : Prices, day : 1..MaxDays,
             by : FillCalls \cup {"settlement"}]

Trade == [status : {"queued", "executed", "cancelled"},
          direction : Directions, quantity : QueueQuantities]

(* openCashDelta: opening a short brings cash in, opening a long costs it. *)
openCashDelta(direction, quantity, price) ==
  IF direction = "short" THEN quantity * price ELSE -(quantity * price)

closeCashDelta(direction, quantity, price) ==
  -openCashDelta(direction, quantity, price)

RealizedPnl(direction, quantity, entry, exit) ==
  closeCashDelta(direction, quantity, exit) + openCashDelta(direction, quantity, entry)

Cost(direction, quantity, price) ==
  IF direction = "long" THEN quantity * price ELSE 0

Opposite(direction) == IF direction = "long" THEN "short" ELSE "long"

(* Causes of drift. *)
Causes == {"stale row", "lost update", "cut profit", "overwritten balance"}

(* What a request or a run holds between two statements.  rows are the
   positions it selected, as they were then, left the quantity it still has
   to close or open; moved is cash it must still book.                     *)
Idle == [op |-> "idle", pc |-> "idle", direction |-> "long", left |-> 0,
         price |-> 0, rows |-> {}, moved |-> 0, pnl |-> 0, seen |-> 0,
         trade |-> 0, todo |-> {}]

(* Rows are treated in the order of their ids, oldest first. *)
First(ids) == {i \in ids : \A j \in ids : i <= j}

Oldest(rows) == {r \in rows : r.id \in First({s.id : s \in rows})}

Snapshot(i) == [id |-> i, row |-> positions[i]]

(* The open rows of a direction, as they are now. *)
OpenRows(direction) ==
  {Snapshot(i) : i \in {j \in DOMAIN positions :
                          /\ positions[j].status = "open"
                          /\ positions[j].direction = direction}}

Start ==
  /\ spent.starts < MaxStarts
  /\ spent' = [spent EXCEPT !.starts = @ + 1]

MayStart(a) ==
  /\ actor[a].op = "idle"
  /\ Cardinality({b \in Actors : actor[b].op # "idle"}) < MaxInFlight
  /\ Start

Failure ==
  /\ spent.failures < MaxFailures
  /\ spent' = [spent EXCEPT !.failures = @ + 1]

Init ==
  /\ cash = Target
  /\ realized = 0
  /\ positions = <<>>
  /\ trades = <<>>
  /\ ledger = [d \in 1..MaxDays |-> -1]
  /\ today = 1
  /\ actor = [a \in Actors |-> Idle]
  /\ filled = <<>>
  /\ drift = {}
  /\ spent = [starts |-> 0, failures |-> 0]

-----------------------------------------------------------------------------
(* The trade queue *)

queueTrade(direction, quantity) ==
  /\ Start
  /\ Len(trades) < MaxTrades
  /\ trades' = Append(trades, [status |-> "queued", direction |-> direction,
                               quantity |-> quantity])
  /\ filled' = Append(filled, 0)
  /\ UNCHANGED <<cash, realized, positions, ledger, today, actor, drift>>

cancelTrade(t) ==
  /\ trades[t].status = "queued"
  /\ trades' = [trades EXCEPT ![t].status = "cancelled"]
  /\ UNCHANGED <<cash, realized, positions, ledger, today, actor, filled, drift,
                 spent>>

-----------------------------------------------------------------------------
(* Filling: close opposite positions, open a position for the rest *)

(* What follows a fill that is complete, or given up. *)
Over(p) ==
  IF p.op = "settlement"
  THEN [Idle EXCEPT !.op = p.op, !.pc = "next", !.price = p.price, !.todo = p.todo]
  ELSE IF p.op = "reset"
  THEN [Idle EXCEPT !.op = p.op, !.pc = "closing", !.todo = p.todo]
  ELSE Idle

(* What a fill does next: close another selected row, or, for the rest, look
   for a position of the same prediction (executeImmediate), compare it with
   the cash read at the start (openUserDestination), or open it.           *)
Continue(p) ==
  IF p.left > 0 /\ p.rows # {} THEN [p EXCEPT !.pc = "close"]
  ELSE IF p.left = 0
  THEN IF p.op = "settlement" THEN [p EXCEPT !.pc = "mark"] ELSE Over(p)
  ELSE CASE p.op = "immediate" -> [p EXCEPT !.pc = "lookup"]
         [] p.op = "destination" ->
              IF p.seen < Cost(p.direction, p.left, p.price)
              THEN Idle ELSE [p EXCEPT !.pc = "open"]
         [] OTHER -> [p EXCEPT !.pc = "open"]

(* ensurePortfolio answers the portfolio row, its balance included. *)
StartFill(a, call, direction, quantity, price) ==
  /\ MayStart(a)
  /\ actor' = [actor EXCEPT ![a] =
       [Idle EXCEPT !.op = call, !.pc = "select", !.direction = direction,
                    !.left = quantity, !.price = price,
                    !.seen = IF call = "destination" THEN cash ELSE 0]]
  /\ UNCHANGED <<cash, realized, positions, trades, ledger, today, filled, drift>>

SelectOpposite(a) ==
  /\ actor[a].pc = "select"
  /\ actor' = [actor EXCEPT ![a] =
       Continue([@ EXCEPT !.rows = OpenRows(Opposite(actor[a].direction))])]
  /\ UNCHANGED <<cash, realized, positions, trades, ledger, today, filled, drift,
                 spent>>

FillTrade(t, quantity) ==
  filled' = IF t = 0 THEN filled ELSE [filled EXCEPT ![t] = @ + quantity]

(* Mutant: a row is never closed, only reduced. *)
ReduceRow(a, selected) ==
  LET p == actor[a]
      i == selected.id
      row == selected.row
      quantity == IF p.left < row.quantity THEN p.left ELSE row.quantity
      delta == closeCashDelta(row.direction, quantity, p.price)
  IN /\ p.pc = "close"
     /\ selected \in Oldest(p.rows)
     /\ positions' =
          [positions EXCEPT ![i].quantity = row.quantity - quantity]
     /\ actor' = [actor EXCEPT ![a] =
          [p EXCEPT !.pc = "credit", !.rows = @ \ {selected}, !.left = @ - quantity,
                    !.moved = delta,
                    !.seen = IF p.op = "destination" THEN @ + delta ELSE 0,
                    !.pnl = RealizedPnl(row.direction, quantity, row.entry, p.price)]]
     /\ FillTrade(p.trade, quantity)
     /\ drift' = IF positions[i] = row THEN drift ELSE drift \cup {"stale row"}
     /\ UNCHANGED <<cash, realized, trades, ledger, today, spent>>

(* The UPDATE of a selected row, by id: closed when all of it goes, else left
   with the quantity it had when selected less what is closed.             *)
CloseRow(a, selected) ==
  LET p == actor[a]
      i == selected.id
      row == selected.row
      quantity == IF p.left < row.quantity THEN p.left ELSE row.quantity
      delta == closeCashDelta(row.direction, quantity, p.price)
  IN /\ p.pc = "close"
     /\ selected \in Oldest(p.rows)
     /\ positions' =
          IF quantity = row.quantity
          THEN [positions EXCEPT ![i].status = "closed"]
          ELSE [positions EXCEPT ![i].quantity = row.quantity - quantity]
     /\ actor' = [actor EXCEPT ![a] =
          [p EXCEPT !.pc = "credit", !.rows = @ \ {selected}, !.left = @ - quantity,
                    !.moved = delta,
                    !.seen = IF p.op = "destination" THEN @ + delta ELSE 0,
                    !.pnl = RealizedPnl(row.direction, quantity, row.entry, p.price)]]
     /\ FillTrade(p.trade, quantity)
     /\ drift' = IF positions[i] = row THEN drift ELSE drift \cup {"stale row"}
     /\ UNCHANGED <<cash, realized, trades, ledger, today, spent>>

(* Mutant: the closed part is paid at its entry price. *)
CreditAtEntry(a) ==
  /\ actor[a].pc = "credit"
  /\ cash' = cash + actor[a].moved - actor[a].pnl
  /\ realized' = realized + actor[a].pnl
  /\ actor' = [actor EXCEPT ![a] = Continue([@ EXCEPT !.moved = 0, !.pnl = 0])]
  /\ UNCHANGED <<positions, trades, ledger, today, filled, drift, spent>>

(* The cash of a closed part, one increment of the portfolio row. *)
Credit(a) ==
  /\ actor[a].pc = "credit"
  /\ cash' = cash + actor[a].moved
  /\ realized' = realized + actor[a].pnl
  /\ actor' = [actor EXCEPT ![a] = Continue([@ EXCEPT !.moved = 0, !.pnl = 0])]
  /\ UNCHANGED <<positions, trades, ledger, today, filled, drift, spent>>

(* executeImmediate looks for an open position of the prediction, opened
   today, before it opens another.                                         *)
LookUpToday(a) ==
  LET Same(i) == /\ positions[i].direction = actor[a].direction
                 /\ positions[i].status = "open"
                 /\ positions[i].day = today
  IN /\ actor[a].pc = "lookup"
     /\ actor' = [actor EXCEPT ![a] =
          IF \E i \in DOMAIN positions : Same(i) THEN Idle ELSE [@ EXCEPT !.pc = "open"]]
     /\ UNCHANGED <<cash, realized, positions, trades, ledger, today, filled,
                    drift, spent>>

(* Mutant: a settlement opens the whole quantity, what it closed included. *)
OpenWhole(a) ==
  LET p == IF actor[a].trade = 0 THEN actor[a]
           ELSE [actor[a] EXCEPT !.left = trades[actor[a].trade].quantity]
  IN /\ p.pc = "open"
     /\ Len(positions) < MaxPositions
     /\ positions' = Append(positions,
          [status |-> "open", direction |-> p.direction, quantity |-> p.left,
           entry |-> p.price, day |-> today, by |-> p.op])
     /\ actor' = [actor EXCEPT ![a] =
          [p EXCEPT !.pc = "debit", !.left = 0, !.seen = 0,
                    !.moved = openCashDelta(p.direction, p.left, p.price)]]
     /\ FillTrade(p.trade, p.left)
     /\ UNCHANGED <<cash, realized, trades, ledger, today, drift, spent>>

OpenRest(a) ==
  LET p == actor[a]
  IN /\ p.pc = "open"
     /\ Len(positions) < MaxPositions
     /\ positions' = Append(positions,
          [status |-> "open", direction |-> p.direction, quantity |-> p.left,
           entry |-> p.price, day |-> today, by |-> p.op])
     /\ actor' = [actor EXCEPT ![a] =
          [p EXCEPT !.pc = "debit", !.left = 0, !.seen = 0,
                    !.moved = openCashDelta(p.direction, p.left, p.price)]]
     /\ FillTrade(p.trade, p.left)
     /\ UNCHANGED <<cash, realized, trades, ledger, today, drift, spent>>

(* The cash of an opened position. *)
Debit(a) ==
  /\ actor[a].pc = "debit"
  /\ cash' = cash + actor[a].moved
  /\ actor' = [actor EXCEPT ![a] = Continue([@ EXCEPT !.moved = 0])]
  /\ UNCHANGED <<realized, positions, trades, ledger, today, filled, drift, spent>>

-----------------------------------------------------------------------------
(* The user closes a position *)

closePosition(a, i, price) ==
  /\ MayStart(a)
  /\ positions[i].status = "open"
  /\ actor' = [actor EXCEPT ![a] =
       [Idle EXCEPT !.op = "close", !.pc = "close", !.price = price,
                    !.left = positions[i].quantity, !.rows = {Snapshot(i)}]]
  /\ UNCHANGED <<cash, realized, positions, trades, ledger, today, filled, drift>>

-----------------------------------------------------------------------------
(* The end-of-day settlement: executeQueuedTrades *)

(* Mutant: what is not cancelled is taken for queued. *)
StartSettlementOfAll(a, price) ==
  LET queued == {t \in DOMAIN trades : trades[t].status # "cancelled"}
  IN /\ MayStart(a)
     /\ queued # {}
     /\ actor' = [actor EXCEPT ![a] =
          [Idle EXCEPT !.op = "settlement", !.pc = "next", !.price = price,
                       !.todo = queued]]
     /\ UNCHANGED <<cash, realized, positions, trades, ledger, today, filled, drift>>

(* Queued trades in the order they were queued, at one closing price; a
   settlement that finds no closing price leaves them queued.              *)
StartSettlement(a, price) ==
  LET queued == {t \in DOMAIN trades : trades[t].status = "queued"}
  IN /\ MayStart(a)
     /\ queued # {}
     /\ actor' = [actor EXCEPT ![a] =
          [Idle EXCEPT !.op = "settlement", !.pc = "next", !.price = price,
                       !.todo = queued]]
     /\ UNCHANGED <<cash, realized, positions, trades, ledger, today, filled, drift>>

NextTrade(a) ==
  LET p == actor[a]
  IN /\ p.pc = "next"
     /\ \/ /\ p.todo = {}
           /\ actor' = [actor EXCEPT ![a] = Idle]
        \/ \E t \in First(p.todo) :
             actor' = [actor EXCEPT ![a] =
               [p EXCEPT !.pc = "select", !.todo = @ \ {t}, !.trade = t,
                         !.direction = trades[t].direction,
                         !.left = trades[t].quantity]]
     /\ UNCHANGED <<cash, realized, positions, trades, ledger, today, filled,
                    drift, spent>>

(* By id, whatever the status is by now. *)
MarkExecuted(a) ==
  /\ actor[a].pc = "mark"
  /\ trades' = [trades EXCEPT ![actor[a].trade].status = "executed"]
  /\ actor' = [actor EXCEPT ![a] = Over(@)]
  /\ UNCHANGED <<cash, realized, positions, ledger, today, filled, drift, spent>>

-----------------------------------------------------------------------------
(* The monthly reset *)

StartReset(a) ==
  /\ MayStart(a)
  /\ actor' = [actor EXCEPT ![a] =
       [Idle EXCEPT !.op = "reset", !.pc = "closing",
                    !.todo = {i \in DOMAIN positions :
                                    positions[i].status = "open"}]]
  /\ UNCHANGED <<cash, realized, positions, trades, ledger, today, filled, drift>>

(* closePosition for the next position selected; one closed meanwhile, or
   without a price, is passed over.                                        *)
ResetClose(a, i, price) ==
  LET p == actor[a]
  IN /\ p.pc = "closing"
     /\ i \in First(p.todo)
     /\ actor' = [actor EXCEPT ![a] =
          IF positions[i].status = "open" /\ price # 0
          THEN [p EXCEPT !.pc = "close", !.price = price, !.todo = @ \ {i},
                         !.left = positions[i].quantity, !.rows = {Snapshot(i)}]
          ELSE [p EXCEPT !.todo = @ \ {i}]]
     /\ UNCHANGED <<cash, realized, positions, trades, ledger, today, filled,
                    drift, spent>>

ReadBalance(a) ==
  /\ actor[a].pc = "closing"
  /\ actor[a].todo = {}
  /\ actor' = [actor EXCEPT ![a] = [Idle EXCEPT !.op = "reset", !.pc = "ledger",
                                                !.seen = cash]]
  /\ UNCHANGED <<cash, realized, positions, trades, ledger, today, filled, drift,
                 spent>>

(* on conflict (portfolio_kind, portfolio_id, reset_date) do nothing *)
WriteLedger(a) ==
  LET topup == IF actor[a].seen < Target THEN Target - actor[a].seen ELSE 0
  IN /\ actor[a].pc = "ledger"
     /\ IF ledger[today] = -1
        THEN /\ ledger' = [ledger EXCEPT ![today] = topup]
             /\ actor' = [actor EXCEPT ![a] = [@ EXCEPT !.pc = "topup", !.moved = topup]]
        ELSE /\ actor' = [actor EXCEPT ![a] = Idle]
             /\ UNCHANGED ledger
     /\ UNCHANGED <<cash, realized, positions, trades, today, filled, drift, spent>>

(* The balance becomes the target, whatever it has become since it was read. *)
ResetBalance(a) ==
  LET p == actor[a]
  IN /\ p.pc = "topup"
     /\ cash' = Target
     /\ actor' = [actor EXCEPT ![a] = Idle]
     /\ drift' = drift \cup {c \in Causes :
                    \/ c = "cut profit" /\ p.seen > Target
                    \/ c = "overwritten balance" /\ cash # p.seen}
     /\ UNCHANGED <<realized, positions, trades, ledger, today, filled, spent>>

-----------------------------------------------------------------------------
(* Failures and time *)

(* A failing statement ends the fill or the close; what the statement should
   have booked is lost, and the error of closePosition's second UPDATE, of
   executeImmediate's last one and of the marking is not even looked at.   *)
StatementFails(a) ==
  LET p == actor[a]
  IN /\ p.pc \in {"select", "close", "credit", "lookup", "open", "debit", "mark"}
     /\ Failure
     /\ actor' = [actor EXCEPT ![a] =
          IF p.pc = "lookup" THEN [p EXCEPT !.pc = "open"] ELSE Over(p)]
     /\ drift' = IF p.moved # 0 THEN drift \cup {"lost update"} ELSE drift
     /\ UNCHANGED <<cash, realized, positions, trades, ledger, today, filled>>

(* So are the statements of the reset. *)
ResetStatementFails(a) ==
  /\ actor[a].pc \in {"ledger", "topup"}
  /\ Failure
  /\ actor' = [actor EXCEPT ![a] = Idle]
  /\ drift' = IF actor[a].moved # 0 THEN drift \cup {"lost update"} ELSE drift
  /\ UNCHANGED <<cash, realized, positions, trades, ledger, today, filled>>

(* The process dies: every request and run is gone. *)
Crash ==
  /\ Failure
  /\ \E a \in Actors : actor[a] # Idle
  /\ actor' = [a \in Actors |-> Idle]
  /\ drift' = IF \E a \in Actors : actor[a].moved # 0
              THEN drift \cup {"lost update"} ELSE drift
  /\ UNCHANGED <<cash, realized, positions, trades, ledger, today, filled>>

NewDay ==
  /\ today < MaxDays
  /\ today' = today + 1
  /\ UNCHANGED <<cash, realized, positions, trades, ledger, actor, filled, drift,
                 spent>>

-----------------------------------------------------------------------------
Fill(a) ==
  \/ SelectOpposite(a)
  \/ \E selected \in actor[a].rows : CloseRow(a, selected)
  \/ Credit(a)
  \/ LookUpToday(a)
  \/ OpenRest(a)
  \/ Debit(a)
  \/ StatementFails(a)

Request(a) ==
  \/ \E call \in Calls \cap FillCalls, direction \in Directions,
        quantity \in Quantities, price \in Prices :
       StartFill(a, call, direction, quantity, price)
  \/ /\ "close" \in Calls
     /\ \E i \in DOMAIN positions, price \in Prices : closePosition(a, i, price)

Settlement(a) ==
  \/ \E price \in Prices : StartSettlement(a, price)
  \/ NextTrade(a)
  \/ MarkExecuted(a)

Reset(a) ==
  \/ StartReset(a)
  \/ \E i \in actor[a].todo, price \in Prices \cup {0} : ResetClose(a, i, price)
  \/ ReadBalance(a)
  \/ WriteLedger(a)
  \/ ResetBalance(a)
  \/ ResetStatementFails(a)

Queue ==
  \/ \E direction \in Directions, quantity \in QueueQuantities :
       queueTrade(direction, quantity)
  \/ \E t \in DOMAIN trades : cancelTrade(t)

Next ==
  \/ Queue
  \/ \E a \in Requests : Request(a)
  \/ \E a \in Settlements : Settlement(a)
  \/ \E a \in Resets : Reset(a)
  \/ \E a \in Actors : Fill(a)
  \/ Crash
  \/ NewDay

Spec == Init /\ [][Next]_vars

-----------------------------------------------------------------------------
(* Properties *)

Actor == [op        : FillCalls \cup {"idle", "close", "settlement", "reset"},
          pc        : {"idle", "select", "close", "credit", "lookup", "open",
                       "debit", "next", "mark", "closing", "ledger", "topup"},
          direction : Directions,
          left      : Nat,
          price     : Prices \cup {0},
          rows      : SUBSET [id : 1..MaxPositions, row : Position],
          moved     : Int,
          pnl       : Int,
          seen      : Int,
          trade     : 0..MaxTrades,
          todo      : SUBSET (Nat \ {0})]

(* The values of the columns and of what requests hold between statements;
   an open position always has a quantity, whatever was closed of it.      *)
TypeOK ==
  /\ cash \in Int
  /\ realized \in Int
  /\ positions \in Seq(Position) /\ Len(positions) <= MaxPositions
  /\ \A i \in DOMAIN positions : positions[i].quantity > 0
  /\ trades \in Seq(Trade) /\ Len(trades) <= MaxTrades
  /\ ledger \in [1..MaxDays -> Nat \cup {-1}]
  /\ today \in 1..MaxDays
  /\ actor \in [Actors -> Actor]
  /\ filled \in Seq(Nat) /\ Len(filled) = Len(trades)
  /\ drift \subseteq Causes
  /\ spent \in [starts : 0..MaxStarts, failures : 0..MaxFailures]

(* What the open positions are worth at their entry prices. *)
Worth(p) ==
  IF p.status = "open" THEN -openCashDelta(p.direction, p.quantity, p.entry) ELSE 0

OpenValue == Sum([i \in DOMAIN positions |-> Worth(positions[i])])

Bailouts == Sum([d \in 1..MaxDays |-> IF ledger[d] = -1 THEN 0 ELSE ledger[d]])

(* Cash and profit still to be booked by those in the middle of something. *)
Moved == Sum([a \in Actors |-> actor[a].moved])
Pnl == Sum([a \in Actors |-> actor[a].pnl])

(* However requests, settlement, reset, failures and crashes interleave, the
   books only stop balancing after one of four things: a position updated
   from a row that had changed since it was read, an UPDATE of cash lost to
   a failure or a crash, a reset over a balance that had changed since it
   was read, or a reset that cuts a balance above the target, which the
   ledger does not record.  Until then cash and open positions are worth
   what was put in, what was realized and what the ledger topped up.       *)
BooksBalance ==
  drift = {} => cash + Moved + OpenValue = Target + realized + Pnl + Bailouts

(* The settlement trades all that was queued before it marks a trade, and,
   unless a statement fails or the process dies, no more than that, though
   the user trades the same positions at the same time; and settlements that
   follow each other, after failures and crashes too, never trade again for
   a trade that has been executed.                                         *)
TradesFillExactly ==
  /\ [](\A t \in DOMAIN trades :
          /\ trades[t].status = "executed" => filled[t] >= trades[t].quantity
          /\ spent.failures = 0 => filled[t] <= trades[t].quantity)
  /\ [][\A t \in DOMAIN trades :
          trades[t].status = "executed" => filled'[t] = filled[t]]_vars

=============================================================================
