----------------------------- MODULE Tournament ------------------------------
(***************************************************************************)
(* One trading tournament: its row and lifecycle, the entries and the      *)
(* virtual portfolios of its users, their positions on one instrument, the *)
(* trades queued for settlement, the standings and the chat channel.       *)
(*                                                                         *)
(* Worked on, at the same time, by the users' requests (enter, queue a     *)
(* trade, open at once, close by hand), by the end-of-day settlement that  *)
(* fills queued trades and marks open positions to the closing price, and  *)
(* by the lifecycle cron that starts the tournament when its time has come *)
(* and, when it has ended, closes what is open and ranks the entrants.     *)
(*                                                                         *)
(* Every statement commits on its own.  Standings add two columns of the   *)
(* portfolio row, total_realized_pnl and total_unrealized_pnl, which five  *)
(* pieces of code keep in step with the position rows by increments.       *)
(***************************************************************************)
EXTENDS Integers, Sequences, FiniteSets, Sums

CONSTANTS
  N,             \* users are 1..N: equal standings are ordered by user id
  Requests,      \* user requests in flight
  Settlements,   \* settlement runs that may overlap (cron and admin endpoint)
  Crons,         \* lifecycle runs that may overlap
  Calls,         \* what users do once entered: "queue", "close", "destination"
  Prices,        \* closing and quoted prices
  Quantities,    \* quantities of a trade
  StartingBalance,
  MaxStarts,     \* bound: requests and settlements started
  MaxInFlight,   \* bound: requests and settlements at the same time
  MaxPortfolios, \* bound: portfolio rows ever inserted
  MaxPositions,  \* bound: positions ever opened
  MaxTrades,     \* bound: trades ever queued
  MaxFailures    \* bound: failed statements and deaths of the process

ASSUME ConstantsAssumption ==
  /\ N \in Nat
  /\ Calls \subseteq {"queue", "close", "destination"}
  /\ Prices \subseteq Nat \ {0}
  /\ Quantities \subseteq Nat \ {0}
  /\ {StartingBalance, MaxStarts, MaxInFlight, MaxPortfolios, MaxPositions,
      MaxTrades, MaxFailures} \subseteq Nat
  /\ IsFiniteSet(Requests) /\ IsFiniteSet(Settlements) /\ IsFiniteSet(Crons)
  /\ Requests \cap Settlements = {}
  /\ (Requests \cup Settlements) \cap Crons = {}

Users == 1..N

Actors == Requests \cup Settlements \cup Crons

VARIABLES
  status,     \* the tournament's status
  clock,      \* "before" starts_at, "running", or "over" ends_at
  channel,    \* channel_id, 0 for null
  channels,   \* the messaging channels created for the tournament
  portfolios, \* the rows of tournament_portfolios
  entry,      \* the portfolio of each user's entry, 0 for no entry
  rank,       \* final_rank of each entry, 0 for null
  positions,  \* the rows of tournament_positions
  trades,     \* the rows of tournament_trade_queue
  actor,      \* what each request or run is doing
  account,    \* history: what each portfolio earned and what blurs its books
  early,      \* history: users entered when the tournament became active
  spent       \* starts and failures so far

rows == <<portfolios, entry, rank, positions, trades>>
row == <<status, channel, channels>>
vars == <<row, clock, rows, actor, account, early, spent>>

-----------------------------------------------------------------------------
(* Data *)

Directions == {"long", "short"}

Opposite(direction) == IF direction = "long" THEN "short" ELSE "long"

Gain(direction, from, to) == IF direction = "long" THEN to - from ELSE from - to

Position == [portfolio : 1..MaxPortfolios, direction : Directions,
             quantity : Nat, entry : Prices, mark : Prices, unrealized : Int,
             status : {"open", "closed"}]

Trade == [portfolio : 1..MaxPortfolios, direction : Directions,
          quantity : Quantities, filled : Nat,
          status : {"queued", "executed", "cancelled"}]

Portfolio == [owner : Users, cash : Int, realized : Int, unrealized : Int,
              live : BOOLEAN]

(* Why the books of a portfolio (booked) or its unrealized total (marked) may
   stop agreeing with its positions, and why its result may not be final.  *)
Causes == {"stale row", "lost update", "closed by hand", "partly closed", "clamped",
           "late"}

(* What is forgotten when the unrealized total is written anew. *)
Mended == {"closed by hand", "partly closed", "clamped"}

Account == [earned : Int, charged : Nat, booked : SUBSET Causes,
            marked : SUBSET Causes]

NoAccount == [earned |-> 0, charged |-> 0, booked |-> {}, marked |-> {}]

(* What a request or a run holds between two statements: the rows it selected
   as they were then, the profit and the unrealized share it has yet to book,
   the trades, portfolios or users it still has to treat, the unrealized
   totals and the places it has computed.                                  *)
Idle == [op |-> "idle", pc |-> "idle", user |-> 0, portfolio |-> 0,
         direction |-> "long", left |-> 0, price |-> 0, selected |-> {},
         gain |-> 0, share |-> 0, off |-> 0, trade |-> 0, todo |-> {},
         totals |-> [q \in 1..MaxPortfolios |-> 0],
         places |-> [u \in Users |-> 0], channel |-> 0]

OpenPositions == {i \in DOMAIN positions : positions[i].status = "open"}

OpenOf(q) == {i \in OpenPositions : positions[i].portfolio = q}

Select(ids) == {[id |-> i, row |-> positions[i]] : i \in ids}

Entered == {u \in Users : entry[u] # 0}

(* A finalization has selected the positions to close, or is done. *)
Finalizing(a) ==
  \/ status \in {"completed", "archived"}
  \/ \E c \in Crons \ {a} :
       /\ actor[c].op = "complete"
       /\ actor[c].pc # "select"

Start ==
  /\ spent.starts < MaxStarts
  /\ spent' = [spent EXCEPT !.starts = @ + 1]

MayStart(a) ==
  /\ actor[a] = Idle
  /\ Cardinality({b \in Requests \cup Settlements : actor[b] # Idle}) < MaxInFlight
  /\ Start

Failure ==
  /\ spent.failures < MaxFailures
  /\ spent' = [spent EXCEPT !.failures = @ + 1]

(* The unrealized total of the portfolio is being written anew. *)
Marking(a, q) == actor[a].op = "mark" /\ q \in actor[a].todo

(* The portfolio was inserted and its entry is not there yet, or refused. *)
Entering(a, q) == actor[a].pc \in {"entry", "cleanup"} /\ actor[a].portfolio = q

Set(a, state) == actor' = [actor EXCEPT ![a] = state]

Blur(q, booked, marked) ==
  account' = [account EXCEPT ![q].booked = @ \cup booked,
                             ![q].marked = @ \cup marked]

Init ==
  /\ status = "upcoming"
  /\ clock = "before"
  /\ channel = 0
  /\ channels = <<>>
  /\ portfolios = <<>>
  /\ entry = [u \in Users |-> 0]
  /\ rank = [u \in Users |-> 0]
  /\ positions = <<>>
  /\ trades = <<>>
  /\ actor = [a \in Actors |-> Idle]
  /\ account = <<>>
  /\ early = {}
  /\ spent = [starts |-> 0, failures |-> 0]

-----------------------------------------------------------------------------
(* Entering: a portfolio row, then the entry, unique for the user *)

enterTournament(a, u) ==
  /\ MayStart(a)
  /\ status \in {"upcoming", "active"}
  /\ Len(portfolios) < MaxPortfolios
  /\ Set(a, [Idle EXCEPT !.op = "enter", !.pc = "portfolio", !.user = u])
  /\ UNCHANGED <<row, clock, rows, account, early>>

CreatePortfolio(a) ==
  /\ actor[a].pc = "portfolio"
  /\ Len(portfolios) < MaxPortfolios
  /\ portfolios' = Append(portfolios,
       [owner |-> actor[a].user, cash |-> StartingBalance, realized |-> 0,
        unrealized |-> 0, live |-> TRUE])
  /\ account' = Append(account, NoAccount)
  /\ Set(a, [actor[a] EXCEPT !.pc = "entry", !.portfolio = Len(portfolios) + 1])
  /\ UNCHANGED <<row, clock, entry, rank, positions, trades, early, spent>>

(* Mutant: a second entry leaves its portfolio behind. *)
CreateEntryOnly(a) ==
  /\ actor[a].pc = "entry"
  /\ Set(a, Idle)
  /\ entry' = IF entry[actor[a].user] = 0
              THEN [entry EXCEPT ![actor[a].user] = actor[a].portfolio] ELSE entry
  /\ UNCHANGED <<row, clock, portfolios, rank, positions, trades, account, early,
                 spent>>

(* Mutant: a second entry takes the place of the first, and is cleaned up. *)
ReplaceEntry(a) ==
  LET u == actor[a].user
  IN /\ actor[a].pc = "entry"
     /\ entry' = [entry EXCEPT ![u] = actor[a].portfolio]
     /\ Set(a, IF entry[u] = 0 THEN Idle ELSE [actor[a] EXCEPT !.pc = "cleanup"])
     /\ UNCHANGED <<row, clock, portfolios, rank, positions, trades, account,
                    early, spent>>

(* The unique key (tournament, user) refuses a second entry, whose portfolio
   is deleted.                                                             *)
CreateEntry(a) ==
  LET u == actor[a].user
  IN /\ actor[a].pc = "entry"
     /\ IF entry[u] = 0
        THEN /\ entry' = [entry EXCEPT ![u] = actor[a].portfolio]
             /\ Set(a, Idle)
        ELSE /\ Set(a, [actor[a] EXCEPT !.pc = "cleanup"])
             /\ UNCHANGED entry
     /\ UNCHANGED <<row, clock, portfolios, rank, positions, trades, account,
                    early, spent>>

(* Trades and positions reference the portfolio: a row that has some stays,
   and the error of the DELETE is not looked at.                           *)
DeletePortfolio(a) ==
  LET q == actor[a].portfolio
      used == \/ \E t \in DOMAIN trades : trades[t].portfolio = q
              \/ \E i \in DOMAIN positions : positions[i].portfolio = q
  IN /\ actor[a].pc = "cleanup"
     /\ portfolios' = [portfolios EXCEPT ![q].live = used]
     /\ Set(a, Idle)
     /\ UNCHANGED <<row, clock, entry, rank, positions, trades, account, early,
                    spent>>

-----------------------------------------------------------------------------
(* A user's trades *)

(* Both are checked against the status; the portfolio is any of the user's. *)
StartTrade(a, u, call, direction, quantity, price) ==
  /\ MayStart(a)
  /\ status = "active"
  /\ \E q \in DOMAIN portfolios :
       /\ portfolios[q].live
       /\ portfolios[q].owner = u
       /\ call = "destination" => portfolios[q].cash >= quantity * price
       /\ Set(a, [Idle EXCEPT !.op = call, !.user = u, !.portfolio = q,
                              !.pc = IF call = "queue" THEN "enqueue" ELSE "open",
                              !.direction = direction, !.left = quantity,
                              !.price = IF call = "queue" THEN 0 ELSE price])
       /\ account' = [account EXCEPT ![q].booked =
                        IF \A b \in Actors : ~Entering(b, q)
                        THEN @ ELSE @ \cup {"late"}]
  /\ UNCHANGED <<row, clock, rows, early>>

Enqueue(a) ==
  LET p == actor[a]
  IN /\ p.pc = "enqueue"
     /\ Len(trades) < MaxTrades
     /\ trades' = IF portfolios[p.portfolio].live
                  THEN Append(trades, [portfolio |-> p.portfolio, filled |-> 0,
                              direction |-> p.direction, quantity |-> p.left,
                              status |-> "queued"])
                  ELSE trades
     /\ IF Finalizing(a) THEN Blur(p.portfolio, {"late"}, {})
                         ELSE UNCHANGED account
     /\ Set(a, Idle)
     /\ UNCHANGED <<row, clock, portfolios, entry, rank, positions, early, spent>>

(* The charge of a position opened at once, for longs and shorts alike. *)
Charge(a) ==
  LET p == actor[a]
      cost == p.left * p.price
  IN /\ p.pc = "charge"
     /\ portfolios' = [portfolios EXCEPT ![p.portfolio].cash = @ - cost]
     /\ account' = [account EXCEPT ![p.portfolio].charged = @ + cost]
     /\ Set(a, Idle)
     /\ UNCHANGED <<row, clock, entry, rank, positions, trades, early, spent>>

(* Closed at the price of its last marking. *)
closePosition(a, i) ==
  /\ MayStart(a)
  /\ positions[i].status = "open"
  /\ Set(a, [Idle EXCEPT !.op = "close", !.pc = "close",
                         !.portfolio = positions[i].portfolio,
                         !.left = positions[i].quantity, !.selected = Select({i})])
  /\ UNCHANGED <<row, clock, rows, account, early>>

-----------------------------------------------------------------------------
(* Filling and closing: shared by settlement, requests and finalization *)

NextRow(p) == [p EXCEPT !.gain = 0, !.share = 0, !.off = 0]

(* What comes after a row is dealt with. *)
Continue(p) ==
  IF p.op = "settle"
  THEN IF p.left = 0 THEN [p EXCEPT !.pc = "executed", !.selected = {}]
       ELSE IF p.selected = {} THEN [p EXCEPT !.pc = "open"]
       ELSE [p EXCEPT !.pc = "close"]
  ELSE IF p.op = "complete"
  THEN IF p.selected = {} THEN [p EXCEPT !.pc = "cancel"]
       ELSE [p EXCEPT !.pc = "close"]
  ELSE Idle

(* A settlement closes the oldest first, a finalization in any order. *)
InTurn(p) ==
  IF p.op = "settle" THEN {r \in p.selected : \A s \in p.selected : r.id <= s.id}
                     ELSE p.selected

Distance(n) == IF n < 0 THEN -n ELSE n

Exit(p, selected) == IF p.op = "settle" THEN p.price ELSE selected.mark

CloseQuantity(p, selected) ==
  IF p.op = "settle" /\ p.left < selected.quantity THEN p.left ELSE selected.quantity

(* The actor once the UPDATE of the row is done: what it has to book.  A
   finalization takes the row's distance from its entry price off the
   unrealized total, a settlement its share of unrealized_pnl, a close by
   hand nothing.                                                           *)
Booking(p, r) ==
  LET selected == r.row
      quantity == CloseQuantity(p, selected)
      share == (selected.unrealized * quantity) \div selected.quantity
      gain == Gain(selected.direction, selected.entry, Exit(p, selected)) * quantity
  IN [p EXCEPT !.pc = "credit", !.selected = @ \ {r}, !.portfolio = selected.portfolio,
               !.left = IF p.op = "settle" THEN @ - quantity ELSE 0,
               !.gain = gain, !.share = share,
               !.off = CASE p.op = "settle" -> share
                         [] p.op = "close" -> 0
                         [] p.op = "complete" -> Distance(gain)]

Filled(t, quantity) ==
  IF t = 0 THEN trades ELSE [trades EXCEPT ![t].filled = @ + quantity]

CloseRow(a, r) ==
  LET p == actor[a]
      i == r.id
      selected == r.row
      q == selected.portfolio
      quantity == CloseQuantity(p, selected)
      booking == Booking(p, r)
      stale == IF positions[i] = selected THEN {} ELSE {"stale row"}
      apart == {cause \in {"closed by hand", "partly closed"} :
                  IF cause = "closed by hand"
                  THEN p.op = "close" /\ selected.unrealized # 0
                  ELSE p.op = "complete" /\ booking.off # Distance(booking.share)}
  IN /\ p.pc = "close"
     /\ r \in InTurn(p)
     /\ positions' =
          IF quantity = selected.quantity
          THEN [positions EXCEPT ![i].status = "closed", ![i].unrealized = 0]
          ELSE [positions EXCEPT ![i].quantity = selected.quantity - quantity,
                                 ![i].mark = Exit(p, selected),
                                 ![i].unrealized = selected.unrealized - booking.share]
     /\ trades' = Filled(p.trade, quantity)
     /\ account' = [account EXCEPT
          ![q].earned = @ + booking.gain,
          ![q].booked = @ \cup stale,
          ![q].marked = @ \cup apart \cup
            IF \E b \in Actors : Marking(b, q) THEN {"stale row"} ELSE stale]
     /\ Set(a, booking)
     /\ UNCHANGED <<row, clock, portfolios, entry, rank, early, spent>>

(* GREATEST(..., 0) *)
AtLeastZero(n) == IF n < 0 THEN 0 ELSE n

(* Mutant: the profit of a close goes to the cash alone. *)
CreditCash(a) ==
  LET p == actor[a]
      q == p.portfolio
  IN /\ p.pc = "credit"
     /\ portfolios' = [portfolios EXCEPT ![q].cash = @ + p.gain,
                                         ![q].unrealized = AtLeastZero(@ - p.off)]
     /\ Set(a, Continue(NextRow(p)))
     /\ UNCHANGED <<row, clock, entry, rank, positions, trades, account, early, spent>>

(* The portfolio's increments for a closed row.  Only a finalization keeps
   the unrealized total from falling below zero.                           *)
Credit(a) ==
  LET p == actor[a]
      q == p.portfolio
      after == IF p.op = "complete"
               THEN AtLeastZero(portfolios[q].unrealized - p.off)
               ELSE portfolios[q].unrealized - p.off
  IN /\ p.pc = "credit"
     /\ portfolios' = [portfolios EXCEPT ![q].cash = @ + p.gain,
                                         ![q].realized = @ + p.gain,
                                         ![q].unrealized = after]
     /\ account' = [account EXCEPT
          ![q].booked = @ \cup IF Finalizing(a) THEN {"late"} ELSE {},
          ![q].marked = @ \cup
            IF p.op = "complete"
            THEN IF after = portfolios[q].unrealized - p.share THEN {} ELSE {"clamped"}
            ELSE IF "clamped" \in @ THEN {"late"} ELSE {}]
     /\ Set(a, Continue(NextRow(p)))
     /\ UNCHANGED <<row, clock, entry, rank, positions, trades, early, spent>>

(* A settlement takes no cash for what it opens. *)
OpenPosition(a) ==
  LET p == actor[a]
  IN /\ p.pc = "open"
     /\ Len(positions) < MaxPositions
     /\ positions' = IF portfolios[p.portfolio].live
                     THEN Append(positions,
                            [portfolio |-> p.portfolio, direction |-> p.direction,
                             quantity |-> p.left, entry |-> p.price,
                             mark |-> p.price, unrealized |-> 0, status |-> "open"])
                     ELSE positions
     /\ trades' = Filled(p.trade, p.left)
     /\ IF Finalizing(a) THEN Blur(p.portfolio, {"late"}, {})
                         ELSE UNCHANGED account
     /\ Set(a, IF p.op = "settle" THEN [p EXCEPT !.pc = "executed", !.left = 0]
               ELSE IF portfolios[p.portfolio].live THEN [p EXCEPT !.pc = "charge"]
               ELSE Idle)
     /\ UNCHANGED <<row, clock, portfolios, entry, rank, early, spent>>

-----------------------------------------------------------------------------
(* The settlement: executeQueuedTournamentTrades, then the markings *)

StartSettlement(a, price) ==
  /\ MayStart(a)
  /\ status = "active"
  /\ trades # <<>> \/ positions # <<>>
  /\ Set(a, [Idle EXCEPT !.op = "settle", !.pc = "next", !.price = price,
               !.todo = {t \in DOMAIN trades : trades[t].status = "queued"}])
  /\ UNCHANGED <<row, clock, rows, account, early>>

Taken(p, t) == [p EXCEPT !.pc = "opposite", !.trade = t, !.todo = @ \ {t},
                         !.portfolio = trades[t].portfolio,
                         !.direction = trades[t].direction,
                         !.left = trades[t].quantity]

(* Mutant: trades are marked when the settlement takes them up. *)
NextTradeAndMark(a) ==
  LET p == actor[a]
  IN /\ p.pc = "next"
     /\ \/ /\ p.todo = {}
           /\ Set(a, [p EXCEPT !.op = "mark", !.pc = "positions"])
           /\ UNCHANGED trades
        \/ \E t \in p.todo : /\ Set(a, Taken(p, t))
                             /\ trades' = [trades EXCEPT ![t].status = "executed"]
     /\ UNCHANGED <<row, clock, portfolios, entry, rank, positions, account, early, spent>>

(* One after the other, in any order; then the open positions are marked. *)
NextTrade(a) ==
  LET p == actor[a]
  IN /\ p.pc = "next"
     /\ \/ p.todo = {} /\ Set(a, [p EXCEPT !.op = "mark", !.pc = "positions"])
        \/ \E t \in p.todo : Set(a, Taken(p, t))
     /\ UNCHANGED <<row, clock, rows, account, early, spent>>

SelectOpposite(a) ==
  LET p == actor[a]
  IN /\ p.pc = "opposite"
     /\ Set(a, Continue([p EXCEPT !.selected =
          Select({i \in OpenOf(p.portfolio) :
                    positions[i].direction = Opposite(p.direction)})]))
     /\ UNCHANGED <<row, clock, rows, account, early, spent>>

(* The trade is done with, executed or given up. *)
TradeOver(p) ==
  [Idle EXCEPT !.op = "settle", !.pc = "next", !.price = p.price, !.todo = p.todo]

MarkExecuted(a) ==
  LET p == actor[a]
  IN /\ p.pc = "executed"
     /\ trades' = [trades EXCEPT ![p.trade].status = "executed"]
     /\ Set(a, TradeOver(p))
     /\ UNCHANGED <<row, clock, portfolios, entry, rank, positions, account, early,
                    spent>>

(* Mutant: the total counts every position as a long one. *)
TotalAsLong(q, price) ==
  Sum([i \in DOMAIN positions |->
         IF i \in OpenOf(q)
         THEN Gain("long", positions[i].entry, price) * positions[i].quantity
         ELSE 0])

(* What the open positions of a portfolio gain at a price. *)
Total(q, price) ==
  Sum([i \in DOMAIN positions |->
         IF i \in OpenOf(q)
         THEN Gain(positions[i].direction, positions[i].entry, price) * positions[i].quantity
         ELSE 0])

(* The markings to come, and the totals they will add up to. *)
SelectMarks(a) ==
  LET p == actor[a]
      owners == {positions[i].portfolio : i \in OpenPositions}
  IN /\ p.pc = "positions"
     /\ Set(a, IF status # "active" \/ owners = {} THEN Idle
               ELSE [p EXCEPT !.pc = "mark", !.selected = Select(OpenPositions),
                              !.todo = owners,
                              !.totals = [q \in DOMAIN @ |-> Total(q, p.price)]])
     /\ UNCHANGED <<row, clock, rows, account, early, spent>>

NextMark(p, r) ==
  [p EXCEPT !.pc = IF p.selected = {r} THEN "total" ELSE "mark", !.selected = @ \ {r}]

(* By id, from the row selected. *)
MarkPosition(a, r) ==
  LET p == actor[a]
      i == r.id
      selected == r.row
      q == selected.portfolio
      stale == \/ selected.quantity # positions[i].quantity
               \/ selected.status # positions[i].status
               \/ \E b \in Actors \ {a} : Marking(b, q)
  IN /\ p.pc = "mark"
     /\ r \in p.selected
     /\ positions' = [positions EXCEPT ![i].mark = p.price, ![i].unrealized =
          Gain(selected.direction, selected.entry, p.price) * selected.quantity]
     /\ Blur(q, {}, {cause \in {"stale row", "late"} :
                       IF cause = "late" THEN Finalizing(a) ELSE stale})
     /\ Set(a, NextMark(p, r))
     /\ UNCHANGED <<row, clock, portfolios, entry, rank, trades, early, spent>>

NextTotal(p, q) == IF p.todo = {q} THEN Idle ELSE [p EXCEPT !.todo = @ \ {q}]

OpenGain(q) ==
  Sum([i \in DOMAIN positions |-> IF i \in OpenOf(q) THEN positions[i].unrealized ELSE 0])

Booked(q) == {a \in Actors : actor[a].pc = "credit" /\ actor[a].portfolio = q}

(* total_unrealized_pnl is written anew: a close by hand before the marking
   is forgotten.                                                           *)
WriteTotal(a, q) ==
  LET p == actor[a]
  IN /\ p.pc = "total"
     /\ q \in p.todo
     /\ portfolios' = [portfolios EXCEPT ![q].unrealized = p.totals[q]]
     /\ account' = [account EXCEPT ![q].marked =
          (@ \ Mended) \cup
          IF Booked(q) = {} THEN {} ELSE {"stale row"}]
     /\ Set(a, NextTotal(p, q))
     /\ UNCHANGED <<row, clock, entry, rank, positions, trades, early, spent>>

-----------------------------------------------------------------------------
(* The lifecycle cron: activateTournaments *)

(* Mutant: a tournament that has ended is not started any more. *)
StartActivationInTime(a) ==
  /\ actor[a] = Idle
  /\ status = "upcoming" /\ clock = "running"
  /\ Set(a, [Idle EXCEPT !.op = "activate", !.pc = "activate"])
  /\ UNCHANGED <<row, clock, rows, account, early, spent>>

StartActivation(a) ==
  /\ actor[a] = Idle
  /\ status = "upcoming" /\ clock # "before"
  /\ Set(a, [Idle EXCEPT !.op = "activate", !.pc = "activate"])
  /\ UNCHANGED <<row, clock, rows, account, early, spent>>

(* By id: a run that overlaps another one sets active what is completed. *)
Activate(a) ==
  /\ actor[a].pc = "activate"
  /\ status' = "active"
  /\ early' = IF status = "upcoming" THEN Entered ELSE early
  /\ Set(a, [actor[a] EXCEPT !.pc = "channel"])
  /\ UNCHANGED <<channel, channels, clock, rows, account, spent>>

CreateChannel(a) ==
  /\ actor[a].pc = "channel"
  /\ channels' = Append(channels, [members |-> {}, archived |-> FALSE])
  /\ Set(a, [actor[a] EXCEPT !.pc = "attach", !.channel = Len(channels) + 1])
  /\ UNCHANGED <<status, channel, clock, rows, account, early, spent>>

AttachChannel(a) ==
  /\ actor[a].pc = "attach"
  /\ channel' = actor[a].channel
  /\ Set(a, [actor[a] EXCEPT !.pc = "entries"])
  /\ UNCHANGED <<status, channels, clock, rows, account, early, spent>>

NextMember(p, users) ==
  IF users = {} THEN Idle ELSE [p EXCEPT !.pc = "members", !.todo = users]

(* Mutant: the creator of the tournament is taken to be a member already. *)
ReadOtherEntries(a) ==
  /\ actor[a].pc = "entries"
  /\ Set(a, NextMember(actor[a], Entered \ {1}))
  /\ UNCHANGED <<row, clock, rows, account, early, spent>>

ReadEntries(a) ==
  /\ actor[a].pc = "entries"
  /\ Set(a, NextMember(actor[a], Entered))
  /\ UNCHANGED <<row, clock, rows, account, early, spent>>

AddMember(a, u) ==
  LET p == actor[a]
  IN /\ p.pc = "members"
     /\ u \in p.todo
     /\ channels' = [channels EXCEPT ![p.channel].members = @ \cup {u}]
     /\ Set(a, NextMember(p, p.todo \ {u}))
     /\ UNCHANGED <<status, channel, clock, rows, account, early, spent>>

-----------------------------------------------------------------------------
(* The lifecycle cron: completeTournaments and finalizeResults *)

StartCompletion(a) ==
  /\ actor[a] = Idle
  /\ status = "active" /\ clock = "over"
  /\ Set(a, [Idle EXCEPT !.op = "complete", !.pc = "select", !.channel = channel])
  /\ UNCHANGED <<row, clock, rows, account, early, spent>>

(* Mutant: the tournament is completed before its results are final. *)
CompleteAndSelectOpen(a) ==
  /\ actor[a].pc = "select"
  /\ status' = "completed"
  /\ Set(a, Continue([actor[a] EXCEPT !.selected = Select(OpenPositions)]))
  /\ UNCHANGED <<channel, channels, clock, rows, account, early, spent>>

SelectOpen(a) ==
  /\ actor[a].pc = "select"
  /\ Set(a, Continue([actor[a] EXCEPT !.selected = Select(OpenPositions)]))
  /\ UNCHANGED <<row, clock, rows, account, early, spent>>

(* Mutant: a queued trade is taken for one that will be executed. *)
LeaveQueued(a) ==
  /\ actor[a].pc = "cancel"
  /\ Set(a, [actor[a] EXCEPT !.pc = "board"])
  /\ UNCHANGED <<row, clock, rows, account, early, spent>>

CancelQueued(a) ==
  /\ actor[a].pc = "cancel"
  /\ trades' = [t \in DOMAIN trades |->
                  [trades[t] EXCEPT !.status = IF @ = "queued" THEN "cancelled" ELSE @]]
  /\ Set(a, [actor[a] EXCEPT !.pc = "board"])
  /\ UNCHANGED <<row, clock, portfolios, entry, rank, positions, account, early,
                 spent>>

Standing(u) == portfolios[entry[u]].realized + portfolios[entry[u]].unrealized

Ahead(u, v) == Standing(u) > Standing(v) \/ (Standing(u) = Standing(v) /\ u < v)

Place(u) == Cardinality({v \in Entered : v = u \/ Ahead(v, u)})

(* The places are those of the board as it was read. *)
NextRank(p, users) == IF users = {} THEN [p EXCEPT !.pc = "completed", !.todo = {}]
                      ELSE [p EXCEPT !.pc = "rank", !.todo = users]

ReadBoard(a) ==
  /\ actor[a].pc = "board"
  /\ Set(a, NextRank([actor[a] EXCEPT !.places =
                        [u \in Users |-> IF u \in Entered THEN Place(u) ELSE 0]], Entered))
  /\ UNCHANGED <<row, clock, rows, account, early, spent>>

(* Ranks are written from the first place down. *)
BestOf(p) == {u \in p.todo : \A v \in p.todo : p.places[u] <= p.places[v]}

WriteRank(a, u) ==
  LET p == actor[a]
  IN /\ p.pc = "rank"
     /\ u \in BestOf(p)
     /\ rank' = [rank EXCEPT ![u] = p.places[u]]
     /\ Set(a, NextRank(p, p.todo \ {u}))
     /\ UNCHANGED <<row, clock, portfolios, entry, positions, trades, account,
                    early, spent>>

(* The channel to archive is the one the tournament had when selected. *)
SetCompleted(a) ==
  /\ actor[a].pc = "completed"
  /\ status' = "completed"
  /\ Set(a, IF actor[a].channel = 0 THEN Idle ELSE [actor[a] EXCEPT !.pc = "archive"])
  /\ UNCHANGED <<channel, channels, clock, rows, account, early, spent>>

ArchiveChannel(a) ==
  /\ actor[a].pc = "archive"
  /\ channels' = [channels EXCEPT ![actor[a].channel].archived = TRUE]
  /\ Set(a, Idle)
  /\ UNCHANGED <<status, channel, clock, rows, account, early, spent>>

archiveTournament ==
  /\ status = "completed"
  /\ status' = "archived"
  /\ UNCHANGED <<channel, channels, clock, rows, actor, account, early, spent>>

-----------------------------------------------------------------------------
(* Failures and time *)

(* A statement whose error is thrown ends the request, the cron's run, or the
   trade the settlement is filling.                                        *)
StatementThrows(a) ==
  LET p == actor[a]
  IN /\ \/ p.pc \in {"portfolio", "entry", "enqueue", "open", "opposite", "positions",
                     "select", "board", "channel", "entries", "members"}
        \/ p.pc = "close" /\ p.op # "complete"
        \/ p.pc = "credit" /\ p.op = "settle"
     /\ Failure
     /\ Set(a, IF p.op = "settle" THEN TradeOver(p) ELSE Idle)
     /\ IF p.pc = "credit" THEN Blur(p.portfolio, {"lost update"}, {"lost update"})
        ELSE IF p.pc = "entry" THEN Blur(p.portfolio, {"lost update"}, {})
        ELSE UNCHANGED account
     /\ UNCHANGED <<row, clock, rows, early>>

(* What follows a statement whose error nobody looks at. *)
Ignored(p) ==
  CASE p.pc \in {"cleanup", "charge", "archive"} -> Idle
    [] p.pc = "credit"    -> Continue(NextRow(p))
    [] p.pc = "executed"  -> TradeOver(p)
    [] p.pc = "activate"  -> [p EXCEPT !.pc = "channel"]
    [] p.pc = "attach"    -> [p EXCEPT !.pc = "entries"]
    [] p.pc = "cancel"    -> [p EXCEPT !.pc = "board"]
    [] p.pc = "completed" -> IF p.channel = 0 THEN Idle ELSE [p EXCEPT !.pc = "archive"]

(* The portfolios whose books, or whose result, the statement was to write. *)
Missed(p) ==
  CASE p.pc \in {"cleanup", "credit", "charge"} -> {p.portfolio}
    [] p.pc = "cancel" -> {trades[t].portfolio : t \in DOMAIN trades}
    [] OTHER -> {}

Lose(portfolio, booked, marked) ==
  account' = [q \in DOMAIN account |->
    IF q \notin portfolio THEN account[q]
    ELSE [account[q] EXCEPT !.booked = @ \cup booked, !.marked = @ \cup marked]]

StatementIgnored(a) ==
  LET p == actor[a]
  IN /\ \/ p.pc \in {"cleanup", "charge", "executed", "activate", "attach", "cancel",
                     "completed", "archive"}
        \/ p.pc = "credit" /\ p.op # "settle"
     /\ Failure
     /\ Set(a, Ignored(p))
     /\ Lose(Missed(p), {"lost update"}, {"lost update"})
     /\ UNCHANGED <<row, clock, rows, early>>

(* A row that was to be closed by the finalization, or to be marked. *)
RowIgnored(a, r) ==
  LET p == actor[a]
  IN /\ \/ p.pc = "close" /\ p.op = "complete"
        \/ p.pc = "mark"
     /\ r \in p.selected
     /\ Failure
     /\ Set(a, IF p.pc = "mark" THEN NextMark(p, r) ELSE Booking(p, r))
     /\ Lose({r.row.portfolio}, IF p.pc = "mark" THEN {} ELSE {"lost update"},
             {"lost update"})
     /\ UNCHANGED <<row, clock, rows, early>>

(* The unrealized total of a portfolio, or the rank of a user. *)
TotalIgnored(a, q) ==
  /\ actor[a].pc = "total"
  /\ q \in actor[a].todo
  /\ Failure
  /\ Set(a, NextTotal(actor[a], q))
  /\ Lose({q}, {}, {"lost update"})
  /\ UNCHANGED <<row, clock, rows, early>>

RankIgnored(a, u) ==
  /\ actor[a].pc = "rank"
  /\ u \in BestOf(actor[a])
  /\ Failure
  /\ Set(a, NextRank(actor[a], actor[a].todo \ {u}))
  /\ Lose({entry[u]}, {"lost update"}, {"lost update"})
  /\ UNCHANGED <<row, clock, rows, early>>

(* The process dies, with every request and run; what they had yet to book is
   lost, and a portfolio without its entry stays.                          *)
Crash ==
  LET held(q) == {a \in Actors : actor[a].portfolio = q /\
                    actor[a].pc \in {"entry", "cleanup", "credit", "charge"}}
      marking(q) == {a \in Actors : Marking(a, q)}
  IN /\ Failure
     /\ \E a \in Actors : actor[a] # Idle
     /\ actor' = [a \in Actors |-> Idle]
     /\ account' = [q \in DOMAIN account |->
          [account[q] EXCEPT
             !.booked = IF held(q) = {} THEN @ ELSE @ \cup {"lost update"},
             !.marked = IF held(q) \cup marking(q) = {} THEN @
                        ELSE @ \cup {"lost update"}]]
     /\ UNCHANGED <<row, clock, rows, early>>

Tick ==
  /\ clock # "over"
  /\ clock' = IF clock = "before" THEN "running" ELSE "over"
  /\ UNCHANGED <<row, rows, actor, account, early, spent>>

-----------------------------------------------------------------------------
Request(a) ==
  \/ \E u \in Users : enterTournament(a, u)
  \/ CreatePortfolio(a)
  \/ CreateEntry(a)
  \/ DeletePortfolio(a)
  \/ \E u \in Users, call \in Calls \ {"close"}, direction \in Directions,
        quantity \in Quantities, price \in Prices :
       StartTrade(a, u, call, direction, quantity, price)
  \/ Enqueue(a)
  \/ Charge(a)
  \/ "close" \in Calls /\ \E i \in DOMAIN positions : closePosition(a, i)

Settlement(a) ==
  \/ \E price \in Prices : StartSettlement(a, price)
  \/ NextTrade(a)
  \/ SelectOpposite(a)
  \/ MarkExecuted(a)
  \/ SelectMarks(a)
  \/ \E r \in actor[a].selected : MarkPosition(a, r)
  \/ \E q \in actor[a].todo : WriteTotal(a, q)

Lifecycle(a) ==
  \/ StartActivation(a)
  \/ Activate(a)
  \/ CreateChannel(a)
  \/ AttachChannel(a)
  \/ ReadEntries(a)
  \/ \E u \in actor[a].todo : AddMember(a, u)
  \/ StartCompletion(a)
  \/ SelectOpen(a)
  \/ CancelQueued(a)
  \/ ReadBoard(a)
  \/ \E u \in actor[a].todo : WriteRank(a, u)
  \/ SetCompleted(a)
  \/ ArchiveChannel(a)

Filling(a) ==
  \/ \E r \in actor[a].selected : CloseRow(a, r)
  \/ Credit(a)
  \/ OpenPosition(a)

Failing(a) ==
  \/ StatementThrows(a)
  \/ StatementIgnored(a)
  \/ \E r \in actor[a].selected : RowIgnored(a, r)
  \/ \E q \in actor[a].todo : TotalIgnored(a, q)
  \/ \E u \in actor[a].todo : RankIgnored(a, u)

Next ==
  \/ \E a \in Requests : Request(a)
  \/ \E a \in Settlements : Settlement(a)
  \/ \E a \in Crons : Lifecycle(a)
  \/ \E a \in Actors : Filling(a) \/ Failing(a)
  \/ archiveTournament
  \/ Crash
  \/ Tick

Spec == Init /\ [][Next]_vars

(* The lifecycle cron runs every five minutes and awaits its own statements. *)
FairSpec == Spec /\ \A a \in Crons : WF_vars(Lifecycle(a) \/ Filling(a))

-----------------------------------------------------------------------------
(* Properties *)

Operations == {"idle", "enter", "queue", "destination", "close", "settle",
               "mark", "activate", "complete"}

Steps == {"idle", "portfolio", "entry", "cleanup", "enqueue", "open",
          "charge", "close", "credit", "next", "opposite", "executed",
          "positions", "mark", "total", "activate", "channel", "attach",
          "entries", "members", "select", "cancel", "board", "rank",
          "completed", "archive"}

Selected == [id : 1..MaxPositions, row : Position]

Actor == [op : Operations, pc : Steps,
          user : 0..N, portfolio : 0..MaxPortfolios, direction : Directions,
          left : Nat, price : Prices \cup {0}, selected : SUBSET Selected,
          gain : Int, share : Int, off : Int, trade : 0..MaxTrades,
          todo : SUBSET (Nat \ {0}), totals : [1..MaxPortfolios -> Int],
          places : [Users -> 0..N], channel : Nat]

(* Entries, trades and positions reference rows that are there, and an entry
   references a portfolio of its user, whatever a clean-up deletes.        *)
TypeOK ==
  /\ status \in {"upcoming", "active", "completed", "archived"}
  /\ clock \in {"before", "running", "over"}
  /\ channels \in Seq([members : SUBSET Users, archived : BOOLEAN])
  /\ channel \in 0..Len(channels)
  /\ portfolios \in Seq(Portfolio) /\ account \in Seq(Account)
  /\ DOMAIN account = DOMAIN portfolios
  /\ \A u \in Entered : /\ entry[u] \in DOMAIN portfolios
                        /\ portfolios[entry[u]].owner = u
                        /\ portfolios[entry[u]].live
  /\ rank \in [Users -> 0..N]
  /\ positions \in Seq(Position) /\ trades \in Seq(Trade)
  /\ \A i \in DOMAIN positions : positions[i].quantity > 0
                                 /\ portfolios[positions[i].portfolio].live
  /\ \A t \in DOMAIN trades : portfolios[trades[t].portfolio].live
  /\ actor \in [Actors -> Actor]
  /\ early \subseteq Users
  /\ spent \in [starts : 0..MaxStarts, failures : 0..MaxFailures]

(* The profit of a portfolio that is yet to be booked, and the share of its
   unrealized total that is yet to be taken off.                           *)
PendingGain(q) ==
  Sum([a \in Actors |-> IF actor[a].portfolio = q THEN actor[a].gain ELSE 0])

PendingShare(q) ==
  Sum([a \in Actors |-> IF actor[a].portfolio = q /\ actor[a].op # "close"
                        THEN actor[a].share ELSE 0])

(* The realized column of a portfolio is what its closed quantities earned,
   and its cash the starting balance, that profit, and what was charged for
   positions opened at once, however users, settlement and finalization
   interleave, until an update is lost or a row is closed from a row that had
   changed.  What was charged never comes back when such a position closes. *)
BooksBalance ==
  \A q \in DOMAIN portfolios :
    account[q].booked \subseteq {"late"} =>
      /\ portfolios[q].realized + PendingGain(q) = account[q].earned
      /\ portfolios[q].cash = StartingBalance + portfolios[q].realized
                                - account[q].charged

(* The unrealized column is what the open positions were last marked at,
   unless a position that had been marked was closed by hand, a finalization
   held it at zero, an update was lost, or rows changed during a marking.  *)
StandingsAddUp ==
  \A q \in DOMAIN portfolios :
    /\ account[q].marked = {}
    /\ \A a \in Actors : ~Marking(a, q)
    => portfolios[q].unrealized = OpenGain(q) + PendingShare(q)

(* When the tournament is completed, no position of an entrant is open, no
   trade queued, nothing unrealized is left, and ranks follow what was
   earned: also when the first finalization died or failed half way.  Left
   out are portfolios with lost or stale updates, with a position closed by
   hand or in part since its last marking, and with requests that landed, or
   had a profit to book, during the finalization.                          *)
ResultsAreFinal ==
  LET clean == {u \in Entered : /\ account[entry[u]].booked = {}
                                /\ account[entry[u]].marked \subseteq {"clamped"}
                                /\ Booked(entry[u]) = {}
                                /\ \A a \in Actors : ~Marking(a, entry[u])}
  IN status \in {"completed", "archived"} =>
       /\ \A u \in clean :
            /\ OpenOf(entry[u]) = {}
            /\ \A t \in DOMAIN trades :
                 trades[t].portfolio = entry[u] => trades[t].status # "queued"
            /\ portfolios[entry[u]].unrealized = 0
       /\ \A u, v \in clean :
            /\ rank[u] # 0 /\ rank[v] # 0
            /\ account[entry[u]].earned > account[entry[v]].earned
            => rank[u] < rank[v]

(* A trade marked executed has been filled.  Unless something failed, no trade
   is filled beyond its quantity, and one the finalization cancelled while a
   settlement was at work was either not filled or is yet to be marked.    *)
TradesFillExactly ==
  \A t \in DOMAIN trades :
    /\ trades[t].status = "executed" => trades[t].filled >= trades[t].quantity
    /\ spent.failures = 0 => trades[t].filled <= trades[t].quantity
    /\ /\ trades[t].status = "cancelled"
       /\ spent.failures = 0
       /\ \A a \in Settlements : actor[a].trade # t
       => trades[t].filled = 0

(* A user's trades and positions are on the portfolio of the user's entry,
   the one that is ranked, unless entering failed half way, or the user
   traded while entering.                                                  *)
EntrantsTradeTheirEntry ==
  \A q \in {trades[t].portfolio : t \in DOMAIN trades}
             \cup {positions[i].portfolio : i \in DOMAIN positions} :
    account[q].booked = {} => entry[portfolios[q].owner] = q

(* Once started and unless a statement failed or the process died, the
   tournament has a channel with everyone who had entered by then, and a
   completed one has it archived.                                          *)
ChannelHasEntrants ==
  /\ spent.failures = 0
  /\ status # "upcoming"
  /\ \A c \in Crons : actor[c] = Idle
  => /\ channel # 0
     /\ early \subseteq channels[channel].members
     /\ status # "active" => channels[channel].archived

(* A tournament whose end has come is completed, though runs of the cron fail
   or die, and though it was never started.                                *)
EndedIsCompleted == clock = "over" ~> status \in {"completed", "archived"}

=============================================================================
