------------------------- MODULE UserPortfolioProofs -------------------------
(***************************************************************************)
(* For any number of requests, settlements and resets, prices, quantities  *)
(* and failures: the types, the balance of the books, and, with one        *)
(* settlement at a time, that queued trades fill exactly.                  *)
(*                                                                         *)
(* A request or run between two statements knows which it is at; what that *)
(* says of the rest of what it holds is Legal.                             *)
(***************************************************************************)
EXTENDS UserPortfolio, SumsTheorems

FillSteps == {"select", "close", "credit", "lookup", "open", "debit"}

StepsOf(op) ==
  CASE op = "idle" -> {"idle"}
    [] op = "close" -> {"close", "credit"}
    [] op = "settlement" -> (FillSteps \ {"lookup"}) \cup {"next", "mark"}
    [] op = "reset" -> {"closing", "close", "credit", "ledger", "topup"}
    [] OTHER -> FillSteps

TopUp(seen) == IF seen < Target THEN Target - seen ELSE 0

(* Whoever closes positions holds rows that were open and not empty; a close
   of one position holds that one, and all of it.                          *)
RowsLegal(p, ids) ==
  /\ \A s \in p.rows : s.id \in ids /\ s.row.status = "open" /\ s.row.quantity > 0
  /\ p.op \in {"close", "reset"} =>
       /\ p.pc = "close" => \E s \in p.rows : p.rows = {s} /\ p.left = s.row.quantity
       /\ p.pc = "credit" => p.left = 0 /\ p.rows = {}

LeftLegal(p) ==
  /\ p.pc \in {"select", "close", "lookup", "open"} => p.left > 0
  /\ p.pc \in {"debit", "mark"} => p.left = 0

(* Cash is on its way between a position, or the ledger, and the balance. *)
MoneyLegal(p) ==
  /\ p.pc \notin {"credit", "debit", "topup"} => p.moved = 0
  /\ p.pc = "credit" => p.moved # 0
  /\ p.pc # "credit" => p.pnl = 0
  /\ p.pc = "topup" => p.moved = TopUp(p.seen)

QueueLegal(p, ids, numbers) ==
  /\ p.op = "settlement" => p.todo \subseteq numbers
  /\ p.op = "reset" => p.todo \subseteq ids
  /\ IF p.op = "settlement" /\ p.pc # "next" THEN p.trade \in numbers ELSE p.trade = 0

Legal(p, ids, numbers) ==
  /\ p.pc \in StepsOf(p.op)
  /\ p.op = "idle" => p = Idle
  /\ p.pc \in FillSteps \cup {"next", "mark"} => p.price \in Prices
  /\ RowsLegal(p, ids)
  /\ LeftLegal(p)
  /\ MoneyLegal(p)
  /\ QueueLegal(p, ids, numbers)

StateInv == \A a \in Actors : Legal(actor[a], DOMAIN positions, DOMAIN trades)

TypeInv == TypeOK /\ StateInv

-----------------------------------------------------------------------------
(* Sequences *)

LEMMA AppendFacts ==
  ASSUME NEW S, NEW s \in Seq(S), NEW x \in S
  PROVE  /\ Append(s, x) \in Seq(S)
         /\ Len(Append(s, x)) = Len(s) + 1
         /\ DOMAIN Append(s, x) = DOMAIN s \cup {Len(s) + 1}
         /\ Append(s, x)[Len(s) + 1] = x
         /\ Len(s) + 1 \notin DOMAIN s
         /\ \A i \in DOMAIN s : Append(s, x)[i] = s[i]
OBVIOUS

LEMMA ExceptFacts ==
  ASSUME NEW S, NEW s \in Seq(S), NEW i \in DOMAIN s, NEW x \in S
  PROVE  /\ [s EXCEPT ![i] = x] \in Seq(S)
         /\ Len([s EXCEPT ![i] = x]) = Len(s)
         /\ DOMAIN [s EXCEPT ![i] = x] = DOMAIN s
OBVIOUS

LEMMA DomainFacts ==
  ASSUME NEW S, NEW s \in Seq(S)
  PROVE  /\ Len(s) \in Nat
         /\ DOMAIN s = 1..Len(s)
         /\ \A i \in DOMAIN s : s[i] \in S /\ i \in Nat \ {0}
OBVIOUS

-----------------------------------------------------------------------------
(* Money *)

LEMMA Product ==
  ASSUME NEW x \in Nat, NEW y \in Nat
  PROVE  x * y \in Nat /\ (x > 0 /\ y > 0 => x * y > 0)
OBVIOUS

LEMMA CashDeltas ==
  ASSUME NEW direction \in Directions, NEW quantity \in Nat, NEW price \in Prices, NEW entry \in Prices
  PROVE  /\ openCashDelta(direction, quantity, price) \in Int
         /\ closeCashDelta(direction, quantity, price) \in Int
         /\ RealizedPnl(direction, quantity, entry, price) \in Int
         /\ quantity > 0 => closeCashDelta(direction, quantity, price) # 0
<1>1. price \in Nat /\ price > 0 /\ entry \in Nat
  BY ConstantsAssumption
<1>2. quantity * price \in Nat /\ quantity * entry \in Nat /\ (quantity > 0 => quantity * price > 0)
  BY <1>1, Product
<1> QED BY <1>2 DEF openCashDelta, closeCashDelta, RealizedPnl

-----------------------------------------------------------------------------
(* What is held between statements *)

LEMMA IdleFacts ==
  /\ Idle \in Actor
  /\ Idle.op = "idle" /\ Idle.pc = "idle" /\ Idle.direction = "long" /\ Idle.left = 0
  /\ Idle.price = 0 /\ Idle.rows = {} /\ Idle.moved = 0 /\ Idle.pnl = 0 /\ Idle.seen = 0
  /\ Idle.trade = 0 /\ Idle.todo = {}
BY ConstantsAssumption DEF Idle, Actor, Directions

LEMMA IdleLegal ==
  ASSUME NEW ids, NEW numbers
  PROVE  Idle \in Actor /\ Legal(Idle, ids, numbers)
BY IdleFacts DEF Legal, StepsOf, RowsLegal, LeftLegal, MoneyLegal, QueueLegal, FillSteps

(* Tables only grow. *)
LEMMA LegalStays ==
  ASSUME NEW p, NEW ids, NEW numbers, Legal(p, ids, numbers),
         NEW moreIds, ids \subseteq moreIds, NEW moreNumbers, numbers \subseteq moreNumbers
  PROVE  Legal(p, moreIds, moreNumbers)
BY DEF Legal, RowsLegal, QueueLegal

LEMMA ActorStep ==
  ASSUME TypeInv, NEW a \in Actors, NEW p \in Actor, actor' = [actor EXCEPT ![a] = p],
         Legal(p, DOMAIN positions', DOMAIN trades'),
         DOMAIN positions \subseteq DOMAIN positions', DOMAIN trades \subseteq DOMAIN trades'
  PROVE  actor' \in [Actors -> Actor] /\ StateInv'
<1>1. actor \in [Actors -> Actor]
  BY DEF TypeInv, TypeOK
<1>2. actor' \in [Actors -> Actor] /\ actor'[a] = p /\ \A b \in Actors \ {a} : actor'[b] = actor[b]
  BY <1>1
<1>3. ASSUME NEW b \in Actors PROVE Legal(actor'[b], DOMAIN positions', DOMAIN trades')
  <2>1. CASE b = a
    BY <1>2, <2>1
  <2>2. CASE b # a
    BY <1>2, <2>2, LegalStays DEF TypeInv, StateInv
  <2> QED BY <2>1, <2>2
<1> QED BY <1>2, <1>3 DEF StateInv

(* What is ready for the next statement of its fill or close. *)
Ready(p, ids, numbers) ==
  /\ p.op \in FillCalls \cup {"close", "settlement", "reset"}
  /\ p.price \in Prices
  /\ p.moved = 0 /\ p.pnl = 0
  /\ \A s \in p.rows : s.id \in ids /\ s.row.status = "open" /\ s.row.quantity > 0
  /\ p.op \in {"close", "reset"} => p.left = 0
  /\ p.op = "settlement" => p.todo \subseteq numbers /\ p.trade \in numbers
  /\ p.op = "reset" => p.todo \subseteq ids
  /\ p.op # "settlement" => p.trade = 0

LEMMA OverLegal ==
  ASSUME NEW p \in Actor, NEW ids, NEW numbers,
         p.op = "settlement" => p.price \in Prices /\ p.todo \subseteq numbers,
         p.op = "reset" => p.todo \subseteq ids
  PROVE  Over(p) \in Actor /\ Legal(Over(p), ids, numbers)
<1>1. CASE p.op = "settlement"
  <2>1. Over(p) \in Actor
    BY <1>1, IdleFacts DEF Over, Actor
  <2>2. Legal(Over(p), ids, numbers)
    BY <1>1, IdleFacts DEF Over, Actor, Legal, StepsOf, RowsLegal, LeftLegal, MoneyLegal, QueueLegal, FillSteps
  <2> QED BY <2>1, <2>2
<1>2. CASE p.op = "reset"
  <2>1. Over(p) \in Actor
    BY <1>2, IdleFacts DEF Over, Actor
  <2>2. Legal(Over(p), ids, numbers)
    BY <1>2, IdleFacts DEF Over, Actor, Legal, StepsOf, RowsLegal, LeftLegal, MoneyLegal, QueueLegal, FillSteps
  <2> QED BY <2>1, <2>2
<1>3. CASE p.op \notin {"settlement", "reset"}
  BY <1>3, IdleLegal DEF Over
<1> QED BY <1>1, <1>2, <1>3

LEMMA ContinueLegal ==
  ASSUME NEW p \in Actor, NEW ids, NEW numbers, Ready(p, ids, numbers)
  PROVE  /\ Continue(p) \in Actor /\ Legal(Continue(p), ids, numbers)
         /\ Continue(p).moved = 0 /\ Continue(p).pnl = 0
<1>1. CASE p.left > 0 /\ p.rows # {}
  <2>1. Continue(p) = [p EXCEPT !.pc = "close"]
    BY <1>1 DEF Continue
  <2> QED BY <1>1, <2>1 DEF Ready, Actor, Legal, StepsOf, RowsLegal, LeftLegal, MoneyLegal,
                            QueueLegal, FillSteps, FillCalls
<1>2. CASE p.left = 0
  <2>1. CASE p.op = "settlement"
    <3>1. Continue(p) = [p EXCEPT !.pc = "mark"]
      BY <1>2, <2>1 DEF Continue
    <3> QED BY <1>2, <2>1, <3>1 DEF Ready, Actor, Legal, StepsOf, RowsLegal, LeftLegal,
                                    MoneyLegal, QueueLegal, FillSteps, FillCalls
  <2>2. CASE p.op # "settlement"
    <3>1. Continue(p) = Over(p)
      BY <1>2, <2>2 DEF Continue
    <3>2. Over(p).moved = 0 /\ Over(p).pnl = 0
      BY IdleFacts DEF Over, Actor
    <3>3. Over(p) \in Actor /\ Legal(Over(p), ids, numbers)
      BY <2>2, OverLegal DEF Ready
    <3> QED BY <3>1, <3>2, <3>3
  <2> QED BY <2>1, <2>2
<1>3. CASE p.left > 0 /\ p.rows = {}
  <2>1. p.op \in FillCalls \cup {"settlement"}
    BY <1>3 DEF Ready
  <2>2. CASE p.op = "immediate"
    <3>1. Continue(p) = [p EXCEPT !.pc = "lookup"]
      BY <1>3, <2>2 DEF Continue
    <3> QED BY <1>3, <2>2, <3>1 DEF Ready, Actor, Legal, StepsOf, RowsLegal, LeftLegal,
                                    MoneyLegal, QueueLegal, FillSteps, FillCalls
  <2>3. CASE p.op # "immediate"
    <3>1. Continue(p) \in {Idle, [p EXCEPT !.pc = "open"]}
      BY <1>3, <2>1, <2>3 DEF Continue, FillCalls
    <3>2. /\ [p EXCEPT !.pc = "open"] \in Actor
          /\ Legal([p EXCEPT !.pc = "open"], ids, numbers)
          /\ [p EXCEPT !.pc = "open"].moved = 0 /\ [p EXCEPT !.pc = "open"].pnl = 0
      BY <1>3, <2>1 DEF Ready, Actor, Legal, StepsOf, RowsLegal, LeftLegal, MoneyLegal,
                        QueueLegal, FillSteps, FillCalls
    <3>3. Idle.moved = 0 /\ Idle.pnl = 0
      BY DEF Idle
    <3> QED BY <3>1, <3>2, <3>3, IdleLegal
  <2> QED BY <2>2, <2>3
<1>4. p.left \in Nat
  BY DEF Actor
<1> QED BY <1>1, <1>2, <1>3, <1>4

(* What becomes of the trade a settlement is at. *)
LEMMA ContinueTrade ==
  ASSUME NEW p \in Actor, p.op # "idle"
  PROVE  /\ p.op = "settlement" =>
              /\ Continue(p).op = "settlement"
              /\ Continue(p).trade = p.trade
              /\ Continue(p).left = p.left
              /\ Continue(p).todo = p.todo
         /\ p.op # "settlement" => Continue(p).op # "settlement"
         /\ Over(p).trade = 0
         /\ p.op = "settlement" => Over(p).op = "settlement" /\ Over(p).todo = p.todo
         /\ p.op # "settlement" => Over(p).op # "settlement"
<1>1. p.left \in Nat
  BY DEF Actor
<1>2. CASE p.op = "settlement"
  <2>1. Continue(p) \in {[p EXCEPT !.pc = "close"], [p EXCEPT !.pc = "mark"], [p EXCEPT !.pc = "open"]}
    BY <1>1, <1>2 DEF Continue
  <2>2. /\ Continue(p).op = "settlement" /\ Continue(p).trade = p.trade
        /\ Continue(p).left = p.left /\ Continue(p).todo = p.todo
    BY <1>2, <2>1 DEF Actor
  <2>3. Over(p).op = "settlement" /\ Over(p).todo = p.todo /\ Over(p).trade = 0
    BY <1>2, IdleFacts DEF Over, Actor
  <2> QED BY <1>2, <2>2, <2>3
<1>3. CASE p.op # "settlement"
  <2>1. Over(p).op # "settlement" /\ Over(p).trade = 0
    BY <1>3, IdleFacts DEF Over, Actor
  <2>2. Continue(p) \in {[p EXCEPT !.pc = "close"], [p EXCEPT !.pc = "lookup"],
                         [p EXCEPT !.pc = "open"], Idle, Over(p)}
    BY <1>1, <1>3 DEF Continue
  <2>3. Continue(p).op # "settlement"
    BY <1>3, <2>1, <2>2, IdleFacts DEF Actor
  <2> QED BY <1>3, <2>1, <2>3
<1> QED BY <1>2, <1>3

-----------------------------------------------------------------------------
(* Facts of a state *)

LEMMA StateFacts ==
  ASSUME TypeInv
  PROVE  /\ Len(positions) \in Nat /\ DOMAIN positions = 1..Len(positions)
         /\ Len(positions) <= MaxPositions /\ MaxPositions \in Nat
         /\ DOMAIN positions \subseteq 1..MaxPositions
         /\ \A i \in DOMAIN positions : positions[i] \in Position /\ i \in Nat \ {0}
         /\ Len(trades) \in Nat /\ DOMAIN trades = 1..Len(trades)
         /\ Len(trades) <= MaxTrades /\ MaxTrades \in Nat
         /\ DOMAIN trades \subseteq 1..MaxTrades
         /\ \A t \in DOMAIN trades : trades[t] \in Trade /\ t \in Nat \ {0}
         /\ DOMAIN filled = DOMAIN trades
         /\ \A t \in DOMAIN trades : filled[t] \in Nat
         /\ \A a \in Actors : /\ actor[a] \in Actor
                              /\ Legal(actor[a], DOMAIN positions, DOMAIN trades)
<1>1. /\ Len(positions) \in Nat /\ DOMAIN positions = 1..Len(positions)
      /\ \A i \in DOMAIN positions : positions[i] \in Position /\ i \in Nat \ {0}
  BY DomainFacts DEF TypeInv, TypeOK
<1>2. /\ Len(trades) \in Nat /\ DOMAIN trades = 1..Len(trades)
      /\ \A t \in DOMAIN trades : trades[t] \in Trade /\ t \in Nat \ {0}
  BY DomainFacts DEF TypeInv, TypeOK
<1>3. Len(filled) = Len(trades) /\ DOMAIN filled = 1..Len(filled) /\ \A t \in DOMAIN filled : filled[t] \in Nat
  BY DomainFacts DEF TypeInv, TypeOK
<1>4. /\ Len(positions) <= MaxPositions /\ MaxPositions \in Nat
      /\ Len(trades) <= MaxTrades /\ MaxTrades \in Nat
  BY ConstantsAssumption DEF TypeInv, TypeOK
<1>5. \A a \in Actors : actor[a] \in Actor /\ Legal(actor[a], DOMAIN positions, DOMAIN trades)
  BY DEF TypeInv, TypeOK, StateInv
<1> QED BY <1>1, <1>2, <1>3, <1>4, <1>5

LEMMA SnapshotFacts ==
  ASSUME TypeInv, NEW i \in DOMAIN positions
  PROVE  /\ Snapshot(i) \in [id : 1..MaxPositions, row : Position]
         /\ Snapshot(i).id = i /\ Snapshot(i).row = positions[i]
         /\ positions[i].quantity > 0
BY StateFacts DEF Snapshot, TypeInv, TypeOK

LEMMA StartFacts ==
  ASSUME TypeInv, Start
  PROVE  /\ spent' \in [starts : 0..MaxStarts, failures : 0..MaxFailures]
         /\ spent'.failures = spent.failures
<1>1. /\ spent \in [starts : 0..MaxStarts, failures : 0..MaxFailures]
      /\ MaxStarts \in Nat /\ MaxFailures \in Nat
  BY ConstantsAssumption DEF TypeInv, TypeOK
<1>2. spent.starts < MaxStarts /\ spent' = [spent EXCEPT !.starts = spent.starts + 1]
  BY DEF Start
<1>3. spent.starts + 1 \in 0..MaxStarts /\ spent.starts + 1 > 0
  BY <1>1, <1>2
<1> QED BY <1>1, <1>2, <1>3

LEMMA FailureFacts ==
  ASSUME TypeInv, Failure
  PROVE  /\ spent' \in [starts : 0..MaxStarts, failures : 0..MaxFailures]
         /\ spent'.failures > 0
<1>1. /\ spent \in [starts : 0..MaxStarts, failures : 0..MaxFailures]
      /\ MaxStarts \in Nat /\ MaxFailures \in Nat
  BY ConstantsAssumption DEF TypeInv, TypeOK
<1>2. spent.failures < MaxFailures /\ spent' = [spent EXCEPT !.failures = spent.failures + 1]
  BY DEF Failure
<1>3. spent.failures + 1 \in 0..MaxFailures /\ spent.failures + 1 > 0
  BY <1>1, <1>2
<1> QED BY <1>1, <1>2, <1>3

(* The part of a selected row that is closed. *)
Part(p, selected) == IF p.left < selected.row.quantity THEN p.left ELSE selected.row.quantity

LEMMA CloseFacts ==
  ASSUME TypeInv, NEW a \in Actors, NEW selected, CloseRow(a, selected)
  PROVE  /\ actor[a].pc = "close"
         /\ actor[a].price \in Prices
         /\ selected \in actor[a].rows
         /\ selected.id \in DOMAIN positions /\ selected.row \in Position
         /\ selected.row.status = "open"
         /\ Part(actor[a], selected) \in Nat \ {0}
         /\ Part(actor[a], selected) <= actor[a].left
         /\ Part(actor[a], selected) <= selected.row.quantity
         /\ closeCashDelta(selected.row.direction, Part(actor[a], selected), actor[a].price) \in Int \ {0}
         /\ RealizedPnl(selected.row.direction, Part(actor[a], selected), selected.row.entry, actor[a].price) \in Int
<1>1. actor[a].pc = "close" /\ selected \in actor[a].rows
  BY DEF CloseRow, Oldest
<1>2. /\ actor[a].price \in Prices /\ actor[a].left \in Nat /\ actor[a].left > 0
      /\ selected.id \in DOMAIN positions /\ selected.row.status = "open" /\ selected.row.quantity > 0
      /\ selected.row \in Position
  BY <1>1, StateFacts DEF Actor, Legal, RowsLegal, LeftLegal, FillSteps
<1>3. selected.row.quantity \in Nat /\ selected.row.direction \in Directions /\ selected.row.entry \in Prices
  BY <1>2 DEF Position
<1>4. /\ Part(actor[a], selected) \in Nat \ {0}
      /\ Part(actor[a], selected) <= actor[a].left
      /\ Part(actor[a], selected) <= selected.row.quantity
  BY <1>2, <1>3 DEF Part
<1> QED BY <1>1, <1>2, <1>3, <1>4, CashDeltas

LEMMA CloseTable ==
  ASSUME TypeInv, NEW a \in Actors, NEW selected, CloseRow(a, selected)
  PROVE  /\ positions' \in Seq(Position) /\ Len(positions') = Len(positions)
         /\ DOMAIN positions' = DOMAIN positions
         /\ \A i \in DOMAIN positions \ {selected.id} : positions'[i] = positions[i]
         /\ positions'[selected.id] =
              IF Part(actor[a], selected) = selected.row.quantity
              THEN [positions[selected.id] EXCEPT !.status = "closed"]
              ELSE [positions[selected.id] EXCEPT
                      !.quantity = selected.row.quantity - Part(actor[a], selected)]
         /\ \A i \in DOMAIN positions : positions'[i].quantity > 0
<1> DEFINE i == selected.id
           part == Part(actor[a], selected)
           row == IF part = selected.row.quantity
                  THEN [positions[i] EXCEPT !.status = "closed"]
                  ELSE [positions[i] EXCEPT !.quantity = selected.row.quantity - part]
<1>1. /\ i \in DOMAIN positions /\ part \in Nat \ {0} /\ part <= selected.row.quantity
      /\ selected.row.quantity \in Nat
  BY CloseFacts DEF Position
<1>2. positions[i] \in Position /\ positions[i].quantity > 0 /\ positions \in Seq(Position)
  BY <1>1, StateFacts DEF TypeInv, TypeOK
<1>3. row \in Position /\ row.quantity > 0
  <2>1. CASE part = selected.row.quantity
    <3>1. row = [positions[i] EXCEPT !.status = "closed"]
      BY <2>1
    <3> QED BY <1>2, <3>1 DEF Position
  <2>2. CASE part # selected.row.quantity
    <3>1. row = [positions[i] EXCEPT !.quantity = selected.row.quantity - part]
      BY <2>2
    <3>2. selected.row.quantity - part \in Nat /\ selected.row.quantity - part > 0
      BY <1>1, <2>2
    <3> HIDE DEF part, i, row
    <3> QED BY <1>2, <3>1, <3>2 DEF Position
  <2> QED BY <2>1, <2>2
<1>4. positions' = [positions EXCEPT ![i] = row]
  BY DEF CloseRow, Part
<1> HIDE DEF row
<1>5. /\ positions' \in Seq(Position) /\ Len(positions') = Len(positions)
      /\ DOMAIN positions' = DOMAIN positions
  BY <1>1, <1>2, <1>3, <1>4, ExceptFacts
<1>6. positions'[i] = row /\ \A j \in DOMAIN positions \ {i} : positions'[j] = positions[j]
  BY <1>1, <1>2, <1>4
<1>7. \A j \in DOMAIN positions : positions'[j].quantity > 0
  BY <1>3, <1>6 DEF TypeInv, TypeOK
<1> QED BY <1>5, <1>6, <1>7 DEF row

LEMMA CloseActor ==
  ASSUME TypeInv, NEW a \in Actors, NEW selected, CloseRow(a, selected)
  PROVE  \E p \in Actor :
           /\ actor' = [actor EXCEPT ![a] = p]
           /\ Legal(p, DOMAIN positions, DOMAIN trades)
           /\ p.moved = closeCashDelta(selected.row.direction, Part(actor[a], selected), actor[a].price)
           /\ p.pnl = RealizedPnl(selected.row.direction, Part(actor[a], selected),
                                  selected.row.entry, actor[a].price)
           /\ p.op = actor[a].op /\ p.trade = actor[a].trade /\ p.todo = actor[a].todo
           /\ p.left = actor[a].left - Part(actor[a], selected)
<1> DEFINE delta == closeCashDelta(selected.row.direction, Part(actor[a], selected), actor[a].price)
           pnl == RealizedPnl(selected.row.direction, Part(actor[a], selected),
                              selected.row.entry, actor[a].price)
           part == Part(actor[a], selected)
           seen == IF actor[a].op = "destination" THEN actor[a].seen + delta ELSE 0
           p == [actor[a] EXCEPT !.pc = "credit", !.rows = @ \ {selected}, !.left = @ - part,
                                 !.moved = delta, !.seen = seen, !.pnl = pnl]
<1>1. actor' = [actor EXCEPT ![a] = p]
  BY DEF CloseRow, Part
<1>2. /\ actor[a] \in Actor /\ Legal(actor[a], DOMAIN positions, DOMAIN trades)
      /\ actor[a].pc = "close" /\ actor[a].price \in Prices /\ selected \in actor[a].rows
      /\ delta \in Int \ {0} /\ pnl \in Int /\ part \in Nat \ {0} /\ part <= actor[a].left
  BY CloseFacts, StateFacts
<1>3. part = IF actor[a].left < selected.row.quantity THEN actor[a].left ELSE selected.row.quantity
  BY DEF Part
<1> HIDE DEF delta, pnl, part
<1>4. seen \in Int
  BY <1>2 DEF Actor
<1> HIDE DEF seen
<1>5. p \in Actor
  <2>1. actor[a].left - part \in Nat /\ actor[a].rows \ {selected} \in SUBSET [id : 1..MaxPositions, row : Position]
    BY <1>2 DEF Actor
  <2> QED BY <1>2, <1>4, <2>1 DEF Actor
<1>6. Legal(p, DOMAIN positions, DOMAIN trades)
  <2>1. p.pc \in StepsOf(p.op) /\ p.op # "idle"
    BY <1>2 DEF Actor, Legal, StepsOf, FillSteps
  <2>2. RowsLegal(p, DOMAIN positions)
    BY <1>2, <1>3 DEF Actor, Legal, RowsLegal
  <2>3. LeftLegal(p) /\ MoneyLegal(p) /\ QueueLegal(p, DOMAIN positions, DOMAIN trades)
    BY <1>2 DEF Actor, Legal, LeftLegal, MoneyLegal, QueueLegal
  <2>4. p.price \in Prices
    BY <1>2 DEF Actor
  <2> QED BY <2>1, <2>2, <2>3, <2>4 DEF Legal
<1>7. /\ p.moved = delta /\ p.pnl = pnl
      /\ p.op = actor[a].op /\ p.trade = actor[a].trade /\ p.todo = actor[a].todo
      /\ p.left = actor[a].left - part
  BY <1>2 DEF Actor
<1> QED BY <1>1, <1>5, <1>6, <1>7 DEF delta, pnl, part

(* What is traded for a trade is added to what was. *)
LEMMA FillFacts ==
  ASSUME TypeInv, NEW t, t \in DOMAIN trades \/ t = 0, NEW quantity \in Nat, FillTrade(t, quantity)
  PROVE  /\ filled' \in Seq(Nat) /\ Len(filled') = Len(trades)
         /\ \A u \in DOMAIN trades \ {t} : filled'[u] = filled[u]
         /\ t # 0 => filled'[t] = filled[t] + quantity
<1>1. filled \in Seq(Nat) /\ Len(filled) = Len(trades)
  BY DEF TypeInv, TypeOK
<1>2. CASE t = 0
  BY <1>1, <1>2 DEF FillTrade
<1>3. CASE t # 0
  <2>1. t \in DOMAIN filled /\ filled[t] + quantity \in Nat /\ DOMAIN filled = DOMAIN trades
    BY <1>3, StateFacts
  <2>2. filled' = [filled EXCEPT ![t] = filled[t] + quantity]
    BY <1>3 DEF FillTrade
  <2> QED BY <1>1, <2>1, <2>2, ExceptFacts
<1> QED BY <1>2, <1>3

-----------------------------------------------------------------------------
(* Steps: what each leaves its actor with *)

Becomes(a, p) ==
  /\ p \in Actor
  /\ actor' = [actor EXCEPT ![a] = p]
  /\ Legal(p, DOMAIN positions', DOMAIN trades')

(* No trade is taken up, and none given up but by a failure. *)
KeepsTrade(a, p) ==
  /\ p.op = "settlement" => actor[a].op = "settlement" /\ p.todo = actor[a].todo
  /\ p.trade # 0 => p.trade = actor[a].trade /\ p.left = actor[a].left
  /\ p.trade = actor[a].trade \/ spent'.failures > 0

Broke(p) == p.moved = 0 /\ p.pnl = 0

LEMMA StillLegal ==
  ASSUME TypeInv, NEW a \in Actors, actor[a].pc \notin {"credit", "debit", "topup"}
  PROVE  Broke(actor[a])
BY StateFacts DEF Legal, MoneyLegal, Broke

LEMMA StartFillStep ==
  ASSUME TypeInv, NEW a \in Actors, NEW call \in Calls \cap FillCalls, NEW direction \in Directions,
         NEW quantity \in Quantities, NEW price \in Prices,
         StartFill(a, call, direction, quantity, price)
  PROVE  \E p : Becomes(a, p) /\ KeepsTrade(a, p) /\ Broke(p) /\ Broke(actor[a])
<1> DEFINE p == [Idle EXCEPT !.op = call, !.pc = "select", !.direction = direction,
                    !.left = quantity, !.price = price,
                    !.seen = IF call = "destination" THEN cash ELSE 0]
<1>1. actor' = [actor EXCEPT ![a] = p] /\ UNCHANGED <<positions, trades>> /\ actor[a].op = "idle"
  BY DEF StartFill, MayStart
<1>2. cash \in Int /\ quantity \in Nat /\ quantity > 0
  BY ConstantsAssumption DEF TypeInv, TypeOK
<1>3. p \in Actor
  BY <1>2, IdleFacts DEF Actor
<1>4. Legal(p, DOMAIN positions', DOMAIN trades') /\ Broke(p)
  BY <1>2, IdleFacts DEF Actor, Legal, StepsOf, RowsLegal, LeftLegal, MoneyLegal, QueueLegal,
                         FillSteps, FillCalls, Broke
<1>5. actor[a] = Idle
  BY <1>1, StateFacts DEF Legal
<1>6. KeepsTrade(a, p) /\ Broke(actor[a])
  BY <1>5, IdleFacts DEF KeepsTrade, Actor, FillCalls, Broke
<1> HIDE DEF p
<1> QED BY <1>1, <1>3, <1>4, <1>6 DEF Becomes

LEMMA SelectStep ==
  ASSUME TypeInv, NEW a \in Actors, SelectOpposite(a)
  PROVE  \E p : Becomes(a, p) /\ KeepsTrade(a, p) /\ Broke(p) /\ Broke(actor[a])
<1> DEFINE rows == OpenRows(Opposite(actor[a].direction))
           q == [actor[a] EXCEPT !.rows = rows]
<1>1. /\ actor' = [actor EXCEPT ![a] = Continue(q)] /\ UNCHANGED <<positions, trades>>
      /\ actor[a].pc = "select"
  BY DEF SelectOpposite
<1>2. /\ rows \in SUBSET [id : 1..MaxPositions, row : Position]
      /\ \A s \in rows : s.id \in DOMAIN positions /\ s.row.status = "open" /\ s.row.quantity > 0
  BY SnapshotFacts DEF OpenRows
<1>3. actor[a] \in Actor /\ Legal(actor[a], DOMAIN positions, DOMAIN trades)
  BY StateFacts
<1> HIDE DEF rows
<1>4. q \in Actor
  BY <1>2, <1>3 DEF Actor
<1>5. Ready(q, DOMAIN positions, DOMAIN trades) /\ q.op # "idle"
  BY <1>1, <1>2, <1>3 DEF Ready, Actor, Legal, StepsOf, MoneyLegal, QueueLegal, FillSteps, FillCalls
<1>6. q.op = actor[a].op /\ q.todo = actor[a].todo /\ q.trade = actor[a].trade /\ q.left = actor[a].left
  BY <1>3 DEF Actor
<1> HIDE DEF q
<1>7. /\ Continue(q) \in Actor /\ Legal(Continue(q), DOMAIN positions, DOMAIN trades)
      /\ Broke(Continue(q))
  BY <1>4, <1>5, ContinueLegal DEF Broke
<1>8. KeepsTrade(a, Continue(q))
  BY <1>3, <1>4, <1>5, <1>6, <1>7, ContinueTrade DEF KeepsTrade, Legal, QueueLegal
<1> QED BY <1>1, <1>7, <1>8, StillLegal DEF Becomes

LEMMA CreditStep ==
  ASSUME TypeInv, NEW a \in Actors, Credit(a) \/ Debit(a)
  PROVE  \E p : Becomes(a, p) /\ KeepsTrade(a, p) /\ Broke(p)
<1> DEFINE q == [actor[a] EXCEPT !.moved = 0, !.pnl = 0]
<1>1. actor[a] \in Actor /\ Legal(actor[a], DOMAIN positions, DOMAIN trades)
  BY StateFacts
<1>2. actor[a].pc \in {"credit", "debit"} /\ UNCHANGED <<positions, trades>>
  BY DEF Credit, Debit
<1>3. actor' = [actor EXCEPT ![a] = Continue(q)]
  <2>1. CASE Credit(a)
    BY <2>1 DEF Credit
  <2>2. CASE Debit(a)
    <3>1. actor[a].pnl = 0 /\ actor' = [actor EXCEPT ![a] = Continue([actor[a] EXCEPT !.moved = 0])]
      BY <1>1, <2>2 DEF Debit, Legal, MoneyLegal
    <3>2. [actor[a] EXCEPT !.moved = 0] = q
      BY <1>1, <3>1 DEF Actor
    <3> QED BY <3>1, <3>2
  <2> QED BY <2>1, <2>2
<1>4. q \in Actor
  <2>1. 0 \in Int
    OBVIOUS
  <2> QED BY <1>1, <2>1, Zenon DEF Actor
<1>5. Ready(q, DOMAIN positions, DOMAIN trades) /\ q.op # "idle"
  BY <1>1, <1>2 DEF Ready, Actor, Legal, StepsOf, RowsLegal, LeftLegal, QueueLegal, FillSteps, FillCalls
<1>6. q.op = actor[a].op /\ q.todo = actor[a].todo /\ q.trade = actor[a].trade /\ q.left = actor[a].left
  BY <1>1 DEF Actor
<1> HIDE DEF q
<1>7. /\ Continue(q) \in Actor /\ Legal(Continue(q), DOMAIN positions, DOMAIN trades)
      /\ Broke(Continue(q))
  BY <1>4, <1>5, ContinueLegal DEF Broke
<1>8. KeepsTrade(a, Continue(q))
  BY <1>1, <1>4, <1>5, <1>6, <1>7, ContinueTrade DEF KeepsTrade, Legal, QueueLegal
<1> QED BY <1>2, <1>3, <1>7, <1>8 DEF Becomes

LEMMA LookUpStep ==
  ASSUME TypeInv, NEW a \in Actors, LookUpToday(a)
  PROVE  \E p : Becomes(a, p) /\ KeepsTrade(a, p) /\ Broke(p) /\ Broke(actor[a])
<1>1. actor[a] \in Actor /\ Legal(actor[a], DOMAIN positions, DOMAIN trades)
  BY StateFacts
<1>2. actor[a].pc = "lookup" /\ UNCHANGED <<positions, trades>>
  BY DEF LookUpToday
<1> DEFINE q == [actor[a] EXCEPT !.pc = "open"]
<1>3. PICK p \in {Idle, q} : actor' = [actor EXCEPT ![a] = p]
  BY DEF LookUpToday
<1>4. actor[a].trade = 0 /\ actor[a].op # "settlement"
  BY <1>1, <1>2 DEF Legal, StepsOf, QueueLegal, FillSteps
<1>5. q \in Actor /\ KeepsTrade(a, q) /\ Broke(q)
  BY <1>1, <1>2, <1>4, StillLegal DEF Actor, KeepsTrade, Broke
<1>6. Legal(q, DOMAIN positions, DOMAIN trades)
  BY <1>1, <1>2, <1>4 DEF Actor, Legal, StepsOf, RowsLegal, LeftLegal, MoneyLegal, QueueLegal, FillSteps
<1>7. KeepsTrade(a, Idle) /\ Broke(Idle)
  BY <1>4, IdleFacts DEF KeepsTrade, Broke
<1> HIDE DEF q
<1> QED BY <1>2, <1>3, <1>5, <1>6, <1>7, IdleFacts, IdleLegal, StillLegal DEF Becomes

LEMMA OpenStep ==
  ASSUME TypeInv, NEW a \in Actors, OpenRest(a)
  PROVE  /\ Broke(actor[a]) /\ actor[a].left > 0 /\ actor[a].price \in Prices
         /\ \E new \in Position :
              /\ positions' = Append(positions, new)
              /\ new.status = "open" /\ new.direction = actor[a].direction
              /\ new.quantity = actor[a].left /\ new.entry = actor[a].price
         /\ Len(positions) < MaxPositions
         /\ \E p : /\ Becomes(a, p)
                   /\ p.op = actor[a].op /\ p.todo = actor[a].todo /\ p.trade = actor[a].trade
                   /\ p.left = 0 /\ p.pnl = 0
                   /\ p.moved = openCashDelta(actor[a].direction, actor[a].left, actor[a].price)
<1> DEFINE new == [status |-> "open", direction |-> actor[a].direction, quantity |-> actor[a].left,
                   entry |-> actor[a].price, day |-> today, by |-> actor[a].op]
           delta == openCashDelta(actor[a].direction, actor[a].left, actor[a].price)
           p == [actor[a] EXCEPT !.pc = "debit", !.left = 0, !.seen = 0, !.moved = delta]
<1>1. /\ actor[a] \in Actor /\ Legal(actor[a], DOMAIN positions, DOMAIN trades)
      /\ actor[a].left \in Nat /\ actor[a].direction \in Directions
  BY StateFacts DEF Actor
<1>2. /\ actor[a].pc = "open" /\ UNCHANGED trades /\ Len(positions) < MaxPositions
      /\ positions' = Append(positions, new) /\ actor' = [actor EXCEPT ![a] = p]
  BY DEF OpenRest
<1>3. /\ actor[a].left > 0 /\ actor[a].price \in Prices
      /\ actor[a].op \in FillCalls \cup {"settlement"}
  BY <1>1, <1>2 DEF Actor, Legal, LeftLegal, StepsOf, FillSteps
<1>4. new \in Position
  BY <1>1, <1>3 DEF Position, TypeInv, TypeOK
<1>5. DOMAIN positions \subseteq DOMAIN positions'
  BY <1>2, <1>4, AppendFacts DEF TypeInv, TypeOK
<1>6. delta \in Int
  BY <1>1, <1>3, CashDeltas
<1> HIDE DEF delta
<1>7. p \in Actor
  <2>1. 0 \in Int /\ 0 \in Nat
    OBVIOUS
  <2> QED BY <1>1, <1>6, <2>1, Zenon DEF Actor
<1>8. Legal(p, DOMAIN positions, DOMAIN trades)
  BY <1>1, <1>2, <1>3 DEF Actor, Legal, StepsOf, RowsLegal, LeftLegal, MoneyLegal, QueueLegal,
                          FillSteps, FillCalls
<1>9. Legal(p, DOMAIN positions', DOMAIN trades')
  BY <1>2, <1>5, <1>8, LegalStays
<1>10. /\ p.op = actor[a].op /\ p.todo = actor[a].todo /\ p.trade = actor[a].trade
       /\ p.left = 0 /\ p.moved = delta /\ p.pnl = 0
  BY <1>1, <1>2, StillLegal DEF Actor, Broke
<1>11. /\ new.status = "open" /\ new.direction = actor[a].direction
       /\ new.quantity = actor[a].left /\ new.entry = actor[a].price
  OBVIOUS
<1>12. \E q : /\ Becomes(a, q)
              /\ q.op = actor[a].op /\ q.todo = actor[a].todo /\ q.trade = actor[a].trade
              /\ q.left = 0 /\ q.pnl = 0 /\ q.moved = delta
  <2> HIDE DEF p
  <2> QED BY <1>2, <1>7, <1>9, <1>10 DEF Becomes
<1> HIDE DEF new
<1> QED BY <1>2, <1>3, <1>4, <1>11, <1>12, StillLegal DEF delta

LEMMA CloseStartStep ==
  ASSUME TypeInv, NEW a \in Actors, NEW i \in DOMAIN positions, NEW price \in Prices,
         closePosition(a, i, price)
  PROVE  \E p : Becomes(a, p) /\ KeepsTrade(a, p) /\ Broke(p) /\ Broke(actor[a])
<1> DEFINE p == [Idle EXCEPT !.op = "close", !.pc = "close", !.price = price,
                             !.left = positions[i].quantity, !.rows = {Snapshot(i)}]
<1>1. /\ actor' = [actor EXCEPT ![a] = p] /\ UNCHANGED <<positions, trades>>
      /\ actor[a].op = "idle" /\ positions[i].status = "open"
  BY DEF closePosition, MayStart
<1>2. positions[i].quantity \in Nat /\ positions[i].quantity > 0
  BY StateFacts, SnapshotFacts DEF Position
<1>3. p \in Actor
  <2>1. {Snapshot(i)} \in SUBSET [id : 1..MaxPositions, row : Position]
    BY SnapshotFacts
  <2> QED BY <1>2, <2>1, IdleFacts, Zenon DEF Actor
<1>4. Legal(p, DOMAIN positions', DOMAIN trades') /\ Broke(p)
  BY <1>1, <1>2, IdleFacts, SnapshotFacts
     DEF Actor, Legal, StepsOf, RowsLegal, LeftLegal, MoneyLegal, QueueLegal, FillSteps, Broke
<1>5. actor[a] = Idle
  BY <1>1, StateFacts DEF Legal
<1>6. KeepsTrade(a, p) /\ Broke(actor[a])
  BY <1>5, IdleFacts DEF KeepsTrade, Actor, Broke
<1> HIDE DEF p
<1> QED BY <1>1, <1>3, <1>4, <1>6 DEF Becomes

LEMMA SettlementStartStep ==
  ASSUME TypeInv, NEW a \in Actors, NEW price \in Prices, StartSettlement(a, price)
  PROVE  \E p : /\ Becomes(a, p) /\ Broke(p) /\ Broke(actor[a])
                /\ p.op = "settlement" /\ p.trade = 0
                /\ p.todo = {t \in DOMAIN trades : trades[t].status = "queued"}
                /\ actor[a].trade = 0
<1> DEFINE queued == {t \in DOMAIN trades : trades[t].status = "queued"}
           p == [Idle EXCEPT !.op = "settlement", !.pc = "next", !.price = price, !.todo = queued]
<1>1. actor' = [actor EXCEPT ![a] = p] /\ UNCHANGED <<positions, trades>> /\ actor[a].op = "idle"
  BY DEF StartSettlement, MayStart
<1>2. queued \subseteq DOMAIN trades /\ queued \in SUBSET (Nat \ {0})
  BY StateFacts
<1> HIDE DEF queued
<1>3. p \in Actor
  BY <1>2, IdleFacts, Zenon DEF Actor
<1>4. Legal(p, DOMAIN positions', DOMAIN trades') /\ Broke(p)
  BY <1>1, <1>2, IdleFacts
     DEF Actor, Legal, StepsOf, RowsLegal, LeftLegal, MoneyLegal, QueueLegal, FillSteps, Broke
<1>5. actor[a] = Idle
  BY <1>1, StateFacts DEF Legal
<1>6. p.op = "settlement" /\ p.trade = 0 /\ p.todo = queued /\ actor[a].trade = 0 /\ Broke(actor[a])
  BY <1>5, IdleFacts DEF Actor, Broke
<1> HIDE DEF p
<1> QED BY <1>1, <1>3, <1>4, <1>6 DEF Becomes, queued

LEMMA TradeFacts ==
  ASSUME NEW row \in Trade
  PROVE  row.direction \in Directions /\ row.quantity \in Nat /\ row.quantity > 0
<1>1. row.direction \in Directions /\ row.quantity \in QueueQuantities
  BY DEF Trade
<1>2. \A q \in QueueQuantities : q \in Nat /\ q > 0
  BY ConstantsAssumption
<1> QED BY <1>1, <1>2

LEMMA NextTradeStep ==
  ASSUME TypeInv, NEW a \in Actors, NextTrade(a)
  PROVE  \E p : /\ Becomes(a, p) /\ Broke(p) /\ Broke(actor[a])
                /\ actor[a].op = "settlement" /\ actor[a].trade = 0
                /\ \/ p = Idle
                   \/ /\ p.op = "settlement" /\ p.trade \in actor[a].todo
                      /\ p.todo = actor[a].todo \ {p.trade}
                      /\ p.left = trades[p.trade].quantity
<1>1. actor[a] \in Actor /\ Legal(actor[a], DOMAIN positions, DOMAIN trades)
  BY StateFacts
<1>2. actor[a].pc = "next" /\ UNCHANGED <<positions, trades>>
  BY DEF NextTrade
<1>3. /\ actor[a].op = "settlement" /\ actor[a].trade = 0 /\ actor[a].price \in Prices
      /\ actor[a].todo \subseteq DOMAIN trades
  BY <1>1, <1>2 DEF Actor, Legal, StepsOf, QueueLegal, FillSteps, FillCalls
<1>4. CASE actor' = [actor EXCEPT ![a] = Idle]
  BY <1>2, <1>3, <1>4, IdleFacts, IdleLegal, StillLegal DEF Becomes, Broke
<1>5. ASSUME NEW t \in First(actor[a].todo),
             actor' = [actor EXCEPT ![a] =
               [actor[a] EXCEPT !.pc = "select", !.todo = @ \ {t}, !.trade = t,
                                !.direction = trades[t].direction, !.left = trades[t].quantity]]
      PROVE  \E p : /\ Becomes(a, p) /\ Broke(p)
                    /\ p.op = "settlement" /\ p.trade \in actor[a].todo
                    /\ p.todo = actor[a].todo \ {p.trade}
                    /\ p.left = trades[p.trade].quantity
  <2> DEFINE todo == actor[a].todo \ {t}
             p == [actor[a] EXCEPT !.pc = "select", !.todo = todo, !.trade = t,
                                   !.direction = trades[t].direction, !.left = trades[t].quantity]
  <2>1. t \in actor[a].todo /\ t \in DOMAIN trades /\ trades[t] \in Trade /\ t \in 0..MaxTrades
    <3>1. t \in actor[a].todo
      BY <1>5 DEF First
    <3>2. t \in DOMAIN trades
      BY <1>3, <3>1
    <3>3. trades[t] \in Trade /\ t \in 1..MaxTrades
      BY <3>2, StateFacts
    <3>4. t \in 0..MaxTrades
      BY <3>3, ConstantsAssumption
    <3> QED BY <3>1, <3>2, <3>3, <3>4
  <2>2. trades[t].direction \in Directions /\ trades[t].quantity \in Nat /\ trades[t].quantity > 0
    <3>1. trades[t] \in Trade
      BY <2>1
    <3> QED BY <3>1, TradeFacts
  <2>3. todo \in SUBSET (Nat \ {0}) /\ todo \subseteq DOMAIN trades
    BY <1>1, <1>3 DEF Actor
  <2> HIDE DEF todo
  <2>4. p \in Actor
    BY <1>1, <2>1, <2>2, <2>3, Zenon DEF Actor
  <2>5. Legal(p, DOMAIN positions, DOMAIN trades) /\ Broke(p)
    BY <1>1, <1>2, <1>3, <2>1, <2>2, <2>3
       DEF Actor, Legal, StepsOf, RowsLegal, LeftLegal, MoneyLegal, QueueLegal, FillSteps, Broke
  <2>6. p.op = "settlement" /\ p.trade = t /\ p.todo = todo /\ p.left = trades[t].quantity
    BY <1>1, <1>3 DEF Actor
  <2>7. actor' = [actor EXCEPT ![a] = p]
    BY <1>5 DEF todo
  <2> HIDE DEF p
  <2> QED BY <1>2, <2>1, <2>4, <2>5, <2>6, <2>7 DEF Becomes, todo
<1>6. Broke(actor[a])
  BY <1>2, StillLegal
<1> QED BY <1>3, <1>4, <1>5, <1>6 DEF NextTrade

LEMMA MarkStep ==
  ASSUME TypeInv, NEW a \in Actors, MarkExecuted(a)
  PROVE  /\ actor[a].op = "settlement" /\ actor[a].trade \in DOMAIN trades /\ actor[a].left = 0
         /\ trades' = [trades EXCEPT ![actor[a].trade].status = "executed"]
         /\ trades' \in Seq(Trade) /\ Len(trades') = Len(trades)
         /\ \E p : /\ Becomes(a, p) /\ Broke(p) /\ Broke(actor[a])
                   /\ p.op = "settlement" /\ p.trade = 0 /\ p.todo = actor[a].todo
<1> DEFINE t == actor[a].trade
           p == Over(actor[a])
<1>1. actor[a] \in Actor /\ Legal(actor[a], DOMAIN positions, DOMAIN trades)
  BY StateFacts
<1>2. /\ actor[a].pc = "mark" /\ UNCHANGED positions
      /\ trades' = [trades EXCEPT ![t].status = "executed"]
      /\ actor' = [actor EXCEPT ![a] = p]
  BY DEF MarkExecuted
<1>3. /\ actor[a].op = "settlement" /\ t \in DOMAIN trades /\ actor[a].left = 0
      /\ actor[a].price \in Prices /\ actor[a].todo \subseteq DOMAIN trades
  BY <1>1, <1>2 DEF Actor, Legal, StepsOf, LeftLegal, QueueLegal, FillSteps, FillCalls
<1>4. /\ trades' \in Seq(Trade) /\ Len(trades') = Len(trades)
      /\ DOMAIN trades' = DOMAIN trades
  <2> DEFINE row == [trades[t] EXCEPT !.status = "executed"]
  <2>1. row \in Trade /\ trades \in Seq(Trade)
    BY <1>3, StateFacts DEF Trade, TypeInv, TypeOK
  <2>2. trades' = [trades EXCEPT ![t] = row]
    BY <1>2
  <2> HIDE DEF row
  <2> QED BY <1>3, <2>1, <2>2, ExceptFacts
<1>5. p \in Actor /\ Legal(p, DOMAIN positions, DOMAIN trades)
  BY <1>1, <1>3, OverLegal
<1>6. p.op = "settlement" /\ p.trade = 0 /\ p.todo = actor[a].todo
  BY <1>1, <1>3, ContinueTrade
<1>7. Broke(p) /\ Broke(actor[a])
  BY <1>2, IdleFacts, StillLegal DEF Over, Broke, Actor
<1> HIDE DEF p
<1> QED BY <1>2, <1>3, <1>4, <1>5, <1>6, <1>7 DEF Becomes

LEMMA ResetStartStep ==
  ASSUME TypeInv, NEW a \in Actors, StartReset(a)
  PROVE  \E p : Becomes(a, p) /\ KeepsTrade(a, p) /\ Broke(p) /\ Broke(actor[a])
<1> DEFINE open == {i \in DOMAIN positions : positions[i].status = "open"}
           p == [Idle EXCEPT !.op = "reset", !.pc = "closing", !.todo = open]
<1>1. actor' = [actor EXCEPT ![a] = p] /\ UNCHANGED <<positions, trades>> /\ actor[a].op = "idle"
  BY DEF StartReset, MayStart
<1>2. open \subseteq DOMAIN positions /\ open \in SUBSET (Nat \ {0})
  BY StateFacts
<1> HIDE DEF open
<1>3. p \in Actor
  BY <1>2, IdleFacts, Zenon DEF Actor
<1>4. Legal(p, DOMAIN positions', DOMAIN trades') /\ Broke(p)
  BY <1>1, <1>2, IdleFacts
     DEF Actor, Legal, StepsOf, RowsLegal, LeftLegal, MoneyLegal, QueueLegal, FillSteps, Broke
<1>5. actor[a] = Idle
  BY <1>1, StateFacts DEF Legal
<1>6. KeepsTrade(a, p) /\ Broke(actor[a])
  BY <1>5, IdleFacts DEF KeepsTrade, Actor, Broke
<1> HIDE DEF p
<1> QED BY <1>1, <1>3, <1>4, <1>6 DEF Becomes

LEMMA ResetCloseStep ==
  ASSUME TypeInv, NEW a \in Actors, NEW i, NEW price \in Prices \cup {0}, ResetClose(a, i, price)
  PROVE  \E p : Becomes(a, p) /\ KeepsTrade(a, p) /\ Broke(p) /\ Broke(actor[a])
<1> DEFINE rest == actor[a].todo \ {i}
           q == [actor[a] EXCEPT !.pc = "close", !.price = price, !.todo = rest,
                                 !.left = positions[i].quantity, !.rows = {Snapshot(i)}]
           r == [actor[a] EXCEPT !.todo = rest]
<1>1. actor[a] \in Actor /\ Legal(actor[a], DOMAIN positions, DOMAIN trades)
  BY StateFacts
<1>2. /\ actor[a].pc = "closing" /\ UNCHANGED <<positions, trades>> /\ i \in actor[a].todo
      /\ actor' = [actor EXCEPT ![a] = IF positions[i].status = "open" /\ price # 0 THEN q ELSE r]
  BY DEF ResetClose, First
<1>3. /\ actor[a].op = "reset" /\ actor[a].trade = 0 /\ actor[a].todo \subseteq DOMAIN positions
      /\ i \in DOMAIN positions
  BY <1>1, <1>2 DEF Actor, Legal, StepsOf, QueueLegal, FillSteps, FillCalls
<1>4. rest \in SUBSET (Nat \ {0}) /\ rest \subseteq DOMAIN positions
  BY <1>1, <1>3 DEF Actor
<1> HIDE DEF rest
<1>5. CASE positions[i].status = "open" /\ price # 0
  <2>1. positions[i].quantity \in Nat /\ positions[i].quantity > 0
    BY <1>3, StateFacts, SnapshotFacts DEF Position
  <2>2. {Snapshot(i)} \in SUBSET [id : 1..MaxPositions, row : Position]
    BY <1>3, SnapshotFacts
  <2>3. q \in Actor
    BY <1>1, <1>4, <2>1, <2>2, Zenon DEF Actor
  <2>4. Legal(q, DOMAIN positions, DOMAIN trades) /\ Broke(q)
    BY <1>1, <1>2, <1>3, <1>4, <1>5, <2>1, SnapshotFacts
       DEF Actor, Legal, StepsOf, RowsLegal, LeftLegal, MoneyLegal, QueueLegal, FillSteps, Broke
  <2>5. KeepsTrade(a, q)
    BY <1>1, <1>3 DEF KeepsTrade, Actor
  <2> HIDE DEF q
  <2> QED BY <1>2, <1>5, <2>3, <2>4, <2>5, StillLegal DEF Becomes
<1>6. CASE ~(positions[i].status = "open" /\ price # 0)
  <2>1. r \in Actor
    BY <1>1, <1>4, Zenon DEF Actor
  <2>2. Legal(r, DOMAIN positions, DOMAIN trades) /\ Broke(r)
    BY <1>1, <1>2, <1>3, <1>4
       DEF Actor, Legal, StepsOf, RowsLegal, LeftLegal, MoneyLegal, QueueLegal, FillSteps, Broke
  <2>3. KeepsTrade(a, r)
    BY <1>1, <1>3 DEF KeepsTrade, Actor
  <2> HIDE DEF r
  <2> QED BY <1>2, <1>6, <2>1, <2>2, <2>3, StillLegal DEF Becomes
<1> QED BY <1>5, <1>6

(* A run of the reset has nothing to do with trades. *)
LEMMA ResetFacts ==
  ASSUME TypeInv, NEW a \in Actors, actor[a].pc \in {"closing", "ledger", "topup"}
  PROVE  actor[a].op = "reset" /\ actor[a].trade = 0
BY StateFacts DEF Actor, Legal, StepsOf, QueueLegal, FillSteps, FillCalls

LEMMA ReadBalanceStep ==
  ASSUME TypeInv, NEW a \in Actors, ReadBalance(a)
  PROVE  \E p : Becomes(a, p) /\ KeepsTrade(a, p) /\ Broke(p) /\ Broke(actor[a])
<1> DEFINE p == [Idle EXCEPT !.op = "reset", !.pc = "ledger", !.seen = cash]
<1>1. /\ actor' = [actor EXCEPT ![a] = p] /\ UNCHANGED <<positions, trades>>
      /\ actor[a].pc = "closing"
  BY DEF ReadBalance
<1>2. p \in Actor
  BY IdleFacts, Zenon DEF Actor, TypeInv, TypeOK
<1>3. Legal(p, DOMAIN positions', DOMAIN trades') /\ Broke(p)
  BY <1>1, IdleFacts
     DEF Actor, Legal, StepsOf, RowsLegal, LeftLegal, MoneyLegal, QueueLegal, FillSteps, Broke
<1>4. KeepsTrade(a, p) /\ Broke(actor[a])
  BY <1>1, IdleFacts, ResetFacts, StillLegal DEF KeepsTrade, Actor
<1> HIDE DEF p
<1> QED BY <1>1, <1>2, <1>3, <1>4 DEF Becomes

LEMMA WriteLedgerStep ==
  ASSUME TypeInv, NEW a \in Actors, WriteLedger(a)
  PROVE  /\ ledger' \in [1..MaxDays -> Nat \cup {-1}]
         /\ Broke(actor[a])
         /\ \A d \in 1..MaxDays \ {today} : ledger'[d] = ledger[d]
         /\ \E p : /\ Becomes(a, p) /\ KeepsTrade(a, p) /\ p.pnl = 0
                   /\ \/ ledger' = ledger /\ p.moved = 0
                      \/ ledger[today] = -1 /\ ledger'[today] \in Nat /\ p.moved = ledger'[today]
<1> DEFINE topup == TopUp(actor[a].seen)
           p == [actor[a] EXCEPT !.pc = "topup", !.moved = topup]
<1>1. actor[a] \in Actor /\ Legal(actor[a], DOMAIN positions, DOMAIN trades)
  BY StateFacts
<1>2. actor[a].pc = "ledger" /\ UNCHANGED <<positions, trades>>
  BY DEF WriteLedger
<1>3. actor[a].op = "reset" /\ actor[a].trade = 0 /\ Broke(actor[a])
  BY <1>2, ResetFacts, StillLegal
<1>4. ledger \in [1..MaxDays -> Nat \cup {-1}] /\ today \in 1..MaxDays
  BY DEF TypeInv, TypeOK
<1>5. topup \in Nat /\ topup \in Int
  BY <1>1, ConstantsAssumption DEF Actor, TopUp
<1>6. CASE ledger[today] = -1
  <2>1. ledger' = [ledger EXCEPT ![today] = topup] /\ actor' = [actor EXCEPT ![a] = p]
    BY <1>6 DEF WriteLedger, TopUp
  <2>2. p.moved = topup /\ p.pnl = 0 /\ KeepsTrade(a, p)
    BY <1>1, <1>3 DEF Actor, KeepsTrade, Broke
  <2>3. MoneyLegal(p)
    BY <1>1, <1>3 DEF Actor, MoneyLegal, Broke
  <2> HIDE DEF topup
  <2>4. p \in Actor
    BY <1>1, <1>5, Zenon DEF Actor
  <2>5. Legal(p, DOMAIN positions, DOMAIN trades)
    BY <1>1, <1>2, <1>3, <2>3
       DEF Actor, Legal, StepsOf, RowsLegal, LeftLegal, QueueLegal, FillSteps
  <2>6. /\ ledger' \in [1..MaxDays -> Nat \cup {-1}] /\ ledger'[today] = topup
        /\ \A d \in 1..MaxDays \ {today} : ledger'[d] = ledger[d]
    BY <1>4, <1>5, <2>1
  <2> HIDE DEF p
  <2> QED BY <1>2, <1>3, <1>5, <1>6, <2>1, <2>2, <2>4, <2>5, <2>6 DEF Becomes
<1>7. CASE ledger[today] # -1
  <2>1. ledger' = ledger /\ actor' = [actor EXCEPT ![a] = Idle]
    BY <1>7 DEF WriteLedger
  <2>2. KeepsTrade(a, Idle)
    BY <1>3, IdleFacts DEF KeepsTrade
  <2> QED BY <1>2, <1>3, <1>4, <2>1, <2>2, IdleFacts, IdleLegal DEF Becomes
<1> QED BY <1>6, <1>7

LEMMA ResetBalanceStep ==
  ASSUME TypeInv, NEW a \in Actors, ResetBalance(a)
  PROVE  Becomes(a, Idle) /\ KeepsTrade(a, Idle)
<1>1. actor[a].pc = "topup" /\ actor' = [actor EXCEPT ![a] = Idle] /\ UNCHANGED <<positions, trades>>
  BY DEF ResetBalance
<1>2. KeepsTrade(a, Idle)
  BY <1>1, IdleFacts, ResetFacts DEF KeepsTrade
<1> QED BY <1>1, <1>2, IdleFacts, IdleLegal DEF Becomes

LEMMA FailStep ==
  ASSUME TypeInv, NEW a \in Actors, StatementFails(a) \/ ResetStatementFails(a)
  PROVE  /\ Failure /\ UNCHANGED <<cash, realized, positions, trades, ledger, today, filled>>
         /\ drift' = IF actor[a].moved # 0 THEN drift \cup {"lost update"} ELSE drift
         /\ \E p : Becomes(a, p) /\ KeepsTrade(a, p) /\ Broke(p)
<1>1. actor[a] \in Actor /\ Legal(actor[a], DOMAIN positions, DOMAIN trades)
  BY StateFacts
<1>2. /\ Failure /\ UNCHANGED <<cash, realized, positions, trades, ledger, today, filled>>
      /\ drift' = IF actor[a].moved # 0 THEN drift \cup {"lost update"} ELSE drift
  BY DEF StatementFails, ResetStatementFails
<1>3. spent'.failures > 0
  BY <1>2, FailureFacts
<1>4. CASE ResetStatementFails(a)
  <2>1. actor' = [actor EXCEPT ![a] = Idle]
    BY <1>4 DEF ResetStatementFails
  <2>2. KeepsTrade(a, Idle) /\ Broke(Idle)
    BY <1>3, IdleFacts DEF KeepsTrade, Broke
  <2> QED BY <1>2, <2>1, <2>2, IdleFacts, IdleLegal DEF Becomes
<1>5. CASE StatementFails(a) /\ actor[a].pc = "lookup"
  <2> DEFINE q == [actor[a] EXCEPT !.pc = "open"]
  <2>1. actor' = [actor EXCEPT ![a] = q]
    BY <1>5 DEF StatementFails
  <2>2. actor[a].trade = 0 /\ actor[a].op # "settlement"
    BY <1>1, <1>5 DEF Legal, StepsOf, QueueLegal, FillSteps
  <2>3. q \in Actor /\ KeepsTrade(a, q) /\ Broke(q)
    BY <1>1, <1>5, <2>2, StillLegal DEF Actor, KeepsTrade, Broke
  <2>4. Legal(q, DOMAIN positions, DOMAIN trades)
    BY <1>1, <1>5, <2>2
       DEF Actor, Legal, StepsOf, RowsLegal, LeftLegal, MoneyLegal, QueueLegal, FillSteps
  <2> HIDE DEF q
  <2> QED BY <1>2, <2>1, <2>3, <2>4 DEF Becomes
<1>6. CASE StatementFails(a) /\ actor[a].pc # "lookup"
  <2> DEFINE q == Over(actor[a])
  <2>1. actor' = [actor EXCEPT ![a] = q]
    BY <1>6 DEF StatementFails
  <2>2. actor[a].op # "idle"
    BY <1>1, <1>6 DEF StatementFails, Legal, StepsOf
  <2>3. /\ actor[a].op = "settlement" => actor[a].price \in Prices /\ actor[a].todo \subseteq DOMAIN trades
        /\ actor[a].op = "reset" => actor[a].todo \subseteq DOMAIN positions
    BY <1>1 DEF Legal, StepsOf, QueueLegal, FillSteps
  <2>4. q \in Actor /\ Legal(q, DOMAIN positions, DOMAIN trades)
    BY <1>1, <2>3, OverLegal
  <2>5. KeepsTrade(a, q)
    BY <1>1, <1>3, <2>2, ContinueTrade DEF KeepsTrade
  <2>6. Broke(q)
    BY IdleFacts DEF Over, Broke, Actor
  <2> HIDE DEF q
  <2> QED BY <1>2, <2>1, <2>4, <2>5, <2>6 DEF Becomes
<1> QED BY <1>4, <1>5, <1>6

-----------------------------------------------------------------------------
(* Types *)

LEMMA BecomesTypes ==
  ASSUME TypeInv, NEW a \in Actors, NEW p, Becomes(a, p),
         DOMAIN positions \subseteq DOMAIN positions', DOMAIN trades \subseteq DOMAIN trades'
  PROVE  actor' \in [Actors -> Actor] /\ StateInv'
BY ActorStep DEF Becomes

(* All that TypeOK says of the tables. *)
TableOK ==
  /\ cash \in Int
  /\ realized \in Int
  /\ positions \in Seq(Position) /\ Len(positions) <= MaxPositions
  /\ \A i \in DOMAIN positions : positions[i].quantity > 0
  /\ trades \in Seq(Trade) /\ Len(trades) <= MaxTrades
  /\ ledger \in [1..MaxDays -> Nat \cup {-1}]
  /\ today \in 1..MaxDays
  /\ filled \in Seq(Nat) /\ Len(filled) = Len(trades)
  /\ drift \subseteq Causes

SpentOK == spent \in [starts : 0..MaxStarts, failures : 0..MaxFailures]

LEMMA InitTypes == Init => TypeInv
<1> SUFFICES ASSUME Init PROVE TypeInv
  OBVIOUS
<1>1. actor \in [Actors -> Actor] /\ StateInv
  BY IdleFacts, IdleLegal DEF Init, StateInv
<1>2. SpentOK
  BY ConstantsAssumption DEF Init, SpentOK
<1>3. TableOK
  BY ConstantsAssumption DEF Init, TableOK
<1> QED BY <1>1, <1>2, <1>3 DEF TypeInv, TypeOK, TableOK, SpentOK

(* The data of a step that only goes on to its actor's next statement. *)
Tables == <<cash, realized, positions, trades, ledger, today, filled, drift>>

LEMMA TablesKept ==
  ASSUME TypeInv, UNCHANGED Tables, SpentOK', NEW a \in Actors, NEW p, Becomes(a, p)
  PROVE  TypeInv'
<1>1. actor' \in [Actors -> Actor] /\ StateInv'
  BY BecomesTypes DEF Tables
<1>2. TableOK'
  BY DEF TypeInv, TypeOK, TableOK, Tables
<1> QED BY <1>1, <1>2 DEF TypeInv, TypeOK, TableOK, SpentOK

(* Steps that change nothing but what their actor is at. *)
Thinks(a) ==
  \/ \E call \in Calls \cap FillCalls, direction \in Directions,
        quantity \in Quantities, price \in Prices :
       StartFill(a, call, direction, quantity, price)
  \/ \E i \in DOMAIN positions, price \in Prices : closePosition(a, i, price)
  \/ StartReset(a)
  \/ SelectOpposite(a)
  \/ LookUpToday(a)
  \/ \E i \in actor[a].todo, price \in Prices \cup {0} : ResetClose(a, i, price)
  \/ ReadBalance(a)

LEMMA ThinkStep ==
  ASSUME TypeInv, NEW a \in Actors, Thinks(a)
  PROVE  /\ UNCHANGED Tables /\ SpentOK' /\ spent'.failures = spent.failures
         /\ \E p : Becomes(a, p) /\ KeepsTrade(a, p) /\ Broke(p) /\ Broke(actor[a])
<1>1. SpentOK
  BY DEF TypeInv, TypeOK, SpentOK
<1>2. CASE \E call \in Calls \cap FillCalls, direction \in Directions,
              quantity \in Quantities, price \in Prices :
             StartFill(a, call, direction, quantity, price)
  <2>1. UNCHANGED Tables /\ Start
    BY <1>2 DEF StartFill, MayStart, Tables
  <2> QED BY <1>2, <2>1, StartFillStep, StartFacts DEF SpentOK
<1>3. CASE \E i \in DOMAIN positions, price \in Prices : closePosition(a, i, price)
  <2>1. UNCHANGED Tables /\ Start
    BY <1>3 DEF closePosition, MayStart, Tables
  <2> QED BY <1>3, <2>1, CloseStartStep, StartFacts DEF SpentOK
<1>4. CASE StartReset(a)
  <2>1. UNCHANGED Tables /\ Start
    BY <1>4 DEF StartReset, MayStart, Tables
  <2> QED BY <1>4, <2>1, ResetStartStep, StartFacts DEF SpentOK
<1>5. CASE SelectOpposite(a)
  BY <1>1, <1>5, SelectStep DEF SelectOpposite, Tables, SpentOK
<1>6. CASE LookUpToday(a)
  BY <1>1, <1>6, LookUpStep DEF LookUpToday, Tables, SpentOK
<1>7. CASE \E i \in actor[a].todo, price \in Prices \cup {0} : ResetClose(a, i, price)
  <2>1. UNCHANGED <<Tables, spent>>
    BY <1>7 DEF ResetClose, Tables
  <2> QED BY <1>1, <1>7, <2>1, ResetCloseStep DEF SpentOK
<1>8. CASE ReadBalance(a)
  BY <1>1, <1>8, ReadBalanceStep DEF ReadBalance, Tables, SpentOK
<1> QED BY <1>2, <1>3, <1>4, <1>5, <1>6, <1>7, <1>8 DEF Thinks

(* Every step is one of these. *)
LEMMA Steps ==
  ASSUME TypeInv, [Next]_vars
  PROVE  \/ UNCHANGED vars
         \/ \E direction \in Directions, quantity \in QueueQuantities : queueTrade(direction, quantity)
         \/ \E t \in DOMAIN trades : cancelTrade(t)
         \/ \E a \in Actors : Thinks(a)
         \/ \E a \in Actors : \E selected \in actor[a].rows : CloseRow(a, selected)
         \/ \E a \in Actors : Credit(a) \/ Debit(a)
         \/ \E a \in Actors : OpenRest(a)
         \/ \E a \in Settlements, price \in Prices : StartSettlement(a, price)
         \/ \E a \in Settlements : NextTrade(a)
         \/ \E a \in Actors : MarkExecuted(a)
         \/ \E a \in Actors : WriteLedger(a)
         \/ \E a \in Actors : ResetBalance(a)
         \/ \E a \in Actors : StatementFails(a) \/ ResetStatementFails(a)
         \/ Crash
         \/ NewDay
<1>1. CASE UNCHANGED vars
  BY <1>1
<1>2. CASE Queue
  BY <1>2 DEF Queue
<1>3. ASSUME NEW a \in Requests, Request(a) PROVE a \in Actors /\ Thinks(a)
  BY <1>3 DEF Request, Thinks, Actors
<1>4. ASSUME NEW a \in Settlements, Settlement(a)
      PROVE  /\ a \in Actors
             /\ \/ \E price \in Prices : StartSettlement(a, price)
                \/ NextTrade(a)
                \/ MarkExecuted(a)
  BY <1>4 DEF Settlement, Actors
<1>5. ASSUME NEW a \in Resets, Reset(a)
      PROVE  /\ a \in Actors
             /\ Thinks(a) \/ WriteLedger(a) \/ ResetBalance(a) \/ ResetStatementFails(a)
  BY <1>5 DEF Reset, Thinks, Actors
<1>6. ASSUME NEW a \in Actors, Fill(a)
      PROVE  \/ Thinks(a)
             \/ \E selected \in actor[a].rows : CloseRow(a, selected)
             \/ Credit(a) \/ Debit(a) \/ OpenRest(a) \/ StatementFails(a)
  BY <1>6 DEF Fill, Thinks
<1> QED BY <1>1, <1>2, <1>3, <1>4, <1>5, <1>6 DEF Next

LEMMA NextTypes == TypeInv /\ [Next]_vars => TypeInv'
<1> SUFFICES ASSUME TypeInv, [Next]_vars PROVE TypeInv'
  OBVIOUS
<1>0. SpentOK /\ TableOK
  BY DEF TypeInv, TypeOK, SpentOK, TableOK
<1> USE DEF TypeInv
<1>1. CASE UNCHANGED vars
  BY <1>1 DEF vars, TypeOK, StateInv
<1>2. ASSUME NEW direction \in Directions, NEW quantity \in QueueQuantities,
             queueTrade(direction, quantity)
      PROVE  TypeInv'
  <2> DEFINE new == [status |-> "queued", direction |-> direction, quantity |-> quantity]
  <2>1. /\ trades' = Append(trades, new) /\ filled' = Append(filled, 0) /\ Len(trades) < MaxTrades
        /\ Start /\ UNCHANGED <<cash, realized, positions, ledger, today, actor, drift>>
    BY <1>2 DEF queueTrade
  <2>2. new \in Trade
    BY DEF Trade
  <2> HIDE DEF new
  <2>3. /\ trades' \in Seq(Trade) /\ Len(trades') = Len(trades) + 1
        /\ DOMAIN trades \subseteq DOMAIN trades'
    BY <2>1, <2>2, AppendFacts DEF TypeOK
  <2>4. filled' \in Seq(Nat) /\ Len(filled') = Len(filled) + 1
    BY <2>1, AppendFacts DEF TypeOK
  <2>5. Len(trades') <= MaxTrades
    BY <2>1, <2>3, StateFacts
  <2>6. StateInv'
    BY <2>1, <2>3, LegalStays DEF StateInv
  <2>7. SpentOK'
    BY <2>1, StartFacts DEF SpentOK
  <2> QED BY <2>1, <2>3, <2>4, <2>5, <2>6, <2>7 DEF TypeOK, SpentOK
<1>3. ASSUME NEW t \in DOMAIN trades, cancelTrade(t) PROVE TypeInv'
  <2> DEFINE row == [trades[t] EXCEPT !.status = "cancelled"]
  <2>1. trades' = [trades EXCEPT ![t] = row]
    BY <1>3 DEF cancelTrade
  <2>2. row \in Trade
    BY StateFacts DEF Trade
  <2> HIDE DEF row
  <2>3. trades' \in Seq(Trade) /\ Len(trades') = Len(trades) /\ DOMAIN trades' = DOMAIN trades
    BY <2>1, <2>2, ExceptFacts DEF TypeOK
  <2> QED BY <1>3, <2>3 DEF TypeOK, StateInv, cancelTrade
<1>4. ASSUME NEW a \in Actors, Thinks(a) PROVE TypeInv'
  BY <1>4, ThinkStep, TablesKept
<1>5. ASSUME NEW a \in Actors, NEW selected, CloseRow(a, selected) PROVE TypeInv'
  <2>1. PICK p \in Actor : /\ actor' = [actor EXCEPT ![a] = p]
                           /\ Legal(p, DOMAIN positions, DOMAIN trades)
    BY <1>5, CloseActor
  <2>2. /\ UNCHANGED <<cash, realized, trades, ledger, today, spent>>
        /\ drift' \subseteq drift \cup {"stale row"}
        /\ FillTrade(actor[a].trade, Part(actor[a], selected))
    BY <1>5 DEF CloseRow, Part
  <2>3. /\ positions' \in Seq(Position) /\ Len(positions') = Len(positions)
        /\ DOMAIN positions' = DOMAIN positions
        /\ \A i \in DOMAIN positions' : positions'[i].quantity > 0
    BY <1>5, CloseTable
  <2>4. filled' \in Seq(Nat) /\ Len(filled') = Len(trades)
    <3>1. actor[a].trade \in DOMAIN trades \/ actor[a].trade = 0
      BY StateFacts DEF Legal, QueueLegal
    <3> QED BY <1>5, <2>2, <3>1, CloseFacts, FillFacts
  <2>5. actor' \in [Actors -> Actor] /\ StateInv'
    BY <2>1, <2>2, <2>3, ActorStep
  <2> QED BY <2>2, <2>3, <2>4, <2>5 DEF TypeOK, Causes
<1>6. ASSUME NEW a \in Actors, Credit(a) \/ Debit(a) PROVE TypeInv'
  <2>1. PICK p : Becomes(a, p)
    BY <1>6, CreditStep
  <2>2. actor[a].moved \in Int /\ actor[a].pnl \in Int
    BY StateFacts DEF Actor
  <2>3. /\ UNCHANGED <<positions, trades, ledger, today, filled, drift, spent>>
        /\ cash' \in Int /\ realized' \in Int
    BY <1>6, <2>2 DEF Credit, Debit, TypeOK
  <2>4. actor' \in [Actors -> Actor] /\ StateInv'
    BY <2>1, <2>3, BecomesTypes
  <2> QED BY <2>3, <2>4 DEF TypeOK
<1>7. ASSUME NEW a \in Actors, OpenRest(a) PROVE TypeInv'
  <2>1. PICK new \in Position : /\ positions' = Append(positions, new)
                                /\ new.quantity = actor[a].left
    BY <1>7, OpenStep
  <2>2. PICK p : Becomes(a, p)
    BY <1>7, OpenStep
  <2>3. actor[a].left > 0 /\ actor[a].left \in Nat /\ Len(positions) < MaxPositions
    BY <1>7, OpenStep, StateFacts DEF Actor
  <2>4. /\ UNCHANGED <<cash, realized, trades, ledger, today, drift, spent>>
        /\ FillTrade(actor[a].trade, actor[a].left)
    BY <1>7 DEF OpenRest
  <2>5. /\ positions' \in Seq(Position) /\ Len(positions') = Len(positions) + 1
        /\ DOMAIN positions' = DOMAIN positions \cup {Len(positions) + 1}
        /\ positions'[Len(positions) + 1] = new
        /\ \A i \in DOMAIN positions : positions'[i] = positions[i]
    BY <2>1, AppendFacts DEF TypeOK
  <2>6. \A i \in DOMAIN positions' : positions'[i].quantity > 0
    BY <2>1, <2>3, <2>5 DEF TypeOK
  <2>7. Len(positions') <= MaxPositions
    BY <2>3, <2>5, StateFacts
  <2>8. filled' \in Seq(Nat) /\ Len(filled') = Len(trades)
    <3>1. actor[a].trade \in DOMAIN trades \/ actor[a].trade = 0
      BY StateFacts DEF Legal, QueueLegal
    <3> QED BY <2>3, <2>4, <3>1, FillFacts
  <2>9. actor' \in [Actors -> Actor] /\ StateInv'
    BY <2>2, <2>4, <2>5, BecomesTypes
  <2> QED BY <2>4, <2>5, <2>6, <2>7, <2>8, <2>9 DEF TypeOK
<1>8. ASSUME NEW a \in Settlements, NEW price \in Prices, StartSettlement(a, price) PROVE TypeInv'
  <2>1. a \in Actors /\ UNCHANGED Tables /\ Start
    BY <1>8 DEF Actors, StartSettlement, MayStart, Tables
  <2> QED BY <1>8, <2>1, SettlementStartStep, StartFacts, TablesKept DEF SpentOK
<1>9. ASSUME NEW a \in Settlements, NextTrade(a) PROVE TypeInv'
  <2>1. a \in Actors /\ UNCHANGED Tables /\ SpentOK'
    BY <1>0, <1>9 DEF Actors, NextTrade, Tables, SpentOK
  <2> QED BY <1>9, <2>1, NextTradeStep, TablesKept
<1>10. ASSUME NEW a \in Actors, MarkExecuted(a) PROVE TypeInv'
  <2>1. PICK p : Becomes(a, p)
    BY <1>10, MarkStep
  <2>2. trades' \in Seq(Trade) /\ Len(trades') = Len(trades) /\ DOMAIN trades' = DOMAIN trades
    BY <1>10, MarkStep
  <2>3. UNCHANGED <<cash, realized, positions, ledger, today, filled, drift, spent>>
    BY <1>10 DEF MarkExecuted
  <2>4. actor' \in [Actors -> Actor] /\ StateInv'
    BY <2>1, <2>2, <2>3, BecomesTypes
  <2> QED BY <2>2, <2>3, <2>4 DEF TypeOK
<1>11. ASSUME NEW a \in Actors, WriteLedger(a) PROVE TypeInv'
  <2>1. PICK p : Becomes(a, p)
    BY <1>11, WriteLedgerStep
  <2>2. UNCHANGED <<cash, realized, positions, trades, today, filled, drift, spent>>
    BY <1>11 DEF WriteLedger
  <2>3. actor' \in [Actors -> Actor] /\ StateInv'
    BY <2>1, <2>2, BecomesTypes
  <2> QED BY <1>11, <2>2, <2>3, WriteLedgerStep DEF TypeOK
<1>12. ASSUME NEW a \in Actors, ResetBalance(a) PROVE TypeInv'
  <2>1. /\ UNCHANGED <<realized, positions, trades, ledger, today, filled, spent>>
        /\ cash' = Target /\ drift' \subseteq drift \cup Causes
    BY <1>12 DEF ResetBalance
  <2>2. actor' \in [Actors -> Actor] /\ StateInv'
    BY <1>12, <2>1, ResetBalanceStep, BecomesTypes
  <2> QED BY <2>1, <2>2, ConstantsAssumption DEF TypeOK
<1>13. ASSUME NEW a \in Actors, StatementFails(a) \/ ResetStatementFails(a) PROVE TypeInv'
  <2>1. PICK p : Becomes(a, p)
    BY <1>13, FailStep
  <2>2. /\ UNCHANGED <<cash, realized, positions, trades, ledger, today, filled>>
        /\ drift' \subseteq drift \cup {"lost update"} /\ Failure
    BY <1>13, FailStep
  <2>3. actor' \in [Actors -> Actor] /\ StateInv'
    BY <2>1, <2>2, BecomesTypes
  <2> QED BY <2>2, <2>3, FailureFacts DEF TypeOK, Causes
<1>14. CASE Crash
  <2>1. /\ UNCHANGED <<cash, realized, positions, trades, ledger, today, filled>>
        /\ drift' \subseteq drift \cup {"lost update"} /\ Failure
        /\ actor' = [a \in Actors |-> Idle]
    BY <1>14 DEF Crash
  <2>2. actor' \in [Actors -> Actor] /\ StateInv'
    BY <2>1, IdleFacts, IdleLegal DEF StateInv
  <2> QED BY <2>1, <2>2, FailureFacts DEF TypeOK, Causes
<1>15. CASE NewDay
  BY <1>15, ConstantsAssumption DEF NewDay, TypeOK, StateInv
<1> QED BY <1>1, <1>2, <1>3, <1>4, <1>5, <1>6, <1>7, <1>8, <1>9, <1>10, <1>11, <1>12, <1>13,
           <1>14, <1>15, Steps

(* Whatever the interleaving, the tables hold rows the schema accepts, an
   open position has a quantity, and nobody holds what he could not have.  *)
THEOREM TypeCorrect == Spec => []TypeOK
<1>1. TypeInv => TypeOK
  BY DEF TypeInv
<1> QED BY InitTypes, NextTypes, <1>1, PTL DEF Spec

-----------------------------------------------------------------------------
(* The books *)

LEMMA Finite ==
  IsFiniteSet(Actors) /\ IsFiniteSet(1..MaxDays)
<1>1. IsFiniteSet(Requests \cup Settlements)
  BY ConstantsAssumption, FS_Union
<1>2. IsFiniteSet(Actors)
  BY <1>1, ConstantsAssumption, FS_Union DEF Actors
<1>3. MaxDays \in Int /\ 1 \in Int
  BY ConstantsAssumption
<1> QED BY <1>2, <1>3, FS_Interval

LEMMA WorthType ==
  ASSUME NEW row \in Position
  PROVE  Worth(row) \in Int
<1>1. openCashDelta(row.direction, row.quantity, row.entry) \in Int
  BY CashDeltas DEF Position
<1> QED BY <1>1 DEF Worth

LEMMA BooksType ==
  ASSUME TypeInv
  PROVE  /\ cash \in Int /\ realized \in Int /\ Target \in Int
         /\ Moved \in Int /\ Pnl \in Int /\ OpenValue \in Int /\ Bailouts \in Int
<1>1. Moved \in Int /\ Pnl \in Int
  <2>1. /\ [a \in Actors |-> actor[a].moved] \in [Actors -> Int]
        /\ [a \in Actors |-> actor[a].pnl] \in [Actors -> Int]
    BY StateFacts DEF Actor
  <2> QED BY <2>1, Finite, SumType DEF Moved, Pnl
<1>2. OpenValue \in Int
  <2>1. [i \in DOMAIN positions |-> Worth(positions[i])] \in [DOMAIN positions -> Int]
    BY StateFacts, WorthType
  <2>2. IsFiniteSet(DOMAIN positions)
    BY StateFacts, FS_Interval
  <2> QED BY <2>1, <2>2, SumType DEF OpenValue
<1>3. Bailouts \in Int
  <2>1. [d \in 1..MaxDays |-> IF ledger[d] = -1 THEN 0 ELSE ledger[d]] \in [1..MaxDays -> Int]
    BY DEF TypeInv, TypeOK
  <2> QED BY <2>1, Finite, SumType DEF Bailouts
<1> QED BY <1>1, <1>2, <1>3, ConstantsAssumption DEF TypeInv, TypeOK

(* What an actor has moved enters and leaves the sums. *)
LEMMA SumsOfActors ==
  ASSUME TypeInv, TypeInv', NEW a \in Actors, NEW p, actor' = [actor EXCEPT ![a] = p]
  PROVE  /\ Moved' = Moved + (p.moved - actor[a].moved)
         /\ Pnl' = Pnl + (p.pnl - actor[a].pnl)
<1> DEFINE m == [b \in Actors |-> actor[b].moved]
           n == [b \in Actors |-> actor'[b].moved]
           q == [b \in Actors |-> actor[b].pnl]
           r == [b \in Actors |-> actor'[b].pnl]
<1>1. actor'[a] = p /\ \A b \in Actors \ {a} : actor'[b] = actor[b]
  BY DEF TypeInv, TypeOK
<1>2. \A b \in Actors : actor[b] \in Actor /\ actor'[b] \in Actor
  BY DEF TypeInv, TypeOK
<1>3. m \in [Actors -> Int] /\ n \in [Actors -> Int] /\ q \in [Actors -> Int] /\ r \in [Actors -> Int]
  BY <1>2 DEF Actor
<1>4. \A b \in Actors \ {a} : n[b] = m[b] /\ r[b] = q[b]
  BY <1>1
<1>5. m[a] = actor[a].moved /\ n[a] = p.moved /\ q[a] = actor[a].pnl /\ r[a] = p.pnl
  BY <1>1
<1>6. Moved = Sum(m) /\ Moved' = Sum(n) /\ Pnl = Sum(q) /\ Pnl' = Sum(r)
  BY DEF Moved, Pnl
<1> HIDE DEF m, n, q, r
<1>7. Sum(n) = Sum(m) + (n[a] - m[a])
  BY <1>3, <1>4, Finite, SumChange
<1>8. Sum(r) = Sum(q) + (r[a] - q[a])
  BY <1>3, <1>4, Finite, SumChange
<1> QED BY <1>5, <1>6, <1>7, <1>8

LEMMA ValueChanges ==
  ASSUME TypeInv, TypeInv', NEW i \in DOMAIN positions, DOMAIN positions' = DOMAIN positions,
         \A j \in DOMAIN positions \ {i} : positions'[j] = positions[j]
  PROVE  OpenValue' = OpenValue + (Worth(positions'[i]) - Worth(positions[i]))
<1> DEFINE v == [j \in DOMAIN positions |-> Worth(positions[j])]
           w == [j \in DOMAIN positions |-> Worth(positions'[j])]
<1>1. \A j \in DOMAIN positions : positions[j] \in Position
  BY StateFacts
<1>2. \A j \in DOMAIN positions' : positions'[j] \in Position
  BY DomainFacts DEF TypeInv, TypeOK
<1>3. v \in [DOMAIN positions -> Int] /\ w \in [DOMAIN positions -> Int]
  BY <1>1, <1>2, WorthType
<1>4. \A j \in DOMAIN positions \ {i} : w[j] = v[j]
  OBVIOUS
<1>5. v[i] = Worth(positions[i]) /\ w[i] = Worth(positions'[i])
  OBVIOUS
<1>6. OpenValue = Sum(v) /\ OpenValue' = Sum(w)
  BY DEF OpenValue, Worth
<1>7. IsFiniteSet(DOMAIN positions)
  BY StateFacts, FS_Interval
<1> HIDE DEF v, w
<1>8. Sum(w) = Sum(v) + (w[i] - v[i])
  BY <1>3, <1>4, <1>7, SumChange
<1> QED BY <1>5, <1>6, <1>8

LEMMA ValueGrows ==
  ASSUME TypeInv, TypeInv', NEW new \in Position, positions' = Append(positions, new)
  PROVE  OpenValue' = OpenValue + Worth(new)
<1> DEFINE k == Len(positions) + 1
           v == [j \in DOMAIN positions |-> Worth(positions[j])]
           w == [j \in DOMAIN positions' |-> Worth(positions'[j])]
<1>1. /\ DOMAIN positions' = DOMAIN positions \cup {k} /\ k \notin DOMAIN positions
      /\ positions'[k] = new /\ \A j \in DOMAIN positions : positions'[j] = positions[j]
  BY AppendFacts DEF TypeInv, TypeOK
<1>2. \A j \in DOMAIN positions : positions[j] \in Position
  BY StateFacts
<1>3. \A j \in DOMAIN positions' : positions'[j] \in Position
  BY DomainFacts DEF TypeInv, TypeOK
<1>4. v \in [DOMAIN positions -> Int] /\ w \in [DOMAIN positions' -> Int]
  BY <1>2, <1>3, WorthType
<1>5. (\A j \in DOMAIN positions : w[j] = v[j]) /\ w[k] = Worth(new)
  BY <1>1
<1>6. OpenValue = Sum(v) /\ OpenValue' = Sum(w)
  BY DEF OpenValue, Worth
<1>7. IsFiniteSet(DOMAIN positions)
  BY StateFacts, FS_Interval
<1> DEFINE D == DOMAIN positions
           E == DOMAIN positions'
<1>8. /\ IsFiniteSet(E) /\ k \in E /\ D = E \ {k}
      /\ v \in [E \ {k} -> Int] /\ w \in [E -> Int] /\ \A x \in E \ {k} : w[x] = v[x]
  <2>1. D = E \ {k} /\ k \in E
    BY <1>1
  <2>2. IsFiniteSet(E)
    BY <1>1, <1>7, FS_AddElement
  <2>3. v \in [D -> Int] /\ w \in [E -> Int] /\ \A x \in D : w[x] = v[x]
    BY <1>4, <1>5
  <2> HIDE DEF v, w, k, D, E
  <2> QED BY <2>1, <2>2, <2>3
<1> HIDE DEF v, w, k, D, E
<1>9. Sum(w) = Sum(v) + w[k]
  BY <1>8, SumExtend
<1> QED BY <1>5, <1>6, <1>9

LEMMA LedgerGrows ==
  ASSUME TypeInv, TypeInv', ledger[today] = -1, ledger'[today] \in Nat,
         \A d \in 1..MaxDays \ {today} : ledger'[d] = ledger[d]
  PROVE  Bailouts' = Bailouts + ledger'[today]
<1> DEFINE v == [d \in 1..MaxDays |-> IF ledger[d] = -1 THEN 0 ELSE ledger[d]]
           w == [d \in 1..MaxDays |-> IF ledger'[d] = -1 THEN 0 ELSE ledger'[d]]
<1>1. today \in 1..MaxDays
  BY DEF TypeInv, TypeOK
<1>2. v \in [1..MaxDays -> Int] /\ w \in [1..MaxDays -> Int]
  BY DEF TypeInv, TypeOK
<1>3. (\A d \in 1..MaxDays \ {today} : w[d] = v[d]) /\ v[today] = 0 /\ w[today] = ledger'[today]
  BY <1>1
<1>4. Bailouts = Sum(v) /\ Bailouts' = Sum(w)
  BY DEF Bailouts
<1> DEFINE D == 1..MaxDays
<1>5. /\ IsFiniteSet(D) /\ today \in D /\ v \in [D -> Int] /\ w \in [D -> Int]
      /\ \A d \in D \ {today} : w[d] = v[d]
  BY <1>1, <1>2, <1>3, Finite
<1> HIDE DEF v, w, D
<1>6. Sum(w) = Sum(v) + (w[today] - v[today])
  BY <1>5, SumChange
<1>7. Sum(v) \in Int
  BY <1>5, SumType
<1> QED BY <1>3, <1>4, <1>6, <1>7

(* The equation of BooksBalance. *)
Balanced == cash + Moved + OpenValue = Target + realized + Pnl + Bailouts

LEMMA InitBooks == Init => Balanced
<1> SUFFICES ASSUME Init PROVE Balanced
  OBVIOUS
<1>1. Moved = 0 /\ Pnl = 0
  <2>1. [a \in Actors |-> actor[a].moved] = [a \in Actors |-> 0]
    BY IdleFacts DEF Init
  <2>2. [a \in Actors |-> actor[a].pnl] = [a \in Actors |-> 0]
    BY IdleFacts DEF Init
  <2> QED BY <2>1, <2>2, Finite, SumZero DEF Moved, Pnl
<1>2. OpenValue = 0
  <2>1. DOMAIN positions = {}
    BY DEF Init
  <2>2. [i \in DOMAIN positions |-> Worth(positions[i])] = [i \in {} |-> 0]
    BY <2>1
  <2> QED BY <2>2, FS_EmptySet, SumZero DEF OpenValue
<1>3. Bailouts = 0
  <2>1. [d \in 1..MaxDays |-> IF ledger[d] = -1 THEN 0 ELSE ledger[d]] = [d \in 1..MaxDays |-> 0]
    BY DEF Init
  <2> QED BY <2>1, Finite, SumZero DEF Bailouts
<1> QED BY <1>1, <1>2, <1>3, ConstantsAssumption DEF Balanced, Init

(* Steps that keep cash, tables and what is on its way. *)
LEMMA BooksKept ==
  ASSUME TypeInv, TypeInv', Balanced, UNCHANGED <<cash, realized, positions, ledger>>,
         NEW a \in Actors, NEW p, Becomes(a, p), Broke(p), Broke(actor[a])
  PROVE  Balanced'
<1>1. Moved' = Moved + (0 - 0) /\ Pnl' = Pnl + (0 - 0)
  BY SumsOfActors DEF Becomes, Broke
<1>2. OpenValue' = OpenValue /\ Bailouts' = Bailouts
  BY DEF OpenValue, Bailouts
<1> QED BY <1>1, <1>2, BooksType DEF Balanced

LEMMA CloseBooks ==
  ASSUME NEW direction \in Directions, NEW entry \in Prices, NEW price \in Prices,
         NEW quantity \in Nat, NEW part \in Nat, part <= quantity
  PROVE  closeCashDelta(direction, part, price)
           + (-openCashDelta(direction, quantity - part, entry) + openCashDelta(direction, quantity, entry))
           = RealizedPnl(direction, part, entry, price)
<1>1. entry \in Nat /\ price \in Nat
  BY ConstantsAssumption
<1>2. (quantity - part) * entry = quantity * entry - part * entry
  BY <1>1
<1>3. quantity * entry \in Nat /\ part * entry \in Nat /\ part * price \in Nat
  BY <1>1, Product
<1> QED BY <1>2, <1>3 DEF closeCashDelta, openCashDelta, RealizedPnl


(* One actor's step that enters as much on one side as on the other. *)
LEMMA Entries ==
  ASSUME TypeInv, TypeInv', Balanced, NEW a \in Actors, NEW p, Becomes(a, p),
         NEW paid \in Int, cash' = cash + paid,
         NEW worth \in Int, OpenValue' = OpenValue + worth,
         NEW gained \in Int, realized' = realized + gained,
         NEW lent \in Int, Bailouts' = Bailouts + lent,
         paid + (p.moved - actor[a].moved) + worth = gained + (p.pnl - actor[a].pnl) + lent
  PROVE  Balanced'
<1>1. /\ Moved' = Moved + (p.moved - actor[a].moved)
      /\ Pnl' = Pnl + (p.pnl - actor[a].pnl)
  BY SumsOfActors DEF Becomes
<1>2. p.moved \in Int /\ p.pnl \in Int /\ actor[a].moved \in Int /\ actor[a].pnl \in Int
  BY StateFacts DEF Becomes, Actor
<1>3. cash + Moved + OpenValue = Target + realized + Pnl + Bailouts
  BY DEF Balanced
<1>4. cash' + Moved' + OpenValue' = Target + realized' + Pnl' + Bailouts'
  BY <1>1, <1>2, <1>3, BooksType
<1> QED BY <1>4 DEF Balanced

LEMMA SameValue ==
  /\ positions' = positions => OpenValue' = OpenValue
  /\ ledger' = ledger => Bailouts' = Bailouts
BY DEF OpenValue, Bailouts

LEMMA CloseRowBooks ==
  ASSUME TypeInv, TypeInv', Balanced, NEW a \in Actors, NEW selected, CloseRow(a, selected),
         positions[selected.id] = selected.row
  PROVE  Balanced'
<1> DEFINE i == selected.id
           row == selected.row
           part == Part(actor[a], selected)
           delta == closeCashDelta(row.direction, part, actor[a].price)
           pnl == RealizedPnl(row.direction, part, row.entry, actor[a].price)
           was == openCashDelta(row.direction, row.quantity, row.entry)
           is == openCashDelta(row.direction, row.quantity - part, row.entry)
<1>1. /\ actor[a].pc = "close" /\ i \in DOMAIN positions /\ row \in Position /\ row.status = "open"
      /\ part \in Nat /\ part <= row.quantity /\ actor[a].price \in Prices
      /\ delta \in Int /\ pnl \in Int
  BY CloseFacts
<1>2. PICK p : Becomes(a, p) /\ p.moved = delta /\ p.pnl = pnl
  <2>1. DOMAIN positions' = DOMAIN positions /\ DOMAIN trades' = DOMAIN trades
    BY CloseTable DEF CloseRow
  <2> HIDE DEF delta, pnl
  <2> QED BY <2>1, CloseActor DEF Becomes, delta, pnl
<1>3. OpenValue' = OpenValue + (Worth(positions'[i]) - Worth(positions[i]))
  BY <1>1, CloseTable, ValueChanges
<1>4. /\ row.quantity \in Nat /\ row.direction \in Directions /\ row.entry \in Prices
      /\ row.entry \in Nat
  BY <1>1, ConstantsAssumption DEF Position
<1>5. Worth(positions[i]) = -was
  BY <1>1 DEF Worth
<1>6. Worth(positions'[i]) = -is
  <2>0. positions'[i] = IF part = row.quantity THEN [positions[i] EXCEPT !.status = "closed"]
                        ELSE [positions[i] EXCEPT !.quantity = row.quantity - part]
    BY CloseTable
  <2>1. CASE part = row.quantity
    <3>1. positions'[i].status = "closed"
      <4>1. positions'[i] = [row EXCEPT !.status = "closed"]
        BY <2>0, <2>1
      <4> HIDE DEF part, i, row
      <4> QED BY <1>1, <4>1 DEF Position
    <3>2. row.quantity - part = 0
      BY <1>4, <2>1
    <3>3. is = 0
      BY <1>4, <3>2 DEF openCashDelta
    <3> QED BY <3>1, <3>3 DEF Worth
  <2>2. CASE part # row.quantity
    <3>1. positions'[i] = [row EXCEPT !.quantity = row.quantity - part]
      BY <2>0, <2>2
    <3> DEFINE rest == row.quantity - part
    <3>2. /\ positions'[i].status = "open" /\ positions'[i].direction = row.direction
          /\ positions'[i].quantity = rest /\ positions'[i].entry = row.entry
      <4> HIDE DEF rest
      <4> QED BY <1>1, <3>1 DEF rest, Position
    <3> QED BY <3>2 DEF Worth
  <2> QED BY <2>1, <2>2
<1>7. delta + (-is + was) = pnl
  BY <1>1, <1>4, CloseBooks
<1>8. is \in Int /\ was \in Int
  BY <1>1, <1>4, CashDeltas
<1>9. UNCHANGED <<cash, realized, ledger>> /\ Broke(actor[a])
  BY <1>1, StillLegal DEF CloseRow
<1> HIDE DEF delta, pnl, was, is, part, row, i
<1>10. OpenValue' = OpenValue + (-is + was) /\ -is + was \in Int
  BY <1>3, <1>5, <1>6, <1>8
<1>11. /\ cash' = cash + 0 /\ realized' = realized + 0 /\ Bailouts' = Bailouts + 0
       /\ 0 + (p.moved - actor[a].moved) + (-is + was) = 0 + (p.pnl - actor[a].pnl) + 0
  BY <1>1, <1>2, <1>7, <1>8, <1>9, BooksType, SameValue DEF Broke
<1> QED BY <1>2, <1>10, <1>11, Entries

LEMMA PayBooks ==
  ASSUME TypeInv, TypeInv', Balanced, NEW a \in Actors, Credit(a) \/ Debit(a)
  PROVE  Balanced'
<1>1. PICK p : Becomes(a, p) /\ Broke(p)
  BY CreditStep
<1>2. actor[a].moved \in Int /\ actor[a].pnl \in Int
  BY StateFacts DEF Actor
<1>3. cash' = cash + actor[a].moved /\ UNCHANGED <<positions, ledger>>
  BY DEF Credit, Debit
<1>4. realized' = realized + actor[a].pnl
  <2>1. CASE Credit(a)
    BY <2>1 DEF Credit
  <2>2. CASE Debit(a)
    <3>1. actor[a].pnl = 0
      BY <2>2, StateFacts DEF Debit, Legal, MoneyLegal
    <3> QED BY <2>2, <3>1, BooksType DEF Debit
  <2> QED BY <2>1, <2>2
<1>5. OpenValue' = OpenValue + 0 /\ Bailouts' = Bailouts + 0
  BY <1>3, SameValue, BooksType
<1>6. actor[a].moved + (p.moved - actor[a].moved) + 0 = actor[a].pnl + (p.pnl - actor[a].pnl) + 0
  BY <1>1, <1>2 DEF Broke
<1> QED BY <1>1, <1>2, <1>3, <1>4, <1>5, <1>6, Entries

LEMMA OpenBooks ==
  ASSUME TypeInv, TypeInv', Balanced, NEW a \in Actors, OpenRest(a)
  PROVE  Balanced'
<1> DEFINE delta == openCashDelta(actor[a].direction, actor[a].left, actor[a].price)
<1>1. PICK new \in Position :
        /\ positions' = Append(positions, new)
        /\ new.status = "open" /\ new.direction = actor[a].direction
        /\ new.quantity = actor[a].left /\ new.entry = actor[a].price
  BY OpenStep
<1>2. PICK p : Becomes(a, p) /\ p.pnl = 0 /\ p.moved = delta
  BY OpenStep
<1>3. Broke(actor[a]) /\ UNCHANGED <<cash, realized, ledger>>
  BY OpenStep DEF OpenRest
<1>4. delta \in Int
  <2>1. actor[a].direction \in Directions /\ actor[a].left \in Nat /\ actor[a].price \in Prices
    BY OpenStep, StateFacts DEF Actor
  <2> QED BY <2>1, CashDeltas
<1>5. Worth(new) = -delta
  BY <1>1 DEF Worth
<1> HIDE DEF delta
<1>6. OpenValue' = OpenValue + (-delta) /\ -delta \in Int
  BY <1>1, <1>4, <1>5, ValueGrows
<1>7. cash' = cash + 0 /\ realized' = realized + 0 /\ Bailouts' = Bailouts + 0
  BY <1>3, BooksType, SameValue
<1>8. 0 + (p.moved - actor[a].moved) + (-delta) = 0 + (p.pnl - actor[a].pnl) + 0
  BY <1>2, <1>3, <1>4 DEF Broke
<1> QED BY <1>2, <1>6, <1>7, <1>8, Entries

LEMMA LedgerBooks ==
  ASSUME TypeInv, TypeInv', Balanced, NEW a \in Actors, WriteLedger(a)
  PROVE  Balanced'
<1>1. UNCHANGED <<cash, realized, positions>> /\ Broke(actor[a])
  BY WriteLedgerStep DEF WriteLedger
<1>2. cash' = cash + 0 /\ realized' = realized + 0 /\ OpenValue' = OpenValue + 0
  BY <1>1, BooksType, SameValue
<1>3. PICK p : /\ Becomes(a, p) /\ p.pnl = 0
               /\ \/ ledger' = ledger /\ p.moved = 0
                  \/ ledger[today] = -1 /\ ledger'[today] \in Nat /\ p.moved = ledger'[today]
  BY WriteLedgerStep
<1>4. Bailouts' = Bailouts + p.moved /\ p.moved \in Int
  <2>1. CASE ledger' = ledger /\ p.moved = 0
    BY <2>1, BooksType, SameValue
  <2>2. CASE ledger[today] = -1 /\ ledger'[today] \in Nat /\ p.moved = ledger'[today]
    <3>1. \A d \in 1..MaxDays \ {today} : ledger'[d] = ledger[d]
      BY WriteLedgerStep
    <3> QED BY <2>2, <3>1, LedgerGrows
  <2> QED BY <1>3, <2>1, <2>2
<1>5. 0 + (p.moved - actor[a].moved) + 0 = 0 + (p.pnl - actor[a].pnl) + p.moved
  BY <1>1, <1>3, <1>4 DEF Broke
<1> QED BY <1>2, <1>3, <1>4, <1>5, Entries

LEMMA ResetBooks ==
  ASSUME TypeInv, TypeInv', Balanced, NEW a \in Actors, ResetBalance(a), drift' = {}
  PROVE  Balanced'
<1>1. /\ actor[a].pc = "topup" /\ cash' = Target /\ UNCHANGED <<realized, positions, ledger>>
      /\ ~(actor[a].seen > Target) /\ cash = actor[a].seen
  BY DEF ResetBalance, Causes
<1>2. actor[a].moved = TopUp(actor[a].seen) /\ actor[a].pnl = 0
  BY <1>1, StateFacts DEF Legal, MoneyLegal
<1>3. cash \in Int /\ Target \in Int
  BY BooksType
<1>4. actor[a].moved = Target - cash
  BY <1>1, <1>2, <1>3 DEF TopUp
<1>5. /\ cash' = cash + (Target - cash) /\ Target - cash \in Int
      /\ OpenValue' = OpenValue + 0 /\ realized' = realized + 0 /\ Bailouts' = Bailouts + 0
  BY <1>1, <1>3, BooksType, SameValue
<1>6. (Target - cash) + (Idle.moved - actor[a].moved) + 0 = 0 + (Idle.pnl - actor[a].pnl) + 0
  BY <1>2, <1>3, <1>4, IdleFacts
<1>7. Becomes(a, Idle)
  BY ResetBalanceStep
<1> QED BY <1>5, <1>6, <1>7, Entries

(* Who has not moved cash has realized nothing either. *)
LEMMA NothingLost ==
  ASSUME TypeInv, NEW a \in Actors, actor[a].moved = 0
  PROVE  Broke(actor[a])
BY StateFacts DEF Legal, MoneyLegal, Broke

LEMMA NothingMoved ==
  ASSUME NEW holds, \A a \in Actors : Broke(holds[a])
  PROVE  /\ Sum([a \in Actors |-> holds[a].moved]) = 0
         /\ Sum([a \in Actors |-> holds[a].pnl]) = 0
<1>1. /\ [a \in Actors |-> holds[a].moved] = [a \in Actors |-> 0]
      /\ [a \in Actors |-> holds[a].pnl] = [a \in Actors |-> 0]
  BY DEF Broke
<1> QED BY <1>1, Finite, SumZero

BooksInv == drift = {} => Balanced

LEMMA NextBooks == TypeInv /\ TypeInv' /\ BooksInv /\ [Next]_vars => BooksInv'
<1> SUFFICES ASSUME TypeInv, TypeInv', BooksInv, [Next]_vars, drift' = {}
             PROVE  Balanced'
  BY DEF BooksInv
<1>0. drift = {} => Balanced
  BY DEF BooksInv
<1>1. CASE UNCHANGED vars
  BY <1>0, <1>1 DEF vars, Balanced, Moved, Pnl, OpenValue, Bailouts
<1>2. CASE \E direction \in Directions, quantity \in QueueQuantities : queueTrade(direction, quantity)
  BY <1>0, <1>2 DEF queueTrade, Balanced, Moved, Pnl, OpenValue, Bailouts
<1>3. CASE \E t \in DOMAIN trades : cancelTrade(t)
  BY <1>0, <1>3 DEF cancelTrade, Balanced, Moved, Pnl, OpenValue, Bailouts
<1>4. ASSUME NEW a \in Actors, Thinks(a) PROVE Balanced'
  BY <1>0, <1>4, ThinkStep, BooksKept DEF Tables
<1>5. ASSUME NEW a \in Actors, NEW selected \in actor[a].rows, CloseRow(a, selected) PROVE Balanced'
  <2>1. drift = {} /\ positions[selected.id] = selected.row
    BY <1>5 DEF CloseRow
  <2> QED BY <1>0, <1>5, <2>1, CloseRowBooks
<1>6. ASSUME NEW a \in Actors, Credit(a) \/ Debit(a) PROVE Balanced'
  <2>1. drift = {}
    BY <1>6 DEF Credit, Debit
  <2> QED BY <1>0, <1>6, <2>1, PayBooks
<1>7. ASSUME NEW a \in Actors, OpenRest(a) PROVE Balanced'
  <2>1. drift = {}
    BY <1>7 DEF OpenRest
  <2> QED BY <1>0, <1>7, <2>1, OpenBooks
<1>8. ASSUME NEW a \in Settlements, NEW price \in Prices, StartSettlement(a, price) PROVE Balanced'
  <2>1. UNCHANGED <<cash, realized, positions, ledger, drift>> /\ a \in Actors
    BY <1>8 DEF StartSettlement, Actors
  <2> QED BY <1>0, <1>8, <2>1, SettlementStartStep, BooksKept
<1>9. ASSUME NEW a \in Settlements, NextTrade(a) PROVE Balanced'
  <2>1. UNCHANGED <<cash, realized, positions, ledger, drift>> /\ a \in Actors
    BY <1>9 DEF NextTrade, Actors
  <2> QED BY <1>0, <1>9, <2>1, NextTradeStep, BooksKept
<1>10. ASSUME NEW a \in Actors, MarkExecuted(a) PROVE Balanced'
  <2>1. UNCHANGED <<cash, realized, positions, ledger, drift>>
    BY <1>10 DEF MarkExecuted
  <2> QED BY <1>0, <1>10, <2>1, MarkStep, BooksKept
<1>11. ASSUME NEW a \in Actors, WriteLedger(a) PROVE Balanced'
  <2>1. drift = {}
    BY <1>11 DEF WriteLedger
  <2> QED BY <1>0, <1>11, <2>1, LedgerBooks
<1>12. ASSUME NEW a \in Actors, ResetBalance(a) PROVE Balanced'
  <2>1. drift = {}
    BY <1>12 DEF ResetBalance
  <2> QED BY <1>0, <1>12, <2>1, ResetBooks
<1>13. ASSUME NEW a \in Actors, StatementFails(a) \/ ResetStatementFails(a) PROVE Balanced'
  <2>1. /\ drift' = IF actor[a].moved # 0 THEN drift \cup {"lost update"} ELSE drift
        /\ UNCHANGED <<cash, realized, positions, ledger>>
    BY <1>13, FailStep
  <2>2. drift = {} /\ actor[a].moved = 0
    BY <2>1
  <2>3. Broke(actor[a])
    BY <2>2, NothingLost
  <2>4. PICK p : Becomes(a, p) /\ Broke(p)
    BY <1>13, FailStep
  <2> QED BY <1>0, <2>1, <2>2, <2>3, <2>4, BooksKept
<1>14. CASE Crash
  <2>1. /\ drift = {} /\ \A a \in Actors : actor[a].moved = 0
        /\ UNCHANGED <<cash, realized, positions, ledger>>
        /\ actor' = [a \in Actors |-> Idle]
    BY <1>14 DEF Crash
  <2>2. \A a \in Actors : Broke(actor[a])
    BY <2>1, NothingLost
  <2>3. Moved = 0 /\ Pnl = 0
    BY <2>2, NothingMoved DEF Moved, Pnl
  <2>4. \A a \in Actors : Broke(actor'[a])
    BY <2>1, IdleFacts DEF Broke
  <2>5. Moved' = 0 /\ Pnl' = 0
    BY <2>4, NothingMoved DEF Moved, Pnl
  <2> QED BY <1>0, <2>1, <2>3, <2>5, SameValue DEF Balanced
<1>15. CASE NewDay
  BY <1>0, <1>15 DEF NewDay, Balanced, Moved, Pnl, OpenValue, Bailouts
<1> QED BY <1>1, <1>2, <1>3, <1>4, <1>5, <1>6, <1>7, <1>8, <1>9, <1>10, <1>11, <1>12, <1>13,
           <1>14, <1>15, Steps

(* For any number of users' requests, settlements and resets at once: the
   books balance as long as no row was stale, no UPDATE of cash lost, no
   balance overwritten and no profit cut.                                  *)
THEOREM BooksAlwaysBalance == Spec => []BooksBalance
<1>1. Init => BooksInv
  BY InitBooks DEF BooksInv
<1>2. BooksInv => BooksBalance
  BY DEF BooksInv, Balanced, BooksBalance
<1> QED BY <1>1, <1>2, InitTypes, NextTypes, NextBooks, PTL DEF Spec


-----------------------------------------------------------------------------
(* Queued trades *)

OneSettlement == \A a, b \in Settlements : a = b

(* The settlement has not begun with the trade: it is not executed, and
   nothing was traded for it unless something failed.                      *)
Ahead(t) ==
  /\ trades[t].status # "executed"
  /\ spent.failures = 0 => filled[t] = 0

(* What is traded for a trade and what is left of it make up its quantity,
   or more after a failure.                                                *)
UnderWay(t, left) ==
  /\ trades[t].status # "executed"
  /\ filled[t] + left >= trades[t].quantity
  /\ spent.failures = 0 => filled[t] + left = trades[t].quantity

OfTrade(t) ==
  /\ trades[t].status = "executed" => filled[t] >= trades[t].quantity
  /\ spent.failures = 0 => filled[t] <= trades[t].quantity
  /\ spent.failures = 0 /\ trades[t].status = "queued" /\ filled[t] # 0 =>
       \E a \in Actors : actor[a].trade = t

OfActor(p) ==
  /\ p.op = "settlement" => \A t \in p.todo : Ahead(t)
  /\ p.trade # 0 => UnderWay(p.trade, p.left) /\ p.trade \notin p.todo

TradeInv ==
  /\ \A t \in DOMAIN trades : OfTrade(t)
  /\ \A a \in Actors : /\ OfActor(actor[a])
                       /\ actor[a].op = "settlement" => a \in Settlements

LEMMA TradeData ==
  ASSUME TypeInv
  PROVE  /\ \A t \in DOMAIN trades : /\ filled[t] \in Nat /\ trades[t].quantity \in Nat
                                     /\ t # 0 /\ trades[t] \in Trade
         /\ \A a \in Actors : /\ actor[a].left \in Nat
                              /\ actor[a].op = "settlement" => actor[a].todo \subseteq DOMAIN trades
                              /\ actor[a].trade # 0 => /\ actor[a].trade \in DOMAIN trades
                                                       /\ actor[a].op = "settlement"
<1>1. \A t \in DOMAIN trades : /\ filled[t] \in Nat /\ trades[t].quantity \in Nat
                               /\ t # 0 /\ trades[t] \in Trade
  BY StateFacts, TradeFacts
<1>2. ASSUME NEW a \in Actors
      PROVE  /\ actor[a].left \in Nat
             /\ actor[a].op = "settlement" => actor[a].todo \subseteq DOMAIN trades
             /\ actor[a].trade # 0 => actor[a].trade \in DOMAIN trades /\ actor[a].op = "settlement"
  BY StateFacts DEF Actor, Legal, QueueLegal
<1> QED BY <1>1, <1>2

(* The others are not settlements, and have no trade. *)
LEMMA OneAtATime ==
  ASSUME TypeInv, TradeInv, OneSettlement, NEW a \in Settlements, NEW b \in Actors, b # a
  PROVE  actor[b].op # "settlement" /\ actor[b].trade = 0
BY TradeData DEF TradeInv, OneSettlement

LEMMA NewActor ==
  ASSUME TypeInv, NEW a \in Actors, NEW p, Becomes(a, p)
  PROVE  actor'[a] = p /\ \A b \in Actors \ {a} : actor'[b] = actor[b]
BY DEF Becomes, TypeInv, TypeOK

LEMMA IdleTrades == OfActor(Idle)' /\ Idle.op # "settlement"
BY IdleFacts DEF OfActor

(* Steps that trade nothing. *)
LEMMA TradesKept ==
  ASSUME TypeInv, TradeInv, NEW a \in Actors, NEW p, Becomes(a, p), KeepsTrade(a, p),
         UNCHANGED <<trades, filled>>, spent'.failures = 0 => spent.failures = 0
  PROVE  TradeInv'
<1>1. actor'[a] = p /\ \A b \in Actors \ {a} : actor'[b] = actor[b]
  BY NewActor
<1>2. p.trade # 0 => p.op = "settlement"
  BY DEF Becomes, Legal, QueueLegal
<1>3. OfActor(p) /\ (p.op = "settlement" => a \in Settlements)
  BY <1>2 DEF TradeInv, OfActor, KeepsTrade
<1>4. ASSUME NEW b \in Actors
      PROVE  OfActor(actor[b])' /\ (actor'[b].op = "settlement" => b \in Settlements)
  <2>1. OfActor(actor'[b]) /\ (actor'[b].op = "settlement" => b \in Settlements)
    <3>1. CASE b = a
      BY <1>1, <1>3, <3>1
    <3>2. CASE b # a
      BY <1>1, <3>2 DEF TradeInv
    <3> QED BY <3>1, <3>2
  <2> QED BY <2>1 DEF OfActor, Ahead, UnderWay
<1>5. ASSUME NEW t \in DOMAIN trades PROVE OfTrade(t)'
  <2>1. ASSUME spent'.failures = 0, NEW b \in Actors, actor[b].trade = t
        PROVE  \E c \in Actors : actor'[c].trade = t
    <3>1. CASE b = a
      BY <1>1, <2>1, <3>1 DEF KeepsTrade
    <3>2. CASE b # a
      BY <1>1, <2>1, <3>2
    <3> QED BY <3>1, <3>2
  <2> QED BY <2>1 DEF TradeInv, OfTrade
<1> QED BY <1>4, <1>5 DEF TradeInv

(* Steps of the settlement that is at work: the others have no trades. *)
LEMMA SettlementTrades ==
  ASSUME TypeInv, TradeInv, OneSettlement, NEW a \in Settlements, a \in Actors, NEW p, Becomes(a, p),
         OfActor(p)', \A t \in DOMAIN trades' : OfTrade(t)'
  PROVE  TradeInv'
<1>1. actor'[a] = p /\ \A b \in Actors \ {a} : actor'[b] = actor[b]
  BY NewActor
<1>2. ASSUME NEW b \in Actors
      PROVE  OfActor(actor[b])' /\ (actor'[b].op = "settlement" => b \in Settlements)
  <2>1. CASE b = a
    BY <1>1, <2>1 DEF OfActor
  <2>2. CASE b # a
    <3>1. actor'[b] = actor[b] /\ actor[b].op # "settlement" /\ actor[b].trade = 0
      BY <1>1, <2>2, OneAtATime
    <3> QED BY <3>1 DEF OfActor
  <2> QED BY <2>1, <2>2
<1> QED BY <1>2 DEF TradeInv

LEMMA TradesFilled ==
  ASSUME TypeInv, TradeInv, OneSettlement, NEW a \in Actors, NEW p, Becomes(a, p),
         p.op = actor[a].op, p.todo = actor[a].todo, p.trade = actor[a].trade,
         NEW part \in Nat, part <= actor[a].left, p.left = actor[a].left - part,
         FillTrade(actor[a].trade, part), UNCHANGED <<trades, spent>>
  PROVE  /\ TradeInv'
         /\ \A t \in DOMAIN trades : trades[t].status = "executed" => filled'[t] = filled[t]
<1>0. PICK t : t = actor[a].trade
  OBVIOUS
<1>1. CASE t = 0
  <2>1. filled' = filled
    BY <1>0, <1>1 DEF FillTrade
  <2>2. KeepsTrade(a, p)
    BY <1>0, <1>1 DEF KeepsTrade
  <2> QED BY <2>1, <2>2, TradesKept
<1>2. CASE t # 0
  <2>1. /\ t \in DOMAIN trades /\ actor[a].op = "settlement" /\ a \in Settlements
        /\ UnderWay(t, actor[a].left) /\ t \notin actor[a].todo
        /\ \A u \in actor[a].todo : u \in DOMAIN trades /\ Ahead(u)
        /\ actor[a].left \in Nat /\ filled[t] \in Nat /\ trades[t].quantity \in Nat
    BY <1>0, <1>2, TradeData DEF TradeInv, OfActor
  <2>2. /\ \A u \in DOMAIN trades \ {t} : filled'[u] = filled[u]
        /\ filled'[t] = filled[t] + part
    BY <1>0, <1>2, <2>1, FillFacts
  <2>3. UnderWay(t, p.left)'
    <3>1. filled'[t] + p.left = filled[t] + actor[a].left
      BY <2>1, <2>2
    <3> QED BY <2>1, <3>1 DEF UnderWay
  <2>4. OfActor(p)'
    <3>1. \A u \in p.todo : Ahead(u)'
      BY <2>1, <2>2 DEF Ahead
    <3> QED BY <1>0, <2>1, <2>3, <3>1 DEF OfActor
  <2>5. ASSUME NEW u \in DOMAIN trades PROVE OfTrade(u)'
    <3>1. actor'[a].trade = t /\ \A b \in Actors \ {a} : actor'[b] = actor[b]
      BY <1>0, NewActor
    <3>2. CASE u = t
      <4>1. trades[t].status # "executed"
        BY <2>1 DEF UnderWay
      <4>2. spent.failures = 0 => filled'[t] <= trades[t].quantity
        BY <2>1, <2>2 DEF UnderWay
      <4> QED BY <3>1, <3>2, <4>1, <4>2 DEF OfTrade
    <3>3. CASE u # t
      <4>1. filled'[u] = filled[u] /\ OfTrade(u)
        BY <2>2, <3>3 DEF TradeInv
      <4>2. ASSUME NEW b \in Actors, actor[b].trade = u PROVE \E c \in Actors : actor'[c].trade = u
        BY <1>0, <3>1, <3>3, <4>2
      <4> QED BY <4>1, <4>2 DEF OfTrade
    <3> QED BY <3>2, <3>3
  <2>6. TradeInv'
    BY <2>1, <2>4, <2>5, SettlementTrades
  <2>7. \A u \in DOMAIN trades : trades[u].status = "executed" => filled'[u] = filled[u]
    BY <2>1, <2>2 DEF UnderWay
  <2> QED BY <2>6, <2>7
<1> QED BY <1>1, <1>2

LEMMA TradesStarted ==
  ASSUME TypeInv, TradeInv, OneSettlement, NEW a \in Settlements, a \in Actors, NEW price \in Prices,
         StartSettlement(a, price)
  PROVE  TradeInv'
<1>1. PICK p : /\ Becomes(a, p) /\ p.trade = 0 /\ actor[a].trade = 0
               /\ p.todo = {t \in DOMAIN trades : trades[t].status = "queued"}
  BY SettlementStartStep
<1>2. UNCHANGED <<trades, filled>> /\ spent'.failures = spent.failures
  BY StartFacts DEF StartSettlement, MayStart
<1>3. \A b \in Actors : actor[b].trade = 0
  BY <1>1, OneAtATime
<1>4. \A t \in DOMAIN trades : OfTrade(t) /\ t # 0
  BY TradeData DEF TradeInv
<1>5. \A t \in p.todo : Ahead(t)'
  BY <1>1, <1>2, <1>3, <1>4 DEF OfTrade, Ahead
<1>6. \A t \in DOMAIN trades : OfTrade(t)'
  BY <1>2, <1>3, <1>4 DEF OfTrade
<1> QED BY <1>1, <1>2, <1>5, <1>6, SettlementTrades DEF OfActor

LEMMA TradesTaken ==
  ASSUME TypeInv, TradeInv, OneSettlement, NEW a \in Settlements, a \in Actors, NextTrade(a)
  PROVE  TradeInv'
<1>1. PICK p : /\ Becomes(a, p) /\ actor[a].op = "settlement" /\ actor[a].trade = 0
               /\ \/ p = Idle
                  \/ /\ p.op = "settlement" /\ p.trade \in actor[a].todo
                     /\ p.todo = actor[a].todo \ {p.trade}
                     /\ p.left = trades[p.trade].quantity
  BY NextTradeStep
<1>2. UNCHANGED <<trades, filled, spent>>
  BY DEF NextTrade
<1>3. \A t \in actor[a].todo : t \in DOMAIN trades /\ Ahead(t)
  BY <1>1, TradeData DEF TradeInv, OfActor
<1>4. OfActor(p)'
  <2>1. CASE p = Idle
    BY <2>1, IdleTrades
  <2>2. CASE p # Idle
    <3>1. filled[p.trade] \in Nat /\ trades[p.trade].quantity \in Nat /\ Ahead(p.trade)
      BY <1>1, <1>3, <2>2, TradeData
    <3>2. UnderWay(p.trade, p.left)'
      BY <1>1, <1>2, <2>2, <3>1 DEF UnderWay, Ahead
    <3>3. \A t \in p.todo : Ahead(t)'
      BY <1>1, <1>2, <1>3, <2>2 DEF Ahead
    <3> QED BY <1>1, <2>2, <3>2, <3>3 DEF OfActor
  <2> QED BY <2>1, <2>2
<1>5. \A b \in Actors : actor[b].trade = 0
  BY <1>1, OneAtATime
<1>6. \A t \in DOMAIN trades : OfTrade(t)'
  BY <1>2, <1>5, TradeData DEF TradeInv, OfTrade
<1> QED BY <1>1, <1>2, <1>4, <1>6, SettlementTrades

LEMMA TradesMarked ==
  ASSUME TypeInv, TradeInv, OneSettlement, NEW a \in Actors, MarkExecuted(a)
  PROVE  TradeInv'
<1> DEFINE t == actor[a].trade
<1>1. PICK p : Becomes(a, p) /\ p.op = "settlement" /\ p.trade = 0 /\ p.todo = actor[a].todo
  BY MarkStep
<1>2. /\ actor[a].op = "settlement" /\ t \in DOMAIN trades /\ actor[a].left = 0
      /\ trades' = [trades EXCEPT ![t].status = "executed"] /\ DOMAIN trades' = DOMAIN trades
      /\ UNCHANGED <<filled, spent>>
  BY MarkStep DEF MarkExecuted
<1>3. /\ a \in Settlements /\ UnderWay(t, 0) /\ t \notin actor[a].todo
      /\ \A u \in actor[a].todo : u \in DOMAIN trades /\ Ahead(u)
      /\ filled[t] \in Nat /\ trades[t].quantity \in Nat /\ trades[t] \in Trade
  BY <1>2, TradeData DEF TradeInv, OfActor
<1>4. /\ \A u \in DOMAIN trades \ {t} : trades'[u] = trades[u]
      /\ trades'[t] = [trades[t] EXCEPT !.status = "executed"]
  BY <1>2
<1>5. trades'[t].status = "executed" /\ trades'[t].quantity = trades[t].quantity
  BY <1>3, <1>4 DEF Trade
<1>6. OfActor(p)'
  BY <1>1, <1>2, <1>3, <1>4 DEF OfActor, Ahead
<1>7. ASSUME NEW u \in DOMAIN trades PROVE OfTrade(u)'
  <2>1. CASE u = t
    <3>1. filled[t] >= trades[t].quantity /\ (spent.failures = 0 => filled[t] <= trades[t].quantity)
      BY <1>3 DEF UnderWay
    <3> QED BY <1>2, <1>5, <2>1, <3>1 DEF OfTrade
  <2>2. CASE u # t
    <3>1. trades'[u] = trades[u] /\ OfTrade(u) /\ u # 0
      BY <1>4, <2>2, TradeData DEF TradeInv
    <3>2. \A b \in Actors : actor[b].trade # u
      BY <1>3, <2>2, <3>1, OneAtATime
    <3> QED BY <1>2, <3>1, <3>2 DEF OfTrade
  <2> QED BY <2>1, <2>2
<1> HIDE DEF t
<1> QED BY <1>1, <1>2, <1>3, <1>6, <1>7, SettlementTrades

LEMMA TradesQueued ==
  ASSUME TypeInv, TradeInv, NEW direction \in Directions, NEW quantity \in QueueQuantities,
         queueTrade(direction, quantity)
  PROVE  /\ TradeInv'
         /\ \A t \in DOMAIN trades : trades[t].status = "executed" => filled'[t] = filled[t]
<1> DEFINE new == [status |-> "queued", direction |-> direction, quantity |-> quantity]
           k == Len(trades) + 1
<1>1. /\ trades' = Append(trades, new) /\ filled' = Append(filled, 0)
      /\ UNCHANGED actor /\ spent'.failures = spent.failures
  BY StartFacts DEF queueTrade
<1>2. new \in Trade /\ trades \in Seq(Trade) /\ filled \in Seq(Nat) /\ Len(filled) = Len(trades)
  BY DEF Trade, TypeInv, TypeOK
<1>3. /\ DOMAIN trades' = DOMAIN trades \cup {k} /\ trades'[k] = new
      /\ \A t \in DOMAIN trades : trades'[t] = trades[t]
  <2> HIDE DEF new
  <2> QED BY <1>1, <1>2, AppendFacts
<1>4. filled'[k] = 0 /\ \A t \in DOMAIN trades : filled'[t] = filled[t]
  BY <1>1, <1>2, AppendFacts, StateFacts
<1>5. new.status = "queued" /\ new.quantity \in Nat
  BY <1>2, TradeFacts
<1> HIDE DEF new, k
<1>6. \A t \in DOMAIN trades' : OfTrade(t)'
  <2>1. ASSUME NEW t, t = k PROVE OfTrade(t)'
    <3>1. filled'[t] = 0 /\ trades'[t].status = "queued" /\ trades'[t].quantity \in Nat
      BY <1>3, <1>4, <1>5, <2>1
    <3> QED BY <3>1 DEF OfTrade
  <2>2. ASSUME NEW t \in DOMAIN trades PROVE OfTrade(t)'
    <3>1. filled'[t] = filled[t] /\ trades'[t] = trades[t] /\ OfTrade(t)
      BY <1>3, <1>4 DEF TradeInv
    <3> QED BY <1>1, <3>1 DEF OfTrade
  <2> QED BY <1>3, <2>1, <2>2
<1>7. \A a \in Actors : OfActor(actor[a])'
  BY <1>1, <1>3, <1>4, TradeData DEF TradeInv, OfActor, Ahead, UnderWay
<1> QED BY <1>1, <1>4, <1>6, <1>7 DEF TradeInv

LEMMA TradesCancelled ==
  ASSUME TypeInv, TradeInv, NEW t \in DOMAIN trades, cancelTrade(t)
  PROVE  TradeInv'
<1>1. /\ trades[t].status = "queued" /\ trades' = [trades EXCEPT ![t].status = "cancelled"]
      /\ UNCHANGED <<actor, filled, spent>>
  BY DEF cancelTrade
<1>2. /\ DOMAIN trades' = DOMAIN trades /\ trades'[t] = [trades[t] EXCEPT !.status = "cancelled"]
      /\ \A u \in DOMAIN trades \ {t} : trades'[u] = trades[u]
  BY <1>1
<1>3. trades'[t].status = "cancelled" /\ trades'[t].quantity = trades[t].quantity
  BY <1>2, TradeData DEF Trade
<1>4. \A u \in DOMAIN trades : /\ trades'[u].quantity = trades[u].quantity
                               /\ trades'[u].status \in {trades[u].status, "cancelled"}
  BY <1>2, <1>3
<1>5. \A u \in DOMAIN trades : OfTrade(u)'
  BY <1>1, <1>4 DEF TradeInv, OfTrade
<1>6. \A a \in Actors : OfActor(actor[a])'
  BY <1>1, <1>4, TradeData DEF TradeInv, OfActor, Ahead, UnderWay
<1> QED BY <1>1, <1>2, <1>5, <1>6 DEF TradeInv

LEMMA InitTrades == Init => TradeInv
<1> SUFFICES ASSUME Init PROVE TradeInv
  OBVIOUS
<1>1. DOMAIN trades = {} /\ \A a \in Actors : actor[a] = Idle
  BY DEF Init
<1> QED BY <1>1, IdleFacts DEF TradeInv, OfActor

(* An executed trade stays as it was filled. *)
Settled == \A t \in DOMAIN trades : trades[t].status = "executed" => filled'[t] = filled[t]

LEMMA NextTrades == OneSettlement /\ TypeInv /\ TradeInv /\ [Next]_vars => TradeInv' /\ Settled
<1> SUFFICES ASSUME OneSettlement, TypeInv, TradeInv, [Next]_vars PROVE TradeInv' /\ Settled
  OBVIOUS
<1>0. filled' = filled => Settled
  BY DEF Settled
<1>1. CASE UNCHANGED vars
  BY <1>0, <1>1 DEF vars, TradeInv, OfTrade, OfActor, Ahead, UnderWay
<1>2. CASE \E direction \in Directions, quantity \in QueueQuantities : queueTrade(direction, quantity)
  BY <1>2, TradesQueued DEF Settled
<1>3. ASSUME NEW t \in DOMAIN trades, cancelTrade(t) PROVE TradeInv' /\ Settled
  BY <1>0, <1>3, TradesCancelled DEF cancelTrade
<1>4. ASSUME NEW a \in Actors, Thinks(a) PROVE TradeInv' /\ Settled
  BY <1>0, <1>4, ThinkStep, TradesKept DEF Tables
<1>5. ASSUME NEW a \in Actors, NEW selected \in actor[a].rows, CloseRow(a, selected)
      PROVE  TradeInv' /\ Settled
  <2> DEFINE part == Part(actor[a], selected)
  <2>1. FillTrade(actor[a].trade, part) /\ UNCHANGED <<trades, spent>>
    BY <1>5 DEF CloseRow, Part
  <2>2. part \in Nat /\ part <= actor[a].left
    BY <1>5, CloseFacts
  <2>3. DOMAIN positions' = DOMAIN positions
    BY <1>5, CloseTable
  <2>4. PICK p : /\ Becomes(a, p) /\ p.op = actor[a].op /\ p.todo = actor[a].todo
                 /\ p.trade = actor[a].trade /\ p.left = actor[a].left - part
    BY <1>5, <2>1, <2>3, CloseActor DEF Becomes
  <2> HIDE DEF part
  <2> QED BY <2>1, <2>2, <2>4, TradesFilled DEF Settled
<1>6. ASSUME NEW a \in Actors, Credit(a) \/ Debit(a) PROVE TradeInv' /\ Settled
  <2>1. UNCHANGED <<trades, filled, spent>>
    BY <1>6 DEF Credit, Debit
  <2> QED BY <1>0, <1>6, <2>1, CreditStep, TradesKept
<1>7. ASSUME NEW a \in Actors, OpenRest(a) PROVE TradeInv' /\ Settled
  <2>1. FillTrade(actor[a].trade, actor[a].left) /\ UNCHANGED <<trades, spent>>
    BY <1>7 DEF OpenRest
  <2>2. actor[a].left \in Nat
    BY TradeData
  <2>3. PICK p : /\ Becomes(a, p) /\ p.op = actor[a].op /\ p.todo = actor[a].todo
                 /\ p.trade = actor[a].trade /\ p.left = 0
    BY <1>7, OpenStep
  <2>4. p.left = actor[a].left - actor[a].left /\ actor[a].left <= actor[a].left
    BY <2>2, <2>3
  <2> QED BY <2>1, <2>2, <2>3, <2>4, TradesFilled DEF Settled
<1>8. ASSUME NEW a \in Settlements, NEW price \in Prices, StartSettlement(a, price)
      PROVE  TradeInv' /\ Settled
  BY <1>0, <1>8, TradesStarted DEF StartSettlement, Actors
<1>9. ASSUME NEW a \in Settlements, NextTrade(a) PROVE TradeInv' /\ Settled
  BY <1>0, <1>9, TradesTaken DEF NextTrade, Actors
<1>10. ASSUME NEW a \in Actors, MarkExecuted(a) PROVE TradeInv' /\ Settled
  BY <1>0, <1>10, TradesMarked DEF MarkExecuted
<1>11. ASSUME NEW a \in Actors, WriteLedger(a) PROVE TradeInv' /\ Settled
  <2>1. UNCHANGED <<trades, filled, spent>>
    BY <1>11 DEF WriteLedger
  <2> QED BY <1>0, <1>11, <2>1, WriteLedgerStep, TradesKept
<1>12. ASSUME NEW a \in Actors, ResetBalance(a) PROVE TradeInv' /\ Settled
  <2>1. UNCHANGED <<trades, filled, spent>>
    BY <1>12 DEF ResetBalance
  <2> QED BY <1>0, <1>12, <2>1, ResetBalanceStep, TradesKept
<1>13. ASSUME NEW a \in Actors, StatementFails(a) \/ ResetStatementFails(a)
       PROVE  TradeInv' /\ Settled
  <2>1. UNCHANGED <<trades, filled>> /\ Failure
    BY <1>13, FailStep
  <2>2. spent'.failures # 0
    BY <2>1, FailureFacts
  <2> QED BY <1>0, <1>13, <2>1, <2>2, FailStep, TradesKept
<1>14. CASE Crash
  <2>1. UNCHANGED <<trades, filled>> /\ Failure /\ actor' = [a \in Actors |-> Idle]
    BY <1>14 DEF Crash
  <2>2. spent'.failures # 0
    BY <2>1, FailureFacts
  <2>3. \A t \in DOMAIN trades : OfTrade(t)'
    BY <2>1, <2>2 DEF TradeInv, OfTrade
  <2>4. \A a \in Actors : actor'[a].op # "settlement" /\ actor'[a].trade = 0
    BY <2>1, IdleFacts
  <2> QED BY <1>0, <2>1, <2>3, <2>4 DEF TradeInv, OfActor
<1>15. CASE NewDay
  BY <1>0, <1>15 DEF NewDay, TradeInv, OfTrade, OfActor, Ahead, UnderWay
<1> QED BY <1>1, <1>2, <1>3, <1>4, <1>5, <1>6, <1>7, <1>8, <1>9, <1>10, <1>11, <1>12, <1>13,
           <1>14, <1>15, Steps

(* As long as settlements do not overlap, whatever users and resets do at the
   same time: an executed trade was filled, without a failure exactly, and is
   never filled again.                                                     *)
THEOREM TradesAlwaysFill ==
  ASSUME OneSettlement
  PROVE  Spec => TradesFillExactly
<1> DEFINE Filled == \A t \in DOMAIN trades :
             /\ trades[t].status = "executed" => filled[t] >= trades[t].quantity
             /\ spent.failures = 0 => filled[t] <= trades[t].quantity
<1>1. TradeInv => Filled
  BY DEF TradeInv, OfTrade
<1>2. Settled => [Settled]_vars
  OBVIOUS
<1>3. TypeInv /\ TradeInv /\ [Next]_vars => TradeInv' /\ Settled
  BY NextTrades
<1>4. Spec => []Filled /\ [][Settled]_vars
  <2> HIDE DEF Filled
  <2> QED BY <1>1, <1>2, <1>3, InitTypes, NextTypes, InitTrades, PTL DEF Spec
<1> QED BY <1>4 DEF TradesFillExactly, Settled

=============================================================================
