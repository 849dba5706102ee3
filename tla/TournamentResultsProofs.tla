------------------------ MODULE TournamentResultsProofs ------------------------
(***************************************************************************)
(* For any number of users, requests, settlements and lifecycle runs, any  *)
(* prices, quantities and failures: the standings add up whenever nobody   *)
(* is marking, and the results of a tournament that is completed are       *)
(* final.  Both rest on the types, the books and the channel.              *)
(***************************************************************************)
EXTENDS TournamentProofs

-----------------------------------------------------------------------------
(* Sums over the positions: what they gained when they were last marked, and
   what they will have gained when a marking is through                    *)

Listed(p, i) == \E r \in p.selected : r.id = i

(* What a position counts for to a portfolio, for a run that has marked those
   it has no longer on its list.                                           *)
Worth(x, q, p, i) ==
  IF x.status = "open" /\ x.portfolio = q
  THEN IF Listed(p, i) THEN Gain(x.direction, x.entry, p.price) * x.quantity
       ELSE x.unrealized
  ELSE 0

Worths(q, p) == [i \in DOMAIN positions |-> Worth(positions[i], q, p, i)]

WorthsAfter(q, p) == [i \in DOMAIN positions' |-> Worth(positions'[i], q, p, i)]

LEMMA WorthType ==
  ASSUME NEW x \in Position, NEW q, NEW p, p.price \in Int, NEW i
  PROVE  Worth(x, q, p, i) \in Int
<1>1. /\ x.direction \in Directions /\ x.entry \in Int /\ x.quantity \in Int
      /\ x.unrealized \in Int
  BY Numbers DEF Position
<1>2. Gain(x.direction, x.entry, p.price) \in Int
  BY <1>1, GainType
<1> DEFINE g == Gain(x.direction, x.entry, p.price)
<1>3. g * x.quantity \in Int
  <2> HIDE DEF g
  <2> QED BY <1>1, <1>2 DEF g
<1> QED BY <1>1, <1>3 DEF Worth

LEMMA WorthTypes ==
  ASSUME TypeInv, TypeInv', NEW q, NEW p, p.price \in Int
  PROVE  /\ Worths(q, p) \in [DOMAIN positions -> Int]
         /\ WorthsAfter(q, p) \in [DOMAIN positions' -> Int]
         /\ IsFiniteSet(DOMAIN positions) /\ IsFiniteSet(DOMAIN positions')
         /\ Sum(Worths(q, p)) \in Int
<1>1. /\ \A i \in DOMAIN positions : positions[i] \in Position
      /\ Len(positions) \in Nat /\ DOMAIN positions = 1..Len(positions)
  BY Lengths DEF TypeInv
<1>2. /\ \A i \in DOMAIN positions' : positions'[i] \in Position
      /\ Len(positions') \in Nat /\ DOMAIN positions' = 1..Len(positions')
  <2>1. positions' \in Seq(Position)
    BY DEF TypeInv, Tables
  <2> QED BY <2>1, DomainFacts
<1>3. IsFiniteSet(DOMAIN positions) /\ IsFiniteSet(DOMAIN positions')
  BY <1>1, <1>2, FS_Interval
<1>4. Worths(q, p) \in [DOMAIN positions -> Int]
  BY <1>1, WorthType DEF Worths
<1>5. WorthsAfter(q, p) \in [DOMAIN positions' -> Int]
  BY <1>2, WorthType DEF WorthsAfter
<1> QED BY <1>3, <1>4, <1>5, SumType

(* One position is written over. *)
LEMMA WorthMoves ==
  ASSUME TypeInv, TypeInv', NEW q, NEW p, p.price \in Int, NEW i \in DOMAIN positions,
         DOMAIN positions' = DOMAIN positions,
         \A j \in DOMAIN positions \ {i} : positions'[j] = positions[j]
  PROVE  Sum(WorthsAfter(q, p)) = Sum(Worths(q, p))
           + (Worth(positions'[i], q, p, i) - Worth(positions[i], q, p, i))
<1>1. /\ Worths(q, p) \in [DOMAIN positions -> Int]
      /\ WorthsAfter(q, p) \in [DOMAIN positions -> Int]
      /\ IsFiniteSet(DOMAIN positions)
  BY WorthTypes
<1>2. /\ WorthsAfter(q, p)[i] = Worth(positions'[i], q, p, i)
      /\ Worths(q, p)[i] = Worth(positions[i], q, p, i)
      /\ \A j \in DOMAIN positions \ {i} : WorthsAfter(q, p)[j] = Worths(q, p)[j]
  BY DEF Worths, WorthsAfter
<1>3. Sum(WorthsAfter(q, p)) = Sum(Worths(q, p)) + (WorthsAfter(q, p)[i] - Worths(q, p)[i])
  BY <1>1, <1>2, SumChange
<1> QED BY <1>2, <1>3

LEMMA WorthElsewhere ==
  ASSUME TypeInv, TypeInv', NEW q, NEW p, p.price \in Int, NEW i \in DOMAIN positions,
         DOMAIN positions' = DOMAIN positions,
         \A j \in DOMAIN positions \ {i} : positions'[j] = positions[j],
         positions[i].portfolio # q, positions'[i].portfolio # q
  PROVE  Sum(WorthsAfter(q, p)) = Sum(Worths(q, p))
<1>1. Worth(positions'[i], q, p, i) = 0 /\ Worth(positions[i], q, p, i) = 0
  BY DEF Worth
<1> QED BY <1>1, WorthMoves, WorthTypes

(* A position that is opened has gained nothing, and is on no list. *)
LEMMA WorthOpened ==
  ASSUME TypeInv, TypeInv', NEW q, NEW p, p.price \in Int, NEW a \in Actors, OpenPosition(a),
         \A r \in p.selected : r.id \in DOMAIN positions
  PROVE  Sum(WorthsAfter(q, p)) = Sum(Worths(q, p))
<1> DEFINE k == Len(positions) + 1
<1>1. /\ DOMAIN positions \subseteq DOMAIN positions'
      /\ DOMAIN positions' \subseteq DOMAIN positions \cup {k}
      /\ \A i \in DOMAIN positions : positions'[i] = positions[i] /\ i # k
      /\ k \in DOMAIN positions' => positions'[k].unrealized = 0
  <2> DEFINE x == [portfolio |-> actor[a].portfolio, direction |-> actor[a].direction,
                   quantity |-> actor[a].left, entry |-> actor[a].price,
                   mark |-> actor[a].price, unrealized |-> 0, status |-> "open"]
  <2>1. x.unrealized = 0
    OBVIOUS
  <2>2. /\ DOMAIN positions \subseteq DOMAIN positions'
        /\ DOMAIN positions' \subseteq DOMAIN positions \cup {k}
        /\ \A i \in DOMAIN positions : positions'[i] = positions[i] /\ i # k
        /\ k \in DOMAIN positions' => positions'[k] = x
    BY OpenedRows
  <2> HIDE DEF x
  <2> QED BY <2>1, <2>2
<1>2. /\ Worths(q, p) \in [DOMAIN positions -> Int]
      /\ WorthsAfter(q, p) \in [DOMAIN positions' -> Int]
      /\ IsFiniteSet(DOMAIN positions')
      /\ \A i \in DOMAIN positions : WorthsAfter(q, p)[i] = Worths(q, p)[i]
      /\ Sum(Worths(q, p)) \in Int
  BY <1>1, WorthTypes DEF Worths, WorthsAfter
<1>3. CASE k \notin DOMAIN positions'
  <2>1. DOMAIN positions' = DOMAIN positions
    BY <1>1, <1>3
  <2>2. WorthsAfter(q, p) = Worths(q, p)
    BY <1>2, <2>1
  <2> QED BY <2>2
<1>4. CASE k \in DOMAIN positions'
  <2>1. DOMAIN positions = DOMAIN positions' \ {k} /\ ~Listed(p, k)
    BY <1>1, <1>4 DEF Listed
  <2>2. WorthsAfter(q, p)[k] = 0
    BY <1>1, <1>4, <2>1 DEF WorthsAfter, Worth
  <2> DEFINE f == Worths(q, p)
             g == WorthsAfter(q, p)
             E == DOMAIN positions'
  <2>3. /\ IsFiniteSet(E) /\ k \in E /\ f \in [E \ {k} -> Int] /\ g \in [E -> Int]
        /\ \A i \in E \ {k} : g[i] = f[i]
    BY <1>2, <1>4, <2>1
  <2>4. Sum(g) = Sum(f) + g[k]
    <3> HIDE DEF f, g, E, k
    <3> QED BY <2>3, SumExtend, ZenonT(40)
  <2> QED BY <1>2, <2>2, <2>4
<1> QED BY <1>3, <1>4

LEMMA SameWorths ==
  ASSUME NEW q, NEW p, positions' = positions
  PROVE  Sum(WorthsAfter(q, p)) = Sum(Worths(q, p))
<1>1. WorthsAfter(q, p) = Worths(q, p)
  BY DEF Worths, WorthsAfter
<1> QED BY <1>1

(* For nobody's list, the sum is what the open positions were last marked at. *)
LEMMA OpenGains ==
  ASSUME NEW q
  PROVE  /\ OpenGain(q) = Sum(Worths(q, Idle))
         /\ OpenGain(q)' = Sum(WorthsAfter(q, Idle))
<1>1. \A i : ~Listed(Idle, i)
  BY IdleFacts DEF Listed
<1>2. [i \in DOMAIN positions |-> IF i \in OpenOf(q) THEN positions[i].unrealized ELSE 0]
        = Worths(q, Idle)
  BY <1>1 DEF Worths, Worth, OpenOf, OpenPositions
<1>3. [i \in DOMAIN positions' |-> IF i \in OpenOf(q)' THEN positions'[i].unrealized ELSE 0]
        = WorthsAfter(q, Idle)
  BY <1>1 DEF WorthsAfter, Worth, OpenOf, OpenPositions
<1> QED BY <1>2, <1>3 DEF OpenGain

-----------------------------------------------------------------------------
(* The shares that are yet to be taken off the unrealized totals *)

ShareOf(q) == [a \in Actors |-> IF actor[a].portfolio = q /\ actor[a].op # "close"
                                THEN actor[a].share ELSE 0]

ShareAfter(q) == [a \in Actors |-> IF actor'[a].portfolio = q /\ actor'[a].op # "close"
                                   THEN actor'[a].share ELSE 0]

PendingShareAfter(q) == Sum(ShareAfter(q))

LEMMA ShareTypes ==
  ASSUME TypeInv, TypeInv', NEW q
  PROVE  /\ ShareOf(q) \in [Actors -> Int] /\ ShareAfter(q) \in [Actors -> Int]
         /\ PendingShare(q) = Sum(ShareOf(q)) /\ PendingShare(q) \in Int
<1>1. \A a \in Actors : actor[a].share \in Int
  BY RunFacts DEF Actor
<1>2. \A a \in Actors : actor'[a].share \in Int
  <2>1. \A a \in Actors : actor'[a] \in Actor
    BY DEF TypeInv
  <2> QED BY <2>1 DEF Actor
<1>3. ShareOf(q) \in [Actors -> Int] /\ ShareAfter(q) \in [Actors -> Int]
  BY <1>1, <1>2 DEF ShareOf, ShareAfter
<1>4. PendingShare(q) = Sum(ShareOf(q))
  BY DEF PendingShare, ShareOf
<1> QED BY <1>3, <1>4, ActorsFinite, SumType

LEMMA ShareMoves ==
  ASSUME TypeInv, TypeInv', NEW a \in Actors, NEW q,
         \A b \in Actors \ {a} : actor'[b] = actor[b]
  PROVE  PendingShareAfter(q) = PendingShare(q) + (ShareAfter(q)[a] - ShareOf(q)[a])
<1>1. \A b \in Actors \ {a} : ShareAfter(q)[b] = ShareOf(q)[b]
  BY DEF ShareAfter, ShareOf
<1>2. ShareOf(q) \in [Actors -> Int] /\ ShareAfter(q) \in [Actors -> Int]
      /\ PendingShare(q) = Sum(ShareOf(q))
  BY ShareTypes
<1> QED BY <1>1, <1>2, ActorsFinite, SumChange DEF PendingShareAfter

LEMMA SameShares ==
  ASSUME TypeInv, TypeInv', NEW q, \A a \in Actors : ShareAfter(q)[a] = ShareOf(q)[a]
  PROVE  PendingShareAfter(q) = PendingShare(q)
<1>1. ShareOf(q) \in [Actors -> Int] /\ ShareAfter(q) \in [Actors -> Int]
      /\ PendingShare(q) = Sum(ShareOf(q))
  BY ShareTypes
<1>2. ShareOf(q) = ShareAfter(q)
  BY <1>1
<1> QED BY <1>1, <1>2 DEF PendingShareAfter

LEMMA NoShares ==
  ASSUME TypeInv, TypeInv', NEW q, \A a \in Actors : ShareAfter(q)[a] = 0
  PROVE  PendingShareAfter(q) = 0
<1>1. ShareAfter(q) \in [Actors -> Int]
  BY ShareTypes
<1>2. ShareAfter(q) = [a \in Actors |-> 0]
  BY <1>1
<1> QED BY <1>2, ActorsFinite, SumZero DEF PendingShareAfter

(* Only who is about to book a row has a share. *)
LEMMA Sharers ==
  ASSUME TypeInv, TypeInv', NEW q
  PROVE  /\ \A a \in Actors : actor[a].pc # "credit" => ShareOf(q)[a] = 0
         /\ \A a \in Actors : actor'[a].pc # "credit" => ShareAfter(q)[a] = 0
<1>1. ASSUME NEW a \in Actors, actor[a].pc # "credit"
      PROVE  ShareOf(q)[a] = 0
  BY <1>1, RunFacts DEF ShareOf, Legal, AtStep, NothingToBook
<1>2. ASSUME NEW a \in Actors, actor'[a].pc # "credit"
      PROVE  ShareAfter(q)[a] = 0
  <2>1. Legal(actor'[a], DOMAIN portfolios', DOMAIN positions', DOMAIN trades',
              DOMAIN channels')
    BY DEF TypeInv, RunsLegal
  <2> QED BY <1>2, <2>1 DEF ShareAfter, Legal, AtStep, NothingToBook
<1> QED BY <1>1, <1>2

-----------------------------------------------------------------------------
(* What runs hold of rows and of totals *)

(* A row that was selected is the position's still in what never changes. *)
RowsAgree == \A a \in Actors : \A r \in actor[a].selected :
  /\ r.row.portfolio = positions[r.id].portfolio
  /\ r.row.direction = positions[r.id].direction
  /\ r.row.entry = positions[r.id].entry

(* A settlement takes off the share of the row, a close by hand nothing. *)
Offs == \A a \in Actors :
  /\ actor[a].op = "settle" => actor[a].off = actor[a].share
  /\ actor[a].op = "close" => actor[a].off = 0
  /\ actor[a].pc = "positions" => actor[a].todo = {}

(* Who holds rows after a step held them before, or has just selected them. *)
LEMMA Selectors ==
  ASSUME TypeInv, [Next]_vars, NEW b \in Actors
  PROVE  \/ actor'[b].selected \subseteq actor[b].selected
         \/ /\ positions' = positions
            /\ \A r \in actor'[b].selected : r.id \in DOMAIN positions /\ r.row = positions[r.id]
<1> DEFINE Less == actor'[b].selected \subseteq actor[b].selected
           New == /\ positions' = positions
                  /\ \A r \in actor'[b].selected :
                       r.id \in DOMAIN positions /\ r.row = positions[r.id]
           p == actor[b]
<1>1. Tables /\ p \in Actor
      /\ Legal(p, DOMAIN portfolios, DOMAIN positions, DOMAIN trades, DOMAIN channels)
  BY RunFacts DEF TypeInv
<1>2. ASSUME NEW a \in Actors, a # b,
             Request(a) \/ Settlement(a) \/ Lifecycle(a) \/ Filling(a) \/ Failing(a)
      PROVE  Less
  <2>1. actor'[b] = actor[b]
    BY <1>2, RequestShape, SettlementShape, LifecycleShape, FillingShape, FailingShape
  <2> QED BY <2>1
<1>3. OpenPositions \subseteq DOMAIN positions
  BY DEF OpenPositions
<1>4. ASSUME NEW ids, ids \subseteq OpenPositions
      PROVE  \A r \in Select(ids) : r.id \in DOMAIN positions /\ r.row = positions[r.id]
  BY <1>1, <1>4, SelectFacts
<1>5. ASSUME NEW x \in Actor
      PROVE  /\ Continue(x).selected \subseteq x.selected
             /\ NextRow(x) \in Actor /\ NextRow(x).selected = x.selected
             /\ TradeOver(x).selected = {}
             /\ \A t : Taken(x, t).selected = x.selected
             /\ \A r : /\ Booking(x, r).selected \subseteq x.selected
                       /\ NextMark(x, r).selected \subseteq x.selected
             /\ \A q : NextTotal(x, q).selected \subseteq x.selected
             /\ \A users : /\ NextMember(x, users).selected \subseteq x.selected
                           /\ NextRank(x, users).selected \subseteq x.selected
  <2>1. Continue(x).selected \subseteq x.selected
    BY IdleFacts DEF Continue, Actor
  <2>2. NextRow(x) \in Actor /\ NextRow(x).selected = x.selected
    BY NextRowType, Zenon DEF NextRow, Actor
  <2>3. TradeOver(x).selected = {}
    BY DEF TradeOver, Idle
  <2>4. \A t : Taken(x, t).selected = x.selected
    BY DEF Taken, Actor
  <2>5. \A r : Booking(x, r).selected \subseteq x.selected
    BY BookingFields
  <2>6. \A r : NextMark(x, r).selected \subseteq x.selected
    BY DEF NextMark, Actor
  <2>7. \A q : NextTotal(x, q).selected \subseteq x.selected
    BY IdleFacts DEF NextTotal, Actor
  <2>8. \A users : NextMember(x, users).selected \subseteq x.selected
    BY IdleFacts DEF NextMember, Actor
  <2>9. \A users : NextRank(x, users).selected \subseteq x.selected
    BY DEF NextRank, Actor
  <2> QED BY <2>1, <2>2, <2>3, <2>4, <2>5, <2>6, <2>7, <2>8, <2>9
<1>6. ASSUME Request(b)
      PROVE  Less \/ New
  <2>1. ASSUME NEW u \in Users, enterTournament(b, u)
        PROVE  Less
    <3> DEFINE x == [Idle EXCEPT !.op = "enter", !.pc = "portfolio", !.user = u]
    <3>1. x.selected = {} /\ Set(b, x)
      BY <2>1, IdleFacts DEF enterTournament, Idle
    <3> HIDE DEF x
    <3> QED BY <3>1, SetFacts
  <2>2. CASE CreatePortfolio(b)
    <3> DEFINE x == [actor[b] EXCEPT !.pc = "entry", !.portfolio = Len(portfolios) + 1]
    <3>1. x.selected = p.selected /\ Set(b, x)
      BY <1>1, <2>2 DEF CreatePortfolio, Actor
    <3> HIDE DEF x
    <3> QED BY <3>1, SetFacts
  <2>3. CASE CreateEntry(b)
    <3> DEFINE x == [actor[b] EXCEPT !.pc = "cleanup"]
    <3>1. x.selected = p.selected /\ (Set(b, x) \/ Set(b, Idle))
      BY <1>1, <2>3 DEF CreateEntry, Actor
    <3> HIDE DEF x
    <3> QED BY <3>1, SetFacts, IdleFacts
  <2>4. CASE DeletePortfolio(b) \/ Enqueue(b) \/ Charge(b)
    <3>1. Set(b, Idle)
      BY <2>4 DEF DeletePortfolio, Enqueue, Charge
    <3> QED BY <3>1, SetFacts, IdleFacts
  <2>5. ASSUME NEW u \in Users, NEW call \in Calls \ {"close"}, NEW direction \in Directions,
               NEW quantity \in Quantities, NEW price \in Prices,
               StartTrade(b, u, call, direction, quantity, price)
        PROVE  Less
    <3>1. PICK q \in DOMAIN portfolios :
            Set(b, [Idle EXCEPT !.op = call, !.user = u, !.portfolio = q,
                              !.pc = IF call = "queue" THEN "enqueue" ELSE "open",
                              !.direction = direction, !.left = quantity,
                              !.price = IF call = "queue" THEN 0 ELSE price])
      BY <2>5, Zenon DEF StartTrade
    <3> DEFINE x == [Idle EXCEPT !.op = call, !.user = u, !.portfolio = q,
                              !.pc = IF call = "queue" THEN "enqueue" ELSE "open",
                              !.direction = direction, !.left = quantity,
                              !.price = IF call = "queue" THEN 0 ELSE price]
    <3>2. x.selected = {} /\ Set(b, x)
      BY <3>1 DEF Idle
    <3> HIDE DEF x
    <3> QED BY <3>2, SetFacts
  <2>6. ASSUME NEW i \in DOMAIN positions, closePosition(b, i)
        PROVE  New
    <3> DEFINE x == [Idle EXCEPT !.op = "close", !.pc = "close",
                         !.portfolio = positions[i].portfolio,
                         !.left = positions[i].quantity, !.selected = Select({i})]
    <3>1. x.selected = Select({i}) /\ Set(b, x) /\ positions' = positions
          /\ {i} \subseteq OpenPositions
      BY <2>6 DEF closePosition, Idle, OpenPositions, rows
    <3> HIDE DEF x
    <3> QED BY <1>4, <3>1, SetFacts
  <2> HIDE DEF Less, New
  <2> QED BY <1>6, <2>1, <2>2, <2>3, <2>4, <2>5, <2>6 DEF Request
<1>7. ASSUME Settlement(b)
      PROVE  Less \/ New
  <2>1. ASSUME NEW price \in Prices, StartSettlement(b, price)
        PROVE  Less
    <3> DEFINE x == [Idle EXCEPT !.op = "settle", !.pc = "next", !.price = price,
                       !.todo = {t \in DOMAIN trades : trades[t].status = "queued"}]
    <3>1. x.selected = {} /\ Set(b, x)
      BY <2>1 DEF StartSettlement, Idle
    <3> HIDE DEF x
    <3> QED BY <3>1, SetFacts
  <2>2. CASE NextTrade(b)
    <3> DEFINE x == [p EXCEPT !.op = "mark", !.pc = "positions"]
    <3>1. x.selected = p.selected
      BY <1>1 DEF Actor
    <3>2. Set(b, x) \/ \E t \in p.todo : Set(b, Taken(p, t))
      BY <2>2 DEF NextTrade
    <3> HIDE DEF x
    <3> QED BY <1>1, <1>5, <3>1, <3>2, SetFacts
  <2>3. CASE SelectOpposite(b)
    <3> DEFINE ids == {i \in OpenOf(p.portfolio) :
                         positions[i].direction = Opposite(p.direction)}
               x == [p EXCEPT !.selected = Select(ids)]
    <3>1. Set(b, Continue(x)) /\ positions' = positions /\ ids \subseteq OpenPositions
      BY <2>3 DEF SelectOpposite, OpenOf, rows
    <3> HIDE DEF ids
    <3>2. Select(ids) \in SUBSET Selected
      BY <1>1, <3>1, SelectFacts
    <3>3. x \in Actor /\ x.selected = Select(ids)
      BY <1>1, <3>2 DEF Actor
    <3> HIDE DEF x
    <3> QED BY <1>4, <1>5, <3>1, <3>3, SetFacts
  <2>4. CASE MarkExecuted(b)
    <3>1. Set(b, TradeOver(p))
      BY <2>4 DEF MarkExecuted
    <3> QED BY <1>1, <1>5, <3>1, SetFacts
  <2>5. CASE SelectMarks(b)
    <3> DEFINE owners == {positions[i].portfolio : i \in OpenPositions}
               x == [p EXCEPT !.pc = "mark", !.selected = Select(OpenPositions),
                              !.todo = owners,
                              !.totals = [q \in DOMAIN @ |-> Total(q, p.price)]]
    <3>1. (Set(b, x) \/ Set(b, Idle)) /\ positions' = positions
      BY <2>5 DEF SelectMarks, rows
    <3>2. x.selected = Select(OpenPositions)
      BY <1>1 DEF Actor
    <3> HIDE DEF x, owners
    <3>3. actor'[b].selected = Select(OpenPositions) \/ actor'[b].selected = {}
      BY <3>1, <3>2, SetFacts, IdleFacts
    <3> QED BY <1>4, <3>1, <3>3
  <2>6. ASSUME NEW r \in p.selected, MarkPosition(b, r)
        PROVE  Less
    <3>1. Set(b, NextMark(p, r))
      BY <2>6, Zenon DEF MarkPosition
    <3> QED BY <1>1, <1>5, <3>1, SetFacts
  <2>7. ASSUME NEW q \in p.todo, WriteTotal(b, q)
        PROVE  Less
    <3>1. Set(b, NextTotal(p, q))
      BY <2>7 DEF WriteTotal
    <3> QED BY <1>1, <1>5, <3>1, SetFacts
  <2> HIDE DEF Less, New
  <2> QED BY <1>7, <2>1, <2>2, <2>3, <2>4, <2>5, <2>6, <2>7 DEF Settlement
<1>8. ASSUME Lifecycle(b)
      PROVE  Less \/ New
  <2>1. CASE StartActivation(b)
    <3> DEFINE x == [Idle EXCEPT !.op = "activate", !.pc = "activate"]
    <3>1. x.selected = {} /\ Set(b, x)
      BY <2>1 DEF StartActivation, Idle
    <3> HIDE DEF x
    <3> QED BY <3>1, SetFacts
  <2>2. CASE StartCompletion(b)
    <3> DEFINE x == [Idle EXCEPT !.op = "complete", !.pc = "select", !.channel = channel]
    <3>1. x.selected = {} /\ Set(b, x)
      BY <2>2 DEF StartCompletion, Idle
    <3> HIDE DEF x
    <3> QED BY <3>1, SetFacts
  <2>3. CASE Activate(b) \/ AttachChannel(b) \/ CancelQueued(b) \/ SetCompleted(b)
             \/ ArchiveChannel(b)
    <3>1. \A pc : [p EXCEPT !.pc = pc].selected = p.selected
      BY <1>1 DEF Actor
    <3>2. Set(b, Idle) \/ \E pc : Set(b, [p EXCEPT !.pc = pc])
      BY <2>3 DEF Activate, AttachChannel, CancelQueued, SetCompleted, ArchiveChannel
    <3>3. ASSUME NEW pc, Set(b, [p EXCEPT !.pc = pc])
          PROVE  Less
      <4> DEFINE x == [p EXCEPT !.pc = pc]
      <4>1. x.selected = p.selected /\ Set(b, x)
        BY <3>1, <3>3
      <4> HIDE DEF x
      <4> QED BY <4>1, SetFacts
    <3> QED BY <3>2, <3>3, SetFacts, IdleFacts
  <2>4. CASE CreateChannel(b)
    <3> DEFINE x == [p EXCEPT !.pc = "attach", !.channel = Len(channels) + 1]
    <3>1. x.selected = p.selected /\ Set(b, x)
      BY <1>1, <2>4 DEF CreateChannel, Actor
    <3> HIDE DEF x
    <3> QED BY <3>1, SetFacts
  <2>5. CASE ReadEntries(b) \/ \E u \in p.todo : AddMember(b, u)
    <3>1. \E users : Set(b, NextMember(p, users))
      BY <2>5 DEF ReadEntries, AddMember
    <3> QED BY <1>1, <1>5, <3>1, SetFacts
  <2>6. CASE SelectOpen(b)
    <3> DEFINE x == [p EXCEPT !.selected = Select(OpenPositions)]
    <3>1. Set(b, Continue(x)) /\ positions' = positions
      BY <2>6 DEF SelectOpen, rows
    <3>2. x \in Actor /\ x.selected = Select(OpenPositions)
      BY <1>1, SelectFacts DEF Actor
    <3> HIDE DEF x
    <3> QED BY <1>4, <1>5, <3>1, <3>2, SetFacts
  <2>7. CASE ReadBoard(b)
    <3> DEFINE x == [p EXCEPT !.places = [u \in Users |-> IF u \in Entered THEN Place(u) ELSE 0]]
    <3>1. Set(b, NextRank(x, Entered))
      BY <2>7 DEF ReadBoard
    <3>2. [u \in Users |-> IF u \in Entered THEN Place(u) ELSE 0] \in [Users -> 0..N]
      BY PlaceType, Bounds
    <3>3. x \in Actor /\ x.selected = p.selected
      BY <1>1, <3>2 DEF Actor
    <3> HIDE DEF x
    <3> QED BY <1>5, <3>1, <3>3, SetFacts
  <2>8. ASSUME NEW u \in p.todo, WriteRank(b, u)
        PROVE  Less
    <3>1. Set(b, NextRank(p, p.todo \ {u}))
      BY <2>8 DEF WriteRank
    <3> QED BY <1>1, <1>5, <3>1, SetFacts
  <2> HIDE DEF Less, New
  <2> QED BY <1>8, <2>1, <2>2, <2>3, <2>4, <2>5, <2>6, <2>7, <2>8 DEF Lifecycle
<1>9. ASSUME Filling(b)
      PROVE  Less \/ New
  <2>1. ASSUME NEW r \in p.selected, CloseRow(b, r)
        PROVE  Less
    <3>1. Set(b, Booking(p, r))
      BY <2>1, Zenon DEF CloseRow
    <3> QED BY <1>1, <1>5, <3>1, SetFacts
  <2>2. CASE Credit(b)
    <3>1. Set(b, Continue(NextRow(p)))
      BY <2>2, Zenon DEF Credit
    <3>2. actor'[b] = Continue(NextRow(p))
      BY <3>1, SetFacts, Zenon
    <3>3. \/ Continue(NextRow(p)).selected = p.selected
          \/ Continue(NextRow(p)).selected = {}
      BY <1>1, IdleFacts DEF Actor, Continue, NextRow
    <3> QED BY <1>5, <3>2, <3>3
  <2>3. CASE OpenPosition(b)
    <3> DEFINE x == [p EXCEPT !.pc = "executed", !.left = 0]
               y == [p EXCEPT !.pc = "charge"]
    <3>1. x.selected = p.selected /\ y.selected = p.selected
      BY <1>1 DEF Actor
    <3>2. Set(b, x) \/ Set(b, y) \/ Set(b, Idle)
      BY <2>3 DEF OpenPosition
    <3> HIDE DEF x, y
    <3> QED BY <3>1, <3>2, SetFacts, IdleFacts
  <2> HIDE DEF Less, New
  <2> QED BY <1>9, <2>1, <2>2, <2>3 DEF Filling
<1>10. ASSUME Failing(b)
       PROVE  Less \/ New
  <2>1. CASE StatementThrows(b)
    <3>1. Set(b, TradeOver(p)) \/ Set(b, Idle)
      BY <2>1 DEF StatementThrows
    <3> QED BY <1>1, <1>5, <3>1, SetFacts, IdleFacts
  <2>2. CASE StatementIgnored(b)
    <3>1. /\ Set(b, Ignored(p))
          /\ p.pc \in {"cleanup", "charge", "executed", "activate", "attach", "cancel",
                       "completed", "archive", "credit"}
      BY <2>2 DEF StatementIgnored
    <3>2. \A pc : [p EXCEPT !.pc = pc].selected = p.selected
      BY <1>1 DEF Actor
    <3>3. \/ Ignored(p) = Idle \/ Ignored(p) = TradeOver(p)
          \/ Ignored(p) = Continue(NextRow(p))
          \/ Ignored(p).selected = p.selected
      BY <3>1, <3>2 DEF Ignored
    <3> QED BY <1>1, <1>5, <3>1, <3>3, SetFacts, IdleFacts
  <2>3. ASSUME NEW r \in p.selected, RowIgnored(b, r)
        PROVE  Less
    <3>1. Set(b, NextMark(p, r)) \/ Set(b, Booking(p, r))
      BY <2>3 DEF RowIgnored
    <3> QED BY <1>1, <1>5, <3>1, SetFacts
  <2>4. ASSUME NEW q, TotalIgnored(b, q)
        PROVE  Less
    <3>1. Set(b, NextTotal(p, q))
      BY <2>4 DEF TotalIgnored
    <3> QED BY <1>1, <1>5, <3>1, SetFacts
  <2>5. ASSUME NEW u, RankIgnored(b, u)
        PROVE  Less
    <3>1. Set(b, NextRank(p, p.todo \ {u}))
      BY <2>5 DEF RankIgnored
    <3> QED BY <1>1, <1>5, <3>1, SetFacts
  <2> HIDE DEF Less, New
  <2> QED BY <1>10, <2>1, <2>2, <2>3, <2>4, <2>5 DEF Failing
<1>11. ASSUME Crash
       PROVE  Less
  <2>1. actor'[b] = Idle
    BY <1>11, Zenon DEF Crash
  <2> QED BY <2>1, IdleFacts
<1>12. archiveTournament \/ Tick \/ UNCHANGED vars => actor' = actor
  BY DEF archiveTournament, Tick, vars
<1> HIDE DEF Less, New
<1>13. Less \/ New
  <2>1. actor' = actor => Less
    BY DEF Less
  <2> QED BY <1>2, <1>6, <1>7, <1>8, <1>9, <1>10, <1>11, <1>12, <2>1 DEF Next, Actors
<1> QED BY <1>13 DEF Less, New

-----------------------------------------------------------------------------
(* What runs that mark positions do *)

LEMMA Markers ==
  ASSUME TypeInv, [Next]_vars, NEW b \in Actors
  PROVE  \/ actor'[b] = actor[b]
         \/ actor[b].op # "mark" /\ (actor'[b].op # "mark" \/ actor'[b].todo = {})
         \/ actor[b].pc = "positions" /\ (SelectMarks(b) \/ actor'[b] = Idle)
         \/ \E r \in actor[b].selected :
              /\ MarkPosition(b, r) \/ RowIgnored(b, r)
              /\ actor[b].pc = "mark" /\ actor'[b] = NextMark(actor[b], r)
         \/ \E q \in actor[b].todo :
              /\ WriteTotal(b, q) \/ TotalIgnored(b, q)
              /\ actor[b].pc = "total" /\ actor'[b] = NextTotal(actor[b], q)
         \/ Crash
<1> DEFINE p == actor[b]
           Away == p.op # "mark" /\ (actor'[b].op # "mark" \/ actor'[b].todo = {})
           Begun == p.pc = "positions" /\ (SelectMarks(b) \/ actor'[b] = Idle)
           Row == \E r \in p.selected :
                    /\ MarkPosition(b, r) \/ RowIgnored(b, r)
                    /\ p.pc = "mark" /\ actor'[b] = NextMark(p, r)
           Written == \E q \in p.todo :
                        /\ WriteTotal(b, q) \/ TotalIgnored(b, q)
                        /\ p.pc = "total" /\ actor'[b] = NextTotal(p, q)
<1>1. /\ p \in Actor
      /\ Legal(p, DOMAIN portfolios, DOMAIN positions, DOMAIN trades, DOMAIN channels)
  BY RunFacts
<1>2. p.op = "mark" <=> p.pc \in {"positions", "mark", "total"}
  <2>1. p.op = "mark" => p.pc \in {"positions", "mark", "total"}
    BY <1>1 DEF Legal, StepsOf
  <2> QED BY <1>1, <2>1, StepOps
<1>3. ASSUME NEW a \in Actors, a # b,
             Request(a) \/ Settlement(a) \/ Lifecycle(a) \/ Filling(a) \/ Failing(a)
      PROVE  actor'[b] = actor[b]
  BY <1>3, RequestShape, SettlementShape, LifecycleShape, FillingShape, FailingShape
<1>4. ASSUME Request(b)
      PROVE  Away
  <2>1. p.pc \in {"idle", "portfolio", "entry", "cleanup", "enqueue", "charge"}
    BY <1>4, IdleFacts, ZenonT(40) DEF Request, enterTournament, CreatePortfolio, CreateEntry,
       DeletePortfolio, StartTrade, Enqueue, Charge, closePosition, MayStart
  <2>2. p.op # "mark"
    BY <1>2, <2>1
  <2> QED BY <1>4, <2>2, RequestShape
<1>5. ASSUME Lifecycle(b)
      PROVE  Away
  <2>1. p.pc \in {"idle", "activate", "channel", "attach", "entries", "members", "select",
                  "cancel", "board", "rank", "completed", "archive"}
    BY <1>5, IdleFacts DEF Lifecycle, StartActivation, Activate, CreateChannel, AttachChannel,
       ReadEntries, AddMember, StartCompletion, SelectOpen, CancelQueued, ReadBoard, WriteRank,
       SetCompleted, ArchiveChannel
  <2>2. p.op # "mark"
    BY <1>2, <2>1
  <2> QED BY <1>5, <2>2, LifecycleShape
<1>6. ASSUME Filling(b)
      PROVE  Away
  <2>1. p.pc \in {"close", "credit", "open"}
    BY <1>6, Zenon DEF Filling, CloseRow, Credit, OpenPosition
  <2>2. p.op # "mark"
    BY <1>2, <2>1
  <2> QED BY <1>6, <2>2, FillingShape
<1>7. ASSUME Settlement(b)
      PROVE  Away \/ Begun \/ Row \/ Written
  <2>1. ASSUME NEW price \in Prices, StartSettlement(b, price)
        PROVE  Away
    <3> DEFINE x == [Idle EXCEPT !.op = "settle", !.pc = "next", !.price = price,
                       !.todo = {t \in DOMAIN trades : trades[t].status = "queued"}]
    <3>1. x.op = "settle" /\ Set(b, x) /\ p = Idle
      BY <2>1 DEF StartSettlement, MayStart, Idle
    <3> HIDE DEF x
    <3> QED BY <3>1, SetFacts, IdleFacts
  <2>2. ASSUME NextTrade(b)
        PROVE  Away
    <3> DEFINE x == [p EXCEPT !.op = "mark", !.pc = "positions"]
    <3>1. /\ p.pc = "next"
          /\ (p.todo = {} /\ Set(b, x)) \/ \E t \in p.todo : Set(b, Taken(p, t))
      BY <2>2 DEF NextTrade
    <3>2. x.todo = p.todo
      BY <1>1 DEF Actor
    <3>3. p.op = "settle"
      BY <1>1, <3>1, StepOps
    <3> HIDE DEF x
    <3>4. actor'[b].op # "mark" \/ actor'[b].todo = {}
      BY <1>1, <3>1, <3>2, <3>3, OpsKept, SetFacts
    <3> QED BY <3>3, <3>4
  <2>3. ASSUME SelectOpposite(b)
        PROVE  Away
    <3> DEFINE ids == {i \in OpenOf(p.portfolio) :
                         positions[i].direction = Opposite(p.direction)}
               x == [p EXCEPT !.selected = Select(ids)]
    <3>1. Set(b, Continue(x)) /\ p.pc = "opposite" /\ ids \subseteq OpenPositions
      BY <2>3 DEF SelectOpposite, OpenOf
    <3> HIDE DEF ids
    <3>2. p.op = "settle"
      BY <1>1, <3>1, StepOps
    <3>3. Select(ids) \in SUBSET Selected
      BY <3>1, SelectFacts DEF TypeInv
    <3>4. x \in Actor /\ x.op = "settle"
      BY <1>1, <3>2, <3>3 DEF Actor
    <3> HIDE DEF x
    <3> QED BY <3>1, <3>2, <3>4, OpsKept, SetFacts
  <2>4. ASSUME MarkExecuted(b)
        PROVE  Away
    <3>1. Set(b, TradeOver(p)) /\ p.pc = "executed"
      BY <2>4 DEF MarkExecuted
    <3>2. p.op = "settle"
      BY <1>1, <3>1, StepOps
    <3> QED BY <1>1, <3>1, <3>2, OpsKept, SetFacts
  <2>5. ASSUME SelectMarks(b)
        PROVE  Begun
    BY <2>5 DEF SelectMarks
  <2>6. ASSUME NEW r \in p.selected, MarkPosition(b, r)
        PROVE  Row
    <3>1. p.pc = "mark" /\ Set(b, NextMark(p, r))
      BY <2>6, Zenon DEF MarkPosition
    <3>2. actor'[b] = NextMark(p, r)
      BY <3>1, SetFacts
    <3> QED BY <2>6, <3>1, <3>2
  <2>7. ASSUME NEW q \in p.todo, WriteTotal(b, q)
        PROVE  Written
    <3>1. p.pc = "total" /\ Set(b, NextTotal(p, q))
      BY <2>7 DEF WriteTotal
    <3>2. actor'[b] = NextTotal(p, q)
      BY <3>1, SetFacts
    <3> QED BY <2>7, <3>1, <3>2
  <2> HIDE DEF Away, Begun, Row, Written
  <2> QED BY <1>7, <2>1, <2>2, <2>3, <2>4, <2>5, <2>6, <2>7 DEF Settlement
<1>8. ASSUME Failing(b)
      PROVE  Away \/ Begun \/ Row \/ Written
  <2>1. CASE p.op # "mark"
    <3>1. actor'[b].op # "mark"
      BY <1>8, <2>1, FailingShape
    <3> QED BY <2>1, <3>1
  <2>2. ASSUME p.op = "mark"
        PROVE  Begun \/ Row \/ Written
    <3>1. p.pc \in {"positions", "mark", "total"}
      BY <1>2, <2>2
    <3>2. ASSUME StatementThrows(b)
          PROVE  Begun
      <4>1. p.pc = "positions" /\ Set(b, Idle)
        BY <2>2, <3>1, <3>2 DEF StatementThrows
      <4> QED BY <4>1, SetFacts
    <3>3. ~StatementIgnored(b)
      BY <3>1 DEF StatementIgnored
    <3>4. ASSUME NEW r \in p.selected, RowIgnored(b, r)
          PROVE  Row
      <4>1. p.pc = "mark" /\ Set(b, NextMark(p, r))
        BY <3>1, <3>4, Zenon DEF RowIgnored
      <4>2. actor'[b] = NextMark(p, r)
        BY <4>1, SetFacts
      <4> QED BY <3>4, <4>1, <4>2
    <3>5. ASSUME NEW q \in p.todo, TotalIgnored(b, q)
          PROVE  Written
      <4>1. p.pc = "total" /\ Set(b, NextTotal(p, q))
        BY <3>5 DEF TotalIgnored
      <4>2. actor'[b] = NextTotal(p, q)
        BY <4>1, SetFacts
      <4> QED BY <3>5, <4>1, <4>2
    <3>6. ASSUME NEW u \in p.todo, RankIgnored(b, u)
          PROVE  FALSE
      BY <3>1, <3>6 DEF RankIgnored
    <3> HIDE DEF Begun, Row, Written
    <3> QED BY <1>8, <3>2, <3>3, <3>4, <3>5, <3>6 DEF Failing
  <2> HIDE DEF Away, Begun, Row, Written
  <2> QED BY <2>1, <2>2 DEF Away
<1>9. archiveTournament \/ Tick \/ UNCHANGED vars => actor' = actor
  BY DEF archiveTournament, Tick, vars
<1> HIDE DEF Away, Begun, Row, Written
<1>10. actor'[b] = actor[b] \/ Away \/ Begun \/ Row \/ Written \/ Crash
  BY <1>3, <1>4, <1>5, <1>6, <1>7, <1>8, <1>9 DEF Next, Actors
<1> QED BY <1>10 DEF Away, Begun, Row, Written

LEMMA RowsAgreeStep ==
  ASSUME TypeInv, RowsAgree, [Next]_vars
  PROVE  RowsAgree'
<1>1. ASSUME NEW b \in Actors, NEW r \in actor'[b].selected
      PROVE  /\ r.row.portfolio = positions'[r.id].portfolio
             /\ r.row.direction = positions'[r.id].direction
             /\ r.row.entry = positions'[r.id].entry
  <2>1. CASE actor'[b].selected \subseteq actor[b].selected
    <3>1. r \in actor[b].selected
      BY <1>1, <2>1
    <3>2. r.id \in DOMAIN positions
      BY <3>1, RunFacts, RowFacts
    <3>3. /\ r.row.portfolio = positions[r.id].portfolio
          /\ r.row.direction = positions[r.id].direction
          /\ r.row.entry = positions[r.id].entry
      BY <3>1 DEF RowsAgree
    <3> QED BY <3>2, <3>3, PositionsKept DEF KeptPositions
  <2>2. CASE /\ positions' = positions
             /\ \A s \in actor'[b].selected : s.id \in DOMAIN positions /\ s.row = positions[s.id]
    BY <1>1, <2>2
  <2> QED BY <2>1, <2>2, Selectors
<1> QED BY <1>1 DEF RowsAgree

LEMMA OffsStep ==
  ASSUME TypeInv, TypeInv', Offs, [Next]_vars
  PROVE  Offs'
<1> SUFFICES ASSUME NEW b \in Actors
             PROVE  /\ actor'[b].op = "settle" => actor'[b].off = actor'[b].share
                    /\ actor'[b].op = "close" => actor'[b].off = 0
                    /\ actor'[b].pc = "positions" => actor'[b].todo = {}
  BY DEF Offs
<1> DEFINE p == actor[b]
           Kept2 == /\ actor'[b].op = "settle" => actor'[b].off = actor'[b].share
                    /\ actor'[b].op = "close" => actor'[b].off = 0
<1>1. /\ p.op = "settle" => p.off = p.share
      /\ p.op = "close" => p.off = 0
      /\ p.pc = "positions" => p.todo = {}
      /\ p \in Actor
  BY RunFacts DEF Offs
<1>2. actor'[b].pc # "credit" => NothingToBook(actor'[b])
  <2>1. Legal(actor'[b], DOMAIN portfolios', DOMAIN positions', DOMAIN trades',
              DOMAIN channels')
    BY DEF TypeInv, RunsLegal
  <2> QED BY <2>1 DEF Legal, AtStep
<1>3. ASSUME NEW r \in p.selected, actor'[b] = Booking(p, r)
      PROVE  Kept2
  BY <1>1, <1>3, BookingFields
<1>4. Kept2
  <2>1. ASSUME NEW r \in p.selected, CloseRow(b, r)
        PROVE  Kept2
    <3>1. Set(b, Booking(p, r))
      BY <2>1, Zenon DEF CloseRow
    <3> QED BY <1>3, <3>1, SetFacts
  <2>2. ASSUME Credit(b)
        PROVE  Kept2
    <3>1. Set(b, Continue(NextRow(p)))
      BY <2>2, Zenon DEF Credit
    <3>2. actor'[b].pc # "credit"
      BY <1>1, <3>1, NextRowType, NotToCredit, SetFacts
    <3> QED BY <1>2, <3>2 DEF NothingToBook
  <2>3. ASSUME Failing(b)
        PROVE  Kept2
    <3>1. CASE actor'[b].pc # "credit"
      BY <1>2, <3>1 DEF NothingToBook
    <3>2. ASSUME actor'[b].pc = "credit"
          PROVE  \E r \in p.selected : actor'[b] = Booking(p, r)
      <4>1. ASSUME StatementThrows(b)
            PROVE  FALSE
        <5>1. Set(b, TradeOver(p)) \/ Set(b, Idle)
          BY <4>1, Zenon DEF StatementThrows
        <5> QED BY <1>1, <3>2, <5>1, NotToCredit, IdleFacts, SetFacts
      <4>2. ASSUME StatementIgnored(b)
            PROVE  FALSE
        <5>1. /\ Set(b, Ignored(p))
              /\ p.pc \in {"cleanup", "charge", "executed", "activate", "attach", "cancel",
                           "completed", "archive", "credit"}
          BY <4>2 DEF StatementIgnored
        <5>2. Ignored(p).pc # "credit"
          <6>1. \A pc : [p EXCEPT !.pc = pc].pc = pc
            BY <1>1 DEF Actor
          <6> QED BY <1>1, <5>1, <6>1, NextRowType, NotToCredit, IdleFacts DEF Ignored
        <5> QED BY <3>2, <5>1, <5>2, SetFacts
      <4>3. ASSUME NEW r \in p.selected, RowIgnored(b, r)
            PROVE  \E s \in p.selected : actor'[b] = Booking(p, s)
        <5>1. Set(b, NextMark(p, r)) \/ Set(b, Booking(p, r))
          BY <4>3 DEF RowIgnored
        <5> QED BY <1>1, <3>2, <5>1, NotToCredit, SetFacts
      <4>4. ASSUME NEW q, TotalIgnored(b, q)
            PROVE  FALSE
        <5>1. p.pc = "total" /\ Set(b, NextTotal(p, q))
          BY <4>4 DEF TotalIgnored
        <5> QED BY <1>1, <3>2, <5>1, NotToCredit, SetFacts
      <4>5. ASSUME NEW u, RankIgnored(b, u)
            PROVE  FALSE
        <5>1. Set(b, NextRank(p, p.todo \ {u}))
          BY <4>5 DEF RankIgnored
        <5> QED BY <1>1, <3>2, <5>1, NotToCredit, SetFacts
      <4> QED BY <2>3, <4>1, <4>2, <4>3, <4>4, <4>5 DEF Failing
    <3> HIDE DEF Kept2
    <3> QED BY <1>3, <3>1, <3>2
  <2>4. ASSUME Crash
        PROVE  Kept2
    <3>1. actor'[b] = Idle
      BY <2>4, Zenon DEF Crash
    <3> QED BY <3>1, IdleFacts
  <2>5. actor'[b] = p => Kept2
    BY <1>1
  <2>6. NothingToBook(actor'[b]) => Kept2
    BY DEF NothingToBook
  <2> HIDE DEF Kept2
  <2> QED BY <2>1, <2>2, <2>3, <2>4, <2>5, <2>6, Bookers
<1>5. actor'[b].pc = "positions" => actor'[b].todo = {}
  <2>1. actor'[b].pc = "positions" => actor'[b].op = "mark"
    <3>1. /\ actor'[b] \in Actor
          /\ Legal(actor'[b], DOMAIN portfolios', DOMAIN positions', DOMAIN trades',
                   DOMAIN channels')
      BY DEF TypeInv, RunsLegal
    <3> QED BY <3>1, StepOps
  <2>2. CASE actor'[b] = p
    BY <1>1, <2>2
  <2>3. CASE SelectMarks(b)
    <3>1. PICK s, o, f : Set(b, Idle)
            \/ Set(b, [p EXCEPT !.pc = "mark", !.selected = s, !.todo = o, !.totals = f])
      BY <2>3, Zenon DEF SelectMarks
    <3>2. [p EXCEPT !.pc = "mark", !.selected = s, !.todo = o, !.totals = f].pc = "mark"
      BY <1>1 DEF Actor
    <3> QED BY <3>1, <3>2, IdleFacts, SetFacts
  <2>4. ASSUME NEW r, actor'[b] = NextMark(p, r)
        PROVE  actor'[b].pc # "positions"
    BY <1>1, <2>4 DEF NextMark, Actor
  <2>5. ASSUME NEW q, p.pc = "total", actor'[b] = NextTotal(p, q)
        PROVE  actor'[b].pc # "positions"
    <3>1. [p EXCEPT !.todo = @ \ {q}].pc = "total"
      BY <1>1, <2>5 DEF Actor
    <3> QED BY <2>5, <3>1, IdleFacts DEF NextTotal
  <2>6. Crash => actor'[b] = Idle
    BY Zenon DEF Crash
  <2> QED BY <2>1, <2>2, <2>3, <2>4, <2>5, <2>6, Markers, IdleFacts
<1> QED BY <1>4, <1>5

-----------------------------------------------------------------------------
(* The history of the markings *)

(* Only a total that is written anew makes up for what went apart before. *)
LEMMA MarkedKept ==
  ASSUME TypeInv, [Next]_vars, NEW q \in DOMAIN portfolios
  PROVE  \/ /\ account[q].marked \subseteq account'[q].marked
            /\ "clamped" \in account'[q].marked =>
                 \/ "clamped" \in account[q].marked
                 \/ \E a \in Actors : /\ Credit(a) /\ actor[a].op = "complete"
                                      /\ actor[a].portfolio = q
         \/ \E a \in Actors : q \in actor[a].todo /\ WriteTotal(a, q)
<1> DEFINE More == /\ account[q].marked \subseteq account'[q].marked
                   /\ "clamped" \in account'[q].marked =>
                        \/ "clamped" \in account[q].marked
                        \/ \E a \in Actors : /\ Credit(a) /\ actor[a].op = "complete"
                                             /\ actor[a].portfolio = q
           Anew == \E a \in Actors : q \in actor[a].todo /\ WriteTotal(a, q)
<1>1. ASSUME account' = account \/ account'[q] = account[q]
      PROVE  More
  BY <1>1
<1>2. ASSUME NEW p \in DOMAIN portfolios, NEW b, NEW m, Blur(p, b, m),
             "clamped" \notin m, portfolios' = portfolios
      PROVE  More
  <2>1. /\ account'[p].marked = account[p].marked \cup m
        /\ \A s \in DOMAIN portfolios \ {p} : account'[s] = account[s]
    BY <1>2, BlurKeeps
  <2>2. CASE q = p
    BY <1>2, <2>1, <2>2
  <2>3. CASE q # p
    <3>1. account'[q] = account[q]
      BY <2>1, <2>3
    <3> QED BY <3>1
  <2> QED BY <2>2, <2>3
<1>3. ASSUME NEW a \in Actors, Request(a)
      PROVE  More
  <2>1. CASE CreatePortfolio(a)
    BY <1>1, <2>1, InsertedRows, Zenon
  <2>2. CASE Enqueue(a)
    <3>1. account' = account \/ Blur(actor[a].portfolio, {"late"}, {})
      BY <2>2 DEF Enqueue
    <3>2. portfolios' = portfolios /\ actor[a].portfolio \in DOMAIN portfolios
      BY <2>2, EnqueuedRows DEF Enqueue
    <3> HIDE DEF More
    <3> QED BY <1>1, <1>2, <3>1, <3>2
  <2>3. CASE Charge(a)
    <3> DEFINE p == actor[a].portfolio
    <3>1. /\ account'[p].marked = account[p].marked
          /\ \A b \in DOMAIN portfolios \ {p} : account'[b] = account[b]
      BY <2>3, ChargedRows
    <3> QED BY <3>1
  <2>4. CASE Trading(a)
    <3>1. PICK p \in DOMAIN portfolios : \E b : account' = [account EXCEPT ![p].booked = b]
      <4>1. PICK u \in Users, call \in Calls \ {"close"}, direction \in Directions,
                 quantity \in Quantities, price \in Prices :
                   StartTrade(a, u, call, direction, quantity, price)
        BY <2>4 DEF Trading
      <4>2. PICK p \in DOMAIN portfolios :
              account' = [account EXCEPT ![p].booked =
                        IF \A b \in Actors : ~Entering(b, p) THEN @ ELSE @ \cup {"late"}]
        BY <4>1 DEF StartTrade
      <4> DEFINE late == IF \A b \in Actors : ~Entering(b, p) THEN account[p].booked
                         ELSE account[p].booked \cup {"late"}
      <4>3. account' = [account EXCEPT ![p].booked = late]
        BY <4>2
      <4> QED BY <4>3
    <3>2. PICK b : account' = [account EXCEPT ![p].booked = b]
      BY <3>1
    <3>3. DOMAIN account = DOMAIN portfolios /\ account[q] \in Account
      BY Lengths DEF TypeInv
    <3>4. account'[q].marked = account[q].marked
      BY <3>2, <3>3 DEF Account
    <3> QED BY <3>4
  <2>5. CASE \/ \E u \in Users : enterTournament(a, u)
             \/ CreateEntry(a) \/ DeletePortfolio(a)
             \/ \E i \in DOMAIN positions : closePosition(a, i)
    <3>1. account' = account
      BY <2>5, Zenon DEF enterTournament, CreateEntry, DeletePortfolio, closePosition
    <3> HIDE DEF More
    <3> QED BY <1>1, <3>1
  <2> HIDE DEF More
  <2> QED BY <1>3, <2>1, <2>2, <2>3, <2>4, <2>5 DEF Request, Trading
<1>4. ASSUME NEW a \in Actors, Settlement(a)
      PROVE  More \/ Anew
  <2>1. ASSUME NEW r \in actor[a].selected, MarkPosition(a, r)
        PROVE  More
    <3>1. \E m : Blur(r.row.portfolio, {}, m) /\ "clamped" \notin m
      <4> DEFINE stale == \/ r.row.quantity # positions[r.id].quantity
                          \/ r.row.status # positions[r.id].status
                          \/ \E b \in Actors \ {a} : Marking(b, r.row.portfolio)
                 m == {cause \in {"stale row", "late"} :
                         IF cause = "late" THEN Finalizing(a) ELSE stale}
      <4>1. Blur(r.row.portfolio, {}, m)
        BY <2>1, Zenon DEF MarkPosition
      <4>2. "clamped" \notin m
        OBVIOUS
      <4> HIDE DEF m
      <4> QED BY <4>1, <4>2
    <3>2. portfolios' = portfolios /\ r.row.portfolio \in DOMAIN portfolios
      BY <2>1, RunFacts, RowFacts, Zenon DEF MarkPosition
    <3> HIDE DEF More
    <3> QED BY <1>2, <3>1, <3>2
  <2>2. ASSUME NEW p \in actor[a].todo, WriteTotal(a, p)
        PROVE  More \/ Anew
    <3>1. CASE p = q
      BY <2>2, <3>1
    <3>2. CASE p # q
      <4>1. \A b \in DOMAIN portfolios \ {p} : account'[b] = account[b]
        BY <2>2, TotalledRows, ZenonT(40)
      <4> QED BY <3>2, <4>1
    <3> QED BY <3>1, <3>2
  <2>3. CASE \/ \E price \in Prices : StartSettlement(a, price)
             \/ NextTrade(a) \/ SelectOpposite(a) \/ MarkExecuted(a) \/ SelectMarks(a)
    <3>1. account' = account
      BY <2>3, Zenon DEF StartSettlement, NextTrade, SelectOpposite, MarkExecuted, SelectMarks
    <3> HIDE DEF More
    <3> QED BY <1>1, <3>1
  <2> HIDE DEF More, Anew
  <2> QED BY <1>4, <2>1, <2>2, <2>3 DEF Settlement
<1>5. ASSUME NEW a \in Actors, Lifecycle(a)
      PROVE  account' = account
  BY <1>5 DEF Lifecycle, StartActivation, Activate, CreateChannel, AttachChannel, ReadEntries,
              AddMember, StartCompletion, SelectOpen, CancelQueued, ReadBoard, WriteRank,
              SetCompleted, ArchiveChannel
<1>6. ASSUME NEW a \in Actors, Filling(a)
      PROVE  More
  <2>0. DOMAIN account = DOMAIN portfolios
    BY Lengths DEF TypeInv
  <2>1. CASE Credit(a)
    <3> DEFINE p == actor[a].portfolio
    <3>1. /\ p \in DOMAIN portfolios /\ account' = [account EXCEPT ![p] = account'[p]]
          /\ account'[p].marked = account[p].marked \cup
               IF actor[a].op = "complete"
               THEN IF portfolios'[p].unrealized = portfolios[p].unrealized - actor[a].share
                    THEN {} ELSE {"clamped"}
               ELSE IF "clamped" \in account[p].marked THEN {"late"} ELSE {}
      BY <2>1, CreditedRows
    <3>2. /\ account[p].marked \subseteq account'[p].marked
          /\ "clamped" \in account'[p].marked =>
               "clamped" \in account[p].marked \/ actor[a].op = "complete"
      <4> HIDE DEF p
      <4> QED BY <3>1
    <3>3. CASE q = p
      BY <2>1, <3>2, <3>3
    <3>4. CASE q # p
      <4> HIDE DEF p
      <4>1. account'[q] = account[q]
        BY <2>0, <3>1, <3>4
      <4> QED BY <4>1
    <3> QED BY <3>3, <3>4
  <2>2. ASSUME NEW r \in actor[a].selected, CloseRow(a, r)
        PROVE  More
    <3> DEFINE p == r.row.portfolio
    <3>1. /\ p \in DOMAIN portfolios /\ account' = [account EXCEPT ![p] = account'[p]]
          /\ account[p].marked \subseteq account'[p].marked
          /\ account'[p].marked \subseteq account[p].marked \cup
               {"stale row", "closed by hand", "partly closed"}
      BY <2>2, ClosedAccount, Zenon
    <3> HIDE DEF p
    <3>2. CASE q = p
      BY <3>1, <3>2, Zenon
    <3>3. CASE q # p
      <4>1. account'[q] = account[q]
        BY <2>0, <3>1, <3>3
      <4> QED BY <4>1
    <3> QED BY <3>2, <3>3
  <2>3. CASE OpenPosition(a)
    <3>1. account' = account \/ Blur(actor[a].portfolio, {"late"}, {})
      BY <2>3 DEF OpenPosition
    <3>2. portfolios' = portfolios /\ actor[a].portfolio \in DOMAIN portfolios
      BY <2>3, OpenedRows, Zenon DEF OpenPosition
    <3> HIDE DEF More
    <3> QED BY <1>1, <1>2, <3>1, <3>2
  <2> HIDE DEF More
  <2> QED BY <1>6, <2>1, <2>2, <2>3 DEF Filling
<1>7. (\E a \in Actors : Failing(a)) \/ Crash => More
  BY FailedBooks, CrashBooks
<1>8. archiveTournament \/ Tick \/ UNCHANGED vars => account' = account
  BY DEF archiveTournament, Tick, vars
<1> HIDE DEF More, Anew
<1>9. More \/ Anew
  BY <1>1, <1>3, <1>4, <1>5, <1>6, <1>7, <1>8 DEF Next, Actors
<1> QED BY <1>9 DEF More, Anew

(* What stays of what went apart, whoever writes totals. *)
LEMMA StillMarked ==
  ASSUME TypeInv, [Next]_vars, NEW q \in DOMAIN portfolios
  PROVE  account[q].marked \ Mended \subseteq account'[q].marked
<1>1. CASE account[q].marked \subseteq account'[q].marked
  BY <1>1
<1>2. ASSUME NEW a \in Actors, q \in actor[a].todo, WriteTotal(a, q)
      PROVE  account[q].marked \ Mended \subseteq account'[q].marked
  <2>1. account'[q].marked = (account[q].marked \ Mended) \cup
                               IF Booked(q) = {} THEN {} ELSE {"stale row"}
    BY <1>2, TotalledRows, ZenonT(40)
  <2> QED BY <2>1
<1> QED BY <1>1, <1>2, MarkedKept

(* A position that had changed, or is marked by another run, is told. *)
LEMMA MarkedStale ==
  ASSUME TypeInv, NEW a \in Actors, NEW r \in actor[a].selected, MarkPosition(a, r),
         "stale row" \notin account'[r.row.portfolio].marked
  PROVE  /\ r.row.quantity = positions[r.id].quantity
         /\ r.row.status = positions[r.id].status
         /\ \A b \in Actors \ {a} : ~Marking(b, r.row.portfolio)
<1> DEFINE q == r.row.portfolio
           stale == \/ r.row.quantity # positions[r.id].quantity
                    \/ r.row.status # positions[r.id].status
                    \/ \E b \in Actors \ {a} : Marking(b, q)
           m == {cause \in {"stale row", "late"} :
                       IF cause = "late" THEN Finalizing(a) ELSE stale}
<1>1. Blur(q, {}, m) /\ portfolios' = portfolios
  BY Zenon DEF MarkPosition
<1>2. stale => "stale row" \in m
  <2> HIDE DEF stale
  <2> QED OBVIOUS
<1>3. q \in DOMAIN portfolios
  BY RunFacts, RowFacts, Zenon
<1> HIDE DEF m
<1>4. account'[q].marked = account[q].marked \cup m
  <2> HIDE DEF q
  <2> QED BY <1>1, <1>3, BlurKeeps
<1>5. ~stale
  <2> HIDE DEF stale
  <2> QED BY <1>2, <1>4
<1> QED BY <1>5

(* A row that is not marked, and a total that is not written, are told. *)
LEMMA MarkingLost ==
  ASSUME TypeInv, NEW a \in Actors, NEW q \in DOMAIN portfolios,
         \/ TotalIgnored(a, q)
         \/ \E r \in actor[a].selected :
              RowIgnored(a, r) /\ actor[a].pc = "mark" /\ r.row.portfolio = q
  PROVE  "lost update" \in account'[q].marked
<1>1. PICK b : Lose({q}, b, {"lost update"})
  BY Zenon DEF TotalIgnored, RowIgnored
<1>2. q \in DOMAIN account /\ account[q] \in Account
  BY Lengths DEF TypeInv
<1>3. account'[q] = [account[q] EXCEPT !.booked = @ \cup b, !.marked = @ \cup {"lost update"}]
  BY <1>1, <1>2, Zenon DEF Lose
<1> QED BY <1>2, <1>3 DEF Account

(* The marking of a portfolio ends with its total. *)
LEMMA MarkingEnds ==
  ASSUME TypeInv, Offs, [Next]_vars, NEW b \in Actors, NEW q \in DOMAIN portfolios,
         Marking(b, q), ~(actor'[b].op = "mark" /\ q \in actor'[b].todo),
         "lost update" \notin account'[q].marked
  PROVE  WriteTotal(b, q)
<1> DEFINE p == actor[b]
<1>1. p \in Actor /\ p.op = "mark" /\ q \in p.todo
  BY RunFacts DEF Marking
<1>2. actor'[b] # p
  BY <1>1
<1>3. p.pc # "positions"
  BY <1>1 DEF Offs
<1>4. ASSUME NEW r, actor'[b] = NextMark(p, r)
      PROVE  FALSE
  <2>1. NextMark(p, r).op = p.op /\ NextMark(p, r).todo = p.todo
    BY <1>1 DEF NextMark, Actor
  <2> QED BY <1>1, <1>4, <2>1
<1>5. ASSUME NEW s \in p.todo, actor'[b] = NextTotal(p, s), s # q
      PROVE  FALSE
  <2>1. /\ [p EXCEPT !.todo = @ \ {s}].op = p.op
        /\ [p EXCEPT !.todo = @ \ {s}].todo = p.todo \ {s}
    BY <1>1 DEF Actor
  <2>2. NextTotal(p, s) = [p EXCEPT !.todo = @ \ {s}]
    BY <1>1, <1>5 DEF NextTotal
  <2> QED BY <1>1, <1>5, <2>1, <2>2
<1>6. ~Crash
  BY CrashBooks
<1>7. ~TotalIgnored(b, q)
  BY MarkingLost
<1> QED BY <1>1, <1>2, <1>3, <1>4, <1>5, <1>6, <1>7, Markers, Zenon

-----------------------------------------------------------------------------
(* The totals that are being added up *)

(* Unless something has gone apart, the total a run has yet to write is what
   the positions will have gained once it has marked those on its list.   *)
MarksFollow == \A a \in Actors : \A q \in DOMAIN portfolios :
  Marking(a, q) /\ account[q].marked \subseteq Mended =>
    actor[a].totals[q] = Sum(Worths(q, actor[a]))

(* Rows of other portfolios are closed and marked. *)
LEMMA WorthsKept ==
  ASSUME TypeInv, TypeInv', RowsAgree, [Next]_vars, NEW q, NEW p, p.price \in Int,
         \A r \in p.selected : r.id \in DOMAIN positions,
         \A b \in Actors : \A r \in actor[b].selected :
           CloseRow(b, r) \/ MarkPosition(b, r) => r.row.portfolio # q
  PROVE  Sum(WorthsAfter(q, p)) = Sum(Worths(q, p))
<1>1. CASE positions' = positions
  BY <1>1, SameWorths
<1>2. CASE \E b \in Actors : OpenPosition(b)
  BY <1>2, WorthOpened
<1>3. ASSUME NEW b \in Actors, NEW r \in actor[b].selected, CloseRow(b, r) \/ MarkPosition(b, r)
      PROVE  Sum(WorthsAfter(q, p)) = Sum(Worths(q, p))
  <2> DEFINE i == r.id
             x == positions'[i]
  <2>1. /\ i \in DOMAIN positions
        /\ positions' = [positions EXCEPT ![i] = x] /\ x.portfolio = positions[i].portfolio
    BY <1>3, ClosedPosition, MarkedPosition, RunFacts, RowFacts
  <2>2. positions[i].portfolio # q
    BY <1>3 DEF RowsAgree
  <2> HIDE DEF i, x
  <2>3. /\ DOMAIN positions' = DOMAIN positions
        /\ \A j \in DOMAIN positions \ {i} : positions'[j] = positions[j]
    BY <2>1
  <2>4. positions'[i].portfolio # q
    BY <2>1, <2>2 DEF x
  <2> QED BY <2>1, <2>2, <2>3, <2>4, WorthElsewhere
<1> QED BY <1>1, <1>2, <1>3, WhichStep

(* What a run has listed and its price are all that counts of it. *)
LEMMA SameList ==
  ASSUME NEW q, NEW p, NEW s, p.price = s.price, \A i : Listed(p, i) <=> Listed(s, i)
  PROVE  Worths(q, p) = Worths(q, s) /\ WorthsAfter(q, p) = WorthsAfter(q, s)
<1>1. \A x, i : Worth(x, q, p, i) = Worth(x, q, s, i)
  BY DEF Worth
<1> QED BY <1>1 DEF Worths, WorthsAfter

(* The run that has selected the positions. *)
LEMMA MarksSelected ==
  ASSUME TypeInv, NEW a \in Actors, SelectMarks(a), NEW q, q \in actor'[a].todo
  PROVE  actor'[a].totals[q] = Sum(WorthsAfter(q, actor'[a]))
<1> DEFINE p == actor[a]
           owners == {positions[i].portfolio : i \in OpenPositions}
           totals == [s \in DOMAIN p.totals |-> Total(s, p.price)]
           x == [p EXCEPT !.pc = "mark", !.selected = Select(OpenPositions),
                          !.todo = owners, !.totals = totals]
<1>1. p \in Actor
  BY RunFacts
<1>2. (Set(a, Idle) \/ Set(a, x)) /\ positions' = positions
  BY DEF SelectMarks, rows
<1>3. /\ x.selected = Select(OpenPositions) /\ x.todo = owners /\ x.totals = totals
      /\ x.price = p.price
  BY <1>1 DEF Actor
<1> HIDE DEF x
<1>4. actor'[a] = x
  BY <1>2, IdleFacts, SetFacts
<1>5. q \in owners
  BY <1>3, <1>4
<1>6. owners \subseteq DOMAIN portfolios
  BY OpenFacts DEF TypeInv
<1>7. q \in DOMAIN p.totals
  <2>1. DOMAIN p.totals = 1..MaxPortfolios
    <3>1. p.totals \in [1..MaxPortfolios -> Int]
      BY <1>1 DEF Actor
    <3> QED BY <3>1
  <2>2. q \in 1..Len(portfolios) /\ Len(portfolios) <= MaxPortfolios /\ Len(portfolios) \in Nat
    BY <1>5, <1>6, Lengths DEF TypeInv, Tables
  <2> QED BY <2>1, <2>2, Bounds
<1>8. x.totals[q] = Total(q, p.price)
  <2> HIDE DEF p
  <2> QED BY <1>3, <1>7
<1>9. \A i \in OpenPositions : Listed(x, i)
  <2>1. \A i \in OpenPositions : [id |-> i, row |-> positions[i]] \in x.selected
    BY <1>3, SelectFacts DEF TypeInv
  <2> QED BY <2>1 DEF Listed
<1>10. [i \in DOMAIN positions |->
          IF i \in OpenOf(q)
          THEN Gain(positions[i].direction, positions[i].entry, p.price) * positions[i].quantity
          ELSE 0] = WorthsAfter(q, x)
  <2>1. ASSUME NEW i \in DOMAIN positions
        PROVE  (IF i \in OpenOf(q)
                THEN Gain(positions[i].direction, positions[i].entry, p.price)
                       * positions[i].quantity
                ELSE 0) = Worth(positions'[i], q, x, i)
    <3>1. positions'[i] = positions[i]
      BY <1>2
    <3>2. i \in OpenOf(q) <=> positions[i].status = "open" /\ positions[i].portfolio = q
      BY DEF OpenOf, OpenPositions
    <3>3. i \in OpenOf(q) => Listed(x, i)
      BY <1>9 DEF OpenOf
    <3> HIDE DEF p
    <3> QED BY <1>3, <3>1, <3>2, <3>3 DEF Worth
  <2> QED BY <1>2, <2>1 DEF WorthsAfter
<1> QED BY <1>4, <1>8, <1>10 DEF Total

(* A run marks a position, or fails to: what is off its list is marked. *)
LEMMA MarksMade ==
  ASSUME TypeInv, TypeInv', RowsAgree, NEW a \in Actors, NEW r \in actor[a].selected,
         actor[a].pc = "mark", MarkPosition(a, r) \/ RowIgnored(a, r),
         actor'[a] = NextMark(actor[a], r), NEW q \in DOMAIN portfolios,
         account'[q].marked \subseteq Mended
  PROVE  Sum(WorthsAfter(q, actor'[a])) = Sum(Worths(q, actor[a]))
<1> DEFINE p == actor[a]
           x == actor'[a]
           k == r.id
<1>1. p \in Actor
  BY RunFacts
<1>2. x.selected = p.selected \ {r} /\ x.price = p.price
  BY <1>1 DEF NextMark, Actor
<1>3. /\ k \in DOMAIN positions /\ r.row.status = "open"
      /\ \A s \in p.selected : s.id = k => s = r
  BY RunFacts, RowFacts DEF Legal, Keeps, RowsLegal
<1>4. /\ r.row.portfolio = positions[k].portfolio
      /\ r.row.direction = positions[k].direction
      /\ r.row.entry = positions[k].entry
  BY DEF RowsAgree
<1>5. /\ Listed(p, k) /\ ~Listed(x, k)
      /\ \A i : i # k => (Listed(x, i) <=> Listed(p, i))
  <2> HIDE DEF p, x
  <2>1. r \in p.selected
    BY DEF p
  <2> QED BY <1>2, <1>3, <2>1 DEF Listed
<1>6. /\ DOMAIN positions' = DOMAIN positions
      /\ \A i \in DOMAIN positions \ {k} : positions'[i] = positions[i]
      /\ positions'[k].portfolio = positions[k].portfolio
  <2>1. CASE MarkPosition(a, r)
    <3> DEFINE y == positions'[k]
    <3>1. positions' = [positions EXCEPT ![k] = y] /\ y.portfolio = positions[k].portfolio
      BY <2>1, MarkedPosition
    <3> HIDE DEF y, k
    <3>2. /\ DOMAIN positions' = DOMAIN positions
          /\ \A i \in DOMAIN positions \ {k} : positions'[i] = positions[i]
      BY <3>1
    <3> QED BY <3>1, <3>2 DEF y
  <2>2. CASE RowIgnored(a, r)
    <3>1. positions' = positions
      BY <2>2 DEF RowIgnored, rows
    <3> QED BY <3>1
  <2> QED BY <2>1, <2>2
<1>7. Worth(positions'[k], q, x, k) = Worth(positions[k], q, p, k)
  <2>1. CASE r.row.portfolio # q
    BY <1>4, <1>6, <2>1 DEF Worth
  <2>2. CASE r.row.portfolio = q
    <3>1. "lost update" \notin account'[q].marked /\ "stale row" \notin account'[q].marked
      BY Zenon DEF Mended
    <3>2. MarkPosition(a, r)
      BY <2>2, <3>1, MarkingLost, Zenon
    <3>3. r.row.quantity = positions[k].quantity /\ r.row.status = positions[k].status
      BY <2>2, <3>1, <3>2, MarkedStale
    <3>4. /\ positions'[k].status = "open" /\ positions'[k].portfolio = q
          /\ positions'[k].unrealized =
               Gain(r.row.direction, r.row.entry, p.price) * r.row.quantity
      BY <1>3, <1>4, <2>2, <3>2, <3>3, MarkedPosition
    <3> HIDE DEF p, x, k
    <3>5. Worth(positions'[k], q, x, k)
            = Gain(r.row.direction, r.row.entry, p.price) * r.row.quantity
      BY <1>5, <3>4 DEF Worth
    <3>6. Worth(positions[k], q, p, k)
            = Gain(positions[k].direction, positions[k].entry, p.price) * positions[k].quantity
      BY <1>3, <1>4, <1>5, <2>2, <3>3 DEF Worth
    <3> QED BY <1>4, <3>3, <3>5, <3>6
  <2> QED BY <2>1, <2>2
<1>8. WorthsAfter(q, x) = Worths(q, p)
  <2> HIDE DEF p, x, k
  <2>1. ASSUME NEW i \in DOMAIN positions
        PROVE  Worth(positions'[i], q, x, i) = Worth(positions[i], q, p, i)
    <3>1. CASE i = k
      BY <1>7, <3>1
    <3>2. CASE i # k
      BY <1>2, <1>5, <1>6, <3>2 DEF Worth
    <3> QED BY <3>1, <3>2
  <2> QED BY <1>6, <2>1 DEF Worths, WorthsAfter
<1> QED BY <1>8

LEMMA MarksStep ==
  ASSUME TypeInv, TypeInv', RowsAgree, MarksFollow, [Next]_vars, NEW a \in Actors, NEW q,
         actor'[a].op = "mark", q \in actor'[a].todo, account'[q].marked \subseteq Mended
  PROVE  actor'[a].totals[q] = Sum(WorthsAfter(q, actor'[a]))
<1> DEFINE p == actor[a]
           Goal == actor'[a].totals[q] = Sum(WorthsAfter(q, actor'[a]))
<1>1. /\ p \in Actor /\ p.price \in Int
      /\ Legal(p, DOMAIN portfolios, DOMAIN positions, DOMAIN trades, DOMAIN channels)
      /\ \A r \in p.selected : r.id \in DOMAIN positions
  BY RunFacts, RowFacts, Numbers, SMTT(30) DEF Actor
<1>2. ASSUME p.op = "mark", q \in p.todo
      PROVE  q \in DOMAIN portfolios /\ p.totals[q] = Sum(Worths(q, p))
  <2>1. q \in DOMAIN portfolios
    BY <1>1, <1>2 DEF Legal, Keeps, TodoLegal
  <2>2. account[q].marked \subseteq Mended
    BY <2>1, StillMarked
  <2> QED BY <1>2, <2>1, <2>2 DEF MarksFollow, Marking
<1>3. ASSUME actor'[a] = p
      PROVE  Goal
  <2>1. q \in DOMAIN portfolios /\ p.totals[q] = Sum(Worths(q, p)) /\ Marking(a, q)
    BY <1>2, <1>3 DEF Marking
  <2>2. "stale row" \notin account'[q].marked
    BY DEF Mended
  <2>3. ASSUME NEW b \in Actors, NEW r \in actor[b].selected, CloseRow(b, r)
        PROVE  r.row.portfolio # q
    <3>1. (\E c \in Actors : Marking(c, r.row.portfolio)) =>
            "stale row" \in account'[r.row.portfolio].marked
      BY <2>3, ClosedAccount, Zenon
    <3> QED BY <2>1, <2>2, <3>1
  <2>4. ASSUME NEW b \in Actors, NEW r \in actor[b].selected, MarkPosition(b, r)
        PROVE  r.row.portfolio # q
    <3>1. CASE b = a
      <4>1. Set(a, NextMark(p, r))
        BY <2>4, <3>1, Zenon DEF MarkPosition
      <4>2. NextMark(p, r).selected = p.selected \ {r}
        BY <1>1 DEF NextMark, Actor
      <4>3. actor'[a].selected = p.selected \ {r}
        BY <4>1, <4>2, SetFacts
      <4> QED BY <1>3, <2>4, <3>1, <4>3
    <3>2. CASE b # a
      BY <2>1, <2>2, <2>4, <3>2, MarkedStale
    <3> QED BY <3>1, <3>2
  <2>5. Sum(WorthsAfter(q, p)) = Sum(Worths(q, p))
    BY <1>1, <2>3, <2>4, WorthsKept
  <2> QED BY <1>3, <2>1, <2>5
<1>4. ASSUME SelectMarks(a)
      PROVE  Goal
  BY <1>4, MarksSelected
<1>5. ASSUME NEW r \in p.selected, MarkPosition(a, r) \/ RowIgnored(a, r), p.pc = "mark",
             actor'[a] = NextMark(p, r)
      PROVE  Goal
  <2>1. /\ NextMark(p, r).op = p.op /\ NextMark(p, r).todo = p.todo
        /\ NextMark(p, r).totals = p.totals
    BY <1>1 DEF NextMark, Actor
  <2>2. q \in DOMAIN portfolios /\ p.totals[q] = Sum(Worths(q, p))
    BY <1>2, <1>5, <2>1
  <2>3. Sum(WorthsAfter(q, actor'[a])) = Sum(Worths(q, p))
    BY <1>5, <2>2, MarksMade
  <2> QED BY <1>5, <2>1, <2>2, <2>3
<1>6. ASSUME NEW s \in p.todo, WriteTotal(a, s) \/ TotalIgnored(a, s), p.pc = "total",
             actor'[a] = NextTotal(p, s)
      PROVE  Goal
  <2> DEFINE x == [p EXCEPT !.todo = @ \ {s}]
  <2>1. /\ x.op = p.op /\ x.todo = p.todo \ {s} /\ x.totals = p.totals /\ x.price = p.price
        /\ x.selected = p.selected
    BY <1>1 DEF Actor
  <2>2. actor'[a] = x
    BY <1>6, IdleFacts DEF NextTotal
  <2> HIDE DEF x
  <2>3. q \in DOMAIN portfolios /\ p.totals[q] = Sum(Worths(q, p))
    BY <1>2, <2>1, <2>2
  <2>4. positions' = positions
    BY <1>6 DEF WriteTotal, TotalIgnored, rows
  <2>5. WorthsAfter(q, x) = WorthsAfter(q, p)
    BY <2>1, SameList DEF Listed
  <2>6. Sum(WorthsAfter(q, p)) = Sum(Worths(q, p))
    BY <2>4, SameWorths
  <2> QED BY <2>1, <2>2, <2>3, <2>5, <2>6
<1>7. Crash => actor'[a] = Idle
  BY Zenon DEF Crash
<1> HIDE DEF Goal
<1>8. Goal
  BY <1>3, <1>4, <1>5, <1>6, <1>7, IdleFacts, Markers
<1> QED BY <1>8 DEF Goal

-----------------------------------------------------------------------------
(* The standings add up *)

(* The share of a row that is closed whole is all it had gained. *)
LEMMA WholeShare ==
  ASSUME NEW u \in Int, NEW n \in Nat, n > 0
  PROVE  (u * n) \div n = u
OBVIOUS

AddsUpAfter(q) ==
  portfolios'[q].unrealized = Sum(WorthsAfter(q, Idle)) + PendingShareAfter(q)

LEMMA FreshStandings ==
  ASSUME TypeInv, TypeInv', [Next]_vars, NEW q \in DOMAIN portfolios', q \notin DOMAIN portfolios
  PROVE  AddsUpAfter(q)
<1>1. PICK a \in Actors : CreatePortfolio(a) /\ q = Len(portfolios) + 1
  BY NewPortfolio
<1>2. /\ portfolios'[q].unrealized = 0
      /\ actor'[a] = [actor[a] EXCEPT !.pc = "entry", !.portfolio = q]
  BY <1>1, InsertedRows, Zenon
<1>3. ASSUME NEW b \in Actors
      PROVE  ShareAfter(q)[b] = 0
  <2>1. CASE b = a
    <3>1. actor'[a].pc = "entry"
      BY <1>2, RunFacts DEF Actor
    <3> QED BY <2>1, <3>1, Sharers
  <2>2. CASE b # a
    <3>1. CreatePortfolio(a) => Request(a)
      BY DEF Request
    <3>2. actor'[b] = actor[b]
      BY <1>1, <2>2, <3>1, RequestShape
    <3>3. actor[b].portfolio \in DOMAIN portfolios \cup {0}
      BY RunFacts DEF Legal, Keeps
    <3>4. q # 0
      BY <1>1, Lengths DEF TypeInv
    <3> QED BY <3>2, <3>3, <3>4 DEF ShareAfter
  <2> QED BY <2>1, <2>2
<1>4. Sum(WorthsAfter(q, Idle)) = 0
  <2>1. positions' = positions
    BY <1>1 DEF CreatePortfolio
  <2>2. \A i \in DOMAIN positions : positions[i].portfolio # q
    BY Ids DEF TypeInv
  <2>3. WorthsAfter(q, Idle) = [i \in DOMAIN positions' |-> 0]
    BY <2>1, <2>2 DEF WorthsAfter, Worth
  <2>4. IsFiniteSet(DOMAIN positions')
    BY WorthTypes, IdleFacts
  <2> QED BY <2>3, <2>4, SumZero
<1> QED BY <1>2, <1>3, <1>4, NoShares DEF AddsUpAfter

(* The marking of a portfolio is through. *)
LEMMA TotalledStandings ==
  ASSUME TypeInv, TypeInv', MarksFollow, NEW a \in Actors, NEW q \in actor[a].todo,
         WriteTotal(a, q), account'[q].marked = {}
  PROVE  AddsUpAfter(q)
<1> DEFINE p == actor[a]
<1>1. /\ q \in DOMAIN portfolios /\ portfolios'[q].unrealized = p.totals[q]
      /\ account'[q].marked = (account[q].marked \ Mended) \cup
                                IF Booked(q) = {} THEN {} ELSE {"stale row"}
      /\ p.pc = "total" /\ p.op = "mark"
  BY TotalledRows
<1>2. account[q].marked \subseteq Mended /\ Booked(q) = {}
  BY <1>1
<1>3. p.totals[q] = Sum(Worths(q, p))
  BY <1>1, <1>2 DEF MarksFollow, Marking
<1>4. positions' = positions /\ Set(a, NextTotal(p, q))
  BY DEF WriteTotal
<1>5. p.selected = {} /\ p \in Actor
  BY <1>1, RunFacts, Zenon DEF Legal, AtStep
<1>6. Sum(Worths(q, p)) = Sum(WorthsAfter(q, Idle))
  <2>1. \A i : ~Listed(p, i) /\ ~Listed(Idle, i)
    BY <1>5, IdleFacts DEF Listed
  <2>2. Worths(q, p) = WorthsAfter(q, Idle)
    BY <1>4, <2>1 DEF Worths, WorthsAfter, Worth
  <2> QED BY <2>2
<1>7. ASSUME NEW b \in Actors
      PROVE  ShareAfter(q)[b] = 0
  <2>1. CASE b = a
    <3>1. NextTotal(p, q).pc # "credit"
      BY <1>1, <1>5, NotToCredit
    <3>2. actor'[a].pc # "credit"
      BY <1>4, <3>1, SetFacts
    <3> QED BY <2>1, <3>2, Sharers
  <2>2. CASE b # a
    <3>1. actor'[b] = actor[b]
      BY <1>4, <2>2, SetFacts
    <3>2. actor[b].pc = "credit" => actor[b].portfolio # q
      BY <1>2 DEF Booked
    <3>3. actor[b].pc # "credit" => ShareAfter(q)[b] = 0
      BY <3>1, Sharers
    <3> QED BY <3>1, <3>2, <3>3 DEF ShareAfter
  <2> QED BY <2>1, <2>2
<1>8. PendingShareAfter(q) = 0
  BY <1>7, NoShares
<1>9. Sum(Worths(q, p)) \in Int
  <2>1. p.price \in Int
    BY <1>5, Numbers DEF Actor
  <2> QED BY <2>1, WorthTypes
<1>10. portfolios'[q].unrealized = Sum(WorthsAfter(q, Idle))
       /\ Sum(WorthsAfter(q, Idle)) \in Int
  BY <1>1, <1>3, <1>6, <1>9, Zenon
<1> QED BY <1>8, <1>10 DEF AddsUpAfter

(* A row is closed, whole or in part. *)
LEMMA ClosedStandings ==
  ASSUME TypeInv, TypeInv', RowsAgree, NEW a \in Actors, NEW r \in actor[a].selected,
         CloseRow(a, r), NEW q \in DOMAIN portfolios, account'[q].marked = {},
         portfolios[q].unrealized = Sum(Worths(q, Idle)) + PendingShare(q)
  PROVE  AddsUpAfter(q)
<1> DEFINE p == actor[a]
           i == r.id
           x == positions'[i]
           y == positions[i]
           n == CloseQuantity(p, r.row)
           u == r.row.unrealized
           share == Booking(p, r).share
<1>1. /\ p \in Actor /\ p.pc = "close"
      /\ Legal(p, DOMAIN portfolios, DOMAIN positions, DOMAIN trades, DOMAIN channels)
  BY RunFacts, Zenon DEF CloseRow
<1>2. /\ i \in DOMAIN positions /\ u \in Int /\ r.row.status = "open"
      /\ r.row.quantity \in Nat /\ r.row.quantity > 0
  BY <1>1, RowFacts
<1>3. /\ positions' = [positions EXCEPT ![i] = x] /\ x.portfolio = y.portfolio
      /\ IF n = r.row.quantity THEN x.status = "closed" /\ x.unrealized = 0
         ELSE x.status = y.status /\ x.unrealized = u - share
  BY ClosedPosition
<1>4. /\ actor'[a] = Booking(p, r) /\ \A b \in Actors \ {a} : actor'[b] = actor[b]
      /\ portfolios' = portfolios
  <2>1. Set(a, Booking(p, r)) /\ portfolios' = portfolios
    BY Zenon DEF CloseRow
  <2> QED BY <2>1, SetFacts
<1>5. /\ Booking(p, r).portfolio = r.row.portfolio /\ Booking(p, r).op = p.op
      /\ share = (u * n) \div r.row.quantity
  BY <1>1, BookingFields
<1>6. share \in Int
  <2>1. actor'[a] \in Actor
    BY DEF TypeInv
  <2> QED BY <1>4, <2>1 DEF Actor
<1>7. DOMAIN positions' = DOMAIN positions
      /\ \A j \in DOMAIN positions \ {i} : positions'[j] = positions[j]
  <2> HIDE DEF i, x
  <2> QED BY <1>3
<1>8. PendingShareAfter(q) = PendingShare(q) + (ShareAfter(q)[a] - ShareOf(q)[a])
  BY <1>4, ShareMoves
<1>9. ShareOf(q)[a] = 0
  BY <1>1, Sharers
<1>10. ShareAfter(q)[a] = IF r.row.portfolio = q /\ p.op # "close" THEN share ELSE 0
  BY <1>4, <1>5 DEF ShareAfter
<1>11. Idle.price \in Int /\ \A j : ~Listed(Idle, j)
  BY IdleFacts DEF Listed
<1>12. Sum(WorthsAfter(q, Idle)) = Sum(Worths(q, Idle))
         + (Worth(x, q, Idle, i) - Worth(y, q, Idle, i))
  BY <1>2, <1>7, <1>11, WorthMoves
<1>13. y.portfolio = r.row.portfolio
  BY DEF RowsAgree
<1>14. Worth(x, q, Idle, i) + ShareAfter(q)[a] = Worth(y, q, Idle, i)
  <2>1. CASE r.row.portfolio # q
    <3>1. Worth(x, q, Idle, i) = 0 /\ Worth(y, q, Idle, i) = 0
      BY <1>3, <1>13, <2>1 DEF Worth
    <3>2. ShareAfter(q)[a] = 0
      BY <1>10, <2>1
    <3> HIDE DEF x, y, i
    <3> QED BY <3>1, <3>2
  <2>2. CASE r.row.portfolio = q
    <3>1. /\ y # r.row => "stale row" \in account'[r.row.portfolio].marked
          /\ p.op = "close" /\ u # 0 => "closed by hand" \in account'[r.row.portfolio].marked
      BY ClosedAccount, Zenon
    <3>2. y = r.row /\ (p.op = "close" => u = 0)
      BY <2>2, <3>1, Zenon
    <3>3. Worth(y, q, Idle, i) = u
      BY <1>2, <1>11, <2>2, <3>2 DEF Worth
    <3>4. CASE n = r.row.quantity
      <4>1. share = u
        <5> HIDE DEF share, u, n
        <5> QED BY <1>2, <1>5, <3>4, WholeShare DEF u
      <4>2. Worth(x, q, Idle, i) = 0
        BY <1>3, <3>4 DEF Worth
      <4> HIDE DEF share, u, x, y
      <4> QED BY <1>2, <1>10, <2>2, <3>2, <3>3, <4>1, <4>2 DEF u
    <3>5. CASE n # r.row.quantity
      <4>1. p.op # "close"
        BY <3>5 DEF CloseQuantity
      <4>2. Worth(x, q, Idle, i) = u - share
        BY <1>2, <1>3, <1>11, <2>2, <3>2, <3>5 DEF Worth
      <4> HIDE DEF share, u, x, y
      <4> QED BY <1>2, <1>6, <1>10, <2>2, <3>3, <4>1, <4>2 DEF u
    <3> QED BY <3>4, <3>5
  <2> QED BY <2>1, <2>2
<1>15. /\ Sum(Worths(q, Idle)) \in Int /\ PendingShare(q) \in Int /\ ShareAfter(q)[a] \in Int
       /\ WorthsAfter(q, Idle) \in [DOMAIN positions' -> Int]
  BY <1>11, WorthTypes, ShareTypes
<1>16. Worth(x, q, Idle, i) \in Int /\ Worth(y, q, Idle, i) \in Int
  <2>1. x \in Position /\ y \in Position
    BY <1>2, ClosedPosition, Lengths DEF TypeInv
  <2> QED BY <1>11, <2>1, WorthType
<1> HIDE DEF x, y, share, u, n, i
<1> QED BY <1>4, <1>8, <1>9, <1>12, <1>14, <1>15, <1>16 DEF AddsUpAfter

(* What was pending is taken off. *)
LEMMA CreditedStandings ==
  ASSUME TypeInv, TypeInv', Offs, NEW a \in Actors, Credit(a), NEW q \in DOMAIN portfolios,
         account'[q].marked = {},
         portfolios[q].unrealized = Sum(Worths(q, Idle)) + PendingShare(q)
  PROVE  AddsUpAfter(q)
<1> DEFINE p == actor[a]
           s == p.portfolio
           x == portfolios'[s]
<1>1. /\ p \in Actor /\ p.op \in {"close", "settle", "complete"}
      /\ Set(a, Continue(NextRow(p))) /\ positions' = positions
  <2>1. p.pc = "credit" /\ Set(a, Continue(NextRow(p))) /\ positions' = positions
    BY Zenon DEF Credit
  <2> QED BY <2>1, RunFacts, StepOps
<1>2. actor'[a].pc # "credit" /\ \A b \in Actors \ {a} : actor'[b] = actor[b]
  BY <1>1, NextRowType, NotToCredit, SetFacts
<1>3. /\ PendingShareAfter(q) = PendingShare(q) + (ShareAfter(q)[a] - ShareOf(q)[a])
      /\ ShareAfter(q)[a] = 0
  BY <1>2, ShareMoves, Sharers
<1>4. ShareOf(q)[a] = IF s = q /\ p.op # "close" THEN p.share ELSE 0
  BY DEF ShareOf
<1>5. /\ p.op = "settle" => p.off = p.share
      /\ p.op = "close" => p.off = 0
      /\ p.share \in Int
  BY <1>1 DEF Offs, Actor
<1>6. /\ s \in DOMAIN portfolios /\ portfolios' = [portfolios EXCEPT ![s] = x]
      /\ p.op # "complete" => x.unrealized = portfolios[s].unrealized - p.off
      /\ account'[s].marked = account[s].marked \cup
                 IF p.op = "complete"
                 THEN IF x.unrealized = portfolios[s].unrealized - p.share
                      THEN {} ELSE {"clamped"}
                 ELSE IF "clamped" \in account[s].marked THEN {"late"} ELSE {}
  BY CreditedRows
<1>7. Sum(WorthsAfter(q, Idle)) = Sum(Worths(q, Idle))
  BY <1>1, SameWorths
<1>8. /\ Sum(Worths(q, Idle)) \in Int /\ PendingShare(q) \in Int
      /\ portfolios[q].unrealized \in Int
  BY WorthTypes, ShareTypes, IdleFacts, AccountFields DEF TypeInv
<1>9. portfolios'[q].unrealized = portfolios[q].unrealized - ShareOf(q)[a]
  <2>1. CASE s = q
    <3>1. p.op = "complete" => x.unrealized = portfolios[s].unrealized - p.share
      BY <1>6, <2>1
    <3> HIDE DEF s, x, p
    <3>2. x.unrealized = portfolios[q].unrealized
                           - (IF p.op # "close" THEN p.share ELSE 0)
      BY <1>1, <1>5, <1>6, <1>8, <2>1, <3>1
    <3> QED BY <1>4, <2>1, <3>2 DEF x
  <2>2. CASE s # q
    <3> HIDE DEF s, x, p
    <3> QED BY <1>4, <1>6, <1>8, <2>2
  <2> QED BY <2>1, <2>2
<1>10. ShareOf(q)[a] \in Int
  BY ShareTypes
<1> QED BY <1>3, <1>7, <1>8, <1>9, <1>10 DEF AddsUpAfter

LEMMA StandingsStep ==
  ASSUME TypeInv, TypeInv', RowsAgree, Offs, MarksFollow, StandingsAddUp, [Next]_vars,
         NEW q \in DOMAIN portfolios', account'[q].marked = {},
         \A a \in Actors : ~(actor'[a].op = "mark" /\ q \in actor'[a].todo)
  PROVE  AddsUpAfter(q)
<1>0. CASE q \notin DOMAIN portfolios
  BY <1>0, FreshStandings
<1>1. ASSUME q \in DOMAIN portfolios, NEW a \in Actors, q \in actor[a].todo, WriteTotal(a, q)
      PROVE  AddsUpAfter(q)
  BY <1>1, TotalledStandings
<1>2. ASSUME q \in DOMAIN portfolios, \A a \in Actors : ~(q \in actor[a].todo /\ WriteTotal(a, q))
      PROVE  AddsUpAfter(q)
  <2>1. account[q].marked = {}
    BY <1>2, MarkedKept
  <2>2. \A a \in Actors : ~Marking(a, q)
    BY <1>2, MarkingEnds, Zenon DEF Marking
  <2>3. portfolios[q].unrealized = Sum(Worths(q, Idle)) + PendingShare(q)
    BY <1>2, <2>1, <2>2, OpenGains DEF StandingsAddUp
  <2>4. ASSUME NEW a \in Actors, NEW r \in actor[a].selected, CloseRow(a, r)
        PROVE  AddsUpAfter(q)
    BY <1>2, <2>3, <2>4, ClosedStandings
  <2>5. ASSUME NEW a \in Actors, Credit(a)
        PROVE  AddsUpAfter(q)
    BY <1>2, <2>3, <2>5, CreditedStandings
  <2>6. ASSUME portfolios' = portfolios, positions' = positions,
               \A a \in Actors : ShareAfter(q)[a] = ShareOf(q)[a]
        PROVE  AddsUpAfter(q)
    BY <2>3, <2>6, SameWorths, SameShares DEF AddsUpAfter
  <2>7. ASSUME Crash
        PROVE  AddsUpAfter(q)
    <3>1. /\ portfolios' = portfolios /\ positions' = positions
          /\ actor' = [a \in Actors |-> Idle]
      BY <2>7, CrashBooks, Zenon DEF rows
    <3>2. ASSUME NEW a \in Actors
          PROVE  ShareAfter(q)[a] = ShareOf(q)[a]
      <4>1. ShareAfter(q)[a] = 0
        BY <3>1, IdleFacts, Sharers
      <4>2. actor[a].pc = "credit" => actor[a].portfolio # q
        BY <1>2, <2>7, CrashBooks, Zenon
      <4>3. ShareOf(q)[a] = 0
        <5>1. CASE actor[a].pc = "credit"
          BY <4>2, <5>1 DEF ShareOf
        <5>2. CASE actor[a].pc # "credit"
          BY <5>2, Sharers
        <5> QED BY <5>1, <5>2
      <4> QED BY <4>1, <4>3
    <3> QED BY <2>6, <3>1, <3>2
  <2>8. ASSUME NEW c \in Actors, Failing(c)
        PROVE  AddsUpAfter(q)
    <3>1. portfolios' = portfolios /\ positions' = positions
      BY <2>8, FailedBooks DEF rows
    <3>2. ASSUME NEW a \in Actors
          PROVE  ShareAfter(q)[a] = ShareOf(q)[a]
      <4>1. CASE a # c
        <5>1. actor'[a] = actor[a]
          BY <2>8, <4>1, FailingShape
        <5> QED BY <5>1 DEF ShareAfter, ShareOf
      <4>2. CASE a = c
        <5>1. /\ actor[a].pc = "credit" => actor[a].portfolio # q
              /\ actor'[a].pc = "credit" => actor'[a].portfolio # q
          BY <2>8, <4>2, FailedCredits, Zenon
        <5>2. ShareOf(q)[a] = 0
          <6>1. CASE actor[a].pc = "credit"
            BY <5>1, <6>1 DEF ShareOf
          <6>2. CASE actor[a].pc # "credit"
            BY <6>2, Sharers
          <6> QED BY <6>1, <6>2
        <5>3. ShareAfter(q)[a] = 0
          <6>1. CASE actor'[a].pc = "credit"
            BY <5>1, <6>1 DEF ShareAfter
          <6>2. CASE actor'[a].pc # "credit"
            BY <6>2, Sharers
          <6> QED BY <6>1, <6>2
        <5> QED BY <5>2, <5>3
      <4> QED BY <4>1, <4>2
    <3> QED BY <2>6, <3>1, <3>2
  <2>9. CASE /\ ~Crash
             /\ \A a \in Actors : /\ ~Failing(a) /\ ~Credit(a)
                                  /\ \A r \in actor[a].selected : ~CloseRow(a, r)
    <3>1. ASSUME NEW a \in Actors
          PROVE  ShareAfter(q)[a] = ShareOf(q)[a]
      <4>1. CASE actor'[a] = actor[a]
        BY <4>1 DEF ShareAfter, ShareOf
      <4>2. CASE NothingToBook(actor[a]) /\ NothingToBook(actor'[a])
        BY <4>2 DEF ShareAfter, ShareOf, NothingToBook
      <4> QED BY <2>9, <4>1, <4>2, Bookers
    <3>2. PendingShareAfter(q) = PendingShare(q)
      BY <3>1, SameShares
    <3>3. Sum(WorthsAfter(q, Idle)) = Sum(Worths(q, Idle))
      <4>1. ASSUME NEW b \in Actors, NEW r \in actor[b].selected,
                   CloseRow(b, r) \/ MarkPosition(b, r)
            PROVE  r.row.portfolio # q
        <5>1. MarkPosition(b, r)
          BY <2>9, <4>1
        <5>2. actor[b].op = "mark" /\ r.row.portfolio \in actor[b].todo
          <6>1. actor[b].pc = "mark"
            BY <5>1, Zenon DEF MarkPosition
          <6>2. actor[b].op = "mark"
            BY <6>1, RunFacts, StepOps
          <6> QED BY <4>1, <6>2, RunFacts DEF Legal, Keeps, RowsLegal
        <5> QED BY <2>2, <5>2 DEF Marking
      <4>2. Idle.price \in Int /\ Idle.selected = {}
        BY IdleFacts
      <4> QED BY <4>1, <4>2, WorthsKept
    <3>4. portfolios'[q].unrealized = portfolios[q].unrealized
      <4>1. CASE portfolios' = portfolios
        BY <4>1
      <4>2. ASSUME NEW a \in Actors, CreatePortfolio(a)
            PROVE  portfolios'[q].unrealized = portfolios[q].unrealized
        BY <1>2, <4>2, InsertedRows, Zenon
      <4>3. ASSUME NEW a \in Actors, DeletePortfolio(a)
            PROVE  portfolios'[q].unrealized = portfolios[q].unrealized
        <5> DEFINE s == actor[a].portfolio
        <5>1. /\ \A b \in DOMAIN portfolios \ {s} : portfolios'[b] = portfolios[b]
              /\ portfolios'[s].unrealized = portfolios[s].unrealized
          BY <4>3, CleanedRows
        <5> QED BY <1>2, <5>1
      <4>4. ASSUME NEW a \in Actors, Charge(a)
            PROVE  portfolios'[q].unrealized = portfolios[q].unrealized
        <5> DEFINE s == actor[a].portfolio
        <5>1. /\ \A b \in DOMAIN portfolios \ {s} : portfolios'[b] = portfolios[b]
              /\ portfolios'[s].unrealized = portfolios[s].unrealized
          BY <4>4, ChargedRows
        <5> QED BY <1>2, <5>1
      <4>5. ASSUME NEW a \in Actors, NEW s \in actor[a].todo, WriteTotal(a, s)
            PROVE  portfolios'[q].unrealized = portfolios[q].unrealized
        <5>1. s # q
          BY <1>2, <4>5
        <5>2. \A b \in DOMAIN portfolios \ {s} : portfolios'[b] = portfolios[b]
          BY <4>5, TotalledRows, ZenonT(40)
        <5> QED BY <1>2, <5>1, <5>2
      <4> QED BY <2>9, <4>1, <4>2, <4>3, <4>4, <4>5, WhichStep
    <3> QED BY <2>3, <3>2, <3>3, <3>4 DEF AddsUpAfter
  <2> QED BY <2>4, <2>5, <2>7, <2>8, <2>9
<1> QED BY <1>0, <1>1, <1>2

(* The unrealized column of a portfolio is what its open positions were last
   marked at, however closes and several markings interleave, unless what was
   closed was not booked alike, an update was lost, or rows changed during a
   marking.                                                               *)
THEOREM StandingsAlwaysAddUp == Spec => []StandingsAddUp
<1> DEFINE Inv == RowsAgree /\ Offs /\ MarksFollow /\ StandingsAddUp
<1>1. Init => Inv
  <2> SUFFICES ASSUME Init PROVE Inv
    OBVIOUS
  <2>1. portfolios = <<>> /\ \A a \in Actors : actor[a] = Idle
    BY DEF Init
  <2> QED BY <2>1, IdleFacts DEF RowsAgree, Offs, MarksFollow, StandingsAddUp, NothingToBook
<1>2. TypeInv /\ TypeInv' /\ Inv /\ [Next]_vars => Inv'
  <2> SUFFICES ASSUME TypeInv, TypeInv', Inv, [Next]_vars
               PROVE  Inv'
    OBVIOUS
  <2>1. RowsAgree' /\ Offs'
    BY RowsAgreeStep, OffsStep
  <2>2. MarksFollow'
    <3> SUFFICES ASSUME NEW a \in Actors, NEW q \in DOMAIN portfolios', Marking(a, q)',
                        account'[q].marked \subseteq Mended
                 PROVE  actor'[a].totals[q] = Sum(Worths(q, actor[a]))'
      BY DEF MarksFollow
    <3>1. actor'[a].totals[q] = Sum(WorthsAfter(q, actor'[a]))
      BY MarksStep DEF Marking
    <3>2. Sum(Worths(q, actor[a]))' = Sum(WorthsAfter(q, actor'[a]))
      BY DEF Worths, WorthsAfter
    <3> QED BY <3>1, <3>2
  <2>3. StandingsAddUp'
    <3> SUFFICES ASSUME NEW q \in DOMAIN portfolios', account'[q].marked = {},
                        \A a \in Actors : ~Marking(a, q)'
                 PROVE  portfolios'[q].unrealized = OpenGain(q)' + PendingShare(q)'
      BY DEF StandingsAddUp
    <3>1. AddsUpAfter(q)
      BY StandingsStep DEF Marking
    <3>2. PendingShare(q)' = PendingShareAfter(q)
      BY DEF PendingShare, PendingShareAfter, ShareAfter
    <3> QED BY <3>1, <3>2, OpenGains DEF AddsUpAfter
  <2> QED BY <2>1, <2>2, <2>3
<1>3. Inv => StandingsAddUp
  OBVIOUS
<1> HIDE DEF Inv
<1> QED BY <1>1, <1>2, <1>3, TypesHold, PTL DEF Spec

-----------------------------------------------------------------------------
(* What the lifecycle cron does *)

LEMMA StatusMoves ==
  ASSUME TypeInv, [Next]_vars
  PROVE  \/ status' = status
         \/ \E c \in Crons : Activate(c) \/ SetCompleted(c)
         \/ archiveTournament /\ actor' = actor
<1>1. ASSUME NEW a \in Actors, Request(a) \/ Settlement(a) \/ Filling(a)
      PROVE  status' = status
  BY <1>1, OthersRow
<1>2. ASSUME NEW c \in Crons, Lifecycle(c)
      PROVE  status' = status \/ Activate(c) \/ SetCompleted(c)
  BY <1>2 DEF Lifecycle, StartActivation, CreateChannel, AttachChannel, ReadEntries, AddMember,
              StartCompletion, SelectOpen, CancelQueued, ReadBoard, WriteRank, ArchiveChannel, row
<1>3. ASSUME (\E a \in Actors : Failing(a)) \/ Crash
      PROVE  status' = status
  BY <1>3, FailedBooks, CrashBooks, Zenon DEF row
<1>4. archiveTournament => actor' = actor
  BY DEF archiveTournament
<1>5. Tick \/ UNCHANGED vars => status' = status
  BY DEF Tick, vars, row
<1> QED BY <1>1, <1>2, <1>3, <1>4, <1>5 DEF Next, Actors

LEMMA CronRole ==
  ASSUME TypeInv, Roles, NEW c \in Crons
  PROVE  /\ c \in Actors /\ c \notin Requests /\ c \notin Settlements
         /\ actor[c].op \in {"idle", "activate", "complete"}
         /\ actor[c] \in Actor
         /\ actor[c].pc \in StepsOf(actor[c].op)
         /\ actor[c].pc \in {"select", "close", "credit", "cancel", "board", "rank",
                             "completed", "archive"} <=> actor[c].op = "complete"
         /\ actor[c].pc \notin {"close", "credit"} => actor[c].selected = {}
<1>1. c \in Actors /\ c \notin Requests /\ c \notin Settlements
  BY ConstantsAssumption DEF Actors
<1>2. actor[c].op \in {"idle", "activate", "complete"}
  BY <1>1 DEF Roles, RoleOps
<1>3. /\ actor[c] \in Actor
      /\ Legal(actor[c], DOMAIN portfolios, DOMAIN positions, DOMAIN trades, DOMAIN channels)
  BY <1>1, RunFacts
<1>4. actor[c].pc \in StepsOf(actor[c].op)
  BY <1>3 DEF Legal
<1>5. actor[c].pc \in {"select", "close", "credit", "cancel", "board", "rank",
                       "completed", "archive"} <=> actor[c].op = "complete"
  BY <1>2, <1>4 DEF StepsOf
<1>6. actor[c].pc # "mark"
  BY <1>2, <1>4 DEF StepsOf
<1>7. actor[c].pc \notin {"close", "credit"} => actor[c].selected = {}
  BY <1>3, <1>6 DEF Legal, AtStep
<1> QED BY <1>1, <1>2, <1>3, <1>4, <1>5, <1>7

(* A step of the cron that takes part in a finalization, field by field. *)
LEMMA CronMoves ==
  ASSUME TypeInv, Roles, [Next]_vars, NEW c \in Crons
  PROVE  LET p == actor[c]
             s == actor'[c]
             Stays == s.op = "complete" /\ s.selected = p.selected
         IN \/ s = p
            \/ /\ p.op # "complete" /\ s.op # "complete"
               /\ s.op = "activate" => p.op = "activate" \/ status = "upcoming"
            \/ StartCompletion(c) /\ p.op # "complete" /\ s.op = "complete" /\ s.pc = "select"
            \/ /\ SelectOpen(c) /\ p.pc = "select" /\ s.op = "complete"
               /\ s.pc \in {"close", "cancel"} /\ s.selected = Select(OpenPositions)
            \/ \E r \in p.selected :
                 /\ CloseRow(c, r) \/ RowIgnored(c, r)
                 /\ p.pc = "close" /\ s = Booking(p, r)
            \/ /\ Credit(c) \/ StatementIgnored(c)
               /\ p.pc = "credit" /\ Stays /\ s.pc = IF p.selected = {} THEN "cancel" ELSE "close"
            \/ /\ CancelQueued(c) \/ StatementIgnored(c)
               /\ p.pc = "cancel" /\ Stays /\ s.pc = "board"
            \/ ReadBoard(c) /\ p.pc = "board" /\ Stays /\ s.pc \in {"rank", "completed"}
            \/ \E u \in p.todo :
                 /\ WriteRank(c, u) \/ RankIgnored(c, u)
                 /\ p.pc = "rank" /\ Stays /\ s.pc \in {"rank", "completed"}
                 /\ s = NextRank(p, p.todo \ {u})
            \/ p.pc = "completed" /\ (s = Idle \/ (Stays /\ s.pc = "archive"))
            \/ p.pc \in {"select", "board", "archive"} /\ s = Idle
            \/ Crash
<1> DEFINE p == actor[c]
           s == actor'[c]
           Stays == s.op = "complete" /\ s.selected = p.selected
           Away == /\ p.op # "complete" /\ s.op # "complete"
                   /\ s.op = "activate" => p.op = "activate" \/ status = "upcoming"
           Starts == StartCompletion(c) /\ p.op # "complete" /\ s.op = "complete"
                     /\ s.pc = "select"
           Selects == /\ SelectOpen(c) /\ p.pc = "select" /\ s.op = "complete"
                      /\ s.pc \in {"close", "cancel"} /\ s.selected = Select(OpenPositions)
           Closes == \E r \in p.selected :
                       /\ CloseRow(c, r) \/ RowIgnored(c, r)
                       /\ p.pc = "close" /\ s = Booking(p, r)
           Credits == /\ Credit(c) \/ StatementIgnored(c)
                      /\ p.pc = "credit" /\ Stays
                      /\ s.pc = IF p.selected = {} THEN "cancel" ELSE "close"
           Cancels == /\ CancelQueued(c) \/ StatementIgnored(c)
                      /\ p.pc = "cancel" /\ Stays /\ s.pc = "board"
           Reads == ReadBoard(c) /\ p.pc = "board" /\ Stays /\ s.pc \in {"rank", "completed"}
           Ranks == \E u \in p.todo :
                      /\ WriteRank(c, u) \/ RankIgnored(c, u)
                      /\ p.pc = "rank" /\ Stays /\ s.pc \in {"rank", "completed"}
                      /\ s = NextRank(p, p.todo \ {u})
           Completes == p.pc = "completed" /\ (s = Idle \/ (Stays /\ s.pc = "archive"))
           Stops == p.pc \in {"select", "board", "archive"} /\ s = Idle
<1>1. /\ p \in Actor /\ c \in Actors /\ p.op \in {"idle", "activate", "complete"}
      /\ p.pc \in {"select", "close", "credit", "cancel", "board", "rank",
                   "completed", "archive"} <=> p.op = "complete"
      /\ p.pc \in StepsOf(p.op)
  BY CronRole
<1>2. ASSUME NEW a \in Actors, a # c,
             Request(a) \/ Settlement(a) \/ Lifecycle(a) \/ Filling(a) \/ Failing(a)
      PROVE  s = p
  BY <1>1, <1>2, RequestShape, SettlementShape, LifecycleShape, FillingShape, FailingShape
<1>3. \A pc : [p EXCEPT !.pc = pc].pc = pc /\ [p EXCEPT !.pc = pc].op = p.op
              /\ [p EXCEPT !.pc = pc].selected = p.selected
  BY <1>1 DEF Actor
<1>4. ASSUME NEW pc, Set(c, [p EXCEPT !.pc = pc])
      PROVE  s.pc = pc /\ s.op = p.op /\ s.selected = p.selected
  <2> DEFINE x == [p EXCEPT !.pc = pc]
  <2>1. x.pc = pc /\ x.op = p.op /\ x.selected = p.selected /\ Set(c, x)
    BY <1>3, <1>4
  <2>2. actor'[c] = x
    <3> HIDE DEF x
    <3> QED BY <1>1, <2>1, SetFacts
  <2> HIDE DEF x
  <2> QED BY <2>1, <2>2
<1>5. ASSUME NEW x \in Actor, NEW users, Set(c, NextRank(x, users)), x.op = "complete",
             x.selected = p.selected
      PROVE  Stays /\ s.pc \in {"rank", "completed"} /\ s = NextRank(x, users)
  <2> DEFINE y == NextRank(x, users)
  <2>1. y.op = "complete" /\ y.selected = x.selected /\ y.pc \in {"rank", "completed"}
    BY <1>5 DEF NextRank, Actor
  <2>2. s = y
    <3> HIDE DEF y
    <3> QED BY <1>1, <1>5, SetFacts DEF y
  <2> HIDE DEF y
  <2> QED BY <1>5, <2>1, <2>2 DEF y
<1>6. ASSUME p.op = "complete", p.pc = "credit", Set(c, Continue(NextRow(p)))
      PROVE  Stays /\ s.pc = IF p.selected = {} THEN "cancel" ELSE "close"
  <2> DEFINE x == NextRow(p)
             y == Continue(x)
  <2>1. x \in Actor /\ x.op = "complete" /\ x.selected = p.selected
    BY <1>1, <1>6, NextRowType, Zenon DEF NextRow, Actor
  <2>2. y.op = "complete" /\ y.selected = x.selected
        /\ y.pc = IF x.selected = {} THEN "cancel" ELSE "close"
    <3> HIDE DEF x
    <3> QED BY <2>1 DEF Continue, Actor
  <2>3. s = y
    <3> HIDE DEF x, y
    <3> QED BY <1>1, <1>6, SetFacts DEF x, y
  <2> HIDE DEF x, y
  <2> QED BY <2>1, <2>2, <2>3
<1>7. ASSUME Lifecycle(c)
      PROVE  Away \/ Starts \/ Selects \/ Cancels \/ Reads \/ Ranks \/ Completes \/ Stops
  <2>1. CASE StartActivation(c)
    <3> DEFINE x == [Idle EXCEPT !.op = "activate", !.pc = "activate"]
    <3>1. x.op = "activate" /\ Set(c, x) /\ p = Idle /\ status = "upcoming"
      BY <2>1 DEF StartActivation, Idle
    <3>2. s = x
      <4> HIDE DEF x
      <4> QED BY <1>1, <3>1, SetFacts
    <3> QED BY <3>1, <3>2, IdleFacts
  <2>2. CASE StartCompletion(c)
    <3> DEFINE x == [Idle EXCEPT !.op = "complete", !.pc = "select", !.channel = channel]
    <3>1. x.op = "complete" /\ x.pc = "select" /\ Set(c, x) /\ p = Idle
      BY <2>2 DEF StartCompletion, Idle
    <3>2. s = x
      <4> HIDE DEF x
      <4> QED BY <1>1, <3>1, SetFacts
    <3> QED BY <2>2, <3>1, <3>2, IdleFacts
  <2>3. CASE Activate(c) \/ CreateChannel(c) \/ AttachChannel(c) \/ ReadEntries(c)
             \/ \E u \in p.todo : AddMember(c, u)
    <3>1. p.op = "activate"
      <4>1. p.pc \in {"activate", "channel", "attach", "entries", "members"}
        BY <2>3 DEF Activate, CreateChannel, AttachChannel, ReadEntries, AddMember
      <4> QED BY <1>1, <4>1, RunFacts, StepOps
    <3>2. s.op # "complete"
      <4>1. CASE Activate(c) \/ AttachChannel(c)
        <5>1. \E pc : Set(c, [p EXCEPT !.pc = pc])
          BY <4>1 DEF Activate, AttachChannel
        <5> QED BY <1>4, <3>1, <5>1
      <4>2. CASE CreateChannel(c)
        <5> DEFINE x == [p EXCEPT !.pc = "attach", !.channel = Len(channels) + 1]
        <5>1. x.op = p.op /\ Set(c, x)
          BY <1>1, <4>2 DEF CreateChannel, Actor
        <5>2. s = x
          <6> HIDE DEF x
          <6> QED BY <1>1, <5>1, SetFacts
        <5> QED BY <3>1, <5>1, <5>2
      <4>3. CASE ReadEntries(c) \/ \E u \in p.todo : AddMember(c, u)
        <5>1. \E users : Set(c, NextMember(p, users))
          BY <4>3 DEF ReadEntries, AddMember
        <5> QED BY <1>1, <3>1, <5>1, OpsKept, SetFacts
      <4> QED BY <2>3, <4>1, <4>2, <4>3
    <3> QED BY <3>1, <3>2
  <2>4. CASE SelectOpen(c)
    <3> DEFINE x == [p EXCEPT !.selected = Select(OpenPositions)]
    <3>1. Set(c, Continue(x)) /\ p.pc = "select"
      BY <2>4 DEF SelectOpen
    <3>2. x \in Actor /\ x.op = "complete" /\ x.selected = Select(OpenPositions)
      BY <1>1, <3>1, SelectFacts DEF Actor, TypeInv
    <3> HIDE DEF x
    <3>3. /\ Continue(x).op = "complete" /\ Continue(x).selected = x.selected
          /\ Continue(x).pc \in {"close", "cancel"}
      BY <3>2 DEF Continue, Actor
    <3>4. s = Continue(x)
      BY <1>1, <3>1, SetFacts
    <3> QED BY <2>4, <3>1, <3>2, <3>3, <3>4
  <2>5. CASE CancelQueued(c)
    <3>1. p.pc = "cancel" /\ Set(c, [p EXCEPT !.pc = "board"])
      BY <2>5 DEF CancelQueued
    <3> QED BY <1>1, <1>4, <2>5, <3>1
  <2>6. CASE ReadBoard(c)
    <3> DEFINE x == [p EXCEPT !.places = [u \in Users |-> IF u \in Entered THEN Place(u) ELSE 0]]
    <3>1. Set(c, NextRank(x, Entered)) /\ p.pc = "board"
      BY <2>6 DEF ReadBoard
    <3>2. [u \in Users |-> IF u \in Entered THEN Place(u) ELSE 0] \in [Users -> 0..N]
      BY PlaceType, Bounds DEF TypeInv
    <3>3. x \in Actor /\ x.op = "complete" /\ x.selected = p.selected
      BY <1>1, <3>1, <3>2 DEF Actor
    <3> HIDE DEF x
    <3> QED BY <1>5, <2>6, <3>1, <3>3
  <2>7. ASSUME NEW u \in p.todo, WriteRank(c, u)
        PROVE  Ranks
    <3>1. Set(c, NextRank(p, p.todo \ {u})) /\ p.pc = "rank"
      BY <2>7 DEF WriteRank
    <3>2. Stays /\ s.pc \in {"rank", "completed"} /\ s = NextRank(p, p.todo \ {u})
      BY <1>1, <1>5, <3>1
    <3> QED BY <2>7, <3>1, <3>2
  <2>8. CASE SetCompleted(c)
    <3>1. p.pc = "completed" /\ (Set(c, Idle) \/ Set(c, [p EXCEPT !.pc = "archive"]))
      BY <2>8 DEF SetCompleted
    <3> QED BY <1>1, <1>4, <3>1, SetFacts
  <2>9. CASE ArchiveChannel(c)
    <3>1. p.pc = "archive" /\ Set(c, Idle)
      BY <2>9 DEF ArchiveChannel
    <3> QED BY <1>1, <3>1, SetFacts
  <2> HIDE DEF Away, Starts, Selects, Cancels, Reads, Ranks, Completes, Stops
  <2> QED BY <1>7, <2>1, <2>2, <2>3, <2>4, <2>5, <2>6, <2>7, <2>8, <2>9 DEF Lifecycle
<1>8. ASSUME Filling(c)
      PROVE  Closes \/ Credits
  <2>1. ASSUME NEW r \in p.selected, CloseRow(c, r)
        PROVE  Closes
    <3>1. p.pc = "close" /\ Set(c, Booking(p, r))
      BY <2>1, Zenon DEF CloseRow
    <3>2. s = Booking(p, r)
      BY <1>1, <3>1, SetFacts
    <3> QED BY <2>1, <3>1, <3>2
  <2>2. CASE Credit(c)
    <3>1. p.pc = "credit" /\ Set(c, Continue(NextRow(p)))
      BY <2>2, Zenon DEF Credit
    <3> QED BY <1>1, <1>6, <2>2, <3>1
  <2>3. ~OpenPosition(c)
    BY <1>1 DEF OpenPosition, StepsOf
  <2> HIDE DEF Closes, Credits
  <2> QED BY <1>8, <2>1, <2>2, <2>3 DEF Filling
<1>9. ASSUME Failing(c)
      PROVE  Away \/ Closes \/ Credits \/ Cancels \/ Ranks \/ Completes \/ Stops
  <2>1. CASE p.op # "complete"
    <3>1. s.op # "complete" /\ s.op \in {"idle", p.op}
      BY <1>1, <1>9, <2>1, FailingShape
    <3> QED BY <2>1, <3>1
  <2>2. ASSUME p.op = "complete"
        PROVE  Closes \/ Credits \/ Cancels \/ Ranks \/ Completes \/ Stops
    <3>0. p.pc \in {"select", "close", "credit", "cancel", "board", "rank",
                    "completed", "archive"}
      BY <1>1, <2>2
    <3>1. ASSUME StatementThrows(c)
          PROVE  Stops
      <4>1. p.pc \in {"select", "board"} /\ Set(c, Idle)
        BY <2>2, <3>0, <3>1 DEF StatementThrows
      <4> QED BY <1>1, <4>1, SetFacts
    <3>2. ASSUME StatementIgnored(c)
          PROVE  Credits \/ Cancels \/ Completes \/ Stops
      <4>1. p.pc \in {"credit", "cancel", "completed", "archive"} /\ Set(c, Ignored(p))
        BY <3>0, <3>2 DEF StatementIgnored
      <4>2. CASE p.pc = "credit"
        <5>1. Set(c, Continue(NextRow(p)))
          BY <4>1, <4>2 DEF Ignored
        <5> QED BY <1>6, <2>2, <3>2, <4>2, <5>1
      <4>3. CASE p.pc = "cancel"
        <5>1. Set(c, [p EXCEPT !.pc = "board"])
          BY <4>1, <4>3 DEF Ignored
        <5> QED BY <1>4, <2>2, <3>2, <4>3, <5>1
      <4>4. CASE p.pc = "completed"
        <5>1. Set(c, Idle) \/ Set(c, [p EXCEPT !.pc = "archive"])
          BY <4>1, <4>4 DEF Ignored
        <5> QED BY <1>1, <1>4, <2>2, <4>4, <5>1, SetFacts
      <4>5. CASE p.pc = "archive"
        <5>1. Set(c, Idle)
          BY <4>1, <4>5 DEF Ignored
        <5> QED BY <1>1, <4>5, <5>1, SetFacts
      <4> QED BY <4>1, <4>2, <4>3, <4>4, <4>5
    <3>3. ASSUME NEW r \in p.selected, RowIgnored(c, r)
          PROVE  Closes
      <4>1. p.pc = "close" /\ Set(c, Booking(p, r))
        BY <3>0, <3>3, Zenon DEF RowIgnored
      <4>2. s = Booking(p, r)
        BY <1>1, <4>1, SetFacts
      <4> QED BY <3>3, <4>1, <4>2
    <3>4. ASSUME NEW q \in p.todo, TotalIgnored(c, q)
          PROVE  FALSE
      BY <3>0, <3>4 DEF TotalIgnored
    <3>5. ASSUME NEW u \in p.todo, RankIgnored(c, u)
          PROVE  Ranks
      <4>1. Set(c, NextRank(p, p.todo \ {u})) /\ p.pc = "rank"
        BY <3>5 DEF RankIgnored
      <4>2. Stays /\ s.pc \in {"rank", "completed"} /\ s = NextRank(p, p.todo \ {u})
        BY <1>1, <1>5, <2>2, <4>1
      <4> QED BY <3>5, <4>1, <4>2
    <3> HIDE DEF Closes, Credits, Cancels, Ranks, Completes, Stops
    <3> QED BY <1>9, <3>1, <3>2, <3>3, <3>4, <3>5 DEF Failing
  <2> HIDE DEF Closes, Credits, Cancels, Ranks, Completes, Stops
  <2> QED BY <2>1, <2>2
<1>10. archiveTournament \/ Tick \/ UNCHANGED vars => actor' = actor
  BY DEF archiveTournament, Tick, vars
<1> HIDE DEF Away, Starts, Selects, Closes, Credits, Cancels, Reads, Ranks, Completes, Stops
<1>11. \/ s = p \/ Away \/ Starts \/ Selects \/ Closes \/ Credits \/ Cancels \/ Reads
       \/ Ranks \/ Completes \/ Stops \/ Crash
  <2>1. c \notin Requests /\ c \notin Settlements
    BY CronRole
  <2> QED BY <1>2, <1>7, <1>8, <1>9, <1>10, <2>1 DEF Next, Actors
<1> QED BY <1>11 DEF Away, Starts, Selects, Closes, Credits, Cancels, Reads, Ranks,
                     Completes, Stops, Stays


-----------------------------------------------------------------------------
(* A finalization closes what is open *)

(* It has selected the positions to close, or the tournament is completed. *)
Ending ==
  \/ status \in {"completed", "archived"}
  \/ \E c \in Crons : actor[c].op = "complete" /\ actor[c].pc # "select"

(* Queued trades have been cancelled. *)
Ranking ==
  \/ status \in {"completed", "archived"}
  \/ \E c \in Crons : actor[c].pc \in {"board", "rank", "completed", "archive"}

(* What a lifecycle run knows of the tournament's status. *)
CronHeld == \A c \in Crons :
  /\ actor[c].op = "complete" /\ actor[c].pc # "archive" => status = "active"
  /\ actor[c].op = "activate" => status \in {"upcoming", "active"}

EndingClosed == Ending => \A i \in OpenPositions :
  account[positions[i].portfolio].booked = {} => \E c \in Crons : Listed(actor[c], i)

QueuedCancelled == Ranking => \A t \in DOMAIN trades :
  trades[t].status = "queued" => account[trades[t].portfolio].booked # {}

(* Everybody else sees that the tournament is ending. *)
LEMMA OthersSee ==
  ASSUME TypeInv, Roles, NEW a \in Actors, actor[a].op \notin {"idle", "activate", "complete"}
  PROVE  a \notin Crons /\ (Finalizing(a) <=> Ending)
<1>1. a \notin Crons
  BY CronRole
<1>2. Crons \ {a} = Crons
  BY <1>1
<1> QED BY <1>1, <1>2 DEF Finalizing, Ending

LEMMA RankingEnds ==
  ASSUME TypeInv, Roles, Ranking
  PROVE  Ending
<1>1. ASSUME NEW c \in Crons, actor[c].pc \in {"board", "rank", "completed", "archive"}
      PROVE  actor[c].op = "complete" /\ actor[c].pc # "select"
  BY <1>1, CronRole
<1> QED BY <1>1 DEF Ranking, Ending

LEMMA CronHeldStep ==
  ASSUME TypeInv, Roles, OneCron, CronHeld, [Next]_vars
  PROVE  CronHeld'
<1> SUFFICES ASSUME NEW c \in Crons
             PROVE  /\ actor'[c].op = "complete" /\ actor'[c].pc # "archive" =>
                         status' = "active"
                    /\ actor'[c].op = "activate" => status' \in {"upcoming", "active"}
  BY DEF CronHeld
<1> DEFINE p == actor[c]
           s == actor'[c]
<1>1. /\ p.op = "complete" /\ p.pc # "archive" => status = "active"
      /\ p.op = "activate" => status \in {"upcoming", "active"}
      /\ p.pc \in {"select", "close", "credit", "cancel", "board", "rank",
                   "completed", "archive"} <=> p.op = "complete"
      /\ c \in Actors
  BY CronRole DEF CronHeld
<1>2. CASE status' = status
  <2>1. Idle.op = "idle" /\ Idle.pc = "idle"
    BY IdleFacts
  <2>2. StartCompletion(c) => status = "active"
    BY DEF StartCompletion
  <2>3. ASSUME NEW r \in p.selected, s = Booking(p, r)
        PROVE  s.op = p.op
    BY <2>3, CronRole, BookingFields
  <2>4. Crash => s = Idle
    BY <1>1, Zenon DEF Crash
  <2> HIDE DEF s, p
  <2> QED BY <1>1, <1>2, <2>1, <2>2, <2>3, <2>4, CronMoves DEF s, p
<1>3. ASSUME NEW b \in Crons, Activate(b)
      PROVE  status' = "active"
  BY <1>3 DEF Activate
<1>4. ASSUME NEW b \in Crons, SetCompleted(b)
      PROVE  s = Idle \/ (s.op = "complete" /\ s.pc = "archive")
  <2>1. b = c
    BY DEF OneCron
  <2>2. p \in Actor /\ p.pc = "completed" /\ p.op = "complete"
        /\ (Set(c, Idle) \/ Set(c, [p EXCEPT !.pc = "archive"]))
    BY <1>1, <1>4, <2>1, CronRole DEF SetCompleted
  <2> DEFINE x == [p EXCEPT !.pc = "archive"]
  <2>3. x.op = "complete" /\ x.pc = "archive"
    BY <2>2 DEF Actor
  <2>4. s = Idle \/ s = x
    <3> HIDE DEF x
    <3> QED BY <1>1, <2>2, SetFacts DEF x
  <2> HIDE DEF x
  <2> QED BY <2>3, <2>4
<1>5. CASE archiveTournament /\ actor' = actor
  BY <1>1, <1>5 DEF archiveTournament
<1> QED BY <1>2, <1>3, <1>4, <1>5, StatusMoves, IdleFacts

(* A tournament begins to end when its open positions are selected. *)
LEMMA EndingStarts ==
  ASSUME TypeInv, Roles, [Next]_vars, ~Ending, Ending'
  PROVE  \E c \in Crons : SelectOpen(c) /\ actor'[c].selected = Select(OpenPositions)
<1>1. ASSUME status' \in {"completed", "archived"}
      PROVE  FALSE
  <2>1. status \notin {"completed", "archived"}
    BY DEF Ending
  <2>2. ASSUME NEW c \in Crons, SetCompleted(c)
        PROVE  FALSE
    <3>1. actor[c].pc = "completed"
      BY <2>2 DEF SetCompleted
    <3> QED BY <3>1, CronRole DEF Ending
  <2>3. \A c \in Crons : Activate(c) => status' = "active"
    BY DEF Activate
  <2>4. archiveTournament => status = "completed"
    BY DEF archiveTournament
  <2> QED BY <1>1, <2>1, <2>2, <2>3, <2>4, StatusMoves
<1>2. PICK c \in Crons : actor'[c].op = "complete" /\ actor'[c].pc # "select"
  BY <1>1 DEF Ending
<1> DEFINE p == actor[c]
           s == actor'[c]
<1>3. ~(p.op = "complete" /\ p.pc # "select")
  BY DEF Ending
<1>4. p.pc \in {"select", "close", "credit", "cancel", "board", "rank",
                "completed", "archive"} <=> p.op = "complete"
  BY CronRole
<1>5. Idle.op = "idle"
  BY IdleFacts
<1>6. Crash => s = Idle
  BY CronRole, Zenon DEF Crash
<1> HIDE DEF s, p
<1> QED BY <1>2, <1>3, <1>4, <1>5, <1>6, CronMoves DEF s, p

(* A row on the list of the finalization stays there until it is closed. *)
LEMMA ListKept ==
  ASSUME TypeInv, Roles, CronHeld, RowsAgree, [Next]_vars, Ending', NEW c \in Crons,
         NEW i, Listed(actor[c], i)
  PROVE  \/ Listed(actor'[c], i)
         \/ i \notin OpenPositions'
         \/ account'[positions[i].portfolio].booked # {}
<1> DEFINE p == actor[c]
           s == actor'[c]
<1>1. PICK r \in p.selected : r.id = i
  BY DEF Listed
<1>2. /\ p.op = "complete" /\ p.pc \in {"close", "credit"} /\ c \in Actors /\ p \in Actor
  BY <1>1, CronRole
<1>3. ASSUME ~Listed(s, i)
      PROVE  r \notin s.selected
  BY <1>1, <1>3 DEF Listed
<1>4. ~Crash
  <2> SUFFICES ASSUME Crash PROVE FALSE
    OBVIOUS
  <2>1. status = "active"
    BY <1>2 DEF CronHeld
  <2>2. status' = status /\ \A b \in Actors : actor'[b] = Idle
    BY Zenon DEF Crash, row
  <2>3. \A b \in Crons : actor'[b].op # "complete"
    BY <2>2, IdleFacts DEF Actors
  <2> QED BY <2>1, <2>2, <2>3 DEF Ending
<1>5. ASSUME NEW x \in p.selected, CloseRow(c, x) \/ RowIgnored(c, x), p.pc = "close",
             s = Booking(p, x), r \notin s.selected
      PROVE  i \notin OpenPositions' \/ account'[positions[i].portfolio].booked # {}
  <2>1. /\ s.pc = "credit" /\ s.selected = p.selected \ {x} /\ s.portfolio = x.row.portfolio
    BY <1>2, <1>5, BookingFields
  <2>2. x = r
    BY <1>1, <1>5, <2>1
  <2>3. ASSUME CloseRow(c, r)
        PROVE  i \notin OpenPositions'
    <3>1. CloseQuantity(p, r.row) = r.row.quantity
      BY <1>2 DEF CloseQuantity
    <3>2. positions'[r.id].status = "closed"
      BY <1>2, <2>3, <3>1, ClosedPosition
    <3> QED BY <1>1, <3>2 DEF OpenPositions
  <2>4. ASSUME RowIgnored(c, r)
        PROVE  account'[positions[i].portfolio].booked # {}
    <3>1. Failing(c)
      BY <1>1, <2>4 DEF Failing
    <3>2. "lost update" \in account'[s.portfolio].booked
      BY <1>2, <2>1, <3>1, FailedCredits, Zenon
    <3>3. positions[i].portfolio = r.row.portfolio
      BY <1>1, <1>2 DEF RowsAgree
    <3> QED BY <2>1, <2>2, <3>2, <3>3, Zenon
  <2> QED BY <1>5, <2>2, <2>3, <2>4
<1> HIDE DEF s, p
<1> QED BY <1>1, <1>2, <1>3, <1>4, <1>5, CronMoves DEF s, p

LEMMA ClosedStep ==
  ASSUME TypeInv, TypeInv', Roles, CronHeld, RowsAgree, EndingClosed, [Next]_vars
  PROVE  EndingClosed'
<1> SUFFICES ASSUME Ending', NEW i \in OpenPositions',
                    account'[positions'[i].portfolio].booked = {}
             PROVE  \E c \in Crons : Listed(actor'[c], i)
  BY DEF EndingClosed, Listed
<1>1. CASE ~Ending
  <2>1. PICK c \in Crons : SelectOpen(c) /\ actor'[c].selected = Select(OpenPositions)
    BY <1>1, EndingStarts
  <2>2. positions' = positions
    BY <2>1 DEF SelectOpen, rows
  <2>3. i \in OpenPositions
    BY <2>2 DEF OpenPositions
  <2>4. [id |-> i, row |-> positions[i]] \in Select(OpenPositions)
    BY <2>3 DEF Select
  <2> DEFINE r == [id |-> i, row |-> positions[i]]
  <2>5. r.id = i /\ r \in actor'[c].selected
    BY <2>1, <2>4
  <2> HIDE DEF r
  <2> QED BY <2>5 DEF Listed
<1>2. CASE Ending
  <2>1. ASSUME i \notin DOMAIN positions
        PROVE  FALSE
    <3>1. PICK a \in Actors : OpenPosition(a) /\ positions'[i].portfolio = actor[a].portfolio
      BY <2>1, PositionsKept, SMTT(30) DEF OpenPositions
    <3>2. actor[a].op \in {"destination", "settle"}
      BY <3>1, RunFacts, StepOps DEF OpenPosition
    <3>3. Finalizing(a)
      BY <1>2, <3>2, OthersSee, SMTT(30)
    <3>4. Blur(actor[a].portfolio, {"late"}, {}) /\ portfolios' = portfolios
      BY <3>1, <3>3 DEF OpenPosition
    <3>5. actor[a].portfolio \in DOMAIN portfolios
      BY <3>1, OpenedRows
    <3>6. "late" \in account'[actor[a].portfolio].booked
      BY <3>4, <3>5, BlurKeeps
    <3> QED BY <3>1, <3>6
  <2>2. /\ i \in OpenPositions
        /\ positions'[i].portfolio = positions[i].portfolio
        /\ positions[i].portfolio \in DOMAIN portfolios
    <3>1. i \in DOMAIN positions /\ positions'[i].status = "open"
      BY <2>1 DEF OpenPositions
    <3>2. positions[i] \in Position /\ positions[i].portfolio \in DOMAIN portfolios
      BY <3>1, Lengths DEF TypeInv, Tables
    <3>3. positions[i].status \in {"open", "closed"}
      BY <3>2 DEF Position
    <3>4. KeptPositions
      BY PositionsKept
    <3> QED BY <3>1, <3>2, <3>3, <3>4 DEF KeptPositions, OpenPositions
  <2>3. account[positions[i].portfolio].booked = {}
    BY <2>2, BookedKept
  <2>4. PICK c \in Crons : Listed(actor[c], i)
    BY <1>2, <2>2, <2>3 DEF EndingClosed
  <2> QED BY <2>2, <2>4, ListKept
<1> QED BY <1>1, <1>2

-----------------------------------------------------------------------------
(* A finalization cancels what is queued *)

LEMMA RankingStarts ==
  ASSUME TypeInv, TypeInv', Roles, Roles', [Next]_vars, ~Ranking, Ranking'
  PROVE  \E c \in Crons : actor[c].pc = "cancel" /\ (CancelQueued(c) \/ StatementIgnored(c))
<1>1. ASSUME status' \in {"completed", "archived"}
      PROVE  FALSE
  <2>1. status \notin {"completed", "archived"}
    BY DEF Ranking
  <2>2. \A c \in Crons : ~SetCompleted(c)
    BY DEF SetCompleted, Ranking
  <2>3. \A c \in Crons : Activate(c) => status' = "active"
    BY DEF Activate
  <2>4. archiveTournament => status = "completed"
    BY DEF archiveTournament
  <2> QED BY <1>1, <2>1, <2>2, <2>3, <2>4, StatusMoves
<1>2. PICK c \in Crons : actor'[c].pc \in {"board", "rank", "completed", "archive"}
  BY <1>1 DEF Ranking
<1> DEFINE p == actor[c]
           s == actor'[c]
<1>3. p.pc \notin {"board", "rank", "completed", "archive"}
  BY DEF Ranking
<1>4. Idle.pc = "idle"
  BY IdleFacts
<1>5. Crash => s = Idle
  BY CronRole, Zenon DEF Crash
<1>6. ASSUME NEW r \in p.selected, s = Booking(p, r)
      PROVE  s.pc = "credit"
  BY <1>6, CronRole, BookingFields
<1>7. s.op = "complete"
  <2>1. c \in Actors /\ c \notin Requests /\ c \notin Settlements
    BY CronRole
  <2>2. s.op \in {"idle", "activate", "complete"}
    BY <2>1 DEF Roles, RoleOps
  <2>3. s.pc \in StepsOf(s.op)
    BY <2>1 DEF TypeInv, RunsLegal, Legal
  <2> HIDE DEF s
  <2> QED BY <1>2, <2>2, <2>3 DEF StepsOf, s
<1> HIDE DEF s, p
<1> QED BY <1>2, <1>3, <1>4, <1>5, <1>6, <1>7, CronMoves DEF s, p

LEMMA CancelledStep ==
  ASSUME TypeInv, TypeInv', Roles, Roles', QueuedCancelled, [Next]_vars
  PROVE  QueuedCancelled'
<1> SUFFICES ASSUME Ranking', NEW t \in DOMAIN trades', trades'[t].status = "queued",
                    account'[trades'[t].portfolio].booked = {}
             PROVE  FALSE
  BY DEF QueuedCancelled
<1>1. CASE ~Ranking
  <2>1. PICK c \in Crons : actor[c].pc = "cancel" /\ (CancelQueued(c) \/ StatementIgnored(c))
    BY <1>1, RankingStarts
  <2>2. c \in Actors
    BY CronRole
  <2>3. ASSUME CancelQueued(c)
        PROVE  FALSE
    <3>1. t \in DOMAIN trades /\ trades'[t].status =
            IF trades[t].status = "queued" THEN "cancelled" ELSE trades[t].status
      BY <2>2, <2>3, CancelledRows
    <3> QED BY <3>1
  <2>4. ASSUME StatementIgnored(c)
        PROVE  FALSE
    <3> DEFINE missed == {trades[s].portfolio : s \in DOMAIN trades}
    <3>1. Lose(Missed(actor[c]), {"lost update"}, {"lost update"}) /\ UNCHANGED rows
      BY <2>4, Zenon DEF StatementIgnored
    <3>2. Missed(actor[c]) = missed
      BY <2>1 DEF Missed
    <3>3. trades' = trades /\ portfolios' = portfolios
      BY <3>1 DEF rows
    <3>4. trades[t].portfolio \in missed /\ trades[t].portfolio \in DOMAIN portfolios
      BY <3>3 DEF TypeInv, Tables
    <3>5. Lose(missed, {"lost update"}, {"lost update"})
      BY <3>1, <3>2
    <3> DEFINE q == trades[t].portfolio
    <3>6. q \in missed /\ q \in DOMAIN portfolios
      BY <3>4
    <3> DEFINE b == {"lost update"}
    <3>7. Lose(missed, b, b) /\ b # {}
      BY <3>5
    <3> HIDE DEF missed, q, b
    <3>8. account'[q].booked = account[q].booked \cup b
      BY <3>3, <3>6, <3>7, LoseKeeps
    <3>9. account'[q].booked = {}
      BY <3>3 DEF q
    <3> QED BY <3>7, <3>8, <3>9
  <2> QED BY <2>1, <2>3, <2>4
<1>2. CASE Ranking
  <2>1. CASE t \notin DOMAIN trades
    <3>1. PICK a \in Actors : Enqueue(a) /\ trades'[t].portfolio = actor[a].portfolio
      BY <2>1, TradesKept
    <3>2. actor[a].op = "queue"
      BY <3>1, RunFacts, StepOps DEF Enqueue
    <3>3. Finalizing(a)
      BY <1>2, <3>2, OthersSee, RankingEnds
    <3>4. Blur(actor[a].portfolio, {"late"}, {}) /\ portfolios' = portfolios
      BY <3>1, <3>3 DEF Enqueue
    <3>5. actor[a].portfolio \in DOMAIN portfolios
      BY <3>1, EnqueuedRows
    <3>6. "late" \in account'[actor[a].portfolio].booked
      BY <3>4, <3>5, BlurKeeps
    <3> QED BY <3>1, <3>6
  <2>2. CASE t \in DOMAIN trades
    <3>1. trades[t].status = "queued"
      BY <2>2, TradeChanges
    <3>2. trades'[t].portfolio = trades[t].portfolio /\ trades[t].portfolio \in DOMAIN portfolios
      BY <2>2, TradesKept DEF KeptTrades, TypeInv, Tables
    <3>3. account[trades[t].portfolio].booked = {}
      BY <3>2, BookedKept
    <3> QED BY <1>2, <2>2, <3>1, <3>3 DEF QueuedCancelled
  <2> QED BY <2>1, <2>2
<1> QED BY <1>1, <1>2

-----------------------------------------------------------------------------
(* What a finalization takes off *)

(* It takes off as much as the row was last marked at, or its portfolio is
   told to be "partly closed".                                             *)
OffsExact == \A a \in Actors :
  /\ actor[a].op = "complete" /\ actor[a].pc = "credit"
  /\ account[actor[a].portfolio].marked \subseteq {"clamped"}
  => actor[a].off = Distance(actor[a].share)

(* What a total that is written anew makes up for, and what not. *)
LEMMA TotalWritten ==
  ASSUME TypeInv, NEW a \in Actors, NEW q \in actor[a].todo, WriteTotal(a, q)
  PROVE  /\ Marking(a, q) /\ "clamped" \notin account'[q].marked
         /\ Booked(q) # {} => "stale row" \in account'[q].marked
<1>1. /\ actor[a].op = "mark"
      /\ account'[q].marked = (account[q].marked \ Mended) \cup
                                IF Booked(q) = {} THEN {} ELSE {"stale row"}
  BY TotalledRows, Zenon
<1> QED BY <1>1 DEF Marking, Mended

LEMMA OffsExactStep ==
  ASSUME TypeInv, TypeInv', OffsExact, [Next]_vars
  PROVE  OffsExact'
<1> SUFFICES ASSUME NEW a \in Actors, actor'[a].op = "complete", actor'[a].pc = "credit",
                    account'[actor'[a].portfolio].marked \subseteq {"clamped"}
             PROVE  actor'[a].off = Distance(actor'[a].share)
  BY DEF OffsExact
<1> DEFINE p == actor[a]
           s == actor'[a]
           q == s.portfolio
<1>1. p \in Actor /\ (p.pc = "credit" => p.portfolio \in DOMAIN portfolios)
  BY RunFacts DEF Legal, AtStep
<1>2. CASE s = p
  <2>1. q \in DOMAIN portfolios /\ a \in Booked(q)
    BY <1>1, <1>2 DEF Booked
  <2>2. ASSUME NEW b \in Actors, q \in actor[b].todo, WriteTotal(b, q)
        PROVE  FALSE
    <3>1. account'[q].marked \subseteq {"clamped"}
      OBVIOUS
    <3> HIDE DEF q
    <3>2. "stale row" \in account'[q].marked
      BY <2>1, <2>2, TotalWritten
    <3> QED BY <3>1, <3>2
  <2>3. account[q].marked \subseteq account'[q].marked
    <3> HIDE DEF q
    <3> QED BY <2>1, <2>2, MarkedKept
  <2> QED BY <1>2, <2>3 DEF OffsExact
<1>3. CASE NothingToBook(p) /\ NothingToBook(s)
  BY <1>3 DEF NothingToBook, Distance
<1>4. ASSUME NEW r \in p.selected, CloseRow(a, r)
      PROVE  s.off = Distance(s.share)
  <2>1. s = Booking(p, r)
    <3>1. Set(a, Booking(p, r))
      BY <1>4, Zenon DEF CloseRow
    <3> QED BY <3>1, SetFacts
  <2>2. s.portfolio = r.row.portfolio /\ s.op = p.op
    BY <1>1, <2>1, BookingFields
  <2>3. /\ p.op = "complete" /\ Booking(p, r).off # Distance(Booking(p, r).share)
        => "partly closed" \in account'[r.row.portfolio].marked
    BY <1>4, ClosedAccount, Zenon
  <2>4. account'[r.row.portfolio].marked \subseteq {"clamped"} /\ p.op = "complete"
    BY <2>2
  <2>5. Booking(p, r).off = Distance(Booking(p, r).share)
    BY <2>3, <2>4, Zenon
  <2> QED BY <2>1, <2>5
<1>5. ~Credit(a)
  <2> SUFFICES ASSUME Credit(a) PROVE FALSE
    OBVIOUS
  <2>1. Set(a, Continue(NextRow(p)))
    BY Zenon DEF Credit
  <2> QED BY <1>1, <2>1, NextRowType, NotToCredit, SetFacts
<1>6. ~Failing(a)
  BY FailedCredits, Zenon
<1>7. ~Crash
  BY CrashBooks, IdleFacts, ZenonT(40)
<1> QED BY <1>2, <1>3, <1>4, <1>5, <1>6, <1>7, Bookers

-----------------------------------------------------------------------------
(* The most that may be unrealized: what the open positions were last marked
   at, and the shares yet to be taken off, be they gains or losses         *)

LEMMA Distances ==
  /\ Distance(0) = 0
  /\ \A x \in Int : Distance(x) \in Int /\ Distance(x) >= 0 /\ x <= Distance(x)
  /\ \A x, y \in Int : Distance(x) <= Distance(x - y) + Distance(y)
BY DEF Distance

Size(x, q) == IF x.status = "open" /\ x.portfolio = q THEN Distance(x.unrealized) ELSE 0

Sizes(q) == [i \in DOMAIN positions |-> Size(positions[i], q)]

SizesAfter(q) == [i \in DOMAIN positions' |-> Size(positions'[i], q)]

ShareSizes(q) == [a \in Actors |-> Distance(ShareOf(q)[a])]

ShareSizesAfter(q) == [a \in Actors |-> Distance(ShareAfter(q)[a])]

Most(q) == Sum(Sizes(q)) + Sum(ShareSizes(q))

MostAfter(q) == Sum(SizesAfter(q)) + Sum(ShareSizesAfter(q))

LEMMA SizeType ==
  ASSUME NEW x \in Position, NEW q
  PROVE  Size(x, q) \in Int /\ Size(x, q) >= 0
<1>1. x.unrealized \in Int
  BY DEF Position
<1>2. Distance(x.unrealized) \in Int /\ Distance(x.unrealized) >= 0
  BY <1>1, Distances
<1> QED BY <1>2 DEF Size

LEMMA SizeTypes ==
  ASSUME TypeInv, TypeInv', NEW q
  PROVE  /\ Sizes(q) \in [DOMAIN positions -> Int]
         /\ SizesAfter(q) \in [DOMAIN positions' -> Int]
         /\ \A i \in DOMAIN positions : Sizes(q)[i] >= 0
         /\ \A i \in DOMAIN positions' : SizesAfter(q)[i] >= 0
         /\ Sum(Sizes(q)) \in Int /\ Sum(SizesAfter(q)) \in Int
<1>1. \A i \in DOMAIN positions : positions[i] \in Position
  BY Lengths DEF TypeInv
<1>2. \A i \in DOMAIN positions' : positions'[i] \in Position
  <2>1. positions' \in Seq(Position)
    BY DEF TypeInv, Tables
  <2> QED BY <2>1, DomainFacts
<1>3. IsFiniteSet(DOMAIN positions) /\ IsFiniteSet(DOMAIN positions')
  BY IdleFacts, WorthTypes
<1>4. /\ Sizes(q) \in [DOMAIN positions -> Int]
      /\ \A i \in DOMAIN positions : Sizes(q)[i] >= 0
  BY <1>1, SizeType DEF Sizes
<1>5. /\ SizesAfter(q) \in [DOMAIN positions' -> Int]
      /\ \A i \in DOMAIN positions' : SizesAfter(q)[i] >= 0
  BY <1>2, SizeType DEF SizesAfter
<1> QED BY <1>3, <1>4, <1>5, SumType

LEMMA ShareSizeTypes ==
  ASSUME TypeInv, TypeInv', NEW q
  PROVE  /\ ShareSizes(q) \in [Actors -> Int] /\ ShareSizesAfter(q) \in [Actors -> Int]
         /\ \A a \in Actors : ShareSizes(q)[a] >= 0 /\ ShareSizesAfter(q)[a] >= 0
         /\ Sum(ShareSizes(q)) \in Int /\ Sum(ShareSizesAfter(q)) \in Int
<1>1. \A a \in Actors : ShareOf(q)[a] \in Int /\ ShareAfter(q)[a] \in Int
  BY ShareTypes
<1>2. /\ ShareSizes(q) \in [Actors -> Int] /\ ShareSizesAfter(q) \in [Actors -> Int]
      /\ \A a \in Actors : ShareSizes(q)[a] >= 0 /\ ShareSizesAfter(q)[a] >= 0
  BY <1>1, Distances DEF ShareSizes, ShareSizesAfter
<1> QED BY <1>2, ActorsFinite, SumType

(* A sum of what is not negative. *)
LEMMA SumPositive ==
  ASSUME NEW D, IsFiniteSet(D), NEW f \in [D -> Int], \A x \in D : f[x] >= 0
  PROVE  Sum(f) >= 0
<1> DEFINE z == [x \in D |-> 0]
<1>1. z \in [D -> Int] /\ \A x \in D : z[x] <= f[x]
  OBVIOUS
<1>2. Sum(z) = 0
  BY SumZero
<1> HIDE DEF z
<1>3. Sum(z) <= Sum(f)
  BY <1>1, SumLess
<1> QED BY <1>2, <1>3, SumType

LEMMA MostTypes ==
  ASSUME TypeInv, TypeInv', NEW q
  PROVE  /\ Most(q) \in Int /\ MostAfter(q) \in Int
         /\ Most(q) >= 0 /\ MostAfter(q) >= 0
<1>1. IsFiniteSet(DOMAIN positions) /\ IsFiniteSet(DOMAIN positions')
  BY IdleFacts, WorthTypes
<1>2. /\ Sum(Sizes(q)) \in Int /\ Sum(SizesAfter(q)) \in Int
      /\ Sum(Sizes(q)) >= 0 /\ Sum(SizesAfter(q)) >= 0
  BY <1>1, SizeTypes, SumPositive
<1>3. /\ Sum(ShareSizes(q)) \in Int /\ Sum(ShareSizesAfter(q)) \in Int
      /\ Sum(ShareSizes(q)) >= 0 /\ Sum(ShareSizesAfter(q)) >= 0
  BY ActorsFinite, ShareSizeTypes, SumPositive
<1> QED BY <1>2, <1>3 DEF Most, MostAfter

(* A total that adds up is within what it is made of. *)
LEMMA WithinMost ==
  ASSUME TypeInv, TypeInv', NEW q, NEW u,
         u = Sum(Worths(q, Idle)) + PendingShare(q)
  PROVE  u <= Most(q)
<1>1. /\ Worths(q, Idle) \in [DOMAIN positions -> Int] /\ Sum(Worths(q, Idle)) \in Int
      /\ IsFiniteSet(DOMAIN positions)
  BY IdleFacts, WorthTypes
<1>2. \A i \in DOMAIN positions : Worths(q, Idle)[i] <= Sizes(q)[i]
  <2> SUFFICES ASSUME NEW i \in DOMAIN positions
               PROVE  Worth(positions[i], q, Idle, i) <= Size(positions[i], q)
    BY DEF Worths, Sizes
  <2>1. positions[i].unrealized \in Int
    <3>1. positions[i] \in Position
      BY Lengths DEF TypeInv
    <3> QED BY <3>1 DEF Position
  <2>2. ~Listed(Idle, i)
    BY IdleFacts DEF Listed
  <2>3. /\ Distance(positions[i].unrealized) >= 0
        /\ positions[i].unrealized <= Distance(positions[i].unrealized)
    BY <2>1, Distances
  <2> QED BY <2>1, <2>2, <2>3 DEF Worth, Size
<1>3. Sum(Worths(q, Idle)) <= Sum(Sizes(q)) /\ Sum(Sizes(q)) \in Int
  BY <1>1, <1>2, SizeTypes, SumLess
<1>4. /\ ShareOf(q) \in [Actors -> Int] /\ PendingShare(q) = Sum(ShareOf(q))
      /\ PendingShare(q) \in Int
  BY ShareTypes
<1>5. \A a \in Actors : ShareOf(q)[a] <= ShareSizes(q)[a]
  BY <1>4, Distances DEF ShareSizes
<1>6. Sum(ShareOf(q)) <= Sum(ShareSizes(q)) /\ Sum(ShareSizes(q)) \in Int
  BY <1>4, <1>5, ActorsFinite, ShareSizeTypes, SumLess
<1> QED BY <1>1, <1>3, <1>4, <1>6 DEF Most

(* One position is written over. *)
LEMMA SizeMoves ==
  ASSUME TypeInv, TypeInv', NEW q, NEW i \in DOMAIN positions,
         DOMAIN positions' = DOMAIN positions,
         \A j \in DOMAIN positions \ {i} : positions'[j] = positions[j]
  PROVE  Sum(SizesAfter(q)) = Sum(Sizes(q)) + (Size(positions'[i], q) - Size(positions[i], q))
<1>1. /\ Sizes(q) \in [DOMAIN positions -> Int]
      /\ SizesAfter(q) \in [DOMAIN positions -> Int]
      /\ IsFiniteSet(DOMAIN positions)
  BY IdleFacts, WorthTypes, SizeTypes
<1>2. /\ SizesAfter(q)[i] = Size(positions'[i], q) /\ Sizes(q)[i] = Size(positions[i], q)
      /\ \A j \in DOMAIN positions \ {i} : SizesAfter(q)[j] = Sizes(q)[j]
  BY DEF Sizes, SizesAfter
<1>3. Sum(SizesAfter(q)) = Sum(Sizes(q)) + (SizesAfter(q)[i] - Sizes(q)[i])
  BY <1>1, <1>2, SumChange
<1> QED BY <1>2, <1>3

LEMMA SizeOpened ==
  ASSUME TypeInv, TypeInv', NEW q, NEW a \in Actors, OpenPosition(a)
  PROVE  Sum(SizesAfter(q)) = Sum(Sizes(q))
<1> DEFINE k == Len(positions) + 1
<1>1. /\ DOMAIN positions \subseteq DOMAIN positions'
      /\ DOMAIN positions' \subseteq DOMAIN positions \cup {k}
      /\ \A i \in DOMAIN positions : positions'[i] = positions[i] /\ i # k
      /\ k \in DOMAIN positions' => positions'[k].unrealized = 0
  <2> DEFINE x == [portfolio |-> actor[a].portfolio, direction |-> actor[a].direction,
                   quantity |-> actor[a].left, entry |-> actor[a].price,
                   mark |-> actor[a].price, unrealized |-> 0, status |-> "open"]
  <2>1. x.unrealized = 0
    OBVIOUS
  <2>2. /\ DOMAIN positions \subseteq DOMAIN positions'
        /\ DOMAIN positions' \subseteq DOMAIN positions \cup {k}
        /\ \A i \in DOMAIN positions : positions'[i] = positions[i] /\ i # k
        /\ k \in DOMAIN positions' => positions'[k] = x
    BY OpenedRows
  <2> HIDE DEF x
  <2> QED BY <2>1, <2>2
<1>2. /\ Sizes(q) \in [DOMAIN positions -> Int]
      /\ SizesAfter(q) \in [DOMAIN positions' -> Int]
      /\ Sum(Sizes(q)) \in Int
  BY SizeTypes
<1>6. IsFiniteSet(DOMAIN positions')
  BY IdleFacts, WorthTypes
<1>5. \A i \in DOMAIN positions : SizesAfter(q)[i] = Sizes(q)[i]
  BY <1>1 DEF Sizes, SizesAfter
<1>3. CASE k \notin DOMAIN positions'
  <2>1. DOMAIN positions' = DOMAIN positions
    BY <1>1, <1>3
  <2>2. SizesAfter(q) = Sizes(q)
    BY <1>2, <1>5, <2>1
  <2> QED BY <2>2
<1>4. CASE k \in DOMAIN positions'
  <2>1. DOMAIN positions = DOMAIN positions' \ {k}
    BY <1>1, <1>4
  <2>2. SizesAfter(q)[k] = 0
    BY <1>1, <1>4, Distances DEF SizesAfter, Size
  <2> DEFINE f == Sizes(q)
             g == SizesAfter(q)
             E == DOMAIN positions'
  <2>3. /\ IsFiniteSet(E) /\ k \in E /\ f \in [E \ {k} -> Int] /\ g \in [E -> Int]
        /\ \A i \in E \ {k} : g[i] = f[i]
    BY <1>2, <1>4, <1>5, <1>6, <2>1
  <2>4. Sum(g) = Sum(f) + g[k]
    <3> HIDE DEF f, g, E, k
    <3> QED BY <2>3, SumExtend
  <2> QED BY <1>2, <2>2, <2>4
<1> QED BY <1>3, <1>4

(* Rows of other portfolios are closed and marked. *)
LEMMA SizesKept ==
  ASSUME TypeInv, TypeInv', RowsAgree, [Next]_vars, NEW q,
         \A b \in Actors : \A r \in actor[b].selected :
           CloseRow(b, r) \/ MarkPosition(b, r) => r.row.portfolio # q
  PROVE  Sum(SizesAfter(q)) = Sum(Sizes(q))
<1>1. CASE positions' = positions
  <2>1. SizesAfter(q) = Sizes(q)
    BY <1>1 DEF Sizes, SizesAfter
  <2> QED BY <2>1
<1>2. CASE \E b \in Actors : OpenPosition(b)
  BY <1>2, SizeOpened
<1>3. ASSUME NEW b \in Actors, NEW r \in actor[b].selected, CloseRow(b, r) \/ MarkPosition(b, r)
      PROVE  Sum(SizesAfter(q)) = Sum(Sizes(q))
  <2> DEFINE i == r.id
             x == positions'[i]
  <2>1. /\ i \in DOMAIN positions
        /\ positions' = [positions EXCEPT ![i] = x] /\ x.portfolio = positions[i].portfolio
    BY <1>3, ClosedPosition, MarkedPosition, RunFacts, RowFacts
  <2>2. positions[i].portfolio # q
    BY <1>3 DEF RowsAgree
  <2> HIDE DEF i, x
  <2>3. /\ DOMAIN positions' = DOMAIN positions
        /\ \A j \in DOMAIN positions \ {i} : positions'[j] = positions[j]
    BY <2>1
  <2>4. positions'[i].portfolio # q
    BY <2>1, <2>2 DEF x
  <2>5. Size(positions'[i], q) = 0 /\ Size(positions[i], q) = 0
    BY <2>2, <2>4 DEF Size
  <2> QED BY <2>1, <2>3, <2>5, SizeMoves, SizeTypes
<1> QED BY <1>1, <1>2, <1>3, WhichStep

LEMMA ShareSizeMoves ==
  ASSUME TypeInv, TypeInv', NEW a \in Actors, NEW q,
         \A b \in Actors \ {a} : actor'[b] = actor[b]
  PROVE  Sum(ShareSizesAfter(q)) = Sum(ShareSizes(q))
           + (Distance(ShareAfter(q)[a]) - Distance(ShareOf(q)[a]))
<1>1. \A b \in Actors \ {a} : ShareSizesAfter(q)[b] = ShareSizes(q)[b]
  BY DEF ShareSizesAfter, ShareSizes, ShareAfter, ShareOf
<1>2. ShareSizes(q) \in [Actors -> Int] /\ ShareSizesAfter(q) \in [Actors -> Int]
  BY ShareSizeTypes
<1>3. Sum(ShareSizesAfter(q)) = Sum(ShareSizes(q))
        + (ShareSizesAfter(q)[a] - ShareSizes(q)[a])
  BY <1>1, <1>2, ActorsFinite, SumChange
<1> QED BY <1>3 DEF ShareSizesAfter, ShareSizes

(* A share comes with a row that is closed and goes when it is booked, unless
   it is lost.                                                             *)
LEMMA ShareKept ==
  ASSUME TypeInv, TypeInv', [Next]_vars, NEW q \in DOMAIN portfolios, NEW a \in Actors,
         "lost update" \notin account'[q].marked,
         Credit(a) => actor[a].portfolio # q,
         \A r \in actor[a].selected : CloseRow(a, r) => r.row.portfolio # q
  PROVE  ShareAfter(q)[a] = ShareOf(q)[a]
<1>1. CASE actor'[a] = actor[a]
  BY <1>1 DEF ShareAfter, ShareOf
<1>2. CASE NothingToBook(actor[a]) /\ NothingToBook(actor'[a])
  BY <1>2, Zenon DEF ShareAfter, ShareOf, NothingToBook
<1>3. ASSUME \/ actor[a].pc # "credit"
             \/ actor[a].portfolio # q,
             \/ actor'[a].pc # "credit"
             \/ actor'[a].portfolio # q
      PROVE  ShareAfter(q)[a] = ShareOf(q)[a]
  <2>1. ShareOf(q)[a] = 0
    <3>1. CASE actor[a].pc # "credit"
      BY <3>1, Sharers, Zenon
    <3>2. CASE actor[a].portfolio # q
      BY <3>2 DEF ShareOf
    <3> QED BY <1>3, <3>1, <3>2
  <2>2. ShareAfter(q)[a] = 0
    <3>1. CASE actor'[a].pc # "credit"
      BY <3>1, Sharers
    <3>2. CASE actor'[a].portfolio # q
      BY <3>2 DEF ShareAfter
    <3> QED BY <1>3, <3>1, <3>2, Zenon
  <2> QED BY <2>1, <2>2
<1>4. ASSUME NEW r \in actor[a].selected, CloseRow(a, r)
      PROVE  ShareAfter(q)[a] = ShareOf(q)[a]
  <2>1. actor[a].pc = "close" /\ Set(a, Booking(actor[a], r))
    BY <1>4, Zenon DEF CloseRow
  <2>2. actor'[a].portfolio = r.row.portfolio
    <3> DEFINE p == actor[a]
    <3>1. actor'[a] = Booking(p, r) /\ p \in Actor
      BY <2>1, SetFacts, RunFacts, Zenon
    <3> HIDE DEF p
    <3>2. Booking(p, r).portfolio = r.row.portfolio
      BY <3>1, BookingFields
    <3> QED BY <3>1, <3>2
  <2> QED BY <1>3, <1>4, <2>1, <2>2, Zenon
<1>5. CASE Credit(a)
  <2>1. Set(a, Continue(NextRow(actor[a]))) /\ actor[a].portfolio # q
    BY <1>5, Zenon DEF Credit
  <2>2. actor'[a].pc # "credit"
    BY <2>1, RunFacts, NextRowType, NotToCredit, SetFacts, Zenon
  <2> QED BY <1>3, <2>1, <2>2, Zenon
<1>6. CASE Failing(a)
  <2>1. /\ actor[a].pc = "credit" => actor[a].portfolio # q
        /\ actor'[a].pc = "credit" => actor'[a].portfolio # q
    BY <1>6, FailedCredits, Zenon
  <2> QED BY <1>3, <2>1, Zenon
<1>7. CASE Crash
  <2>1. actor'[a].pc # "credit"
    BY <1>7, CrashBooks, IdleFacts, Zenon
  <2>2. actor[a].pc = "credit" => actor[a].portfolio # q
    BY <1>7, CrashBooks, Zenon
  <2> QED BY <1>3, <2>1, <2>2, Zenon
<1> QED BY <1>1, <1>2, <1>4, <1>5, <1>6, <1>7, Bookers, Zenon

-----------------------------------------------------------------------------
(* Portfolios a finalization has held at zero *)

ClampedInv == \A q \in DOMAIN portfolios :
  /\ "clamped" \in account[q].marked
  /\ account[q].marked \subseteq {"clamped"}
  /\ \A a \in Actors : ~Marking(a, q)
  => 0 <= portfolios[q].unrealized /\ portfolios[q].unrealized <= Most(q)

LEMMA Within ==
  ASSUME TypeInv, TypeInv', StandingsAddUp, ClampedInv, NEW q \in DOMAIN portfolios,
         account[q].marked \subseteq {"clamped"}, \A a \in Actors : ~Marking(a, q)
  PROVE  /\ portfolios[q].unrealized <= Most(q)
         /\ "clamped" \in account[q].marked => 0 <= portfolios[q].unrealized
<1>1. CASE "clamped" \in account[q].marked
  BY <1>1 DEF ClampedInv
<1>2. CASE "clamped" \notin account[q].marked
  <2>1. account[q].marked = {}
    BY <1>2
  <2>2. portfolios[q].unrealized = Sum(Worths(q, Idle)) + PendingShare(q)
    BY <2>1, OpenGains DEF StandingsAddUp
  <2> QED BY <1>2, <2>2, WithinMost
<1> QED BY <1>1, <1>2

(* A row is closed, whole or in part: what it leaves and its share are no less
   than what it was marked at.                                             *)
LEMMA ClosedMost ==
  ASSUME TypeInv, TypeInv', RowsAgree, NEW a \in Actors, NEW r \in actor[a].selected,
         CloseRow(a, r), NEW q \in DOMAIN portfolios, account'[q].marked \subseteq {"clamped"}
  PROVE  Most(q) <= MostAfter(q) /\ portfolios' = portfolios
<1> DEFINE p == actor[a]
           i == r.id
           x == positions'[i]
           y == positions[i]
           n == CloseQuantity(p, r.row)
           u == r.row.unrealized
           share == Booking(p, r).share
<1>1. /\ p \in Actor /\ p.pc = "close"
      /\ Legal(p, DOMAIN portfolios, DOMAIN positions, DOMAIN trades, DOMAIN channels)
  BY RunFacts, Zenon DEF CloseRow
<1>2. /\ i \in DOMAIN positions /\ u \in Int /\ r.row.status = "open"
      /\ r.row.quantity \in Nat /\ r.row.quantity > 0
  BY <1>1, RowFacts
<1>3. /\ positions' = [positions EXCEPT ![i] = x] /\ x.portfolio = y.portfolio
      /\ IF n = r.row.quantity THEN x.status = "closed" /\ x.unrealized = 0
         ELSE x.status = y.status /\ x.unrealized = u - share
  BY ClosedPosition
<1>4. /\ actor'[a] = Booking(p, r) /\ \A b \in Actors \ {a} : actor'[b] = actor[b]
      /\ portfolios' = portfolios
  <2>1. Set(a, Booking(p, r)) /\ portfolios' = portfolios
    BY Zenon DEF CloseRow
  <2> QED BY <2>1, SetFacts
<1>5. /\ Booking(p, r).portfolio = r.row.portfolio /\ Booking(p, r).op = p.op
      /\ share = (u * n) \div r.row.quantity
  BY <1>1, BookingFields
<1>6. share \in Int
  <2>1. actor'[a] \in Actor
    BY DEF TypeInv
  <2> QED BY <1>4, <2>1 DEF Actor
<1>7. DOMAIN positions' = DOMAIN positions
      /\ \A j \in DOMAIN positions \ {i} : positions'[j] = positions[j]
  <2> HIDE DEF i, x
  <2> QED BY <1>3
<1>8. Sum(ShareSizesAfter(q)) = Sum(ShareSizes(q))
        + (Distance(ShareAfter(q)[a]) - Distance(ShareOf(q)[a]))
  BY <1>4, ShareSizeMoves
<1>9. ShareOf(q)[a] = 0 /\ Distance(ShareOf(q)[a]) = 0
  <2>1. ShareOf(q)[a] = 0
    BY <1>1, Sharers
  <2> QED BY <2>1, Distances
<1>10. ShareAfter(q)[a] = IF r.row.portfolio = q /\ p.op # "close" THEN share ELSE 0
  BY <1>4, <1>5 DEF ShareAfter
<1>11. Sum(SizesAfter(q)) = Sum(Sizes(q)) + (Size(x, q) - Size(y, q))
  BY <1>2, <1>7, SizeMoves
<1>12. y.portfolio = r.row.portfolio
  BY DEF RowsAgree
<1>13. Size(y, q) <= Size(x, q) + Distance(ShareAfter(q)[a])
  <2>1. CASE r.row.portfolio # q
    <3>1. Size(x, q) = 0 /\ Size(y, q) = 0
      BY <1>3, <1>12, <2>1 DEF Size
    <3>2. Distance(ShareAfter(q)[a]) = 0
      BY <1>10, <2>1, Distances
    <3> HIDE DEF x, y, i
    <3> QED BY <3>1, <3>2
  <2>2. CASE r.row.portfolio = q
    <3>1. /\ y # r.row => "stale row" \in account'[r.row.portfolio].marked
          /\ p.op = "close" /\ u # 0 => "closed by hand" \in account'[r.row.portfolio].marked
      BY ClosedAccount, Zenon
    <3>2. y = r.row /\ (p.op = "close" => u = 0)
      BY <2>2, <3>1, Zenon
    <3>3. Size(y, q) = Distance(u)
      BY <1>2, <2>2, <3>2 DEF Size
    <3>4. CASE n = r.row.quantity
      <4>1. share = u
        <5> HIDE DEF share, u, n
        <5> QED BY <1>2, <1>5, <3>4, WholeShare DEF u
      <4>2. Size(x, q) = 0
        BY <1>3, <3>4 DEF Size
      <4>3. ShareAfter(q)[a] = u
        BY <1>10, <2>2, <3>2, <4>1
      <4>4. Distance(u) \in Int
        BY <1>2, Distances
      <4> HIDE DEF share, u, x, y
      <4> QED BY <3>3, <4>2, <4>3, <4>4
    <3>5. CASE n # r.row.quantity
      <4>1. p.op # "close"
        BY <3>5 DEF CloseQuantity
      <4>2. Size(x, q) = Distance(u - share)
        BY <1>2, <1>3, <1>12, <2>2, <3>2, <3>5 DEF Size
      <4>3. ShareAfter(q)[a] = share
        BY <1>10, <2>2, <4>1
      <4>4. Distance(u) <= Distance(u - share) + Distance(share)
        BY <1>2, <1>6, Distances
      <4> HIDE DEF share, u, x, y
      <4> QED BY <3>3, <4>2, <4>3, <4>4
    <3> QED BY <3>4, <3>5
  <2> QED BY <2>1, <2>2
<1>14. /\ Sum(Sizes(q)) \in Int /\ Sum(ShareSizes(q)) \in Int
       /\ Distance(ShareAfter(q)[a]) \in Int
  BY SizeTypes, ShareSizeTypes, ShareTypes, Distances
<1>15. Size(x, q) \in Int /\ Size(y, q) \in Int
  <2>1. x \in Position /\ y \in Position
    BY <1>2, ClosedPosition, Lengths DEF TypeInv
  <2> QED BY <2>1, SizeType
<1> HIDE DEF x, y, share, u, n, i
<1> QED BY <1>4, <1>8, <1>9, <1>11, <1>13, <1>14, <1>15 DEF Most, MostAfter

(* The finalization books a row: what is left is neither below zero nor more
   than what is left to take off.                                          *)
LEMMA CreditedMost ==
  ASSUME TypeInv, TypeInv', OffsExact, NEW a \in Actors, Credit(a),
         NEW q \in DOMAIN portfolios, actor[a].portfolio = q,
         "clamped" \in account'[q].marked, account'[q].marked \subseteq {"clamped"},
         portfolios[q].unrealized <= Most(q)
  PROVE  0 <= portfolios'[q].unrealized /\ portfolios'[q].unrealized <= MostAfter(q)
<1> DEFINE p == actor[a]
           x == portfolios'[q]
           d == Distance(p.share)
           old == portfolios[q].unrealized
<1>1. /\ p \in Actor /\ p.op \in {"close", "settle", "complete"} /\ p.pc = "credit"
      /\ Set(a, Continue(NextRow(p))) /\ positions' = positions
  <2>1. p.pc = "credit" /\ Set(a, Continue(NextRow(p))) /\ positions' = positions
    BY DEF Credit
  <2> QED BY <2>1, RunFacts, StepOps
<1>2. /\ x.unrealized = IF p.op = "complete"
                        THEN AtLeastZero(portfolios[q].unrealized - p.off)
                        ELSE portfolios[q].unrealized - p.off
      /\ account'[q].marked = account[q].marked \cup
                 IF p.op = "complete"
                 THEN IF x.unrealized = portfolios[q].unrealized - p.share
                      THEN {} ELSE {"clamped"}
                 ELSE IF "clamped" \in account[q].marked THEN {"late"} ELSE {}
  BY CreditedRows
<1>3. p.op = "complete" /\ account[q].marked \subseteq {"clamped"}
  <2> HIDE DEF p, x
  <2> QED BY <1>2
<1>4. p.off = d
  BY <1>1, <1>3 DEF OffsExact
<1>5. x.unrealized = AtLeastZero(old - d)
  BY <1>2, <1>3, <1>4
<1>6. actor'[a].pc # "credit" /\ \A b \in Actors \ {a} : actor'[b] = actor[b]
  BY <1>1, NextRowType, NotToCredit, SetFacts
<1>7. /\ ShareOf(q)[a] = p.share /\ p.share \in Int
      /\ ShareAfter(q)[a] = 0
  BY <1>1, <1>3, <1>6, Sharers DEF ShareOf, Actor
<1>8. Sum(ShareSizesAfter(q)) = Sum(ShareSizes(q)) - d
  <2>1. Sum(ShareSizesAfter(q)) = Sum(ShareSizes(q))
          + (Distance(ShareAfter(q)[a]) - Distance(ShareOf(q)[a]))
    BY <1>6, ShareSizeMoves
  <2>2. Sum(ShareSizes(q)) \in Int /\ d \in Int
    BY <1>7, ShareSizeTypes, Distances
  <2> QED BY <1>7, <2>1, <2>2, Distances
<1>9. SizesAfter(q) = Sizes(q)
  BY <1>1 DEF Sizes, SizesAfter
<1>10. MostAfter(q) = Most(q) - d
  <2>1. Sum(ShareSizes(q)) \in Int /\ Sum(Sizes(q)) \in Int /\ d \in Int
    BY <1>7, ShareSizeTypes, SizeTypes, Distances
  <2> HIDE DEF d
  <2> QED BY <1>8, <1>9, <2>1 DEF Most, MostAfter
<1>11. /\ Most(q) \in Int /\ MostAfter(q) \in Int /\ MostAfter(q) >= 0
       /\ d \in Int /\ old \in Int
  BY <1>7, MostTypes, Distances, AccountFields DEF TypeInv
<1>12. old <= Most(q)
  OBVIOUS
<1> HIDE DEF d, old, x
<1>13. 0 <= AtLeastZero(old - d) /\ AtLeastZero(old - d) <= MostAfter(q)
  BY <1>10, <1>11, <1>12 DEF AtLeastZero
<1> QED BY <1>5, <1>13 DEF x

(* Totals are written by markings and by what is booked. *)
LEMMA UnrealizedKept ==
  ASSUME TypeInv, [Next]_vars, NEW q \in DOMAIN portfolios,
         \A a \in Actors : ~(q \in actor[a].todo /\ WriteTotal(a, q)),
         \A a \in Actors : Credit(a) => actor[a].portfolio # q
  PROVE  portfolios'[q].unrealized = portfolios[q].unrealized
<1>1. CASE portfolios' = portfolios
  BY <1>1
<1>2. ASSUME NEW a \in Actors, CreatePortfolio(a)
      PROVE  portfolios'[q].unrealized = portfolios[q].unrealized
  BY <1>2, InsertedRows, Zenon
<1>3. ASSUME NEW a \in Actors, DeletePortfolio(a) \/ Charge(a)
      PROVE  portfolios'[q].unrealized = portfolios[q].unrealized
  <2> DEFINE s == actor[a].portfolio
  <2>1. /\ \A b \in DOMAIN portfolios \ {s} : portfolios'[b] = portfolios[b]
        /\ portfolios'[s].unrealized = portfolios[s].unrealized
    BY <1>3, CleanedRows, ChargedRows, ZenonT(40)
  <2> HIDE DEF s
  <2> QED BY <2>1
<1>4. ASSUME NEW a \in Actors, Credit(a)
      PROVE  portfolios'[q].unrealized = portfolios[q].unrealized
  <2> DEFINE s == actor[a].portfolio
             x == portfolios'[s]
  <2>1. portfolios' = [portfolios EXCEPT ![s] = x]
    BY <1>4, CreditedRows
  <2>2. s # q
    BY <1>4
  <2> HIDE DEF s, x
  <2> QED BY <2>1, <2>2
<1>5. ASSUME NEW a \in Actors, NEW s \in actor[a].todo, WriteTotal(a, s)
      PROVE  portfolios'[q].unrealized = portfolios[q].unrealized
  <2>1. s # q
    BY <1>5
  <2>2. \A b \in DOMAIN portfolios \ {s} : portfolios'[b] = portfolios[b]
    BY <1>5, TotalledRows, ZenonT(40)
  <2> QED BY <2>1, <2>2
<1> QED BY <1>1, <1>2, <1>3, <1>4, <1>5, WhichStep

(* Who marks a row is marking its portfolio. *)
LEMMA MarkersMark ==
  ASSUME TypeInv, NEW b \in Actors, NEW r \in actor[b].selected, MarkPosition(b, r)
  PROVE  Marking(b, r.row.portfolio)
<1>1. actor[b].pc = "mark"
  BY Zenon DEF MarkPosition
<1>2. actor[b].op = "mark"
  BY <1>1, RunFacts, StepOps
<1> QED BY <1>2, RunFacts DEF Legal, Keeps, RowsLegal, Marking

(* What a portfolio that is held at zero, and marked by nobody, was before. *)
LEMMA ClampedBefore ==
  ASSUME TypeInv, TypeInv', Offs, [Next]_vars, NEW q \in DOMAIN portfolios',
         "clamped" \in account'[q].marked, account'[q].marked \subseteq {"clamped"},
         \A a \in Actors : ~(actor'[a].op = "mark" /\ q \in actor'[a].todo)
  PROVE  /\ q \in DOMAIN portfolios
         /\ \A a \in Actors : ~(q \in actor[a].todo /\ WriteTotal(a, q))
         /\ \A a \in Actors : ~Marking(a, q)
         /\ account[q].marked \subseteq {"clamped"}
         /\ \/ "clamped" \in account[q].marked
            \/ \E a \in Actors : /\ Credit(a) /\ actor[a].op = "complete"
                                 /\ actor[a].portfolio = q
<1>1. q \in DOMAIN portfolios
  <2> SUFFICES ASSUME q \notin DOMAIN portfolios PROVE FALSE
    OBVIOUS
  <2>1. PICK a \in Actors : CreatePortfolio(a) /\ q = Len(portfolios) + 1
    BY NewPortfolio
  <2>2. account'[q] = NoAccount
    BY <2>1, InsertedRows, Zenon
  <2> QED BY <2>2 DEF NoAccount
<1>2. \A a \in Actors : ~(q \in actor[a].todo /\ WriteTotal(a, q))
  BY TotalWritten
<1>3. \A a \in Actors : ~Marking(a, q)
  BY <1>1, <1>2, MarkingEnds, Zenon DEF Marking
<1> QED BY <1>1, <1>2, <1>3, MarkedKept

LEMMA ClampedStep ==
  ASSUME TypeInv, TypeInv', RowsAgree, Offs, OffsExact, StandingsAddUp, ClampedInv,
         [Next]_vars
  PROVE  ClampedInv'
<1> SUFFICES ASSUME NEW q \in DOMAIN portfolios',
                    "clamped" \in account'[q].marked, account'[q].marked \subseteq {"clamped"},
                    \A a \in Actors : ~(actor'[a].op = "mark" /\ q \in actor'[a].todo)
             PROVE  /\ 0 <= portfolios'[q].unrealized
                    /\ portfolios'[q].unrealized <= MostAfter(q)
  <2>1. ASSUME NEW q PROVE Most(q)' = MostAfter(q)
    <3>1. Sizes(q)' = SizesAfter(q)
      BY DEF Sizes, SizesAfter
    <3>2. ShareSizes(q)' = ShareSizesAfter(q)
      BY DEF ShareSizes, ShareSizesAfter, ShareOf, ShareAfter
    <3> QED BY <3>1, <3>2 DEF Most, MostAfter
  <2> QED BY <2>1 DEF ClampedInv, Marking
<1>1. /\ q \in DOMAIN portfolios
      /\ \A a \in Actors : ~(q \in actor[a].todo /\ WriteTotal(a, q))
      /\ \A a \in Actors : ~Marking(a, q)
      /\ account[q].marked \subseteq {"clamped"}
      /\ \/ "clamped" \in account[q].marked
         \/ \E a \in Actors : /\ Credit(a) /\ actor[a].op = "complete"
                              /\ actor[a].portfolio = q
  BY ClampedBefore
<1>2. /\ portfolios[q].unrealized <= Most(q)
      /\ "clamped" \in account[q].marked => 0 <= portfolios[q].unrealized
  BY <1>1, Within
<1>3. ASSUME NEW a \in Actors, Credit(a), actor[a].portfolio = q
      PROVE  /\ 0 <= portfolios'[q].unrealized
             /\ portfolios'[q].unrealized <= MostAfter(q)
  BY <1>1, <1>2, <1>3, CreditedMost
<1>4. ASSUME NEW a \in Actors, NEW r \in actor[a].selected, CloseRow(a, r),
             \A b \in Actors : ~(Credit(b) /\ actor[b].portfolio = q)
      PROVE  /\ 0 <= portfolios'[q].unrealized
             /\ portfolios'[q].unrealized <= MostAfter(q)
  <2>1. Most(q) <= MostAfter(q) /\ portfolios' = portfolios
    BY <1>1, <1>4, ClosedMost
  <2>2. Most(q) \in Int /\ MostAfter(q) \in Int /\ portfolios[q].unrealized \in Int
    BY <1>1, MostTypes, AccountFields DEF TypeInv
  <2>3. 0 <= portfolios[q].unrealized
    BY <1>1, <1>2, <1>4
  <2> QED BY <1>2, <2>1, <2>2, <2>3
<1>5. ASSUME \A a \in Actors : Credit(a) => actor[a].portfolio # q,
             \A a \in Actors : \A r \in actor[a].selected : ~CloseRow(a, r)
      PROVE  /\ 0 <= portfolios'[q].unrealized
             /\ portfolios'[q].unrealized <= MostAfter(q)
  <2>1. 0 <= portfolios[q].unrealized
    BY <1>1, <1>2, <1>5
  <2>2. portfolios'[q].unrealized = portfolios[q].unrealized
    BY <1>1, <1>5, UnrealizedKept
  <2>3. Sum(SizesAfter(q)) = Sum(Sizes(q))
    <3>1. ASSUME NEW b \in Actors, NEW r \in actor[b].selected,
                 CloseRow(b, r) \/ MarkPosition(b, r)
          PROVE  r.row.portfolio # q
      BY <1>1, <1>5, <3>1, MarkersMark
    <3> QED BY <3>1, SizesKept
  <2>4. \A a \in Actors : ShareAfter(q)[a] = ShareOf(q)[a]
    BY <1>1, <1>5, ShareKept
  <2>5. ShareSizesAfter(q) = ShareSizes(q)
    BY <2>4 DEF ShareSizesAfter, ShareSizes
  <2>6. MostAfter(q) = Most(q)
    BY <2>3, <2>5 DEF Most, MostAfter
  <2> QED BY <1>2, <2>1, <2>2, <2>6
<1> QED BY <1>3, <1>4, <1>5

(* Who marks a portfolio that has no open position left is told. *)
MarkersTold == \A b \in Actors : \A q \in DOMAIN portfolios :
  Marking(b, q) /\ OpenOf(q) = {} => "stale row" \in account[q].marked

(* An open position that a step closes. *)
LEMMA Closers ==
  ASSUME TypeInv, [Next]_vars, NEW i \in OpenPositions, i \notin OpenPositions'
  PROVE  \E a \in Actors : \E r \in actor[a].selected : CloseRow(a, r) /\ r.id = i
<1>1. i \in DOMAIN positions /\ positions[i].status = "open"
  BY DEF OpenPositions
<1>2. i \in DOMAIN positions'
  BY <1>1, PositionsKept DEF KeptPositions
<1>3. positions'[i].status # "open"
  BY <1>2 DEF OpenPositions
<1>4. positions' # positions
  BY <1>1, <1>3
<1>5. ASSUME NEW a \in Actors, OpenPosition(a)
      PROVE  FALSE
  <2>1. positions'[i] = positions[i]
    BY <1>1, <1>5, OpenedRows
  <2> QED BY <1>1, <1>3, <2>1
<1>6. ASSUME NEW a \in Actors, NEW r \in actor[a].selected, MarkPosition(a, r)
      PROVE  FALSE
  <2> DEFINE x == positions'[r.id]
             j == r.id
  <2>1. positions' = [positions EXCEPT ![j] = x] /\ x.status = positions[j].status
        /\ j \in DOMAIN positions /\ x = positions'[j]
    BY <1>6, MarkedPosition
  <2> HIDE DEF x, j
  <2> QED BY <1>1, <1>3, <2>1
<1>7. ASSUME NEW a \in Actors, NEW r \in actor[a].selected, CloseRow(a, r), r.id # i
      PROVE  FALSE
  <2> DEFINE x == positions'[r.id]
             j == r.id
  <2>1. positions' = [positions EXCEPT ![j] = x] /\ j # i
    BY <1>7, ClosedPosition
  <2> HIDE DEF x, j
  <2> QED BY <1>1, <1>3, <2>1
<1> QED BY <1>4, <1>5, <1>6, <1>7, WhichStep

LEMMA ToldStep ==
  ASSUME TypeInv, TypeInv', RowsAgree, Offs, MarkersTold, [Next]_vars
  PROVE  MarkersTold'
<1> SUFFICES ASSUME NEW b \in Actors, NEW q \in DOMAIN portfolios',
                    actor'[b].op = "mark", q \in actor'[b].todo, OpenOf(q)' = {}
             PROVE  "stale row" \in account'[q].marked
  BY DEF MarkersTold, Marking
<1>1. ASSUME Marking(b, q)
      PROVE  "stale row" \in account'[q].marked
  <2>1. q \in DOMAIN portfolios
    BY <1>1, RunFacts DEF Marking, Legal, Keeps, TodoLegal
  <2>2. CASE OpenOf(q) = {}
    BY <1>1, <2>1, <2>2, StillMarked DEF MarkersTold, Mended
  <2>3. CASE OpenOf(q) # {}
    <3>1. PICK i \in OpenPositions : positions[i].portfolio = q
      BY <2>3 DEF OpenOf
    <3>2. i \in DOMAIN positions
      BY DEF OpenPositions
    <3>3. positions'[i].portfolio = q
      BY <3>1, <3>2, PositionsKept DEF KeptPositions
    <3>4. i \notin OpenPositions'
      BY <3>3 DEF OpenOf
    <3>5. PICK a \in Actors : \E r \in actor[a].selected : CloseRow(a, r) /\ r.id = i
      BY <3>4, Closers
    <3>6. PICK r \in actor[a].selected : CloseRow(a, r) /\ r.id = i
      BY <3>5
    <3>7. r.row.portfolio = q
      BY <3>1, <3>6 DEF RowsAgree
    <3> QED BY <1>1, <3>6, <3>7, ClosedAccount, Zenon
  <2> QED BY <2>2, <2>3
<1>2. CASE ~Marking(b, q)
  <2>1. /\ actor[b].pc = "positions" => actor[b].todo = {}
        /\ actor[b].op # "mark" \/ q \notin actor[b].todo
    BY <1>2 DEF Offs, Marking
  <2>2. ASSUME NEW r \in actor[b].selected, actor[b].pc = "mark", actor'[b] = NextMark(actor[b], r)
        PROVE  FALSE
    <3> DEFINE p == actor[b]
    <3>1. p \in Actor /\ p.op = "mark" /\ actor'[b] = NextMark(p, r)
      BY <2>2, RunFacts, StepOps
    <3> HIDE DEF p
    <3>2. NextMark(p, r).todo = p.todo
      BY <3>1 DEF NextMark, Actor
    <3>3. q \in p.todo
      BY <3>1, <3>2
    <3> QED BY <2>1, <3>1, <3>3 DEF p
  <2>3. ASSUME NEW s \in actor[b].todo, actor[b].pc = "total", actor'[b] = NextTotal(actor[b], s)
        PROVE  FALSE
    <3> DEFINE p == actor[b]
    <3>1. p \in Actor /\ p.op = "mark" /\ actor'[b] = NextTotal(p, s)
      BY <2>3, RunFacts, StepOps
    <3> HIDE DEF p
    <3>2. NextTotal(p, s).todo \subseteq p.todo
      BY <3>1, IdleFacts DEF NextTotal, Actor
    <3>3. q \in p.todo
      BY <3>1, <3>2
    <3> QED BY <2>1, <3>1, <3>3 DEF p
  <2>4. ~Crash /\ actor'[b] # Idle
    BY CrashBooks, IdleFacts
  <2>5. SelectMarks(b) /\ actor[b].pc = "positions"
    BY <2>1, <2>2, <2>3, <2>4, Markers
  <2>6. \E i \in OpenPositions : positions[i].portfolio = q
    <3> DEFINE p == actor[b]
               owners == {positions[i].portfolio : i \in OpenPositions}
               x == [p EXCEPT !.pc = "mark", !.selected = Select(OpenPositions),
                              !.todo = owners,
                              !.totals = [s \in DOMAIN @ |-> Total(s, p.price)]]
    <3>1. p \in Actor /\ Set(b, IF status # "active" \/ owners = {} THEN Idle ELSE x)
      BY <2>5, RunFacts DEF SelectMarks
    <3>2. x.todo = owners
      BY <3>1 DEF Actor
    <3>3. actor'[b] = x \/ actor'[b] = Idle
      <4> HIDE DEF x, owners, p
      <4> QED BY <3>1, SetFacts
    <3>4. q \in owners
      <4> HIDE DEF x, owners, p
      <4> QED BY <2>4, <3>2, <3>3
    <3> QED BY <3>4
  <2>7. positions' = positions
    BY <2>5 DEF SelectMarks, rows
  <2> QED BY <2>6, <2>7 DEF OpenOf, OpenPositions
<1> QED BY <1>1, <1>2

-----------------------------------------------------------------------------
(* Entrants whose results are final *)

Clean(u) ==
  /\ entry[u] # 0
  /\ account[entry[u]].booked = {} /\ account[entry[u]].marked \subseteq {"clamped"}
  /\ Booked(entry[u]) = {}
  /\ \A a \in Actors : ~Marking(a, entry[u])

(* A step that leaves credit behind has booked the row, or has lost it. *)
LEMMA Creditors ==
  ASSUME TypeInv, [Next]_vars, NEW a \in Actors, actor[a].pc = "credit"
  PROVE  actor'[a] = actor[a] \/ Credit(a) \/ Failing(a) \/ Crash
<1>1. ASSUME NEW b \in Actors, Request(b) \/ Settlement(b) \/ Lifecycle(b)
      PROVE  actor'[a] = actor[a]
  <2>1. b # a
    BY <1>1, RequestCredits, SettlementCredits, LifecycleCredits
  <2> QED BY <1>1, <2>1, RequestShape, SettlementShape, LifecycleShape
<1>2. ASSUME NEW b \in Actors, Filling(b)
      PROVE  actor'[a] = actor[a] \/ Credit(a)
  <2>1. CASE b # a
    BY <1>2, <2>1, FillingShape
  <2>2. CASE b = a
    <3>1. ~OpenPosition(a) /\ \A r \in actor[a].selected : ~CloseRow(a, r)
      BY DEF OpenPosition, CloseRow
    <3> QED BY <1>2, <2>2, <3>1 DEF Filling
  <2> QED BY <2>1, <2>2
<1>3. ASSUME NEW b \in Actors, Failing(b)
      PROVE  actor'[a] = actor[a] \/ Failing(a)
  BY <1>3, FailingShape
<1>4. archiveTournament \/ Tick \/ UNCHANGED vars => actor' = actor
  BY DEF archiveTournament, Tick, vars
<1> QED BY <1>1, <1>2, <1>3, <1>4 DEF Next, Actors

LEMMA RankingCron ==
  ASSUME TypeInv, Roles, OneCron, CronHeld, Ranking, NEW c \in Crons
  PROVE  actor[c].pc \notin {"close", "credit"} /\ actor[c].selected = {}
<1>1. actor[c].pc \notin {"close", "credit"}
  <2>1. actor[c].pc \in {"close", "credit"} => actor[c].op = "complete"
    BY CronRole
  <2>2. CASE status \in {"completed", "archived"}
    BY <2>1, <2>2 DEF CronHeld
  <2>3. ASSUME NEW d \in Crons, actor[d].pc \in {"board", "rank", "completed", "archive"}
        PROVE  actor[c].pc \notin {"close", "credit"}
    <3>1. c = d
      BY DEF OneCron
    <3> QED BY <2>3, <3>1
  <2> QED BY <2>2, <2>3 DEF Ranking
<1> QED BY <1>1, CronRole

LEMMA RankingClosed ==
  ASSUME TypeInv, Roles, OneCron, CronHeld, EndingClosed, Ranking, NEW q,
         account[q].booked = {}
  PROVE  OpenOf(q) = {}
<1> SUFFICES ASSUME NEW i \in OpenPositions, positions[i].portfolio = q
             PROVE  FALSE
  BY DEF OpenOf
<1>1. Ending
  BY RankingEnds
<1>2. PICK c \in Crons : Listed(actor[c], i)
  BY <1>1 DEF EndingClosed
<1> QED BY <1>2, RankingCron DEF Listed

(* Once the board may be read, an entrant is clean after a step only if it was
   before, with the same result.                                           *)
LEMMA CleanKept ==
  ASSUME TypeInv, TypeInv', Roles, OneCron, CronHeld, EndingClosed, MarkersTold, Ranking,
         [Next]_vars, NEW u \in Users, entry[u] # 0, Clean(u)'
  PROVE  /\ Clean(u) /\ entry'[u] = entry[u]
         /\ account'[entry[u]].earned = account[entry[u]].earned
<1> DEFINE q == entry[u]
<1>1. entry'[u] = q /\ q \in DOMAIN portfolios
  <2>1. entry[u] \in 0..Len(portfolios) /\ DOMAIN portfolios = 1..Len(portfolios)
        /\ Len(portfolios) \in Nat
    BY Lengths DEF TypeInv, Tables
  <2> QED BY <2>1, EntriesKept DEF KeptEntries
<1>2. /\ account'[q].booked = {} /\ account'[q].marked \subseteq {"clamped"}
      /\ \A a \in Actors : ~(actor'[a].pc = "credit" /\ actor'[a].portfolio = q)
  BY <1>1 DEF Clean, Booked
<1> HIDE DEF q
<1>3. account[q].booked = {}
  BY <1>1, <1>2, BookedKept
<1>4. OpenOf(q) = {}
  BY <1>3, RankingClosed
<1>5. \A a \in Actors : ~Marking(a, q)
  <2>1. "stale row" \notin account[q].marked
    <3>1. account[q].marked \ Mended \subseteq account'[q].marked
      BY <1>1, StillMarked
    <3>2. "stale row" \notin Mended /\ "stale row" # "clamped"
      BY DEF Mended
    <3>3. "stale row" \notin account'[q].marked
      BY <1>2, <3>2
    <3> QED BY <3>1, <3>2, <3>3
  <2> QED BY <1>1, <1>4, <2>1 DEF MarkersTold
<1>6. \A a \in Actors : ~(q \in actor[a].todo /\ WriteTotal(a, q))
  BY <1>5, TotalWritten, Zenon
<1>7. account[q].marked \subseteq {"clamped"}
  BY <1>1, <1>2, <1>6, MarkedKept
<1>8. ASSUME NEW a \in Actors, actor[a].pc = "credit", actor[a].portfolio = q
      PROVE  FALSE
  <2>1. actor'[a] # actor[a]
    BY <1>2, <1>8
  <2>2. ~Failing(a) /\ ~Crash
    BY <1>1, <1>2, <1>8, FailedCredits, CrashBooks, Zenon
  <2>3. Credit(a)
    BY <1>8, <2>1, <2>2, Creditors
  <2>4. a \notin Crons
    BY <1>8, RankingCron
  <2>5. actor[a].op \in {"close", "settle", "complete"}
    BY <1>8, RunFacts, StepOps
  <2>6. actor[a].op # "complete"
    <3>1. actor[a].op \in RoleOps(a) /\ a \in Requests \cup Settlements
      BY <2>4 DEF Roles, Actors
    <3> QED BY <3>1 DEF RoleOps
  <2>7. Finalizing(a)
    BY <2>5, <2>6, OthersSee, RankingEnds
  <2>8. account'[q].booked = account[q].booked \cup {"late"}
    BY <1>8, <2>3, <2>7, CreditedRows
  <2> QED BY <1>2, <2>8
<1>9. account'[q].earned = account[q].earned
  <2>1. ASSUME NEW a \in Actors, Charge(a)
        PROVE  account'[q].earned = account[q].earned
    <3> DEFINE s == actor[a].portfolio
    <3>1. /\ \A b \in DOMAIN portfolios \ {s} : account'[b] = account[b]
          /\ account'[s].earned = account[s].earned
      BY <2>1, ChargedRows
    <3> HIDE DEF s
    <3> QED BY <1>1, <3>1
  <2>2. ASSUME NEW a \in Actors, NEW r \in actor[a].selected, CloseRow(a, r)
        PROVE  account'[q].earned = account[q].earned
    <3> DEFINE s == r.row.portfolio
               y == account'[s]
               p == actor[a]
    <3>1. account' = [account EXCEPT ![s] = y]
      BY <2>2, ClosedAccount, Zenon
    <3>2. actor'[a] = Booking(p, r) /\ p \in Actor
      <4>1. Set(a, Booking(p, r))
        BY <2>2, Zenon DEF CloseRow
      <4> QED BY <4>1, SetFacts, RunFacts
    <3> HIDE DEF p
    <3>3. actor'[a].pc = "credit" /\ actor'[a].portfolio = s
      BY <3>2, BookingFields
    <3>4. s # q
      BY <1>2, <3>3
    <3> HIDE DEF s, y
    <3> QED BY <3>1, <3>4
  <2> QED BY <1>1, <2>1, <2>2, Earnings DEF SameEarnings
<1> QED BY <1>1, <1>3, <1>5, <1>7, <1>8, <1>9 DEF Clean, Booked, q

LEMMA AllZero ==
  ASSUME NEW D, IsFiniteSet(D), NEW f \in [D -> Int], \A x \in D : f[x] = 0
  PROVE  Sum(f) = 0
<1>1. f = [x \in D |-> 0]
  OBVIOUS
<1> QED BY <1>1, SumZero

(* Nothing is open, pending or unrealized: what was earned is what stands. *)
LEMMA CleanStands ==
  ASSUME TypeInv, TypeInv', Roles, OneCron, CronHeld, EndingClosed, StandingsAddUp,
         ClampedInv, EarnedInv, Ranking, NEW u \in Users, Clean(u)
  PROVE  /\ OpenOf(entry[u]) = {} /\ entry[u] \in DOMAIN portfolios
         /\ portfolios[entry[u]].unrealized = 0
         /\ portfolios[entry[u]].realized = account[entry[u]].earned
<1> DEFINE q == entry[u]
<1>1. q \in DOMAIN portfolios
  <2>1. entry[u] \in 0..Len(portfolios) /\ DOMAIN portfolios = 1..Len(portfolios)
        /\ Len(portfolios) \in Nat
    BY Lengths DEF TypeInv, Tables
  <2> QED BY <2>1 DEF Clean
<1>2. /\ account[q].booked = {} /\ account[q].marked \subseteq {"clamped"}
      /\ \A a \in Actors : ~(actor[a].pc = "credit" /\ actor[a].portfolio = q)
      /\ \A a \in Actors : ~Marking(a, q)
  BY DEF Clean, Booked
<1> HIDE DEF q
<1>3. OpenOf(q) = {}
  BY <1>2, RankingClosed
<1>4. /\ \A a \in Actors : actor[a].portfolio = q => actor[a].gain = 0
      /\ \A a \in Actors : ShareOf(q)[a] = 0
  <2> SUFFICES ASSUME NEW a \in Actors
               PROVE  /\ actor[a].portfolio = q => actor[a].gain = 0
                      /\ ShareOf(q)[a] = 0
    OBVIOUS
  <2>1. CASE actor[a].portfolio # q
    BY <2>1 DEF ShareOf
  <2>2. CASE actor[a].pc # "credit"
    BY <2>2, RunFacts, Sharers DEF Legal, AtStep, NothingToBook
  <2> QED BY <1>2, <2>1, <2>2
<1>5. PendingGain(q) = 0
  <2> DEFINE f == GainOf(q)
  <2>1. f \in [Actors -> Int] /\ PendingGain(q) = Sum(f)
    BY GainTypes
  <2>2. \A a \in Actors : f[a] = 0
    BY <1>4 DEF GainOf
  <2> HIDE DEF f
  <2> QED BY <2>1, <2>2, ActorsFinite, AllZero
<1>6. PendingShare(q) = 0
  <2> DEFINE f == ShareOf(q)
  <2>1. f \in [Actors -> Int] /\ PendingShare(q) = Sum(f)
    BY ShareTypes
  <2>2. \A a \in Actors : f[a] = 0
    BY <1>4
  <2> HIDE DEF f
  <2> QED BY <2>1, <2>2, ActorsFinite, AllZero
<1>7. \A i \in DOMAIN positions : ~(positions[i].status = "open" /\ positions[i].portfolio = q)
  BY <1>3 DEF OpenOf, OpenPositions
<1>8. IsFiniteSet(DOMAIN positions)
  BY IdleFacts, WorthTypes
<1>9. Sum(Worths(q, Idle)) = 0
  <2> DEFINE f == Worths(q, Idle)
  <2>1. f \in [DOMAIN positions -> Int]
    BY IdleFacts, WorthTypes
  <2>2. \A i \in DOMAIN positions : f[i] = 0
    BY <1>7 DEF Worths, Worth
  <2> HIDE DEF f
  <2>3. Sum(f) = 0
    BY <1>8, <2>1, <2>2, AllZero
  <2> QED BY <2>3 DEF f
<1>10. Most(q) = 0
  <2> DEFINE f == Sizes(q)
             g == ShareSizes(q)
  <2>1. f \in [DOMAIN positions -> Int] /\ g \in [Actors -> Int]
    BY SizeTypes, ShareSizeTypes
  <2>2. \A i \in DOMAIN positions : f[i] = 0
    BY <1>7 DEF Sizes, Size
  <2>3. \A a \in Actors : g[a] = 0
    BY <1>4, Distances DEF ShareSizes
  <2>4. Most(q) = Sum(f) + Sum(g)
    BY DEF Most
  <2> HIDE DEF f, g
  <2>5. Sum(f) = 0
    BY <1>8, <2>1, <2>2, AllZero
  <2>6. Sum(g) = 0
    BY <2>1, <2>3, ActorsFinite, AllZero
  <2> QED BY <2>4, <2>5, <2>6
<1>11. portfolios[q].unrealized \in Int /\ portfolios[q].realized \in Int
  BY <1>1, AccountFields DEF TypeInv
<1>12. portfolios[q].unrealized = 0
  <2>1. CASE account[q].marked = {}
    BY <1>1, <1>2, <1>6, <1>9, <2>1, OpenGains DEF StandingsAddUp
  <2>2. CASE "clamped" \in account[q].marked
    <3>1. 0 <= portfolios[q].unrealized /\ portfolios[q].unrealized <= Most(q)
      BY <1>1, <1>2, <2>2 DEF ClampedInv
    <3> QED BY <1>10, <1>11, <3>1
  <2> QED BY <1>2, <2>1, <2>2
<1>13. portfolios[q].realized = account[q].earned
  <2>1. portfolios[q].realized + PendingGain(q) = account[q].earned
    BY <1>1, <1>2 DEF EarnedInv
  <2> QED BY <1>5, <1>11, <2>1
<1> QED BY <1>1, <1>3, <1>12, <1>13 DEF q

-----------------------------------------------------------------------------
(* Places and ranks *)

LEMMA PlacesFollow ==
  ASSUME NEW u \in Entered, NEW v \in Entered,
         \A w \in Entered : Standing(w) \in Int, Standing(u) > Standing(v)
  PROVE  Place(u) < Place(v)
<1> DEFINE S(x) == {w \in Entered : w = x \/ Ahead(w, x)}
<1>1. Entered \subseteq 1..N /\ N \in Nat /\ \A w \in Entered : w \in Int
  BY Bounds DEF Entered, Users
<1>2. IsFiniteSet(S(v)) /\ Cardinality(S(u)) \in Nat /\ Cardinality(S(v)) \in Nat
  <2>1. IsFiniteSet(1..N)
    BY <1>1, FS_Interval
  <2>2. S(u) \subseteq 1..N /\ S(v) \subseteq 1..N
    BY <1>1
  <2> HIDE DEF S
  <2> QED BY <2>1, <2>2, FS_Subset, FS_CardinalityType
<1>3. ASSUME NEW w \in S(u)
      PROVE  w \in S(v)
  <2>1. CASE w = u
    BY <2>1 DEF Ahead
  <2>2. CASE Ahead(w, u)
    <3>1. Standing(w) >= Standing(u)
      BY <1>3, <2>2 DEF Ahead
    <3>2. Standing(w) > Standing(v)
      BY <1>3, <3>1
    <3> QED BY <1>3, <3>2 DEF Ahead
  <2> QED BY <1>3, <2>1, <2>2
<1>4. v \in S(v) /\ v \notin S(u)
  <2>1. v # u /\ ~Ahead(v, u)
    BY DEF Ahead
  <2> QED BY <2>1
<1>5. Place(u) = Cardinality(S(u)) /\ Place(v) = Cardinality(S(v))
  BY DEF Place
<1> HIDE DEF S
<1>6. S(u) \subseteq S(v) /\ S(u) # S(v)
  BY <1>3, <1>4
<1>7. Cardinality(S(u)) < Cardinality(S(v))
  BY <1>2, <1>6, FS_Subset
<1> QED BY <1>5, <1>7

(* Only entrants have, or are to be given, a rank. *)
RanksRefer == \A u \in Users :
  /\ rank[u] # 0 => entry[u] # 0
  /\ \A c \in Crons : actor[c].pc = "rank" /\ u \in actor[c].todo => entry[u] # 0

(* The ranks are written, or about to be. *)
Over ==
  \/ status \in {"completed", "archived"}
  \/ \E c \in Crons : actor[c].pc \in {"completed", "archive"}

(* The ranks once the run has written those it has yet to write. *)
Coming(p) == [u \in Users |-> IF u \in p.todo THEN p.places[u] ELSE rank[u]]

Ordered(f) == \A u, v \in Users :
  /\ Clean(u) /\ Clean(v)
  /\ f[u] # 0 /\ f[v] # 0
  /\ account[entry[u]].earned > account[entry[v]].earned
  => f[u] < f[v]

OrderInv ==
  /\ \A c \in Crons : actor[c].pc = "rank" => Ordered(Coming(actor[c]))
  /\ Over => Ordered(rank)

(* What the cron holds of the board. *)
LEMMA RankFields ==
  ASSUME NEW p \in Actor, NEW users
  PROVE  /\ NextRank(p, users).pc = IF users = {} THEN "completed" ELSE "rank"
         /\ NextRank(p, users).todo = users
         /\ NextRank(p, users).places = p.places
BY DEF NextRank, Actor

(* Only the cron writes ranks, those it has computed. *)
LEMMA RankWriters ==
  ASSUME TypeInv, [Next]_vars
  PROVE  \/ rank' = rank
         \/ \E c \in Crons : \E u \in actor[c].todo :
              /\ WriteRank(c, u) /\ actor[c].pc = "rank" /\ u \in Users
              /\ rank' = [rank EXCEPT ![u] = actor[c].places[u]]
<1>1. ASSUME NEW a \in Actors, Request(a) \/ Settlement(a) \/ Filling(a)
      PROVE  rank' = rank
  BY <1>1, Zenon DEF Request, Settlement, Filling, enterTournament, CreatePortfolio, CreateEntry,
              DeletePortfolio, StartTrade, Enqueue, Charge, closePosition, StartSettlement,
              NextTrade, SelectOpposite, MarkExecuted, SelectMarks, MarkPosition, WriteTotal,
              CloseRow, Credit, OpenPosition, rows
<1>2. ASSUME NEW c \in Crons, Lifecycle(c)
      PROVE  rank' = rank \/ \E u \in actor[c].todo : WriteRank(c, u)
  BY <1>2 DEF Lifecycle, StartActivation, Activate, CreateChannel, AttachChannel, ReadEntries,
              AddMember, StartCompletion, SelectOpen, CancelQueued, ReadBoard, SetCompleted,
              ArchiveChannel, rows
<1>3. ASSUME NEW c \in Crons, NEW u \in actor[c].todo, WriteRank(c, u)
      PROVE  /\ actor[c].pc = "rank" /\ u \in Users
             /\ rank' = [rank EXCEPT ![u] = actor[c].places[u]]
  <2>1. actor[c].pc = "rank" /\ rank' = [rank EXCEPT ![u] = actor[c].places[u]]
    BY <1>3 DEF WriteRank
  <2>2. actor[c].op = "complete" /\ c \in Actors
    BY <2>1, RunFacts, StepOps DEF Actors
  <2> QED BY <2>1, <2>2, RunFacts DEF Legal, Keeps, TodoLegal
<1>4. ASSUME (\E a \in Actors : Failing(a)) \/ Crash
      PROVE  rank' = rank
  BY <1>4, FailedBooks, CrashBooks DEF rows
<1>5. archiveTournament \/ Tick \/ UNCHANGED vars => rank' = rank
  BY DEF archiveTournament, Tick, vars, rows
<1> QED BY <1>1, <1>2, <1>3, <1>4, <1>5 DEF Next, Actors

LEMMA RanksReferStep ==
  ASSUME TypeInv, TypeInv', Roles, RanksRefer, [Next]_vars
  PROVE  RanksRefer'
<1>1. \A u \in Users : entry[u] # 0 => entry'[u] # 0
  BY EntriesKept DEF KeptEntries
<1>2. ASSUME NEW u \in Users, rank'[u] # 0
      PROVE  entry'[u] # 0
  <2>1. CASE rank' = rank
    BY <1>1, <1>2, <2>1 DEF RanksRefer
  <2>2. ASSUME NEW c \in Crons, NEW v \in actor[c].todo, actor[c].pc = "rank", v \in Users,
               rank' = [rank EXCEPT ![v] = actor[c].places[v]]
        PROVE  entry'[u] # 0
    <3>1. CASE u = v
      BY <1>1, <2>2, <3>1 DEF RanksRefer
    <3>2. CASE u # v
      BY <1>1, <1>2, <2>2, <3>2 DEF RanksRefer
    <3> QED BY <3>1, <3>2
  <2> QED BY <2>1, <2>2, RankWriters
<1>3. ASSUME NEW u \in Users, NEW c \in Crons, actor'[c].pc = "rank", u \in actor'[c].todo
      PROVE  entry'[u] # 0
  <2> DEFINE p == actor[c]
             s == actor'[c]
  <2>1. p \in Actor /\ (p.pc = "rank" => p.op = "complete")
    BY CronRole
  <2>2. CASE s = p
    BY <1>1, <1>3, <2>2 DEF RanksRefer
  <2>3. CASE ReadBoard(c)
    <3> DEFINE x == [p EXCEPT !.places = [w \in Users |-> IF w \in Entered THEN Place(w) ELSE 0]]
    <3>1. Set(c, NextRank(x, Entered)) /\ entry' = entry
      BY <2>3 DEF ReadBoard, rows
    <3>2. x \in Actor
      <4>1. [w \in Users |-> IF w \in Entered THEN Place(w) ELSE 0] \in [Users -> 0..N]
        BY PlaceType, Bounds
      <4> QED BY <2>1, <4>1 DEF Actor
    <3> HIDE DEF x
    <3>3. s = NextRank(x, Entered)
      BY <3>1, CronRole, SetFacts
    <3>4. s.todo = Entered
      BY <3>2, <3>3, RankFields
    <3> QED BY <1>3, <3>1, <3>4 DEF Entered
  <2>4. ASSUME NEW v \in p.todo, p.pc = "rank", s = NextRank(p, p.todo \ {v})
        PROVE  entry'[u] # 0
    <3>1. s.todo = p.todo \ {v}
      BY <2>1, <2>4, RankFields
    <3> QED BY <1>1, <1>3, <2>4, <3>1 DEF RanksRefer
  <2>5. s.op = "complete"
    BY <1>3, CronRole, RunFacts, StepOps DEF TypeInv, RunsLegal
  <2>6. ASSUME NEW r, s = Booking(p, r)
        PROVE  FALSE
    <3> HIDE DEF p
    <3>1. s.pc = "credit"
      BY <2>1, <2>6, BookingFields
    <3> QED BY <1>3, <3>1
  <2>7. ~Crash /\ s # Idle
    BY <2>5, CronRole, CrashBooks, IdleFacts, Zenon
  <2> HIDE DEF p, s
  <2>8. s.pc = "rank"
    BY <1>3 DEF s
  <2> QED BY <2>2, <2>3, <2>4, <2>5, <2>6, <2>7, <2>8, CronMoves DEF p, s
<1> QED BY <1>2, <1>3 DEF RanksRefer

-----------------------------------------------------------------------------
(* The ranks follow what was earned *)

ComingAfter(s) == [u \in Users |-> IF u \in s.todo THEN s.places[u] ELSE rank'[u]]

OrderedAfter(g) == \A u, v \in Users :
  /\ Clean(u)' /\ Clean(v)'
  /\ g[u] # 0 /\ g[v] # 0
  /\ account'[entry'[u]].earned > account'[entry'[v]].earned
  => g[u] < g[v]

LEMMA OrderKept ==
  ASSUME TypeInv, TypeInv', Roles, OneCron, CronHeld, EndingClosed, MarkersTold, Ranking,
         [Next]_vars, NEW f, NEW g, Ordered(f),
         \A u \in Users : f[u] # 0 => entry[u] # 0,
         \A u \in Users : Clean(u)' => g[u] = f[u]
  PROVE  OrderedAfter(g)
<1> SUFFICES ASSUME NEW u \in Users, NEW v \in Users, Clean(u)', Clean(v)',
                    g[u] # 0, g[v] # 0,
                    account'[entry'[u]].earned > account'[entry'[v]].earned
             PROVE  g[u] < g[v]
  BY DEF OrderedAfter
<1>1. g[u] = f[u] /\ g[v] = f[v]
  OBVIOUS
<1>2. entry[u] # 0 /\ entry[v] # 0
  BY <1>1
<1>3. /\ Clean(u) /\ entry'[u] = entry[u]
      /\ account'[entry[u]].earned = account[entry[u]].earned
  BY <1>2, CleanKept
<1>4. /\ Clean(v) /\ entry'[v] = entry[v]
      /\ account'[entry[v]].earned = account[entry[v]].earned
  BY <1>2, CleanKept
<1>5. account[entry[u]].earned > account[entry[v]].earned
  BY <1>3, <1>4
<1> QED BY <1>1, <1>3, <1>4, <1>5 DEF Ordered

(* Clean entrants take their places by what they earned. *)
LEMMA BoardOrdered ==
  ASSUME TypeInv, TypeInv', Roles, OneCron, CronHeld, EndingClosed, MarkersTold,
         StandingsAddUp, ClampedInv, EarnedInv, [Next]_vars,
         NEW c \in Crons, ReadBoard(c)
  PROVE  OrderedAfter(ComingAfter(actor'[c])) /\ (Entered = {} => OrderedAfter(rank'))
<1> DEFINE p == actor[c]
           s == actor'[c]
           places == [u \in Users |-> IF u \in Entered THEN Place(u) ELSE 0]
           x == [p EXCEPT !.places = places]
<1>1. /\ p.pc = "board" /\ Set(c, NextRank(x, Entered))
      /\ entry' = entry /\ account' = account /\ portfolios' = portfolios
  BY DEF ReadBoard, rows
<1>2. p \in Actor /\ c \in Actors
  BY CronRole
<1>3. x \in Actor /\ x.places = places
  <2>1. places \in [Users -> 0..N]
    BY PlaceType, Bounds
  <2> HIDE DEF places
  <2> QED BY <1>2, <2>1 DEF Actor
<1>4. s.todo = Entered /\ s.places = places
  <2> HIDE DEF x, places
  <2>1. s = NextRank(x, Entered)
    BY <1>1, <1>2, SetFacts
  <2> QED BY <1>3, <2>1, RankFields
<1>5. Ranking
  BY <1>1 DEF Ranking
<1>6. ASSUME NEW u \in Users, Clean(u)'
      PROVE  /\ u \in Entered /\ Clean(u) /\ Standing(u) = account[entry[u]].earned
  <2>1. entry[u] # 0
    BY <1>1, <1>6 DEF Clean
  <2>2. Clean(u)
    BY <1>5, <1>6, <2>1, CleanKept
  <2>3. /\ portfolios[entry[u]].unrealized = 0
        /\ portfolios[entry[u]].realized = account[entry[u]].earned
        /\ entry[u] \in DOMAIN portfolios
    BY <1>5, <2>2, CleanStands
  <2>4. portfolios[entry[u]].realized \in Int
    BY <2>3, AccountFields DEF TypeInv
  <2> QED BY <2>1, <2>2, <2>3, <2>4 DEF Standing, Entered
<1>7. \A w \in Entered : Standing(w) \in Int
  <2> SUFFICES ASSUME NEW w \in Entered PROVE Standing(w) \in Int
    OBVIOUS
  <2>1. entry[w] \in DOMAIN portfolios
    <3>1. entry[w] \in 0..Len(portfolios) /\ DOMAIN portfolios = 1..Len(portfolios)
          /\ Len(portfolios) \in Nat /\ entry[w] # 0
      BY Lengths DEF TypeInv, Tables, Entered
    <3> QED BY <3>1
  <2>2. portfolios[entry[w]].realized \in Int /\ portfolios[entry[w]].unrealized \in Int
    BY <2>1, AccountFields DEF TypeInv
  <2> QED BY <2>2 DEF Standing
<1>8. ASSUME NEW u \in Users, NEW v \in Users, Clean(u)', Clean(v)',
             account'[entry'[u]].earned > account'[entry'[v]].earned
      PROVE  ComingAfter(s)[u] < ComingAfter(s)[v]
  <2>1. u \in Entered /\ v \in Entered /\ Standing(u) > Standing(v)
    BY <1>1, <1>6, <1>8
  <2>2. Place(u) < Place(v)
    BY <1>7, <2>1, PlacesFollow
  <2>3. ComingAfter(s)[u] = Place(u) /\ ComingAfter(s)[v] = Place(v)
    BY <1>4, <2>1 DEF ComingAfter
  <2> QED BY <2>2, <2>3
<1>9. ASSUME Entered = {}, NEW u \in Users, Clean(u)'
      PROVE  FALSE
  BY <1>6, <1>9
<1> HIDE DEF s
<1> QED BY <1>8, <1>9 DEF OrderedAfter, s

(* The cron writes, or fails to write, the next rank: those to come are the
   same, but for who is not clean any more.                                *)
LEMMA RankOrdered ==
  ASSUME TypeInv, TypeInv', Roles, OneCron, CronHeld, EndingClosed, MarkersTold,
         RanksRefer, OrderInv, [Next]_vars, NEW c \in Crons, NEW u \in actor[c].todo,
         WriteRank(c, u) \/ RankIgnored(c, u), actor[c].pc = "rank",
         actor'[c] = NextRank(actor[c], actor[c].todo \ {u})
  PROVE  /\ OrderedAfter(ComingAfter(actor'[c]))
         /\ actor'[c].pc = "completed" => OrderedAfter(rank')
<1> DEFINE p == actor[c]
           s == actor'[c]
           f == Coming(p)
<1>1. p \in Actor /\ p.op = "complete" /\ c \in Actors
  BY CronRole
<1>2. /\ s.todo = p.todo \ {u} /\ s.places = p.places
      /\ s.pc = "completed" => p.todo \ {u} = {}
  <2> HIDE DEF p
  <2>1. s = NextRank(p, p.todo \ {u})
    BY DEF p
  <2> HIDE DEF s
  <2> QED BY <1>1, <2>1, RankFields
<1>3. u \in Users /\ entry[u] # 0 /\ Ranking
  <2>1. u \in Users
    BY <1>1, RunFacts DEF Legal, Keeps, TodoLegal
  <2> QED BY <2>1 DEF RanksRefer, Ranking
<1>4. entry[u] \in DOMAIN portfolios /\ entry'[u] = entry[u]
  <2>1. entry[u] \in 0..Len(portfolios) /\ DOMAIN portfolios = 1..Len(portfolios)
        /\ Len(portfolios) \in Nat
    BY <1>3, Lengths DEF TypeInv, Tables
  <2> QED BY <1>3, <2>1, EntriesKept DEF KeptEntries
<1>5. ASSUME NEW v \in Users, Clean(v)'
      PROVE  rank'[v] = IF v = u THEN p.places[u] ELSE rank[v]
  <2>1. CASE WriteRank(c, u)
    <3>1. rank' = [rank EXCEPT ![u] = p.places[u]] /\ rank \in [Users -> 0..N]
      BY <2>1 DEF WriteRank, TypeInv, Tables
    <3> QED BY <3>1
  <2>2. CASE RankIgnored(c, u)
    <3>1. Lose({entry[u]}, {"lost update"}, {"lost update"}) /\ rank' = rank
          /\ portfolios' = portfolios
      BY <2>2, Zenon DEF RankIgnored, rows
    <3>2. account'[entry[u]].booked = account[entry[u]].booked \cup {"lost update"}
      BY <1>4, <3>1, LostOne
    <3>3. account'[entry[u]].booked # {}
      BY <3>2
    <3>4. v # u
      BY <1>4, <1>5, <3>3 DEF Clean
    <3> QED BY <3>1, <3>4
  <2> QED BY <2>1, <2>2
<1>6. Ordered(f) /\ \A v \in Users : f[v] # 0 => entry[v] # 0
  BY DEF OrderInv, Coming, RanksRefer
<1>7. \A v \in Users : Clean(v)' => ComingAfter(s)[v] = f[v]
  BY <1>2, <1>5 DEF ComingAfter, Coming
<1>8. ASSUME s.pc = "completed"
      PROVE  \A v \in Users : Clean(v)' => rank'[v] = f[v]
  BY <1>2, <1>5, <1>8 DEF Coming
<1> HIDE DEF f, s
<1>9. OrderedAfter(ComingAfter(s))
  BY <1>3, <1>6, <1>7, OrderKept
<1>10. s.pc = "completed" => OrderedAfter(rank')
  BY <1>3, <1>6, <1>8, OrderKept
<1> QED BY <1>9, <1>10 DEF s

LEMMA OrderStep ==
  ASSUME TypeInv, TypeInv', Roles, Roles', OneCron, CronHeld, EndingClosed, MarkersTold,
         StandingsAddUp, ClampedInv, EarnedInv, RanksRefer, OrderInv, [Next]_vars
  PROVE  OrderInv'
<1>1. ASSUME NEW c \in Crons, actor'[c].pc \in {"rank", "completed", "archive"}
      PROVE  \/ actor[c].pc \in {"completed", "archive"}
             \/ actor'[c] = actor[c] /\ actor[c].pc = "rank"
             \/ ReadBoard(c)
             \/ \E u \in actor[c].todo :
                  /\ WriteRank(c, u) \/ RankIgnored(c, u)
                  /\ actor[c].pc = "rank"
                  /\ actor'[c] = NextRank(actor[c], actor[c].todo \ {u})
  <2> DEFINE p == actor[c]
             s == actor'[c]
  <2>1. p \in Actor
    BY CronRole
  <2>2. s.op = "complete" /\ c \in Actors
    <3>1. c \in Actors
      BY CronRole
    <3>2. actor'[c] \in Actor /\ actor'[c].pc \in StepsOf(actor'[c].op)
      BY <3>1 DEF TypeInv, RunsLegal, Legal
    <3>3. actor'[c].op \in RoleOps(c) /\ c \notin Requests /\ c \notin Settlements
      BY <3>1, CronRole DEF Roles
    <3> HIDE DEF s
    <3> QED BY <1>1, <3>1, <3>2, <3>3 DEF StepsOf, RoleOps, s
  <2>3. ASSUME NEW r, s = Booking(p, r)
        PROVE  FALSE
    <3> HIDE DEF p
    <3>1. s.pc = "credit"
      BY <2>1, <2>3, BookingFields
    <3> QED BY <1>1, <3>1
  <2>4. ~Crash /\ s # Idle
    BY <2>2, CrashBooks, IdleFacts, Zenon
  <2> HIDE DEF p, s
  <2>5. s.pc \in {"rank", "completed", "archive"}
    BY <1>1 DEF s
  <2> QED BY <2>2, <2>3, <2>4, <2>5, CronMoves DEF p, s
<1>2. ASSUME NEW c \in Crons, actor'[c].pc = "rank"
      PROVE  OrderedAfter(ComingAfter(actor'[c]))
  <2>1. actor[c].pc \notin {"completed", "archive"}
    <3> SUFFICES ASSUME actor[c].pc \in {"completed", "archive"} PROVE FALSE
      OBVIOUS
    <3> DEFINE p == actor[c]
               s == actor'[c]
    <3>1. p \in Actor
      BY CronRole
    <3>2. ASSUME NEW u, s = NextRank(p, p.todo \ {u}), p.pc = "rank"
          PROVE  FALSE
      BY <3>2
    <3> HIDE DEF p, s
    <3>3. s.pc = "rank" /\ p.pc \in {"completed", "archive"}
      BY <1>2 DEF p, s
    <3>4. ~Crash /\ s # Idle
      BY <3>3, CronRole, CrashBooks, IdleFacts, Zenon DEF s
    <3>5. p.op = "complete"
      BY <3>3, CronRole DEF p
    <3> QED BY <3>3, <3>4, <3>5, CronMoves DEF p, s
  <2>2. ASSUME actor'[c] = actor[c], actor[c].pc = "rank"
        PROVE  OrderedAfter(ComingAfter(actor'[c]))
    <3> DEFINE f == Coming(actor[c])
               g == ComingAfter(actor'[c])
    <3>1. rank' = rank
      <4>1. ASSUME NEW d \in Crons, NEW u \in actor[d].todo, WriteRank(d, u)
            PROVE  FALSE
        <5>1. d = c
          BY DEF OneCron
        <5> DEFINE p == actor[c]
        <5>2. p \in Actor /\ Set(c, NextRank(p, p.todo \ {u})) /\ u \in p.todo
          BY <4>1, <5>1, CronRole DEF WriteRank
        <5>3. p = NextRank(p, p.todo \ {u})
          BY <2>2, <5>2, CronRole, SetFacts
        <5> HIDE DEF p
        <5>4. p.todo = p.todo \ {u}
          BY <5>2, <5>3, RankFields
        <5> QED BY <5>2, <5>4
      <4> QED BY <4>1, RankWriters
    <3>2. g = f
      BY <2>2, <3>1 DEF Coming, ComingAfter
    <3>3. Ordered(f) /\ Ranking /\ \A u \in Users : f[u] # 0 => entry[u] # 0
      BY <2>2 DEF OrderInv, Ranking, Coming, RanksRefer
    <3> HIDE DEF f, g
    <3>4. OrderedAfter(g)
      BY <3>2, <3>3, OrderKept
    <3> QED BY <3>4 DEF g
  <2> QED BY <1>1, <1>2, <2>1, <2>2, BoardOrdered, RankOrdered
<1>3. ASSUME Over
      PROVE  OrderedAfter(rank')
  <2>1. Ranking
    BY <1>3 DEF Over, Ranking
  <2>2. ASSUME NEW d \in Crons, actor[d].pc = "rank"
        PROVE  FALSE
    <3>1. actor[d].op = "complete"
      BY <2>2, CronRole
    <3>2. \A c \in Crons : actor[c].pc = "rank"
      BY <2>2 DEF OneCron
    <3> QED BY <1>3, <2>2, <3>1, <3>2 DEF Over, CronHeld
  <2>3. rank' = rank
    BY <2>2, RankWriters
  <2>4. Ordered(rank) /\ \A u \in Users : rank[u] # 0 => entry[u] # 0
    BY <1>3 DEF OrderInv, RanksRefer
  <2> QED BY <2>1, <2>3, <2>4, OrderKept
<1>4. ASSUME ~Over, Over'
      PROVE  OrderedAfter(rank')
  <2>1. PICK c \in Crons : actor'[c].pc \in {"completed", "archive"}
    <3>1. status' \notin {"completed", "archived"}
      <4>1. ASSUME NEW c \in Crons, Activate(c) \/ SetCompleted(c)
            PROVE  status' = "active" \/ actor[c].pc = "completed"
        BY <4>1 DEF Activate, SetCompleted
      <4>2. archiveTournament => status = "completed"
        BY DEF archiveTournament
      <4> QED BY <1>4, <4>1, <4>2, StatusMoves DEF Over
    <3> QED BY <1>4, <3>1 DEF Over
  <2>2. actor[c].pc \notin {"completed", "archive"}
    BY <1>4 DEF Over
  <2>3. CASE ReadBoard(c)
    <3> DEFINE x == [actor[c] EXCEPT !.places =
                       [u \in Users |-> IF u \in Entered THEN Place(u) ELSE 0]]
    <3>1. Set(c, NextRank(x, Entered)) /\ x \in Actor
      <4>1. [u \in Users |-> IF u \in Entered THEN Place(u) ELSE 0] \in [Users -> 0..N]
        BY PlaceType, Bounds
      <4>2. Set(c, NextRank(x, Entered))
        BY <2>3 DEF ReadBoard
      <4>3. actor[c] \in Actor
        BY CronRole
      <4>4. x \in Actor
        BY <4>1, <4>3 DEF Actor
      <4> QED BY <4>2, <4>4
    <3> HIDE DEF x
    <3>2. actor'[c] = NextRank(x, Entered)
      BY <3>1, CronRole, SetFacts
    <3>3. Entered = {}
      BY <2>1, <3>1, <3>2, RankFields
    <3> QED BY <2>3, <3>3, BoardOrdered
  <2>4. ASSUME NEW u \in actor[c].todo, WriteRank(c, u) \/ RankIgnored(c, u),
               actor[c].pc = "rank", actor'[c] = NextRank(actor[c], actor[c].todo \ {u})
        PROVE  OrderedAfter(rank')
    <3>1. actor'[c].pc = "completed"
      <4> DEFINE p == actor[c]
                 s == actor'[c]
      <4>1. p \in Actor /\ s = NextRank(p, p.todo \ {u})
        BY <2>4, CronRole
      <4> HIDE DEF p, s
      <4>2. s.pc \in {"completed", "rank"}
        BY <4>1, RankFields
      <4> QED BY <2>1, <4>2 DEF s
    <3> QED BY <2>4, <3>1, RankOrdered
  <2>5. actor'[c] # actor[c]
    BY <2>1, <2>2
  <2> QED BY <1>1, <2>1, <2>2, <2>3, <2>4, <2>5
<1>5. \A c \in Crons : actor'[c].pc = "rank" => Ordered(Coming(actor[c]))'
  <2>1. ASSUME NEW c \in Crons, OrderedAfter(ComingAfter(actor'[c]))
        PROVE  Ordered(Coming(actor[c]))'
    BY <2>1 DEF Ordered, OrderedAfter, Coming, ComingAfter
  <2> QED BY <1>2, <2>1
<1>6. OrderedAfter(rank') => Ordered(rank)'
  BY DEF Ordered, OrderedAfter
<1> QED BY <1>3, <1>4, <1>5, <1>6 DEF OrderInv

(* With one lifecycle run at a time, a completed tournament has nothing open,
   queued or unrealized left, and its ranks follow what was earned, however
   requests, settlements and finalizations that fail, die and start again
   interleave; left out are the portfolios ResultsAreFinal leaves out.  The
   lemmas on sums are about steps: hence the types after the step as well. *)
THEOREM ResultsAlwaysFinal ==
  ASSUME OneCron
  PROVE  Spec => []ResultsAreFinal
<1> DEFINE Held == RowsAgree /\ Offs /\ CronHeld
           Results == EndingClosed /\ QueuedCancelled /\ OffsExact /\ ClampedInv /\ MarkersTold
           Ranks == RanksRefer /\ OrderInv
           Known == TypeInv /\ Roles /\ StandingsAddUp /\ EarnedInv
           Inv == Held /\ Results /\ Ranks
<1>1. Init => Inv
  <2> SUFFICES ASSUME Init PROVE Inv
    OBVIOUS
  <2>1. /\ status = "upcoming" /\ portfolios = <<>> /\ positions = <<>> /\ trades = <<>>
        /\ \A a \in Actors : actor[a] = Idle
        /\ \A u \in Users : entry[u] = 0 /\ rank[u] = 0
    BY DEF Init
  <2>2. Crons \subseteq Actors
    BY DEF Actors
  <2>3. ~Ending /\ ~Ranking /\ ~Over
    BY <2>1, <2>2, IdleFacts DEF Ending, Ranking, Over
  <2>4. Held
    BY <2>1, <2>2, IdleFacts DEF RowsAgree, Offs, CronHeld, NothingToBook
  <2>5. Results
    BY <2>1, <2>3, IdleFacts DEF EndingClosed, QueuedCancelled, OffsExact, ClampedInv,
                                 MarkersTold
  <2>6. Ranks
    BY <2>1, <2>2, <2>3, IdleFacts DEF RanksRefer, OrderInv
  <2> QED BY <2>4, <2>5, <2>6
<1>2. Known /\ Known' /\ Inv /\ [Next]_vars => Inv'
  <2> SUFFICES ASSUME Known, Known', Inv, [Next]_vars PROVE Inv'
    OBVIOUS
  <2>1. TypeInv /\ TypeInv' /\ Roles /\ Roles' /\ StandingsAddUp /\ EarnedInv
    OBVIOUS
  <2>2. Held'
    BY <2>1, RowsAgreeStep, OffsStep, CronHeldStep
  <2>3. Results'
    BY <2>1, ClosedStep, CancelledStep, OffsExactStep, ClampedStep, ToldStep
  <2>4. Ranks'
    BY <2>1, RanksReferStep, OrderStep
  <2> QED BY <2>2, <2>3, <2>4
<1>3. BooksBalance => EarnedInv
  BY DEF BooksBalance, EarnedInv
<1>4. Known /\ Known' /\ Inv => ResultsAreFinal
  <2> SUFFICES ASSUME Known, Known', Inv, status \in {"completed", "archived"}
               PROVE  /\ \A u \in Users : Clean(u) =>
                           /\ OpenOf(entry[u]) = {}
                           /\ \A t \in DOMAIN trades :
                                trades[t].portfolio = entry[u] => trades[t].status # "queued"
                           /\ portfolios[entry[u]].unrealized = 0
                      /\ \A u, v \in Users :
                           /\ Clean(u) /\ Clean(v) /\ rank[u] # 0 /\ rank[v] # 0
                           /\ account[entry[u]].earned > account[entry[v]].earned
                           => rank[u] < rank[v]
    BY DEF ResultsAreFinal, Clean, Entered
  <2>1. TypeInv /\ TypeInv' /\ Roles /\ StandingsAddUp /\ EarnedInv /\ Ranking /\ Over
    BY DEF Ranking, Over
  <2>2. ASSUME NEW u \in Users, Clean(u)
        PROVE  OpenOf(entry[u]) = {} /\ portfolios[entry[u]].unrealized = 0
    BY <2>1, <2>2, CleanStands
  <2>3. ASSUME NEW u \in Users, Clean(u), NEW t \in DOMAIN trades, trades[t].portfolio = entry[u]
        PROVE  trades[t].status # "queued"
    BY <2>1, <2>3 DEF QueuedCancelled, Clean
  <2>4. Ordered(rank)
    BY <2>1 DEF OrderInv
  <2> HIDE DEF Inv, Known
  <2> QED BY <2>2, <2>3, <2>4 DEF Ordered
<1>5. Spec => [](TypeInv /\ Roles)
  BY RolesHold
<1>6. Spec => []StandingsAddUp
  BY StandingsAlwaysAddUp
<1>7. Spec => []BooksBalance
  BY BooksAlwaysBalance
<1> HIDE DEF Inv
<1>8. Spec => []Known
  <2> HIDE DEF Inv
  <2> QED BY <1>3, <1>5, <1>6, <1>7, PTL
<1> HIDE DEF Known
<1>9. Spec => []Inv
  BY <1>1, <1>2, <1>8, PTL DEF Spec
<1> QED BY <1>4, <1>8, <1>9, PTL

=============================================================================
